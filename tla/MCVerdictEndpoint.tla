-------------------------- MODULE MCVerdictEndpoint --------------------------
(* An API server and the demo operator's MCP server.  The account late is  *)
(* behind in the served book and no longer in that of its proposals' day;  *)
(* the account red turned red on that day, and its contact does not        *)
(* consent: each surface holds a call that the other lets through.         *)
EXTENDS VerdictEndpoint

CONSTANTS api, demo, late, red

MCPrecedence == {<<"ttv_gap", "expansion">>, <<"risk", "expansion">>}

Behind == [onboarding |-> TRUE, late |-> TRUE, cta |-> FALSE, band |-> "green", consent |-> TRUE]
Fine == [onboarding |-> FALSE, late |-> FALSE, cta |-> FALSE, band |-> "green", consent |-> FALSE]

MCBook ==
    [d \in Days \union {SERVED} |-> [a \in Accounts |->
        IF a = late THEN [Behind EXCEPT !.late = (d = SERVED)]
                    ELSE [Fine EXCEPT !.band = IF d = SERVED THEN "green" ELSE "red"]]]

MCRequests ==
    {[action |-> "outreach", account |-> late, day |-> 0],
     [action |-> "outreach", account |-> red, day |-> 0],
     [action |-> "call", account |-> late, day |-> 0],
     [action |-> "call", account |-> red, day |-> 0]}
=============================================================================
