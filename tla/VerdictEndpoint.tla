--------------------------- MODULE VerdictEndpoint ---------------------------
(***************************************************************************)
(* The two surfaces a person decides proposals on, POST                    *)
(* /proposals/{id}/verdict (api.py) and the tool submit_verdict            *)
(* (mcp_server.py), with the precedence check that holds an expansion call *)
(* back (agent1/precedence.py) and the commits the demo operator's server  *)
(* makes after an approval.                                                *)
(*                                                                         *)
(* Each server runs one handler at a time; the servers share the database  *)
(* and, with the simulation's clock, the files under demo_state/.  The MCP *)
(* servers look proposals up in a cache of their own.  Any server may die  *)
(* between two steps of a handler, and a demo server deletes the files     *)
(* when it boots.  The gate, its triggers and the two committers are       *)
(* ActionGate, SimCommit and SimCrm: here a verdict is one compare-and-set *)
(* and a commit one step that may also fail.                               *)
(***************************************************************************)
EXTENDS Integers, Sequences

CONSTANTS
    Api, Demo, Plain, \* API servers, demo MCP servers, other MCP servers
    Accounts,
    Days,             \* days a proposal may be raised for
    Book,             \* what a day's book, or the SERVED one, says of an account
    Precedence,       \* the <<blocker, blocked>> rules of precedence_config.json
    Requests,         \* what proposals ask for
    SERVED,           \* the book a server was started with
    MaxProposals,     \* bound on proposals created
    MaxFaults         \* bound on crashes and failed commits

Servers == Api \union Demo \union Plain
Mcp == Demo \union Plain

Facts == [onboarding : BOOLEAN, late : BOOLEAN, cta : BOOLEAN,
          band : {"green", "yellow", "red"}, consent : BOOLEAN]

Request == [action : {"outreach", "call", "other"}, account : Accounts, day : Days]

ASSUME DemoAssumption  == \A s, t \in Demo : s = t  \* two would share one state directory
ASSUME BookAssumption  == SERVED \notin Days /\ Book \in [Days \union {SERVED} -> [Accounts -> Facts]]
ASSUME RequestAssumption == Requests \subseteq Request
ASSUME BoundAssumption == MaxProposals \in Nat /\ MaxFaults \in Nat

VARIABLES
    proposals,   \* action_proposal: request, status and the server that decided
    call,        \* the handler each server is running
    up,          \* servers that are running
    cache,       \* _proposals of each MCP server: those it holds as pending
    session,     \* _session_events: proposals with a receipt, of this run
    outbox,      \* proposals with a row in outbox.jsonl
    activities,  \* proposals with an activity in tenant_state.json
    completions, \* accounts whose late milestone the simulation completed
    abandoned,   \* approved proposals whose handler ended before the commits
    wiped,       \* rows, activities and completions a boot deleted
    faults       \* crashes and failed commits, at most MaxFaults

vars == <<proposals, call, up, cache, session, outbox, activities, completions,
          abandoned, wiped, faults>>

files == <<outbox, activities, completions>>

-----------------------------------------------------------------------------
Ids == DOMAIN proposals

Pending(p) == proposals[p].status = "pending"

NoCall == [pc |-> "idle", p |-> 0, verdict |-> "none"]

Init ==
    /\ proposals = <<>>
    /\ call = [s \in Servers |-> NoCall]
    /\ up = {}
    /\ cache = [s \in Mcp |-> {}]
    /\ session = {}
    /\ outbox = {} /\ activities = {} /\ completions = {}
    /\ abandoned = {}
    /\ wiped = [rows |-> {}, activities |-> {}, accounts |-> {}]
    /\ faults = 0

At(s, pc) == s \in up /\ call[s].pc = pc

Goto(s, pc) == call' = [call EXCEPT ![s].pc = pc]

Finish(s) == call' = [call EXCEPT ![s] = NoCall]

(* _refresh_pending_proposal_cache adds what is pending and drops nothing. *)
Refreshed(known) == known \union {p \in Ids : Pending(p)}

-----------------------------------------------------------------------------
(* Precedence.  The findings of an account, from the facts of a book: an   *)
(* onboarding or adoption gap, and red health.                             *)
FindingsOf(f) ==
    {lens \in {"ttv_gap"} : f.onboarding /\ (f.late \/ f.cta \/ f.band # "green")}
    \union {lens \in {"risk"} : f.band = "red"}

(* The served book of a demo server is the simulated tenant, whose late    *)
(* milestones are achieved for the accounts that have a completion.        *)
ServedFacts(s, a, completed) ==
    [Book[SERVED][a] EXCEPT !.late = @ /\ ~ (s \in Demo /\ a \in completed)]

(* current_blocking_refs over the book of the proposal's own day in the    *)
(* API; every finding in the server's own book in an MCP server.           *)
Blockers(s, r, completed) ==
    IF s \in Api
    THEN {lens \in FindingsOf(Book[r.day][r.account]) : <<lens, "expansion">> \in Precedence}
    ELSE FindingsOf(ServedFacts(s, r.account, completed))

(* An approval of outreach needs a contact that consents, one of a call an *)
(* account nothing blocks; other verdicts are not checked.                 *)
ChecksConsentOnly(s, p, verdict) ==  \* mutant
    verdict = "approve" /\ proposals[p].req.action = "outreach" =>
        Book[SERVED][proposals[p].req.account].consent

MayRecord(s, p, verdict) ==
    LET r == proposals[p].req IN
    verdict = "approve" =>
        /\ r.action = "outreach" => Book[SERVED][r.account].consent
        /\ r.action = "call" => Blockers(s, r, completions) = {}

-----------------------------------------------------------------------------
(* Handlers.  A proposal is looked up in the cache of an MCP server, else  *)
(* in the database; one that is not pending, or fails its checks, is       *)
(* refused.  The checks read nothing the database transactions of others   *)
(* change, so they are one step with the lookup.                           *)
KnownPending(s, p) == (s \in Mcp /\ p \in cache[s]) \/ Pending(p)

Submit(s, p, verdict) ==
    /\ At(s, "idle")
    /\ KnownPending(s, p)
    /\ verdict = "revise" => proposals[p].req.action = "outreach"
    /\ MayRecord(s, p, verdict)
    /\ call' = [call EXCEPT ![s] = [pc |-> "record", p |-> p, verdict |-> verdict]]
    /\ cache' = IF s \in Mcp THEN [cache EXCEPT ![s] = @ \union {p}] ELSE cache
    /\ UNCHANGED <<proposals, up, session, files, abandoned, wiped, faults>>

StatusAfter(verdict) == IF verdict = "approve" THEN "approved" ELSE "denied"

Decided(s, p) ==
    proposals' = [proposals EXCEPT ![p].status = StatusAfter(call[s].verdict), ![p].by = s]

Forgets(s, p) ==
    cache' = IF s \in Mcp /\ call[s].verdict # "revise"
             THEN [cache EXCEPT ![s] = @ \ {p}] ELSE cache

(* Only the demo operator's server commits, and only approved outreach.    *)
CommitsAnyVerdict(s, p) ==  \* mutant
    s \in Demo /\ proposals[p].req.action = "outreach"

ForgetsToCommit(s, p) == FALSE  \* mutant

Commits(s, p) ==
    s \in Demo /\ call[s].verdict = "approve" /\ proposals[p].req.action = "outreach"

StillPending(p) == Pending(p)

(* record_verdict, or the rejection with which a revision begins.          *)
Record(s) ==
    LET p == call[s].p IN
    /\ At(s, "record")
    /\ StillPending(p)
    /\ Decided(s, p)
    /\ Forgets(s, p)
    /\ IF call[s].verdict = "revise" THEN Goto(s, "supersede")
       ELSE IF Commits(s, p) THEN Goto(s, "outbox")
       ELSE Finish(s)
    /\ UNCHANGED <<up, session, files, abandoned, wiped, faults>>

(* A GateError: the proposal was decided meanwhile, or a trigger objects.  *)
(* The cache keeps what it has.                                            *)
RecordRefused(s) ==
    /\ At(s, "record")
    /\ Finish(s)
    /\ UNCHANGED <<proposals, up, cache, session, files, abandoned, wiped, faults>>

(* The revised draft is a proposal of its own; then the cache is updated.  *)
New(req) == [req |-> req, status |-> "pending", by |-> "none"]

Supersede(s) ==
    LET p == call[s].p IN
    /\ At(s, "supersede")
    /\ Len(proposals) < MaxProposals
    /\ proposals' = Append(proposals, New(proposals[p].req))
    /\ cache' = IF s \in Mcp
                THEN [cache EXCEPT ![s] = Refreshed(@ \ {p}) \union {Len(proposals) + 1}]
                ELSE cache
    /\ Finish(s)
    /\ UNCHANGED <<up, session, files, abandoned, wiped, faults>>

SupersedeFails(s) ==
    /\ At(s, "supersede")
    /\ Finish(s)
    /\ UNCHANGED <<proposals, up, cache, session, files, abandoned, wiped, faults>>

(* SimOutboundCommitter.commit, SimCrmActivityCommitter.commit, and the    *)
(* receipt in the session ledger.                                          *)
CommitOutbox(s) ==
    /\ At(s, "outbox")
    /\ outbox' = outbox \union {call[s].p}
    /\ Goto(s, "crm")
    /\ UNCHANGED <<proposals, up, cache, session, activities, completions, abandoned, wiped, faults>>

CommitCrm(s) ==
    /\ At(s, "crm")
    /\ activities' = activities \union {call[s].p}
    /\ Goto(s, "report")
    /\ UNCHANGED <<proposals, up, cache, session, outbox, completions, abandoned, wiped, faults>>

Report(s) ==
    /\ At(s, "report")
    /\ session' = session \union {call[s].p}
    /\ Finish(s)
    /\ UNCHANGED <<proposals, up, cache, files, abandoned, wiped, faults>>

-----------------------------------------------------------------------------
Fault == faults < MaxFaults /\ faults' = faults + 1

(* An approval whose handler ends before it has committed. *)
Unfinished(s) == IF call[s].pc \in {"outbox", "crm"} THEN {call[s].p} ELSE {}

(* A committer raises, with or without its row; the exception leaves the   *)
(* handler.                                                                *)
CommitRaises(s) ==
    LET p == call[s].p IN
    /\ At(s, "outbox") \/ At(s, "crm")
    /\ Fault
    /\ \/ UNCHANGED <<outbox, activities>>
       \/ At(s, "outbox") /\ outbox' = outbox \union {p} /\ UNCHANGED activities
       \/ At(s, "crm") /\ activities' = activities \union {p} /\ UNCHANGED outbox
    /\ abandoned' = abandoned \union {p}
    /\ Finish(s)
    /\ UNCHANGED <<proposals, up, cache, session, completions, wiped>>

(* A server dies, and with it its cache and its session ledger.            *)
Crash(s) ==
    /\ s \in up
    /\ Fault
    /\ up' = up \ {s}
    /\ abandoned' = abandoned \union Unfinished(s)
    /\ Finish(s)
    /\ cache' = IF s \in Mcp THEN [cache EXCEPT ![s] = {}] ELSE cache
    /\ session' = IF s \in Demo THEN {} ELSE session
    /\ UNCHANGED <<proposals, files, wiped>>

(* A demo server starts from empty files; whatever its keys in a           *)
(* persistent database say, nothing commits those rows again.  The sweep   *)
(* of the boot is Sweep.                                                   *)
Wiped == [rows       |-> wiped.rows \union outbox,
          activities |-> wiped.activities \union activities,
          accounts   |-> wiped.accounts \union completions]

Boot(s) ==
    /\ s \notin up
    /\ up' = up \union {s}
    /\ IF s \in Demo
       THEN /\ wiped' = Wiped
            /\ outbox' = {} /\ activities' = {} /\ completions' = {}
            /\ cache' = [cache EXCEPT ![s] = Refreshed(@)]
       ELSE UNCHANGED <<wiped, files, cache>>
    /\ UNCHANGED <<proposals, call, session, abandoned, faults>>

(* A sweep proposes; one the MCP server runs refreshes its cache. *)
Sweep(s, req) ==
    /\ At(s, "idle")
    /\ Len(proposals) < MaxProposals
    /\ proposals' = Append(proposals, New(req))
    /\ cache' = IF s \in Mcp
                THEN [cache EXCEPT ![s] = Refreshed(@) \union {Len(proposals) + 1}]
                ELSE cache
    /\ UNCHANGED <<call, up, session, files, abandoned, wiped, faults>>

(* advance_after_commits, run by the demo's scripts. *)
Advance ==
    /\ completions' = completions \union
           {proposals[p].req.account : p \in outbox \union activities}
    /\ UNCHANGED <<proposals, call, up, cache, session, outbox, activities, abandoned, wiped, faults>>

Next ==
    \/ \E s \in Servers, p \in Ids, v \in {"approve", "deny", "revise"} : Submit(s, p, v)
    \/ \E s \in Servers :
          \/ Record(s) \/ RecordRefused(s) \/ Supersede(s) \/ SupersedeFails(s)
          \/ CommitOutbox(s) \/ CommitCrm(s) \/ Report(s)
          \/ CommitRaises(s) \/ Crash(s) \/ Boot(s)
    \/ \E s \in Servers, req \in Requests : Sweep(s, req)
    \/ Advance

Spec == Init /\ [][Next]_vars

-----------------------------------------------------------------------------
(* Properties.                                                             *)

TypeOK ==
    /\ proposals \in Seq([req : Request, status : {"pending", "approved", "denied"},
                          by : Servers \union {"none"}])
    /\ \A s \in Servers : call[s].pc \in
          {"idle", "record", "supersede", "outbox", "crm", "report"}
    /\ up \subseteq Servers
    /\ cache \in [Mcp -> SUBSET Ids]
    /\ session \union outbox \union activities \union abandoned \subseteq Ids
    /\ completions \subseteq Accounts
    /\ wiped \in [rows : SUBSET Ids, activities : SUBSET Ids, accounts : SUBSET Accounts]
    /\ faults \in 0..MaxFaults

Approved(p, action) == proposals[p].status = "approved" /\ proposals[p].req.action = action

(* An approved call was not held by the book its surface consults: the one *)
(* of the proposal's own day in the API, the served one, as far as the     *)
(* simulation had completed it, in an MCP server; the verdict is recorded  *)
(* after the check, and the book may have changed between them             *)
(* (api.py:2240, mcp_server.py:1852).                                      *)
HeldIsNotApproved ==
    \A p \in Ids : Approved(p, "call") =>
        Blockers(proposals[p].by, proposals[p].req, completions \union wiped.accounts) = {}

(* The demo server commits what it approves: approved outreach has its     *)
(* outbox row and its activity unless its handler is still at it, ended in *)
(* a crash or an exception, or a later boot deleted the files; only these  *)
(* are never delivered.  And a receipt in the session ledger is for        *)
(* outreach with its row and its activity on disk (mcp_server.py:1887,     *)
(* 1904).                                                                  *)
Delivered(p) == p \in (outbox \union wiped.rows) \intersect (activities \union wiped.activities)

InHand(p) == \E s \in Demo : p \in Unfinished(s)

ApprovedIsDelivered ==
    /\ \A p \in Ids :
          Approved(p, "outreach") /\ proposals[p].by \in Demo =>
              Delivered(p) \/ InHand(p) \/ p \in abandoned
    /\ \A p \in session : Approved(p, "outreach") /\ p \in outbox \intersect activities

-----------------------------------------------------------------------------
(* The surfaces implement Authorization: whatever they cache, check and    *)
(* commit, and wherever they die, a proposal is decided once and nothing   *)
(* but approved outreach is ever performed (api.py:2204,                   *)
(* mcp_server.py:1762).                                                    *)
Person == "person"
Agent == "agent"

StateOf == [pending |-> "open", approved |-> "granted", denied |-> "refused"]

DecisionOf(p) ==
    [state    |-> StateOf[proposals[p].status],
     proposer |-> Agent,
     tier     |-> 2,
     payload  |-> IF proposals[p].status = "approved" THEN proposals[p].req ELSE "none",
     by       |-> IF Pending(p) THEN "none" ELSE Person]

Performed == outbox \union activities \union wiped.rows \union wiped.activities

decisionBar ==
    [p \in 1..MaxProposals |->
        IF p \in Ids THEN DecisionOf(p)
        ELSE [state |-> "none", proposer |-> "none", tier |-> 0, payload |-> "none", by |-> "none"]]

performedBar == {<<p, proposals[p].req>> : p \in Performed}

Abstract == INSTANCE Authorization
    WITH Proposals  <- 1..MaxProposals,
         Payloads   <- Requests,
         Principals <- {Person, Agent},
         Humans     <- {Person},
         NULL       <- "none",
         decision   <- decisionBar,
         performed  <- performedBar

ImplementsAuthorization == Abstract!Spec
=============================================================================
