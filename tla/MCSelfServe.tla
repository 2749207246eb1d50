----------------------------- MODULE MCSelfServe -----------------------------
(* Signups of two workspaces in the same second, by address, by domain and *)
(* by account id, one of an enterprise plan and one with a personal        *)
(* address; books in which acme has a team but no invite, has had its      *)
(* nudge, or has looked at the CRM and shares an address with another.     *)
EXTENDS SelfServe, TLC

CONSTANTS s1, s2, w1, w2, t, acme, wayne

ann == [name |-> "ann", domain |-> "acme"]
bob == [name |-> "bob", domain |-> "acme"]
eve == [name |-> "eve", domain |-> "mail"]

Signup(workspace, email, part, account, plan) ==
    [workspace |-> workspace, email |-> email, second |-> t, part |-> part,
     account |-> account, plan |-> plan]

MCEvents == {
    Signup(w1, ann, "", NONE, "free"),
    Signup(w1, bob, ".5", NONE, "free"),
    Signup(w2, bob, "", NONE, "enterprise"),
    Signup(w2, eve, "", acme, "free")}

MCContact(account, email, consent, level) ==
    [account |-> account, email |-> email, consent |-> consent, level |-> level]

MCSignal(account, metric, value) ==
    [account |-> account, metric |-> metric, nth |-> 1, value |-> value]

MCBook(contacts, signals) ==
    [accounts |-> {acme, wayne}, listed |-> {acme}, contacts |-> contacts,
     signals |-> signals, cases |-> {[account |-> acme, nth |-> 1]}, adoption |-> {acme}]

Consenting == {MCContact(acme, ann, TRUE, 2), MCContact(wayne, eve, TRUE, 1)}

MCBooks == {
    MCBook(Consenting, {MCSignal(acme, "team_workspace_created", 2), MCSignal(wayne, "workflow_run", 2)}),
    MCBook(Consenting, {MCSignal(acme, "workspace_created", 2), MCSignal(acme, "activation_nudge_sent", 2)}),
    MCBook(Consenting \union {MCContact(wayne, ann, TRUE, 1)},
           {MCSignal(acme, "crm_connect_clicked", 1), MCSignal(acme, "first_search_run", 2),
            MCSignal(wayne, "report_viewed", 2)})}

MCSymmetry == Permutations({s1, s2})
=============================================================================
