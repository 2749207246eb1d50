-------------------------------- MODULE Sweep --------------------------------
(***************************************************************************)
(* The time-to-value sweep (agent1/sweep.py) with what may hold it back:   *)
(* the quality breaker (quality_breaker.py), read once when the sweep      *)
(* begins, and the model budget (cost_tracker.py), checked by estimate     *)
(* before each draft and charged after it.                                 *)
(*                                                                         *)
(* A process runs one sweep at a time.  Meanwhile the evaluation publishes *)
(* or withdraws its artifact, an operator resets the breaker, midnight     *)
(* passes, a model call or the gate fails, and the process dies: its       *)
(* tracker is in memory, the proposals and the contact facts are not.      *)
(***************************************************************************)
EXTENDS Integers, Sequences, FiniteSets, FiniteSetsExt, SequencesExt

CONSTANTS
    Books,       \* what a sweep may find: sequences of Facts
    Artifacts,   \* contents of the quality artifact
    Red,         \* those _red_reason finds red
    Costs,       \* what an answered model call may cost
    Estimate,    \* estimate_call_cost
    MaxPerSweep, MaxPerDay,  \* CostBudget
    MaxSweeps,   \* bound on sweeps begun
    MaxDay,      \* bound on midnights
    MaxFaults,   \* bound on crashes, torn appends and gate errors
    NULL

(* Of an account the sweep asks how its contacts' addresses resolve and to *)
(* which candidates, whether the success platform knows it, whether there  *)
(* is a recipient, whether its tier forbids writing to them, whether an    *)
(* open case was confirmed a blocker, and whether a catalog asset matches. *)
Facts == [resolution : {"exactly_one", "ambiguous", "none"}, candidates : SUBSET Nat,
          complete : BOOLEAN, contact : BOOLEAN, forbidden : BOOLEAN,
          blocker : BOOLEAN, match : BOOLEAN]

ASSUME BooksAssumption    == Books \subseteq Seq(Facts)
ASSUME ArtifactAssumption == Red \subseteq Artifacts /\ NULL \notin Artifacts
ASSUME CostAssumption     == Costs \subseteq Nat /\ \E c \in Costs : \A d \in Costs : d <= c
ASSUME BudgetAssumption   == {Estimate, MaxPerSweep, MaxPerDay} \subseteq Nat
ASSUME BoundAssumption    == {MaxSweeps, MaxDay, MaxFaults} \subseteq Nat

VARIABLES
    artifact,   \* the quality artifact, NULL when there is none
    resets,     \* artifacts the operator events file has a reset of
    eventsFile, \* how that file ends, or that a line in it does not parse
    tracker,    \* CostTracker: cost of the current sweep and of today
    spent,      \* the same, but as really spent
    day,        \* midnights that have passed
    restarts,   \* crashes of the process today
    sweep,      \* the sweep that is running
    begun,      \* sweeps begun, at most MaxSweeps
    contacts,   \* contact facts recorded in the database
    proposals,  \* action_proposal, in the order of creation
    results,    \* SweepResult of each sweep that returned
    faults      \* faults that have happened, at most MaxFaults

vars == <<artifact, resets, eventsFile, tracker, spent, day, restarts, sweep, begun,
          contacts, proposals, results, faults>>

quality == <<artifact, resets, eventsFile>>
budget  == <<tracker, spent, day, restarts>>
work    == <<contacts, proposals, results>>

-----------------------------------------------------------------------------
(* under is the artifact the sweep read, exceeded the sticky               *)
(* budget_exceeded, i the account it is at.                                *)
Item == [account : Nat, proposal : Nat]

NoSweep == [pc |-> "idle", n |-> 0, book |-> <<>>, i |-> 1, under |-> NULL,
            triggered |-> FALSE, exceeded |-> FALSE, items |-> {}, escalations |-> <<>>]

Init ==
    /\ artifact \in Artifacts \union {NULL}
    /\ resets = {}
    /\ eventsFile = "clean"
    /\ tracker = [sweep |-> 0, day |-> 0]
    /\ spent = tracker
    /\ day = 0
    /\ restarts = 0
    /\ sweep = NoSweep
    /\ begun = 0
    /\ contacts = {}
    /\ proposals = <<>>
    /\ results = <<>>
    /\ faults = 0

Fault == faults < MaxFaults /\ faults' = faults + 1

-----------------------------------------------------------------------------
(* Quality breaker.  An artifact is replaced or withdrawn at any time.     *)
Publish(a) ==
    /\ artifact' = a
    /\ UNCHANGED <<resets, eventsFile, budget, sweep, begun, work, faults>>

(* record_quality_breaker_reset: the event names the bytes of the artifact *)
(* there is now.  Behind a torn line, or one without its newline, it makes *)
(* a line that does not parse.                                             *)
Reset ==
    /\ artifact # NULL
    /\ eventsFile = "clean"
    /\ resets' = resets \union {artifact}
    /\ UNCHANGED <<artifact, eventsFile, budget, sweep, begun, work, faults>>

ResetGlued ==
    /\ artifact # NULL
    /\ eventsFile # "clean"
    /\ eventsFile' = "spoilt"
    /\ UNCHANGED <<artifact, resets, budget, sweep, begun, work, faults>>

(* The write is cut short: a fragment, or all but the newline.             *)
TornReset ==
    /\ artifact # NULL
    /\ Fault
    /\ \/ eventsFile' = "spoilt" /\ UNCHANGED resets
       \/ /\ eventsFile = "clean"
          /\ eventsFile' = "unterminated"
          /\ resets' = resets \union {artifact}
    /\ UNCHANGED <<artifact, budget, sweep, begun, work>>

AnyReset(a) == resets # {}  \* mutant

(* _matching_reset_event: a reset of these very bytes.                     *)
Cleared(a) == a \in resets

Triggered(a) == a = NULL \/ (a \in Red /\ ~ Cleared(a))

(* Evaluating a red artifact reads the events file, and raises when a line *)
(* of it does not parse.                                                   *)
Raises(a) == a \in Red /\ eventsFile = "spoilt"

-----------------------------------------------------------------------------
(* The sweep.  It evaluates the breaker, resets its counter and reads the  *)
(* book; a breaker that raises ends it before it has changed anything.     *)
Start(book) ==
    /\ sweep.pc = "idle"
    /\ begun < MaxSweeps
    /\ ~ Raises(artifact)
    /\ begun' = begun + 1
    /\ sweep' = [NoSweep EXCEPT !.pc = "visit", !.n = begun + 1, !.book = book,
                                !.under = artifact, !.triggered = Triggered(artifact)]
    /\ tracker' = [tracker EXCEPT !.sweep = 0]
    /\ spent' = [spent EXCEPT !.sweep = 0]
    /\ UNCHANGED <<quality, day, restarts, work, faults>>

At(pc) == sweep.pc = pc

Visiting(resolution) ==
    /\ At("visit")
    /\ sweep.i <= Len(sweep.book)
    /\ sweep.book[sweep.i].resolution = resolution

Here == sweep.book[sweep.i]

Advanced == [sweep EXCEPT !.pc = "visit", !.i = @ + 1]

(* An ambiguous identity is escalated once per set of candidates.          *)
Group(book, i) == IF book[i].candidates = {} THEN {i} ELSE book[i].candidates

EscalatesEach(group) == FALSE  \* mutant

AlreadyEscalated(group) == Contains(sweep.escalations, group)

Escalate ==
    LET group == Group(sweep.book, sweep.i) IN
    /\ Visiting("ambiguous")
    /\ sweep' = [Advanced EXCEPT !.escalations =
                    IF AlreadyEscalated(group) THEN @ ELSE Append(@, group)]
    /\ UNCHANGED <<quality, budget, begun, work, faults>>

PassOver ==
    /\ Visiting("none")
    /\ sweep' = Advanced
    /\ UNCHANGED <<quality, budget, begun, work, faults>>

(* would_exceed_sweep, would_exceed_daily: once exceeded, every remaining  *)
(* account gets the template.                                              *)
ChecksTheSweepOnly == tracker.sweep + Estimate > MaxPerSweep  \* mutant

WouldExceed ==
    \/ tracker.sweep + Estimate > MaxPerSweep
    \/ tracker.day + Estimate > MaxPerDay

(* An account the success platform does not know has no item.              *)
CheckBudget ==
    LET checked == [sweep EXCEPT !.exceeded = @ \/ WouldExceed] IN
    /\ Visiting("exactly_one")
    /\ sweep' = IF Here.complete THEN [checked EXCEPT !.pc = "draft"]
                                 ELSE [checked EXCEPT !.i = @ + 1]
    /\ UNCHANGED <<quality, budget, begun, work, faults>>

(* What is proposed to the gate for an account, if anything.               *)
Blocked(f) == sweep.triggered \/ f.forbidden \/ f.blocker

ActionFor(f) ==
    CASE f.contact /\ ~ Blocked(f) -> "draft_customer_outreach"
      [] f.contact /\ f.forbidden /\ ~ sweep.triggered /\ ~ f.blocker /\ f.match -> "content_route"
      [] OTHER -> "recommend_next_best_action"

WithItem(p) == [Advanced EXCEPT !.items = @ \union {[account |-> sweep.i, proposal |-> p]}]

(* An answered call is charged, usable or not, to the sweep and to the day *)
(* that has begun by now; one that failed is not.                          *)
Charged(t, cost) == [sweep |-> t.sweep + cost, day |-> t.day + cost]

Draft ==
    /\ At("draft")
    /\ \E cost \in IF sweep.exceeded THEN {0} ELSE Costs \union {0} :
          /\ tracker' = Charged(tracker, cost)
          /\ spent' = Charged(spent, cost)
    /\ sweep' = CASE ActionFor(Here) = "draft_customer_outreach" -> [sweep EXCEPT !.pc = "contact"]
                  [] ActionFor(Here) = "content_route"           -> [sweep EXCEPT !.pc = "propose"]
                  [] OTHER                                       -> WithItem(0)
    /\ UNCHANGED <<quality, day, restarts, begun, work, faults>>

(* Outreach records its contact first, in a transaction of its own.        *)
RecordContact ==
    /\ At("contact")
    /\ contacts' = contacts \union {sweep.i}
    /\ sweep' = [sweep EXCEPT !.pc = "propose"]
    /\ UNCHANGED <<quality, budget, begun, proposals, results, faults>>

Proposal == [sweep |-> sweep.n, account |-> sweep.i, action |-> ActionFor(Here),
             under |-> sweep.under]

Propose ==
    /\ At("propose")
    /\ proposals' = Append(proposals, Proposal)
    /\ sweep' = WithItem(Len(proposals) + 1)
    /\ UNCHANGED <<quality, budget, begun, contacts, results, faults>>

(* A GateError or a lost connection leaves the sweep, and what it had      *)
(* proposed stays.                                                         *)
GateRaises ==
    /\ At("contact") \/ At("propose")
    /\ Fault
    /\ sweep' = NoSweep
    /\ UNCHANGED <<quality, budget, begun, work>>

Return ==
    /\ At("visit")
    /\ sweep.i > Len(sweep.book)
    /\ results' = Append(results, [n |-> sweep.n, book |-> sweep.book, items |-> sweep.items,
                                   escalations |-> sweep.escalations])
    /\ sweep' = NoSweep
    /\ UNCHANGED <<quality, budget, begun, contacts, proposals, faults>>

-----------------------------------------------------------------------------
(* The process dies and starts again with an empty tracker.                *)
Restart ==
    /\ Fault
    /\ restarts' = restarts + 1
    /\ tracker' = [sweep |-> 0, day |-> 0]
    /\ sweep' = NoSweep
    /\ UNCHANGED <<quality, spent, day, begun, work>>

(* today_cost_usd looks up another date. *)
Midnight ==
    /\ day < MaxDay
    /\ day' = day + 1
    /\ tracker' = [tracker EXCEPT !.day = 0]
    /\ spent' = [spent EXCEPT !.day = 0]
    /\ restarts' = 0
    /\ UNCHANGED <<quality, sweep, begun, work, faults>>

Next ==
    \/ \E a \in Artifacts \union {NULL} : Publish(a)
    \/ Reset \/ ResetGlued \/ TornReset
    \/ \E book \in Books : Start(book)
    \/ Escalate \/ PassOver \/ CheckBudget \/ Draft \/ RecordContact \/ Propose
    \/ GateRaises \/ Return \/ Restart \/ Midnight

Spec == Init /\ [][Next]_vars

-----------------------------------------------------------------------------
(* Properties.                                                             *)

(* What a sweep and a day really cost stays within the budget, but for the *)
(* last call, which was admitted by its estimate; a restart forgets what   *)
(* the day has cost, so a day may cost as much again after each            *)
(* (cost_tracker.py:201, agent1/sweep.py:268).                             *)
Within(limit) == IF limit < Estimate THEN 0 ELSE limit - Estimate + Max(Costs)

SpendIsBounded ==
    /\ spent.sweep <= Within(MaxPerSweep)
    /\ spent.day <= (1 + restarts) * Within(MaxPerDay)

(* Nothing addressed to a customer is proposed by a sweep that began under *)
(* no artifact, or a red one an operator had not reset in these very       *)
(* bytes, whatever is published, reset or torn afterwards and in whichever *)
(* way it would reach the customer (quality_breaker.py:133,                *)
(* agent1/sweep.py:1089).                                                  *)
RedIsHeld ==
    \A p \in DOMAIN proposals : proposals[p].under \in (Artifacts \ Red) \union resets

(* What a sweep returns is what it did: its items carry exactly the        *)
(* proposals it made, each for its own account; every account it could     *)
(* identify and knows has one item, every set of candidates one            *)
(* escalation; and outreach has its contact on record (agent1/sweep.py:250,*)
(* 1160).                                                                  *)
MadeBy(r) == {p \in DOMAIN proposals : proposals[p].sweep = r.n}

Identified(r) ==
    {i \in DOMAIN r.book : r.book[i].resolution = "exactly_one" /\ r.book[i].complete}

Ambiguous(r) == {i \in DOMAIN r.book : r.book[i].resolution = "ambiguous"}

ResultMatches(r) ==
    /\ {x.proposal : x \in r.items} \ {0} = MadeBy(r)
    /\ \A x \in r.items : x.proposal # 0 => proposals[x.proposal].account = x.account
    /\ {x.account : x \in r.items} = Identified(r)
    /\ Cardinality(r.items) = Cardinality(Identified(r))
    /\ IsInjective(r.escalations)
    /\ Range(r.escalations) = {Group(r.book, i) : i \in Ambiguous(r)}

ItemsMatchProposals ==
    /\ \A r \in DOMAIN results : ResultMatches(results[r])
    /\ \A p \in DOMAIN proposals :
          proposals[p].action = "draft_customer_outreach" => proposals[p].account \in contacts
=============================================================================
