-------------------------------- MODULE Tick --------------------------------
(***************************************************************************)
(* The tick runner (tick.py) and its triggers (triggers.py).               *)
(*                                                                         *)
(* A tick observes the book as of a day, reads the ledger of earlier ticks *)
(* and the status of the proposals they created, decides which triggers    *)
(* fire, sweeps once per fired trigger, and appends a ledger row.  What    *)
(* keeps a condition from being acted upon twice is only in that ledger,   *)
(* so its rows are kept here with all the reader can make of them: a row   *)
(* written behind a torn one is lost, and ticks may overlap, die between   *)
(* any two steps, and be run for any day in any order.                     *)
(***************************************************************************)
EXTENDS Integers, Sequences, FiniteSets, FiniteSetsExt, SequencesExt

CONSTANTS
    Days,         \* values of as_of, a range of naturals
    Accounts,     \* the accounts of the book
    Triggers,     \* trigger names
    Rule,         \* trigger -> its TriggerRule
    Worlds,       \* observed books: band, renewal and cohort by day
    Runners,      \* processes running ticks
    BOOK,         \* the account key of a book-scoped trigger
    MaxTicks,     \* bound on ticks started
    MaxProposals, \* bound on proposals created
    MaxFaults     \* bound on crashes and torn appends

Bands == {"red", "yellow", "green", "unknown"}

TriggerRule == [kind : {"schedule", "deadline", "event"}, lens : {"ttv", "risk"},
                scope : {"book", "account"}, every : Nat, cooldown : Nat,
                within : Nat, from : Bands \union {"*"}, to : Bands \union {"*"}]

World == [band : [Days -> [Accounts -> Bands]], renewal : [Accounts -> Int],
          cohort : [Days -> SUBSET Accounts]]

ASSUME DaysAssumption  == Days \subseteq Nat /\ Days # {}
ASSUME BookAssumption  == BOOK \notin Accounts /\ IsFiniteSet(Accounts)
ASSUME RuleAssumption  ==
    /\ Rule \in [Triggers -> TriggerRule]
    /\ \A t \in Triggers :
          Rule[t].kind = "schedule" => Rule[t].every > 0 /\ Rule[t].scope = "book"
ASSUME WorldAssumption == Worlds \subseteq World
ASSUME BoundAssumption == MaxTicks \in Nat /\ MaxProposals \in Nat /\ MaxFaults \in Nat

VARIABLES
    world,     \* what observe_sim_state returns, a function of the day
    proposals, \* action_proposal, in the order of creation
    ledger,    \* the rows written to tick_ledger.jsonl
    tail,      \* how that file ends
    tick,      \* what each runner's tick is doing
    started,   \* ticks started, at most MaxTicks
    audit,     \* audit.event rows of type sweep.fired
    faults,    \* faults that have happened, at most MaxFaults
    dropped,   \* proposals whose work item collapse_cohorts dropped
    orphaned   \* proposals a crashed tick left behind

tickVars == <<world, proposals, ledger, tail, tick, started, audit, faults, dropped, orphaned>>

-----------------------------------------------------------------------------
(* A fired trigger: its account key, the idempotency key of its condition  *)
(* instance, and the proposals its sweep reported.                         *)
Keys == Triggers \X (Accounts \union {BOOK}) \X Nat \X Nat

Candidate == [t : Triggers, a : Accounts \union {BOOK}, key : Keys]

Fire == [t : Triggers, a : Accounts \union {BOOK}, key : Keys, made : SUBSET Nat]

(* A ledger row; its snapshot is the book of its day.  ok says whether a   *)
(* reader can parse it, seen how many rows there were when its tick read.  *)
Row == [day : Days, fired : SUBSET Fire, seen : Nat, ok : BOOLEAN]

(* The rows a tick has read, by their place in the file. *)
Rows == UNION {[lines -> Row] : lines \in SUBSET Nat}

NoTick == [pc |-> "idle", day |-> CHOOSE d \in Days : TRUE, rows |-> <<>>, seen |-> 0,
           todo |-> {}, fired |-> {}]

TickInit ==
    /\ world \in Worlds
    /\ proposals = <<>>
    /\ ledger = <<>>
    /\ tail = "clean"
    /\ tick = [r \in Runners |-> NoTick]
    /\ started = 0
    /\ audit = {}
    /\ faults = 0
    /\ dropped = {}
    /\ orphaned = {}

(* _read_ledger: every line that parses, in the order of the file. *)
Readable == [i \in {j \in DOMAIN ledger : ledger[j].ok} |-> ledger[i]]

(* A tick begins: it observes the book of its day and reads the ledger. *)
Start(r, d) ==
    /\ tick[r].pc = "idle"
    /\ started < MaxTicks
    /\ started' = started + 1
    /\ tick' = [tick EXCEPT ![r] = [NoTick EXCEPT !.pc = "evaluate", !.day = d,
                                                  !.rows = Readable, !.seen = Len(ledger)]]
    /\ UNCHANGED <<world, proposals, ledger, tail, audit, faults, dropped, orphaned>>

-----------------------------------------------------------------------------
(* The runtime a tick derives from the rows it read.                       *)
FiresIn(rows) == UNION {rows[i].fired : i \in DOMAIN rows}

FireDays(rows, t, a) ==
    {rows[i].day : i \in {j \in DOMAIN rows : \E f \in rows[j].fired : f.t = t /\ f.a = a}}

(* (as_of - last_fire).days >= n, where last_fire is the latest day. *)
Elapsed(rows, t, a, d, n) == \A last \in FireDays(rows, t, a) : d - last >= n

Pending(p) == p \in DOMAIN proposals /\ proposals[p].status = "pending"

(* _pending_trigger_accounts: the trigger's own key, and the account of    *)
(* each proposal that is still pending.                                    *)
HasPending(rows, t, a) ==
    \E f \in FiresIn(rows) : f.t = t /\ \E p \in f.made :
        Pending(p) /\ a \in {f.a, proposals[p].account}

(* Candidates of each kind.  The condition instance of a schedule names    *)
(* its period, of a deadline the day, of an event the days it lies between.*)
ScheduleCandidates(t, rows, d) ==
    {[t |-> t, a |-> BOOK, key |-> <<t, BOOK, d \div Rule[t].every, 0>>] :
        b \in {x \in {BOOK} : Elapsed(rows, t, BOOK, d, Rule[t].every)}}

DeadlineCandidates(t, d) ==
    {[t |-> t, a |-> a, key |-> <<t, a, d, 0>>] :
        a \in {b \in Accounts : world.renewal[b] - d \in 0..Rule[t].within}}

Matches(expected, band) == expected \in {"*", band}

Transition(t, a, from, to) ==
    LET old == world.band[from][a]
        new == world.band[to][a]
    IN /\ "unknown" \notin {old, new}
       /\ old # new
       /\ Matches(Rule[t].from, old)
       /\ Matches(Rule[t].to, new)

LastDay(rows) == {rows[i].day : i \in {j \in DOMAIN rows : \A k \in DOMAIN rows : k <= j}}

EventCandidates(t, rows, d) ==
    UNION {{[t |-> t, a |-> a, key |-> <<t, a, from, d>>] :
               a \in {b \in Accounts : Transition(t, b, from, d)}} : from \in LastDay(rows)}

Candidates(rows, d) ==
    UNION {CASE Rule[t].kind = "schedule" -> ScheduleCandidates(t, rows, d)
             [] Rule[t].kind = "deadline" -> DeadlineCandidates(t, d)
             [] Rule[t].kind = "event"    -> EventCandidates(t, rows, d) : t \in Triggers}

(* _noise_suppression: cooldown, a pending proposal, an instance already   *)
(* in the ledger.                                                          *)
CoolingDown(rows, c, d) ==
    /\ Rule[c.t].cooldown > 0
    /\ ~ Elapsed(rows, c.t, c.a, d, Rule[c.t].cooldown + 1)

AlreadyFired(rows, c) == \E f \in FiresIn(rows) : f.key = c.key

IgnoresPending(rows, c, d) ==  \* mutant
    ~ CoolingDown(rows, c, d) /\ ~ AlreadyFired(rows, c)

ForgetsKeys(rows, c, d) ==  \* mutant
    ~ CoolingDown(rows, c, d) /\ ~ HasPending(rows, c.t, c.a)

Fires(rows, c, d) ==
    /\ ~ CoolingDown(rows, c, d)
    /\ ~ HasPending(rows, c.t, c.a)
    /\ ~ AlreadyFired(rows, c)

(* The statuses are read after the ledger, then the triggers evaluated. *)
Evaluate(r) ==
    LET rows == tick[r].rows
        d    == tick[r].day
    IN
    /\ tick[r].pc = "evaluate"
    /\ tick' = [tick EXCEPT ![r].pc = "sweep",
                            ![r].todo = {c \in Candidates(rows, d) : Fires(rows, c, d)},
                            ![r].rows = <<>>]
    /\ UNCHANGED <<world, proposals, ledger, tail, started, audit, faults, dropped, orphaned>>

-----------------------------------------------------------------------------
(* A sweep proposes for some of the accounts in its scope.                 *)
Scope(c) == IF Rule[c.t].scope = "book" THEN Accounts ELSE {c.a}

Proposal(c, account) == [t |-> c.t, a |-> c.a, account |-> account, status |-> "pending"]

Propose(c, chosen) ==
    proposals' = proposals \o [i \in 1..Cardinality(chosen) |->
                                  Proposal(c, SetToSeq(chosen)[i])]

New(chosen) == Len(proposals) + 1 .. Len(proposals) + Cardinality(chosen)

(* collapse_cohorts drops the work items of the accounts that share a play *)
(* in the whole book, after their proposals were made.                     *)
Collapsed(c, d, p) ==
    Rule[c.t].lens = "ttv" /\ proposals'[p].account \in world.cohort[d]

(* _sweep_payload_for_trigger: the proposals of the work items left. *)
OnlyTheLast(made, gone) == {p \in made \ gone : p + 1 \notin made \ gone}  \* mutant

Reported(made, gone) == made \ gone

Sweep(r, c, chosen) ==
    LET gone == {p \in New(chosen) : Collapsed(c, tick[r].day, p)} IN
    /\ tick[r].pc = "sweep"
    /\ c \in tick[r].todo
    /\ chosen \subseteq Scope(c)
    /\ Len(proposals) + Cardinality(chosen) <= MaxProposals
    /\ Propose(c, chosen)
    /\ dropped' = dropped \union gone
    /\ tick' = [tick EXCEPT ![r].todo = @ \ {c},
                            ![r].fired = @ \union
                                {[t |-> c.t, a |-> c.a, key |-> c.key,
                                  made |-> Reported(New(chosen), gone)]}]
    /\ UNCHANGED <<world, ledger, tail, started, audit, faults, orphaned>>

(* The row a tick writes when all its sweeps are done. *)
RowOf(r) == [day |-> tick[r].day, fired |-> tick[r].fired, seen |-> tick[r].seen, ok |-> TRUE]

(* _append_jsonl writes the row and its newline where the file ends: after *)
(* a torn write the line parses as nothing, and neither does a whole row   *)
(* that was waiting for its newline.                                       *)
SpoilsAll(rows) == [i \in DOMAIN rows |-> [rows[i] EXCEPT !.ok = (tail = "clean")]]  \* mutant

Spoilt(rows) == IF tail = "unterminated" THEN [rows EXCEPT ![Len(rows)].ok = FALSE] ELSE rows

AppendRow(row) ==
    /\ ledger' = Append(Spoilt(ledger), [row EXCEPT !.ok = (tail = "clean")])
    /\ tail' = "clean"

AppendLedger(r) ==
    /\ tick[r].pc = "sweep"
    /\ tick[r].todo = {}
    /\ AppendRow(RowOf(r))
    /\ tick' = [tick EXCEPT ![r].pc = "audit"]
    /\ UNCHANGED <<world, proposals, started, audit, faults, dropped, orphaned>>

Made(r) == UNION {f.made : f \in tick[r].fired}

(* _record_tick_audit_events: the event of a day is recorded once, ON      *)
(* CONFLICT DO NOTHING.                                                    *)
Event(r) == [day |-> tick[r].day, made |-> Made(r)]

Recorded(r) ==
    IF \E e \in audit : e.day = tick[r].day THEN audit ELSE audit \union {Event(r)}

RecordAudit(r) ==
    /\ tick[r].pc = "audit"
    /\ audit' = Recorded(r)
    /\ tick' = [tick EXCEPT ![r] = NoTick]
    /\ UNCHANGED <<world, proposals, ledger, tail, started, faults, dropped, orphaned>>

-----------------------------------------------------------------------------
(* A proposal is decided, by whoever the gate lets decide.                 *)
DecideProposal(p) ==
    /\ Pending(p)
    /\ proposals' = [proposals EXCEPT ![p].status = "decided"]
    /\ UNCHANGED <<world, ledger, tail, tick, started, audit, faults, dropped, orphaned>>

Fault == faults < MaxFaults /\ faults' = faults + 1

(* The proposals a tick has made and not yet appended. *)
Unrecorded(r) == IF tick[r].pc = "sweep" THEN Made(r) ELSE {}

(* The process dies between two steps. *)
CrashBetween(r) ==
    /\ tick[r].pc # "idle"
    /\ Fault
    /\ orphaned' = orphaned \union Unrecorded(r)
    /\ tick' = [tick EXCEPT ![r] = NoTick]
    /\ UNCHANGED <<world, proposals, ledger, tail, started, audit, dropped>>

(* Or in the middle of a sweep, after some of its proposals. *)
CrashInSweep(r, c, chosen) ==
    /\ tick[r].pc = "sweep"
    /\ c \in tick[r].todo
    /\ chosen # {} /\ chosen \subseteq Scope(c)
    /\ Len(proposals) + Cardinality(chosen) <= MaxProposals
    /\ Fault
    /\ Propose(c, chosen)
    /\ orphaned' = orphaned \union Made(r) \union New(chosen)
    /\ tick' = [tick EXCEPT ![r] = NoTick]
    /\ UNCHANGED <<world, ledger, tail, started, audit, dropped>>

(* Or in the middle of the append: part of the row is written, or all of   *)
(* it without the newline, which parses only when it began a line.         *)
TornAppend(r) ==
    /\ tick[r].pc = "sweep"
    /\ tick[r].todo = {}
    /\ Fault
    /\ tick' = [tick EXCEPT ![r] = NoTick]
    /\ \/ /\ tail' = "fragment"
          /\ ledger' = Spoilt(ledger)
          /\ orphaned' = orphaned \union Made(r)
       \/ /\ tail = "clean"
          /\ tail' = "unterminated"
          /\ ledger' = Append(ledger, RowOf(r))
          /\ UNCHANGED orphaned
    /\ UNCHANGED <<world, proposals, started, audit, dropped>>

TickNext ==
    \/ \E r \in Runners, d \in Days : Start(r, d)
    \/ \E r \in Runners : Evaluate(r) \/ AppendLedger(r) \/ RecordAudit(r)
    \/ \E r \in Runners : CrashBetween(r) \/ TornAppend(r)
    \/ \E r \in Runners : \E c \in tick[r].todo : \E chosen \in SUBSET Accounts :
          Sweep(r, c, chosen) \/ CrashInSweep(r, c, chosen)
    \/ \E p \in DOMAIN proposals : DecideProposal(p)

TickSpec == TickInit /\ [][TickNext]_tickVars

-----------------------------------------------------------------------------
(* Properties.                                                             *)

TickTypes ==
    /\ world \in Worlds
    /\ proposals \in Seq([t : Triggers, a : Accounts \union {BOOK}, account : Accounts,
                          status : {"pending", "decided"}])
    /\ ledger \in Seq(Row)
    /\ tail \in {"clean", "fragment", "unterminated"}
    /\ tick \in [Runners -> [pc : {"idle", "evaluate", "sweep", "audit"}, day : Days,
                              rows : Rows, seen : Nat,
                              todo : SUBSET Candidate, fired : SUBSET Fire]]
    /\ started \in 0..MaxTicks
    /\ audit \in SUBSET [day : Days, made : SUBSET Nat]
    /\ faults \in 0..MaxFaults
    /\ dropped \union orphaned \subseteq DOMAIN proposals

(* Row j was decided upon knowing row i, which is still readable. *)
Knew(i, j) == i <= ledger[j].seen /\ ledger[i].ok

KnownPairs == {ij \in (DOMAIN ledger) \X (DOMAIN ledger) : Knew(ij[1], ij[2])}

SameSubject(f, g) == f.t = g.t /\ f.a = g.a

(* A trigger does not fire again for an account, or for the book, while a  *)
(* proposal that an earlier fire of it reported is undecided, in whatever  *)
(* order days are ticked and wherever ticks overlap, die or tear the       *)
(* ledger: only what the ledger has lost can be proposed twice             *)
(* (tick.py:994, triggers.py:721).                                         *)
NoDoublePending ==
    \A ij \in KnownPairs :
        \A f \in ledger[ij[1]].fired, g \in ledger[ij[2]].fired :
            SameSubject(f, g) => \A p \in f.made : ~ Pending(p)

(* Two fires of a trigger for the same subject are for different condition *)
(* instances, a schedule's at least its period apart and others more than  *)
(* the cooldown, also when the days are ticked out of order                *)
(* (triggers.py:541, 703, 733).                                            *)
FiresAreSpaced ==
    \A ij \in KnownPairs :
        \A f \in ledger[ij[1]].fired, g \in ledger[ij[2]].fired :
            LET apart == ledger[ij[2]].day - ledger[ij[1]].day IN
            SameSubject(f, g) =>
                /\ f.key # g.key
                /\ Rule[f.t].kind = "schedule" => apart >= Rule[f.t].every
                /\ Rule[f.t].cooldown > 0 => apart > Rule[f.t].cooldown

InRows == UNION {f.made : f \in FiresIn(ledger)}

InFlight == UNION {Unrecorded(r) : r \in Runners}

(* Every proposal of a sweep is in the row of its tick or in the tick that *)
(* is still running, except those a crash left behind and those whose work *)
(* item was folded into a cohort after they had been proposed; nothing is  *)
(* in two of these places (tick.py:285, agent1/sweep.py:1004).             *)
AccountedFor ==
    LET places == <<InRows, InFlight, dropped, orphaned>> IN
    /\ DOMAIN proposals = UNION {places[i] : i \in DOMAIN places}
    /\ \A i, j \in DOMAIN places : i # j => places[i] \cap places[j] = {}

(* A row that was written whole, with its newline, stays readable whatever *)
(* is torn behind it ("every well-formed line before and after it is still *)
(* returned", tick.py:1096).                                               *)
TerminatedRowsStay ==
    [][\A i \in DOMAIN ledger :
          ledger[i].ok /\ (i < Len(ledger) \/ tail = "clean") => ledger'[i].ok]_tickVars
=============================================================================
