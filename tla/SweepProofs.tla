----------------------------- MODULE SweepProofs -----------------------------
(***************************************************************************)
(* Proofs about Sweep: for any books, artifacts, costs and limits, and     *)
(* however often the process restarts, what is really spent stays within   *)
(* the budget, a red artifact holds customer proposals back, and a sweep   *)
(* returns what it did.                                                    *)
(***************************************************************************)
EXTENDS Sweep, FiniteSetTheorems, FunctionTheorems, SequenceTheorems, TLAPS

ActionNames == {"draft_customer_outreach", "content_route", "recommend_next_best_action"}

SweepType ==
    [pc : {"idle", "visit", "draft", "contact", "propose"}, n : Nat, book : Seq(Facts), i : Nat \ {0},
     under : Artifacts \union {NULL}, triggered : BOOLEAN, exceeded : BOOLEAN,
     items : SUBSET Item, escalations : Seq(SUBSET Nat)]

ProposalType == [sweep : Nat, account : Nat, action : ActionNames, under : Artifacts \union {NULL}]

(* The types; beyond visit the sweep is at an account of its book. *)
Typed ==
    /\ artifact \in Artifacts \union {NULL}
    /\ tracker \in [sweep : Nat, day : Nat] /\ spent \in [sweep : Nat, day : Nat]
    /\ restarts \in Nat /\ begun \in Nat
    /\ sweep \in SweepType
    /\ sweep.pc \in {"draft", "contact", "propose"} =>
           /\ sweep.i \in 1..Len(sweep.book)
           /\ Here.resolution = "exactly_one" /\ Here.complete
    /\ proposals \in Seq(ProposalType)

(* What the tracker says of the sweep that runs is what it has spent, and  *)
(* a call about to be made was admitted; of the day, the tracker forgets   *)
(* what was spent before each restart, which was at most a day's limit.    *)
SpendKnown ==
    /\ sweep.pc # "idle" => tracker.sweep = spent.sweep
    /\ sweep.pc = "draft" /\ ~ sweep.exceeded => ~ WouldExceed
    /\ spent.sweep <= Within(MaxPerSweep)
    /\ tracker.day <= Within(MaxPerDay)
    /\ spent.day <= restarts * Within(MaxPerDay) + tracker.day

(* A sweep that goes on to a customer proposal was not triggered when it   *)
(* began, and what cleared it then clears it for good.                     *)
Clear(a) == a \in (Artifacts \ Red) \union resets

QualityKnown ==
    /\ sweep.pc # "idle" /\ ~ sweep.triggered => Clear(sweep.under)
    /\ sweep.pc \in {"contact", "propose"} => ~ sweep.triggered
    /\ RedIsHeld

(* What a sweep has done when it is about to visit account upto: an item   *)
(* for each account it identified and an escalation for each set of        *)
(* candidates, and among the proposals exactly those of its items.         *)
Before(book, upto, resolution) ==
    {i \in DOMAIN book : i < upto /\ book[i].resolution = resolution}

Found(book, upto) == {i \in Before(book, upto, "exactly_one") : book[i].complete}

ItemsDone(n, book, upto, items) ==
    /\ {x.proposal : x \in items} \ {0} = {p \in DOMAIN proposals : proposals[p].sweep = n}
    /\ \A x \in items : x.proposal # 0 => proposals[x.proposal].account = x.account
    /\ {x.account : x \in items} = Found(book, upto)
    /\ \A x, y \in items : x.account = y.account => x = y

EscalationsDone(book, upto, escalations) ==
    /\ IsInjective(escalations)
    /\ Range(escalations) = {Group(book, i) : i \in Before(book, upto, "ambiguous")}

Result == [n : Nat, book : Seq(Facts), items : SUBSET Item, escalations : Seq(SUBSET Nat)]

ResultOK(r) ==
    /\ r.n <= begun
    /\ sweep.pc # "idle" => r.n < begun
    /\ ItemsDone(r.n, r.book, Len(r.book) + 1, r.items)
    /\ EscalationsDone(r.book, Len(r.book) + 1, r.escalations)

ContactsKnown ==
    \A p \in DOMAIN proposals :
        proposals[p].action = "draft_customer_outreach" => proposals[p].account \in contacts

WorkKnown ==
    /\ sweep.pc # "idle" =>
           /\ sweep.n = begun /\ sweep.i <= Len(sweep.book) + 1
           /\ ItemsDone(sweep.n, sweep.book, sweep.i, sweep.items)
           /\ EscalationsDone(sweep.book, sweep.i, sweep.escalations)
    /\ \A p \in DOMAIN proposals : proposals[p].sweep <= begun
    /\ results \in Seq(Result)
    /\ \A k \in DOMAIN results : ResultOK(results[k])
    /\ sweep.pc = "propose" /\ ActionFor(Here) = "draft_customer_outreach" => sweep.i \in contacts
    /\ ContactsKnown

-----------------------------------------------------------------------------
LEMMA Constants ==
    /\ MaxPerSweep \in Nat /\ MaxPerDay \in Nat /\ Estimate \in Nat
    /\ Max(Costs) \in Nat /\ \A c \in Costs : c \in Nat /\ c <= Max(Costs)
    /\ Within(MaxPerSweep) \in Nat /\ Within(MaxPerDay) \in Nat
  <1>1. MaxPerSweep \in Nat /\ MaxPerDay \in Nat /\ Estimate \in Nat
    BY BudgetAssumption
  <1>2. \E m \in Costs : \A c \in Costs : m >= c
    BY CostAssumption
  <1>3. Max(Costs) \in Costs /\ \A c \in Costs : Max(Costs) >= c
    BY <1>2 DEF Max
  <1>4. Max(Costs) \in Nat /\ \A c \in Costs : c \in Nat /\ c <= Max(Costs)
    BY <1>3, CostAssumption
  <1> HIDE DEF Max
  <1> QED
    BY <1>1, <1>4 DEF Within

LEMMA ActionIsNamed ==
    ASSUME NEW f
    PROVE  /\ ActionFor(f) \in ActionNames
           /\ ActionFor(f) # "recommend_next_best_action" => ~ sweep.triggered
  BY DEF ActionFor, ActionNames, Blocked

LEMMA InitTyped == Init => Typed
  BY DEF Init, Typed, SweepType, NoSweep

LEMMA GroupTyped ==
    ASSUME NEW book \in Seq(Facts), NEW i \in DOMAIN book
    PROVE  Group(book, i) \in SUBSET Nat
  <1>1. book[i] \in Facts /\ i \in Nat
    OBVIOUS
  <1> QED
    BY <1>1 DEF Facts, Group

(* The sweep when it goes on to the next account, and with an item. *)
LEMMA AdvancedTyped ==
    ASSUME sweep \in SweepType
    PROVE  /\ Advanced \in SweepType /\ Advanced.pc = "visit" /\ Advanced.i = sweep.i + 1
           /\ Advanced.items = sweep.items /\ Advanced.escalations = sweep.escalations
           /\ Advanced.book = sweep.book /\ Advanced.n = sweep.n
           /\ Advanced.under = sweep.under /\ Advanced.triggered = sweep.triggered
  <1> DEFINE j == sweep.i + 1
  <1>1. j \in Nat \ {0}
    BY DEF SweepType
  <1>2. Advanced = [sweep EXCEPT !.pc = "visit", !.i = j]
    BY DEF Advanced
  <1> HIDE DEF j
  <1>3. Advanced \in SweepType /\ Advanced.i = j
    BY <1>1, <1>2 DEF SweepType
  <1> QED
    BY <1>2, <1>3 DEF SweepType, j

LEMMA WithItemTyped ==
    ASSUME sweep \in SweepType, NEW p \in Nat
    PROVE  /\ WithItem(p) \in SweepType /\ WithItem(p).pc = "visit" /\ WithItem(p).i = sweep.i + 1
           /\ WithItem(p).items = sweep.items \union {[account |-> sweep.i, proposal |-> p]}
           /\ WithItem(p).escalations = sweep.escalations
           /\ WithItem(p).book = sweep.book /\ WithItem(p).n = sweep.n
           /\ WithItem(p).under = sweep.under /\ WithItem(p).triggered = sweep.triggered
  <1> DEFINE with == sweep.items \union {[account |-> sweep.i, proposal |-> p]}
  <1>1. with \in SUBSET Item
    BY DEF SweepType, Item
  <1>2. WithItem(p) = [Advanced EXCEPT !.items = with]
    BY AdvancedTyped DEF WithItem
  <1>3. Advanced \in SweepType
    BY AdvancedTyped
  <1> HIDE DEF with
  <1>4. WithItem(p) \in SweepType /\ WithItem(p).items = with
    BY <1>1, <1>2, <1>3 DEF SweepType
  <1>5. /\ WithItem(p).pc = Advanced.pc /\ WithItem(p).i = Advanced.i
        /\ WithItem(p).escalations = Advanced.escalations
        /\ WithItem(p).book = Advanced.book /\ WithItem(p).n = Advanced.n
        /\ WithItem(p).under = Advanced.under /\ WithItem(p).triggered = Advanced.triggered
    BY <1>2, <1>3 DEF SweepType
  <1> QED
    BY <1>4, <1>5, AdvancedTyped DEF with

(* The sweep that begins. *)
Begun(book) == [NoSweep EXCEPT !.pc = "visit", !.n = begun + 1, !.book = book,
                               !.under = artifact, !.triggered = Triggered(artifact)]

LEMMA BegunTyped ==
    ASSUME Typed, NEW book \in Books
    PROVE  /\ Begun(book) \in SweepType /\ Begun(book).pc = "visit"
           /\ Begun(book).n = begun + 1 /\ Begun(book).book = book /\ Begun(book).i = 1
           /\ Begun(book).under = artifact /\ Begun(book).triggered = Triggered(artifact)
           /\ Begun(book).items = {} /\ Begun(book).escalations = <<>>
  <1> DEFINE n == begun + 1
             t == Triggered(artifact)
  <1>1. n \in Nat /\ book \in Seq(Facts) /\ t \in BOOLEAN
    BY BooksAssumption DEF Typed, Triggered, Cleared
  <1>2. Begun(book) = [NoSweep EXCEPT !.pc = "visit", !.n = n, !.book = book,
                                      !.under = artifact, !.triggered = t]
    BY DEF Begun
  <1>3. artifact \in Artifacts \union {NULL} /\ <<>> \in Seq(SUBSET Nat) /\ 1 \in Nat \ {0}
    BY DEF Typed
  <1> HIDE DEF n, t
  <1>4. Begun(book) = [pc |-> "visit", n |-> n, book |-> book, i |-> 1, under |-> artifact,
                       triggered |-> t, exceeded |-> FALSE, items |-> {}, escalations |-> <<>>]
    BY <1>2 DEF NoSweep
  <1>5. Begun(book) \in SweepType
    BY <1>1, <1>3, <1>4 DEF SweepType
  <1> QED
    BY <1>4, <1>5 DEF n, t

LEMMA StepTyped ==
    ASSUME Typed, [Next]_vars
    PROVE  Typed'
  <1>1. NoSweep \in SweepType /\ NoSweep.pc = "idle"
    BY DEF NoSweep, SweepType
  <1>2. /\ sweep \in SweepType /\ sweep.book \in Seq(Facts) /\ sweep.n \in Nat /\ sweep.i \in Nat \ {0}
        /\ sweep.escalations \in Seq(SUBSET Nat) /\ sweep.items \in SUBSET Item
        /\ sweep.exceeded \in BOOLEAN
    BY DEF Typed, SweepType
  <1>3. Advanced \in SweepType /\ Advanced.pc = "visit" /\ Advanced.escalations = sweep.escalations
    BY AdvancedTyped DEF Typed
  <1>4. CASE \E a \in Artifacts \union {NULL} : Publish(a)
    BY <1>4 DEF Publish, Typed, budget, work, Here
  <1>5. CASE Reset \/ ResetGlued \/ TornReset \/ UNCHANGED vars
    BY <1>5 DEF Reset, ResetGlued, TornReset, vars, Typed, budget, work, Here
  <1>6. ASSUME NEW book \in Books, Start(book)
        PROVE  Typed'
    <2>1. sweep' = Begun(book)
      BY <1>6 DEF Start, Begun
    <2>2. sweep' \in SweepType /\ sweep'.pc = "visit"
      BY <2>1, BegunTyped
    <2>3. tracker' \in [sweep : Nat, day : Nat] /\ spent' \in [sweep : Nat, day : Nat]
      BY <1>6 DEF Start, Typed
    <2> QED
      BY <1>6, <2>2, <2>3 DEF Start, Typed, quality, work
  <1>7. CASE Escalate
    <2> DEFINE group == Group(sweep.book, sweep.i)
               after == [Advanced EXCEPT !.escalations =
                            IF AlreadyEscalated(group) THEN @ ELSE Append(@, group)]
    <2>1. sweep.i \in DOMAIN sweep.book
      BY <1>2, <1>7 DEF Escalate, Visiting
    <2>2. group \in SUBSET Nat
      BY <1>2, <2>1, GroupTyped
    <2>3. Append(sweep.escalations, group) \in Seq(SUBSET Nat)
      BY <1>2, <2>2
    <2>4. after \in SweepType /\ after.pc = "visit"
      BY <1>2, <1>3, <2>3 DEF SweepType
    <2> QED
      BY <1>7, <2>4 DEF Escalate, Typed, quality, budget, work
  <1>8. CASE PassOver
    BY <1>3, <1>8 DEF PassOver, Typed, quality, budget, work
  <1>9. CASE CheckBudget
    <2> DEFINE checked == [sweep EXCEPT !.exceeded = @ \/ WouldExceed]
    <2>1. checked \in SweepType /\ checked.book = sweep.book /\ checked.i = sweep.i
      BY <1>2 DEF SweepType
    <2>2. sweep.i \in 1..Len(sweep.book) /\ sweep.book[sweep.i].resolution = "exactly_one"
          /\ sweep.pc = "visit"
      BY <1>2, <1>9 DEF CheckBudget, Visiting, At
    <2> HIDE DEF checked
    <2>3. CASE Here.complete
      <3>1. sweep' = [checked EXCEPT !.pc = "draft"]
        BY <1>9, <2>3 DEF CheckBudget, checked
      <3>2. sweep' \in SweepType /\ sweep'.pc = "draft" /\ sweep'.i = sweep.i /\ sweep'.book = sweep.book
        BY <2>1, <3>1 DEF SweepType
      <3> QED
        BY <1>9, <2>2, <2>3, <3>2 DEF CheckBudget, Typed, Here, quality, budget, work
    <2>4. CASE ~ Here.complete
      <3> DEFINE j == checked.i + 1
      <3>1. sweep' = [checked EXCEPT !.i = j] /\ checked.pc = "visit"
        BY <1>9, <2>2, <2>4 DEF CheckBudget, checked
      <3>2. j \in Nat \ {0}
        BY <1>2, <2>1
      <3> HIDE DEF j
      <3>3. sweep' \in SweepType /\ sweep'.pc = "visit"
        BY <2>1, <3>1, <3>2 DEF SweepType
      <3> QED
        BY <1>9, <3>3 DEF CheckBudget, Typed, quality, budget, work
    <2> QED
      BY <2>3, <2>4
  <1>10. CASE Draft
    <2>1. tracker' \in [sweep : Nat, day : Nat] /\ spent' \in [sweep : Nat, day : Nat]
      <3>1. PICK cost \in Costs \union {0} : tracker' = Charged(tracker, cost) /\ spent' = Charged(spent, cost)
        BY <1>10 DEF Draft
      <3>2. cost \in Nat
        BY Constants
      <3> QED
        BY <3>1, <3>2 DEF Charged, Typed
    <2>2. \/ sweep' = [sweep EXCEPT !.pc = "contact"] \/ sweep' = [sweep EXCEPT !.pc = "propose"]
          \/ sweep' = WithItem(0)
      BY <1>10 DEF Draft
    <2>3. WithItem(0) \in SweepType /\ WithItem(0).pc = "visit"
      BY <1>2, WithItemTyped
    <2>4. /\ sweep' \in SweepType
          /\ \/ sweep'.pc = "visit"
             \/ sweep'.pc \in {"contact", "propose"} /\ sweep'.i = sweep.i /\ sweep'.book = sweep.book
      BY <1>2, <2>2, <2>3 DEF SweepType
    <2> QED
      BY <1>10, <2>1, <2>4 DEF Draft, Typed, At, Here, quality, work
  <1>11. CASE RecordContact
    <2>1. sweep' \in SweepType /\ sweep'.pc = "propose" /\ sweep'.i = sweep.i /\ sweep'.book = sweep.book
      BY <1>2, <1>11 DEF RecordContact, SweepType
    <2> QED
      BY <1>11, <2>1 DEF RecordContact, Typed, At, Here, quality, budget
  <1>12. CASE Propose
    <2>1. Proposal \in ProposalType
      BY <1>2, ActionIsNamed DEF Proposal, ProposalType, SweepType
    <2>2. proposals' \in Seq(ProposalType) /\ Len(proposals) + 1 \in Nat
      BY <1>12, <2>1 DEF Propose, Typed
    <2>3. WithItem(Len(proposals) + 1) \in SweepType /\ WithItem(Len(proposals) + 1).pc = "visit"
      BY <1>2, <2>2, WithItemTyped
    <2> QED
      BY <1>12, <2>2, <2>3 DEF Propose, Typed, quality, budget
  <1>13. CASE GateRaises \/ Return
    BY <1>1, <1>13 DEF GateRaises, Return, Typed, quality, budget, work
  <1>14. CASE Restart
    BY <1>1, <1>14 DEF Restart, Typed, quality, work
  <1>15. CASE Midnight
    BY <1>15 DEF Midnight, Typed, Here, quality, work
  <1> QED
    BY <1>4, <1>5, <1>6, <1>7, <1>8, <1>9, <1>10, <1>11, <1>12, <1>13, <1>14, <1>15 DEF Next

-----------------------------------------------------------------------------
(* Spending.  The sweep and the day are bounded the same way.              *)
LEMMA ChargeFits ==
    ASSUME NEW limit \in Nat, NEW before \in Nat, NEW cost \in Costs,
           ~ (before + Estimate > limit)
    PROVE  before + cost <= Within(limit)
  <1>1. cost \in Nat /\ cost <= Max(Costs) /\ Max(Costs) \in Nat /\ Estimate \in Nat
    BY Constants
  <1>2. limit >= Estimate
    BY <1>1
  <1>3. Within(limit) = limit - Estimate + Max(Costs)
    BY <1>1, <1>2 DEF Within
  <1> HIDE DEF Max
  <1> QED
    BY <1>1, <1>3

LEMMA StepSpends ==
    ASSUME Typed, SpendKnown, [Next]_vars
    PROVE  SpendKnown'
  <1> DEFINE S == Within(MaxPerSweep)
             D == Within(MaxPerDay)
  <1>1. S \in Nat /\ D \in Nat /\ MaxPerSweep \in Nat /\ MaxPerDay \in Nat /\ Estimate \in Nat
    BY Constants
  <1>2. /\ tracker.sweep \in Nat /\ tracker.day \in Nat
        /\ spent.sweep \in Nat /\ spent.day \in Nat /\ restarts \in Nat
        /\ tracker = [sweep |-> tracker.sweep, day |-> tracker.day]
        /\ spent = [sweep |-> spent.sweep, day |-> spent.day]
    BY DEF Typed
  <1>3. /\ sweep.pc # "idle" => tracker.sweep = spent.sweep
        /\ sweep.pc = "draft" /\ ~ sweep.exceeded => ~ WouldExceed
        /\ spent.sweep <= S /\ tracker.day <= D /\ spent.day <= restarts * D + tracker.day
    BY DEF SpendKnown
  <1> USE DEF SpendKnown, WouldExceed
  <1> HIDE DEF S, D
  <1>4. ASSUME UNCHANGED budget,
               sweep'.pc # "idle" => sweep.pc # "idle",
               sweep'.pc = "draft" /\ ~ sweep'.exceeded => ~ WouldExceed
        PROVE  SpendKnown'
    BY <1>3, <1>4 DEF budget, S, D
  <1>5. CASE \/ \E a \in Artifacts \union {NULL} : Publish(a)
             \/ Reset \/ ResetGlued \/ TornReset \/ UNCHANGED vars
    BY <1>3, <1>4, <1>5 DEF Publish, Reset, ResetGlued, TornReset, vars, budget
  <1>6. ASSUME NEW book \in Books, Start(book)
        PROVE  SpendKnown'
    <2>1. sweep'.pc = "visit"
      BY <1>6, BegunTyped DEF Start, Begun
    <2>2. /\ tracker' = [sweep |-> 0, day |-> tracker.day]
          /\ spent' = [sweep |-> 0, day |-> spent.day] /\ restarts' = restarts
      BY <1>2, <1>6 DEF Start
    <2>3. tracker'.sweep = 0 /\ spent'.sweep = 0 /\ tracker'.day = tracker.day /\ spent'.day = spent.day
      BY <2>2
    <2> QED
      BY <1>1, <1>3, <2>1, <2>2, <2>3 DEF S, D
  <1>7. CASE Escalate \/ PassOver
    <2>1. sweep.pc = "visit" /\ sweep'.pc = "visit" /\ UNCHANGED budget
      BY <1>7, AdvancedTyped DEF Escalate, PassOver, Visiting, At, Typed, SweepType
    <2> QED
      BY <1>4, <2>1
  <1>8. CASE CheckBudget
    <2>1. sweep.pc = "visit" /\ UNCHANGED budget
      BY <1>8 DEF CheckBudget, Visiting, At
    <2>2. sweep' = [[sweep EXCEPT !.exceeded = @ \/ WouldExceed] EXCEPT !.pc = "draft"]
          \/ sweep'.pc = "visit"
      BY <1>8, <2>1 DEF CheckBudget, Typed, SweepType
    <2>3. sweep'.pc = "draft" /\ ~ sweep'.exceeded => ~ WouldExceed
      BY <2>2 DEF Typed, SweepType
    <2> QED
      BY <1>4, <2>1, <2>3
  <1>9. CASE Draft
    <2>1. sweep.pc = "draft" /\ UNCHANGED restarts
      BY <1>9 DEF Draft, At
    <2>2. sweep'.pc # "draft"
      BY <1>9, WithItemTyped DEF Draft, Typed, SweepType
    <2>3. PICK cost \in (IF sweep.exceeded THEN {0} ELSE Costs \union {0}) :
              tracker' = Charged(tracker, cost) /\ spent' = Charged(spent, cost)
      BY <1>9 DEF Draft
    <2>4. cost \in Nat /\ (cost = 0 \/ (cost \in Costs /\ ~ sweep.exceeded))
      BY <2>3, Constants
    <2>5. /\ tracker'.sweep = tracker.sweep + cost /\ tracker'.day = tracker.day + cost
          /\ spent'.sweep = spent.sweep + cost /\ spent'.day = spent.day + cost
      BY <2>3 DEF Charged
    <2>6. tracker.sweep = spent.sweep
      BY <1>3, <2>1
    <2>7. spent.sweep + cost <= S /\ tracker.day + cost <= D
      <3>1. CASE cost = 0
        BY <1>2, <1>3, <3>1
      <3>2. CASE cost \in Costs /\ ~ sweep.exceeded
        <4>1. ~ (tracker.sweep + Estimate > MaxPerSweep) /\ ~ (tracker.day + Estimate > MaxPerDay)
          BY <1>3, <2>1, <3>2
        <4> QED
          BY <1>1, <1>2, <2>6, <3>2, <4>1, ChargeFits DEF S, D
      <3> QED
        BY <2>4, <3>1, <3>2
    <2>8. restarts * D \in Nat
      BY <1>1, <1>2
    <2>9. spent'.day <= restarts * D + tracker'.day
      BY <1>2, <1>3, <2>4, <2>5, <2>8
    <2> QED
      BY <2>1, <2>2, <2>5, <2>6, <2>7, <2>9 DEF S, D
  <1>10. CASE RecordContact
    <2>1. sweep.pc = "contact" /\ sweep'.pc = "propose" /\ UNCHANGED budget
      BY <1>10 DEF RecordContact, At, Typed, SweepType
    <2> QED
      BY <1>4, <2>1
  <1>11. CASE Propose
    <2>1. sweep.pc = "propose" /\ UNCHANGED budget
      BY <1>11 DEF Propose, At
    <2>2. Len(proposals) + 1 \in Nat
      BY DEF Typed
    <2>3. sweep'.pc = "visit"
      BY <1>11, <2>2, WithItemTyped DEF Propose, Typed
    <2> QED
      BY <1>4, <2>1, <2>3
  <1>12. CASE GateRaises \/ Return
    <2>1. sweep'.pc = "idle" /\ UNCHANGED budget
      BY <1>12 DEF GateRaises, Return, NoSweep
    <2> QED
      BY <1>4, <2>1
  <1>13. CASE Restart
    <2>1. /\ sweep'.pc = "idle" /\ tracker'.day = 0 /\ UNCHANGED spent /\ restarts' = restarts + 1
      BY <1>13 DEF Restart, NoSweep
    <2>2. (restarts + 1) * D = restarts * D + D /\ restarts * D \in Nat
      BY <1>1, <1>2
    <2>3. spent.day <= restarts' * D + 0
      BY <1>1, <1>2, <1>3, <2>1, <2>2
    <2> QED
      BY <1>1, <1>3, <2>1, <2>3 DEF S, D
  <1>14. CASE Midnight
    <2>1. /\ UNCHANGED sweep /\ restarts' = 0
          /\ tracker'.day = 0 /\ tracker'.sweep = tracker.sweep
          /\ spent'.day = 0 /\ spent'.sweep = spent.sweep
      BY <1>2, <1>14 DEF Midnight
    <2>2. 0 * D = 0
      BY <1>1
    <2> QED
      BY <1>1, <1>2, <1>3, <2>1, <2>2 DEF S, D
  <1> QED
    BY <1>5, <1>6, <1>7, <1>8, <1>9, <1>10, <1>11, <1>12, <1>13, <1>14 DEF Next

LEMMA InitSpends == Init => SpendKnown
  <1> SUFFICES ASSUME Init PROVE SpendKnown
    OBVIOUS
  <1>1. /\ tracker.sweep = 0 /\ tracker.day = 0 /\ spent.sweep = 0 /\ spent.day = 0
        /\ restarts = 0 /\ sweep.pc = "idle"
    BY DEF Init, NoSweep
  <1>2. Within(MaxPerSweep) >= 0 /\ Within(MaxPerDay) >= 0 /\ 0 * Within(MaxPerDay) = 0
    BY Constants
  <1> QED
    BY <1>1, <1>2 DEF SpendKnown

-----------------------------------------------------------------------------
(* Quality.                                                                *)
LEMMA InitClear == Init => QualityKnown
  BY DEF Init, NoSweep, QualityKnown, RedIsHeld

LEMMA StepClears ==
    ASSUME Typed, QualityKnown, [Next]_vars
    PROVE  QualityKnown'
  <1>1. ASSUME UNCHANGED proposals, resets \subseteq resets',
               \/ sweep'.pc = "idle"
               \/ /\ sweep.pc # "idle"
                  /\ sweep'.triggered = sweep.triggered /\ sweep'.under = sweep.under
                  /\ sweep'.pc \in {"contact", "propose"} => ~ sweep.triggered
        PROVE  QualityKnown'
    BY <1>1 DEF QualityKnown, Clear, RedIsHeld
  <1>2. CASE \/ \E a \in Artifacts \union {NULL} : Publish(a)
             \/ Reset \/ ResetGlued \/ TornReset \/ UNCHANGED vars \/ Midnight
    <2>1. UNCHANGED <<sweep, proposals>> /\ resets \subseteq resets'
      BY <1>2 DEF Publish, Reset, ResetGlued, TornReset, vars, Midnight, work, quality
    <2>2. sweep.pc \in {"contact", "propose"} => ~ sweep.triggered
      BY DEF QualityKnown
    <2> QED
      BY <1>1, <2>1, <2>2
  <1>3. ASSUME NEW book \in Books, Start(book)
        PROVE  QualityKnown'
    <2>1. /\ sweep'.pc = "visit" /\ sweep'.under = artifact /\ sweep'.triggered = Triggered(artifact)
          /\ UNCHANGED <<resets, proposals>>
      BY <1>3, BegunTyped DEF Start, Begun, quality, work
    <2>2. ~ Triggered(artifact) => Clear(artifact)
      BY DEF Triggered, Cleared, Clear, Typed
    <2> QED
      BY <2>1, <2>2 DEF QualityKnown, Clear, RedIsHeld
  <1>4. CASE Escalate \/ PassOver
    <2>1. /\ sweep.pc = "visit" /\ sweep'.pc = "visit"
          /\ sweep'.triggered = sweep.triggered /\ sweep'.under = sweep.under
          /\ UNCHANGED <<resets, proposals>>
      BY <1>4, AdvancedTyped DEF Escalate, PassOver, Visiting, At, Typed, SweepType, quality, work
    <2> QED
      BY <1>1, <2>1
  <1>5. CASE CheckBudget
    <2>1. /\ sweep.pc = "visit" /\ sweep'.pc \in {"visit", "draft"}
          /\ sweep'.triggered = sweep.triggered /\ sweep'.under = sweep.under
          /\ UNCHANGED <<resets, proposals>>
      BY <1>5 DEF CheckBudget, Visiting, At, Typed, SweepType, quality, work
    <2> QED
      BY <1>1, <2>1
  <1>6. CASE Draft
    <2>1. sweep.pc = "draft" /\ UNCHANGED <<resets, proposals>>
      BY <1>6 DEF Draft, At, quality, work
    <2>2. \/ sweep' = [sweep EXCEPT !.pc = "contact"] /\ ActionFor(Here) = "draft_customer_outreach"
          \/ sweep' = [sweep EXCEPT !.pc = "propose"] /\ ActionFor(Here) = "content_route"
          \/ sweep' = WithItem(0)
      BY <1>6 DEF Draft
    <2>3. /\ sweep'.triggered = sweep.triggered /\ sweep'.under = sweep.under
          /\ sweep'.pc \in {"contact", "propose"} => ~ sweep.triggered
      <3>1. CASE sweep' = WithItem(0)
        BY <3>1, WithItemTyped DEF Typed
      <3>2. CASE sweep' # WithItem(0)
        <4>1. ~ sweep.triggered
          BY <2>2, <3>2, ActionIsNamed
        <4> QED
          BY <2>2, <3>2, <4>1 DEF Typed, SweepType
      <3> QED
        BY <3>1, <3>2
    <2> QED
      BY <1>1, <2>1, <2>3
  <1>7. CASE RecordContact
    <2>1. /\ sweep.pc = "contact" /\ sweep'.pc = "propose"
          /\ sweep'.triggered = sweep.triggered /\ sweep'.under = sweep.under
          /\ UNCHANGED <<resets, proposals>>
      BY <1>7 DEF RecordContact, At, Typed, SweepType, quality
    <2>2. ~ sweep.triggered
      BY <2>1 DEF QualityKnown
    <2> QED
      BY <1>1, <2>1, <2>2
  <1>8. CASE Propose
    <2>1. /\ sweep.pc = "propose" /\ UNCHANGED resets /\ proposals' = Append(proposals, Proposal)
          /\ Len(proposals) \in Nat /\ DOMAIN proposals = 1..Len(proposals)
      BY <1>8 DEF Propose, At, quality, Typed
    <2>2. Clear(sweep.under)
      BY <2>1 DEF QualityKnown
    <2>3. sweep'.pc = "visit" /\ sweep'.triggered = sweep.triggered /\ sweep'.under = sweep.under
      BY <1>8, <2>1, WithItemTyped DEF Propose, Typed
    <2>4. \A p \in DOMAIN proposals' :
              proposals'[p] = Proposal \/ (p \in DOMAIN proposals /\ proposals'[p] = proposals[p])
      BY <2>1, AppendProperties DEF Typed
    <2>5. Proposal.under = sweep.under
      BY DEF Proposal
    <2> QED
      BY <2>1, <2>2, <2>3, <2>4, <2>5 DEF QualityKnown, RedIsHeld, Clear
  <1>9. CASE GateRaises \/ Return \/ Restart
    <2>1. sweep'.pc = "idle" /\ UNCHANGED <<resets, proposals>>
      BY <1>9 DEF GateRaises, Return, Restart, NoSweep, quality, work
    <2> QED
      BY <1>1, <2>1
  <1> QED
    BY <1>2, <1>3, <1>4, <1>5, <1>6, <1>7, <1>8, <1>9 DEF Next

-----------------------------------------------------------------------------
(* Results.  Visiting an account moves Before and Found on by that account.*)
LEMMA BeforeMoves ==
    ASSUME NEW book \in Seq(Facts), NEW i \in 1..Len(book), NEW res
    PROVE  /\ book[i].resolution = res =>
                  Before(book, i + 1, res) = Before(book, i, res) \union {i}
           /\ book[i].resolution # res => Before(book, i + 1, res) = Before(book, i, res)
           /\ book[i].resolution = "exactly_one" /\ book[i].complete =>
                  Found(book, i + 1) = Found(book, i) \union {i}
           /\ ~ (book[i].resolution = "exactly_one" /\ book[i].complete) =>
                  Found(book, i + 1) = Found(book, i)
           /\ i \notin Found(book, i)
  <1>1. i \in DOMAIN book /\ DOMAIN book \subseteq Nat /\ \A j \in DOMAIN book : j < i + 1 <=> j < i \/ j = i
    OBVIOUS
  <1> QED
    BY <1>1 DEF Before, Found


(* Items stay true when other sweeps propose. *)
Grown(n) ==
    /\ DOMAIN proposals \subseteq DOMAIN proposals'
    /\ \A p \in DOMAIN proposals : proposals'[p] = proposals[p]
    /\ \A p \in DOMAIN proposals' \ DOMAIN proposals : proposals'[p].sweep # n

LEMMA ItemsStay ==
    ASSUME NEW n, NEW book, NEW upto, NEW items, ItemsDone(n, book, upto, items), Grown(n)
    PROVE  ItemsDone(n, book, upto, items)'
  <1>1. {p \in DOMAIN proposals' : proposals'[p].sweep = n} = {p \in DOMAIN proposals : proposals[p].sweep = n}
    BY DEF Grown
  <1>2. {x.proposal : x \in items} \ {0} = {p \in DOMAIN proposals : proposals[p].sweep = n}
    BY DEF ItemsDone
  <1>3. \A x \in items : x.proposal # 0 => x.proposal \in DOMAIN proposals
    BY <1>2
  <1>4. \A x \in items : x.proposal # 0 => proposals'[x.proposal].account = x.account
    BY <1>3 DEF ItemsDone, Grown
  <1> QED
    BY <1>1, <1>2, <1>4 DEF ItemsDone, Found, Before

LEMMA ResultStays ==
    ASSUME NEW r, ResultOK(r), Typed, begun' \in Nat, begun <= begun', r.n \in Nat,
           sweep'.pc # "idle" => sweep.pc # "idle" \/ begun < begun',
           Grown(r.n)
    PROVE  ResultOK(r)'
  <1>1. ItemsDone(r.n, r.book, Len(r.book) + 1, r.items)'
    BY ItemsStay DEF ResultOK
  <1>2. EscalationsDone(r.book, Len(r.book) + 1, r.escalations)'
    BY DEF ResultOK, EscalationsDone, Before, Group
  <1>3. r.n <= begun' /\ (sweep'.pc # "idle" => r.n < begun')
    BY DEF ResultOK, Typed
  <1> QED
    BY <1>1, <1>2, <1>3 DEF ResultOK

(* A step that makes no proposal and returns no result. *)
LEMMA QuietWork ==
    ASSUME Typed, WorkKnown, Typed', UNCHANGED <<proposals, results>>, contacts \subseteq contacts',
           begun <= begun',
           sweep'.pc # "idle" => sweep.pc # "idle" \/ begun < begun',
           sweep'.pc # "idle" =>
               /\ sweep'.n = begun' /\ sweep'.i <= Len(sweep'.book) + 1
               /\ ItemsDone(sweep.n, sweep.book, sweep.i, sweep.items)'
               /\ EscalationsDone(sweep.book, sweep.i, sweep.escalations)',
           sweep'.pc = "propose" /\ ActionFor(Here)' = "draft_customer_outreach" => sweep'.i \in contacts'
    PROVE  WorkKnown'
  <1>1. \A p \in DOMAIN proposals' : proposals'[p].sweep <= begun'
    <2>1. \A p \in DOMAIN proposals : proposals[p].sweep \in Nat /\ proposals[p].sweep <= begun
      <3> SUFFICES ASSUME NEW p \in DOMAIN proposals PROVE proposals[p].sweep \in Nat
        BY DEF WorkKnown
      <3>1. proposals \in Seq(ProposalType) /\ p \in 1..Len(proposals)
        BY DEF Typed
      <3>2. proposals[p] \in ProposalType
        BY <3>1, ElementOfSeq
      <3> QED
        BY <3>2 DEF ProposalType
    <2> QED
      BY <2>1 DEF Typed
  <1>2. \A k \in DOMAIN results' : ResultOK(results[k])'
    <2> SUFFICES ASSUME NEW k \in DOMAIN results PROVE ResultOK(results[k])'
      OBVIOUS
    <2>1. PICK r : r = results[k]
      OBVIOUS
    <2>2. r.n \in Nat /\ ResultOK(r)
      <3>1. results \in Seq(Result) /\ k \in 1..Len(results) /\ ResultOK(results[k])
        BY DEF WorkKnown
      <3>2. results[k] \in Result
        BY <3>1, ElementOfSeq
      <3> QED
        BY <2>1, <3>1, <3>2 DEF Result
    <2>3. Grown(r.n)
      BY DEF Grown
    <2>4. ResultOK(r)'
      BY <2>2, <2>3, ResultStays DEF Typed
    <2> QED
      BY <2>1, <2>4
  <1>3. ContactsKnown'
    BY DEF WorkKnown, ContactsKnown
  <1>4. results' \in Seq(Result)
    BY DEF WorkKnown
  <1> QED
    BY <1>1, <1>2, <1>3, <1>4 DEF WorkKnown

(* The sweep itself, as it was. *)
LEMMA SweepStays ==
    ASSUME UNCHANGED <<proposals, sweep.n, sweep.book, sweep.i, sweep.items, sweep.escalations>>,
           ItemsDone(sweep.n, sweep.book, sweep.i, sweep.items),
           EscalationsDone(sweep.book, sweep.i, sweep.escalations)
    PROVE  /\ ItemsDone(sweep.n, sweep.book, sweep.i, sweep.items)'
           /\ EscalationsDone(sweep.book, sweep.i, sweep.escalations)'
  BY DEF ItemsDone, EscalationsDone, Before, Found, Group

(* An account that is no item and no escalation of its own. *)
LEMMA PassesOver ==
    ASSUME Typed, WorkKnown, UNCHANGED <<proposals, sweep.n, sweep.book, sweep.items>>,
           sweep.pc # "idle", sweep.i \in 1..Len(sweep.book), sweep'.i = sweep.i + 1,
           ~ (Here.resolution = "exactly_one" /\ Here.complete)
    PROVE  ItemsDone(sweep.n, sweep.book, sweep.i, sweep.items)'
  <1>1. PICK i, book : i = sweep.i /\ book = sweep.book
    OBVIOUS
  <1>2. book \in Seq(Facts) /\ i \in 1..Len(book)
    BY <1>1 DEF Typed, SweepType
  <1>3. Found(book, i + 1) = Found(book, i)
    BY <1>1, <1>2, BeforeMoves DEF Here
  <1>4. ItemsDone(sweep.n, book, i, sweep.items)
    BY <1>1 DEF WorkKnown
  <1>5. sweep'.i = i + 1 /\ sweep'.book = book
    BY <1>1
  <1>6. Found(sweep.book, sweep.i)' = Found(book, i + 1)
    BY <1>5 DEF Found, Before
  <1> QED
    BY <1>3, <1>4, <1>6 DEF ItemsDone

LEMMA EscalatesNone ==
    ASSUME Typed, WorkKnown, UNCHANGED <<sweep.book, sweep.escalations>>,
           sweep.pc # "idle", sweep.i \in 1..Len(sweep.book), sweep'.i = sweep.i + 1,
           Here.resolution # "ambiguous"
    PROVE  EscalationsDone(sweep.book, sweep.i, sweep.escalations)'
  <1>1. PICK i, book : i = sweep.i /\ book = sweep.book
    OBVIOUS
  <1>2. book \in Seq(Facts) /\ i \in 1..Len(book)
    BY <1>1 DEF Typed, SweepType
  <1>3. Before(book, i + 1, "ambiguous") = Before(book, i, "ambiguous")
    BY <1>1, <1>2, BeforeMoves DEF Here
  <1>4. EscalationsDone(book, i, sweep.escalations)
    BY <1>1 DEF WorkKnown
  <1>5. sweep'.i = i + 1 /\ sweep'.book = book
    BY <1>1
  <1> QED
    BY <1>3, <1>4, <1>5 DEF EscalationsDone, Before, Group

(* A set of candidates is escalated once. *)
LEMMA Escalates ==
    ASSUME Typed, WorkKnown, Escalate
    PROVE  EscalationsDone(sweep.book, sweep.i, sweep.escalations)'
  <1>1. PICK i, book, esc : i = sweep.i /\ book = sweep.book /\ esc = sweep.escalations
    OBVIOUS
  <1>2. /\ book \in Seq(Facts) /\ i \in 1..Len(book) /\ esc \in Seq(SUBSET Nat)
        /\ book[i].resolution = "ambiguous" /\ sweep.pc # "idle"
    BY <1>1 DEF Typed, SweepType, Escalate, Visiting, At
  <1>3. Before(book, i + 1, "ambiguous") = Before(book, i, "ambiguous") \union {i}
    BY <1>2, BeforeMoves
  <1>4. EscalationsDone(book, i, esc)
    BY <1>1, <1>2 DEF WorkKnown
  <1> DEFINE group == Group(book, i)
             after == IF Contains(esc, group) THEN esc ELSE Append(esc, group)
  <1>5. group \in SUBSET Nat /\ esc \in Seq(SUBSET Nat)
    BY <1>2, GroupTyped
  <1>6. sweep'.i = i + 1 /\ sweep'.book = book /\ sweep'.escalations = after
    <2>1. sweep' = [Advanced EXCEPT !.escalations = after]
      BY <1>1, AdvancedTyped DEF Escalate, AlreadyEscalated, Typed
    <2> HIDE DEF after
    <2> QED
      BY <1>1, <2>1, AdvancedTyped DEF SweepType, Typed
  <1> HIDE DEF group
  <1>7. IsInjective(after) /\ Range(after) = Range(esc) \union {group}
    <2>1. CASE Contains(esc, group)
      BY <1>4, <1>5, <2>1 DEF Contains, Range, EscalationsDone
    <2>2. CASE ~ Contains(esc, group)
      <3>1. after = Append(esc, group)
        BY <2>2
      <3>2. /\ DOMAIN after = 1..(Len(esc) + 1) /\ after[Len(esc) + 1] = group
            /\ \A j \in 1..Len(esc) : after[j] = esc[j]
            /\ DOMAIN esc = 1..Len(esc) /\ Len(esc) \in Nat
        BY <1>5, <3>1, AppendProperties
      <3>3. \A j \in 1..Len(esc) : esc[j] # group
        BY <2>2 DEF Contains
      <3> HIDE DEF after
      <3>4. IsInjective(after)
        <4> SUFFICES ASSUME NEW a \in DOMAIN after, NEW b \in DOMAIN after, after[a] = after[b]
                     PROVE  a = b
          BY DEF IsInjective
        <4>1. CASE a \in 1..Len(esc) /\ b \in 1..Len(esc)
          BY <1>4, <3>2, <4>1 DEF EscalationsDone, IsInjective
        <4>2. CASE ~ (a \in 1..Len(esc) /\ b \in 1..Len(esc))
          BY <3>2, <3>3, <4>2
        <4> QED
          BY <4>1, <4>2
      <3>5. Range(after) = Range(esc) \union {group}
        <4>1. DOMAIN after = (1..Len(esc)) \union {Len(esc) + 1}
          BY <3>2
        <4> QED
          BY <3>2, <4>1 DEF Range
      <3> QED
        BY <3>4, <3>5
    <2> QED
      BY <2>1, <2>2
  <1> HIDE DEF after
  <1>8. {Group(book, j) : j \in Before(book, i + 1, "ambiguous")} =
            {Group(book, j) : j \in Before(book, i, "ambiguous")} \union {group}
    BY <1>3 DEF group
  <1>9. IsInjective(after) /\ Range(after) = {Group(book, j) : j \in Before(book, i + 1, "ambiguous")}
    BY <1>4, <1>7, <1>8 DEF EscalationsDone
  <1> QED
    BY <1>6, <1>9 DEF EscalationsDone, Before, Group

(* An account's item carries its proposal, or none. *)
LEMMA AddsItem ==
    ASSUME Typed, WorkKnown, sweep.pc \in {"draft", "propose"}, NEW p, sweep' = WithItem(p),
           \/ p = 0 /\ UNCHANGED proposals
           \/ p = Len(proposals) + 1 /\ proposals' = Append(proposals, Proposal)
    PROVE  ItemsDone(sweep.n, sweep.book, sweep.i, sweep.items)'
  <1>1. PICK n, i, book, items :
            n = sweep.n /\ i = sweep.i /\ book = sweep.book /\ items = sweep.items
    OBVIOUS
  <1>2. /\ book \in Seq(Facts) /\ i \in 1..Len(book) /\ n \in Nat
        /\ book[i].resolution = "exactly_one" /\ book[i].complete
        /\ proposals \in Seq(ProposalType) /\ Len(proposals) \in Nat
        /\ DOMAIN proposals = 1..Len(proposals) /\ p \in Nat
    BY <1>1 DEF Typed, SweepType, Here
  <1>3. ItemsDone(n, book, i, items)
    BY <1>1 DEF WorkKnown
  <1> DEFINE x == [account |-> i, proposal |-> p]
  <1>4. sweep'.n = n /\ sweep'.i = i + 1 /\ sweep'.book = book /\ sweep'.items = items \union {x}
    BY <1>1, <1>2, WithItemTyped DEF Typed
  <1>5. Found(book, i + 1) = Found(book, i) \union {i} /\ i \notin Found(book, i)
    BY <1>2, BeforeMoves
  <1>6. \A y \in items : y.account # i
    BY <1>3, <1>5 DEF ItemsDone
  <1>7. /\ {q \in DOMAIN proposals' : proposals'[q].sweep = n} =
               {q \in DOMAIN proposals : proposals[q].sweep = n} \union ({p} \ {0})
        /\ \A q \in DOMAIN proposals : proposals'[q] = proposals[q]
        /\ p # 0 => proposals'[p].account = i
    <2>1. CASE p = 0 /\ UNCHANGED proposals
      BY <2>1
    <2>2. CASE p = Len(proposals) + 1 /\ proposals' = Append(proposals, Proposal)
      <3>1. Proposal.sweep = n /\ Proposal.account = i /\ Proposal \in ProposalType
        BY <1>1, ActionIsNamed DEF Proposal, ProposalType, Typed, SweepType
      <3>2. /\ DOMAIN proposals' = DOMAIN proposals \union {p} /\ p # 0
            /\ proposals'[p] = Proposal
            /\ \A q \in DOMAIN proposals : proposals'[q] = proposals[q]
        BY <1>2, <2>2, <3>1, AppendProperties
      <3> QED
        BY <3>1, <3>2
    <2> QED
      BY <2>1, <2>2
  <1>8. x.account = i /\ x.proposal = p
    OBVIOUS
  <1> DEFINE more == items \union {x}
  <1> HIDE DEF x
  <1>9. {y.proposal : y \in more} = {y.proposal : y \in items} \union {p}
        /\ {y.account : y \in more} = {y.account : y \in items} \union {i}
    BY <1>8
  <1>10. \A y \in items : y.proposal # 0 => y.proposal \in DOMAIN proposals
    BY <1>3 DEF ItemsDone
  <1>11. /\ {y.proposal : y \in more} \ {0} = {q \in DOMAIN proposals' : proposals'[q].sweep = n}
         /\ {y.account : y \in more} = Found(book, i + 1)
    BY <1>3, <1>5, <1>7, <1>9 DEF ItemsDone
  <1>12. \A y \in more : y.proposal # 0 => proposals'[y.proposal].account = y.account
    BY <1>3, <1>7, <1>8, <1>10 DEF ItemsDone
  <1>13. \A y, z \in more : y.account = z.account => y = z
    BY <1>3, <1>6, <1>8 DEF ItemsDone
  <1>14. sweep'.items = more
    BY <1>4
  <1> HIDE DEF more
  <1> QED
    BY <1>4, <1>11, <1>12, <1>13, <1>14 DEF ItemsDone, Found, Before

LEMMA InitWorks == Init => WorkKnown
  BY DEF Init, NoSweep, WorkKnown, ContactsKnown

LEMMA StartWorks ==
    ASSUME Typed, WorkKnown, Typed', NEW b \in Books, Start(b)
    PROVE  WorkKnown'
  <1>1. PICK book : book = b
    OBVIOUS
  <1>2. /\ sweep' = Begun(b) /\ begun' = begun + 1 /\ sweep.pc = "idle"
        /\ UNCHANGED <<contacts, proposals, results>>
    BY DEF Start, Begun, work
  <1>3. /\ sweep'.pc = "visit" /\ sweep'.n = begun + 1 /\ sweep'.book = book /\ sweep'.i = 1
        /\ sweep'.items = {} /\ sweep'.escalations = <<>>
    BY <1>1, <1>2, BegunTyped
  <1>4. book \in Seq(Facts) /\ Len(book) \in Nat
    BY <1>1, BooksAssumption
  <1>5. Before(book, 1, "ambiguous") = {} /\ Found(book, 1) = {}
    BY <1>4 DEF Before, Found
  <1>6. {p \in DOMAIN proposals : proposals[p].sweep = begun + 1} = {}
    BY DEF WorkKnown, Typed
  <1>7. ItemsDone(sweep.n, sweep.book, sweep.i, sweep.items)'
    BY <1>2, <1>3, <1>5, <1>6 DEF ItemsDone, Found, Before
  <1>8. EscalationsDone(sweep.book, sweep.i, sweep.escalations)'
    BY <1>3, <1>5 DEF EscalationsDone, Before, Group, IsInjective, Range
  <1>9. begun <= begun' /\ begun < begun'
    BY <1>2 DEF Typed
  <1> QED
    BY <1>2, <1>3, <1>4, <1>7, <1>8, <1>9, QuietWork

LEMMA VisitWorks ==
    ASSUME Typed, WorkKnown, Typed', Escalate \/ PassOver \/ CheckBudget
    PROVE  WorkKnown'
  <1>1. /\ sweep.pc = "visit" /\ sweep.i \in 1..Len(sweep.book) /\ Len(sweep.book) \in Nat
        /\ UNCHANGED <<begun, contacts, proposals, results>>
    <2>1. sweep.pc = "visit" /\ sweep.i <= Len(sweep.book)
      BY DEF Escalate, PassOver, CheckBudget, Visiting, At
    <2>2. sweep.i \in Nat \ {0} /\ Len(sweep.book) \in Nat
      BY DEF Typed, SweepType
    <2>3. UNCHANGED <<begun, contacts, proposals, results>>
      BY DEF Escalate, PassOver, CheckBudget, work
    <2> QED
      BY <2>1, <2>2, <2>3
  <1>2. /\ sweep.n = begun
        /\ ItemsDone(sweep.n, sweep.book, sweep.i, sweep.items)
        /\ EscalationsDone(sweep.book, sweep.i, sweep.escalations)
    BY <1>1 DEF WorkKnown
  <1>3. begun <= begun'
    BY <1>1 DEF Typed
  <1>4. CASE Escalate
    <2>1. /\ sweep'.pc = "visit" /\ sweep'.i = sweep.i + 1
          /\ UNCHANGED <<sweep.n, sweep.book, sweep.items>>
      BY <1>4, AdvancedTyped DEF Escalate, Typed, SweepType
    <2>2. ItemsDone(sweep.n, sweep.book, sweep.i, sweep.items)'
      BY <1>1, <1>4, <2>1, PassesOver DEF Escalate, Visiting, Here
    <2>3. EscalationsDone(sweep.book, sweep.i, sweep.escalations)'
      BY <1>4, Escalates
    <2> QED
      BY <1>1, <1>2, <1>3, <2>1, <2>2, <2>3, QuietWork
  <1>5. CASE PassOver \/ (CheckBudget /\ ~ Here.complete)
    <2>1. /\ sweep'.pc = "visit" /\ sweep'.i = sweep.i + 1
          /\ UNCHANGED <<sweep.n, sweep.book, sweep.items, sweep.escalations>>
      <3>1. CASE PassOver
        BY <3>1, AdvancedTyped DEF PassOver, Typed
      <3>2. CASE CheckBudget /\ ~ Here.complete
        <4> DEFINE checked == [sweep EXCEPT !.exceeded = @ \/ WouldExceed]
                   j == checked.i + 1
        <4>1. sweep' = [checked EXCEPT !.i = j]
          BY <3>2 DEF CheckBudget
        <4>2. /\ checked \in SweepType /\ checked.pc = "visit" /\ j = sweep.i + 1
              /\ checked.n = sweep.n /\ checked.book = sweep.book /\ checked.items = sweep.items
              /\ checked.escalations = sweep.escalations
          BY <1>1 DEF Typed, SweepType
        <4> HIDE DEF checked, j
        <4> QED
          BY <4>1, <4>2 DEF SweepType
      <3> QED
        BY <1>5, <3>1, <3>2
    <2>2. ~ (Here.resolution = "exactly_one" /\ Here.complete) /\ Here.resolution # "ambiguous"
      BY <1>5 DEF PassOver, CheckBudget, Visiting, Here
    <2>3. /\ ItemsDone(sweep.n, sweep.book, sweep.i, sweep.items)'
          /\ EscalationsDone(sweep.book, sweep.i, sweep.escalations)'
      BY <1>1, <2>1, <2>2, PassesOver, EscalatesNone
    <2> QED
      BY <1>1, <1>2, <1>3, <2>1, <2>3, QuietWork
  <1>6. CASE CheckBudget /\ Here.complete
    <2>1. /\ sweep'.pc = "draft"
          /\ UNCHANGED <<sweep.n, sweep.i, sweep.book, sweep.items, sweep.escalations>>
      BY <1>6 DEF CheckBudget, Typed, SweepType
    <2>2. /\ ItemsDone(sweep.n, sweep.book, sweep.i, sweep.items)'
          /\ EscalationsDone(sweep.book, sweep.i, sweep.escalations)'
      BY <1>1, <1>2, <2>1, SweepStays
    <2> QED
      BY <1>1, <1>2, <1>3, <2>1, <2>2, QuietWork
  <1> QED
    BY <1>4, <1>5, <1>6

LEMMA DraftWorks ==
    ASSUME Typed, WorkKnown, Typed', Draft
    PROVE  WorkKnown'
  <1>1. /\ sweep.pc = "draft" /\ sweep.i \in 1..Len(sweep.book) /\ Len(sweep.book) \in Nat
        /\ Here.resolution = "exactly_one"
        /\ UNCHANGED <<begun, contacts, proposals, results>>
    BY DEF Draft, At, Typed, SweepType, work
  <1>2. /\ sweep.n = begun
        /\ ItemsDone(sweep.n, sweep.book, sweep.i, sweep.items)
        /\ EscalationsDone(sweep.book, sweep.i, sweep.escalations)
    BY <1>1 DEF WorkKnown
  <1>3. begun <= begun'
    BY <1>1 DEF Typed
  <1>4. CASE sweep' = WithItem(0)
    <2>1. /\ sweep'.pc = "visit" /\ sweep'.i = sweep.i + 1
          /\ UNCHANGED <<sweep.n, sweep.book, sweep.escalations>>
      BY <1>4, WithItemTyped DEF Typed
    <2>2. ItemsDone(sweep.n, sweep.book, sweep.i, sweep.items)'
      BY <1>1, <1>4, AddsItem
    <2>3. EscalationsDone(sweep.book, sweep.i, sweep.escalations)'
      BY <1>1, <2>1, EscalatesNone
    <2> QED
      BY <1>1, <1>2, <1>3, <2>1, <2>2, <2>3, QuietWork
  <1>5. CASE \/ sweep' = [sweep EXCEPT !.pc = "contact"]
             \/ sweep' = [sweep EXCEPT !.pc = "propose"] /\ ActionFor(Here) = "content_route"
    <2>1. /\ sweep'.pc \in {"contact", "propose"}
          /\ UNCHANGED <<sweep.n, sweep.i, sweep.book, sweep.items, sweep.escalations, sweep.triggered>>
      BY <1>5 DEF Typed, SweepType
    <2>2. /\ ItemsDone(sweep.n, sweep.book, sweep.i, sweep.items)'
          /\ EscalationsDone(sweep.book, sweep.i, sweep.escalations)'
      BY <1>1, <1>2, <2>1, SweepStays
    <2>3. ActionFor(Here)' = ActionFor(Here)
      BY <2>1 DEF ActionFor, Here, Blocked
    <2>4. sweep'.pc = "propose" => ActionFor(Here)' # "draft_customer_outreach"
      BY <1>5, <2>3 DEF Typed, SweepType
    <2> QED
      BY <1>1, <1>2, <1>3, <2>1, <2>2, <2>4, QuietWork
  <1> QED
    BY <1>4, <1>5 DEF Draft

LEMMA ContactWorks ==
    ASSUME Typed, WorkKnown, Typed', RecordContact
    PROVE  WorkKnown'
  <1>1. /\ sweep.pc = "contact" /\ sweep.i \in 1..Len(sweep.book) /\ Len(sweep.book) \in Nat
        /\ contacts' = contacts \union {sweep.i}
        /\ UNCHANGED <<begun, proposals, results>>
    BY DEF RecordContact, At, Typed, SweepType
  <1>2. /\ sweep.n = begun
        /\ ItemsDone(sweep.n, sweep.book, sweep.i, sweep.items)
        /\ EscalationsDone(sweep.book, sweep.i, sweep.escalations)
    BY <1>1 DEF WorkKnown
  <1>3. UNCHANGED <<sweep.n, sweep.i, sweep.book, sweep.items, sweep.escalations>>
    BY DEF RecordContact, Typed, SweepType
  <1>4. /\ ItemsDone(sweep.n, sweep.book, sweep.i, sweep.items)'
        /\ EscalationsDone(sweep.book, sweep.i, sweep.escalations)'
    BY <1>1, <1>2, <1>3, SweepStays
  <1>5. begun <= begun'
    BY <1>1 DEF Typed
  <1> QED
    BY <1>1, <1>2, <1>3, <1>4, <1>5, QuietWork

LEMMA ProposeWorks ==
    ASSUME Typed, WorkKnown, Typed', Propose
    PROVE  WorkKnown'
  <1> DEFINE p == Len(proposals) + 1
  <1>1. /\ sweep.pc = "propose" /\ sweep.i \in 1..Len(sweep.book) /\ Len(sweep.book) \in Nat
        /\ Here.resolution = "exactly_one"
        /\ proposals' = Append(proposals, Proposal) /\ sweep' = WithItem(p)
        /\ UNCHANGED <<begun, contacts, results>>
    BY DEF Propose, At, Typed, SweepType, work
  <1>2. /\ sweep.n = begun /\ begun \in Nat /\ p \in Nat
        /\ sweep.pc = "propose" /\ ActionFor(Here) = "draft_customer_outreach" => sweep.i \in contacts
    BY <1>1 DEF WorkKnown, Typed
  <1>3. /\ sweep'.pc = "visit" /\ sweep'.i = sweep.i + 1
        /\ UNCHANGED <<sweep.n, sweep.book, sweep.escalations>>
    BY <1>1, <1>2, WithItemTyped DEF Typed
  <1>4. ItemsDone(sweep.n, sweep.book, sweep.i, sweep.items)'
    BY <1>1, AddsItem
  <1>5. EscalationsDone(sweep.book, sweep.i, sweep.escalations)'
    BY <1>1, <1>3, EscalatesNone
  <1>6. /\ Proposal.sweep = begun /\ Proposal.account = sweep.i /\ Proposal.action = ActionFor(Here)
        /\ Proposal \in ProposalType
    BY <1>2, ActionIsNamed DEF Proposal, ProposalType, Typed, SweepType
  <1>7. /\ DOMAIN proposals' = DOMAIN proposals \union {p} /\ proposals'[p] = Proposal
        /\ \A q \in DOMAIN proposals : proposals'[q] = proposals[q]
    BY <1>1, <1>6, AppendProperties DEF Typed
  <1> HIDE DEF p
  <1>8. \A q \in DOMAIN proposals' : proposals'[q].sweep <= begun'
    BY <1>1, <1>2, <1>6, <1>7 DEF WorkKnown
  <1>9. ContactsKnown'
    BY <1>1, <1>2, <1>6, <1>7 DEF WorkKnown, ContactsKnown
  <1>10. \A k \in DOMAIN results' : ResultOK(results[k])'
    <2> SUFFICES ASSUME NEW k \in DOMAIN results PROVE ResultOK(results[k])'
      BY <1>1
    <2>1. PICK r : r = results[k]
      OBVIOUS
    <2>2. r.n \in Nat /\ ResultOK(r)
      <3>1. results \in Seq(Result) /\ k \in 1..Len(results) /\ ResultOK(results[k])
        BY DEF WorkKnown
      <3>2. results[k] \in Result
        BY <3>1, ElementOfSeq
      <3> QED
        BY <2>1, <3>1, <3>2 DEF Result
    <2>3. r.n < begun
      BY <1>1, <2>2 DEF ResultOK
    <2>4. Grown(r.n)
      BY <1>2, <1>6, <1>7, <2>2, <2>3 DEF Grown
    <2>5. ResultOK(r)'
      BY <1>1, <1>2, <2>2, <2>4, ResultStays
    <2> QED
      BY <1>1, <2>1, <2>5
  <1>11. results' \in Seq(Result)
    BY <1>1 DEF WorkKnown
  <1> QED
    BY <1>1, <1>2, <1>3, <1>4, <1>5, <1>8, <1>9, <1>10, <1>11 DEF WorkKnown

LEMMA ReturnWorks ==
    ASSUME Typed, WorkKnown, Typed', Return
    PROVE  WorkKnown'
  <1>1. PICK r : r = [n |-> sweep.n, book |-> sweep.book, items |-> sweep.items,
                      escalations |-> sweep.escalations]
    OBVIOUS
  <1>2. /\ r \in Result /\ r.n = sweep.n /\ r.book = sweep.book /\ r.items = sweep.items
        /\ r.escalations = sweep.escalations
    BY <1>1 DEF Typed, SweepType, Result
  <1>3. /\ sweep.pc = "visit" /\ sweep.i > Len(sweep.book) /\ sweep'.pc = "idle"
        /\ results' = Append(results, r)
        /\ UNCHANGED <<begun, contacts, proposals>>
    BY <1>1 DEF Return, At, NoSweep
  <1>4. sweep.i = Len(r.book) + 1
    <2>1. sweep.i \in Nat /\ Len(sweep.book) \in Nat /\ sweep.i <= Len(sweep.book) + 1
      BY <1>3 DEF WorkKnown, Typed, SweepType
    <2> QED
      BY <1>2, <1>3, <2>1
  <1>5. /\ ItemsDone(r.n, r.book, Len(r.book) + 1, r.items)
        /\ EscalationsDone(r.book, Len(r.book) + 1, r.escalations) /\ r.n = begun
    BY <1>2, <1>3, <1>4 DEF WorkKnown
  <1>6. ResultOK(r)'
    <2>1. ItemsDone(r.n, r.book, Len(r.book) + 1, r.items)'
      BY <1>3, <1>5, ItemsStay DEF Grown
    <2>2. EscalationsDone(r.book, Len(r.book) + 1, r.escalations)'
      BY <1>5 DEF EscalationsDone, Before, Group
    <2> QED
      BY <1>3, <1>5, <2>1, <2>2 DEF ResultOK, Typed
  <1>7. /\ results \in Seq(Result) /\ results' \in Seq(Result)
        /\ \A k \in DOMAIN results' :
               results'[k] = r \/ (k \in DOMAIN results /\ results'[k] = results[k])
    BY <1>2, <1>3, AppendProperties DEF WorkKnown
  <1>8. \A k \in DOMAIN results' : ResultOK(results[k])'
    <2> SUFFICES ASSUME NEW k \in DOMAIN results' PROVE ResultOK(results[k])'
      OBVIOUS
    <2>1. CASE results'[k] = r
      BY <1>6, <2>1
    <2>2. CASE k \in DOMAIN results /\ results'[k] = results[k]
      <3>1. PICK q : q = results[k]
        OBVIOUS
      <3>2. q.n \in Nat /\ ResultOK(q)
        <4>1. k \in 1..Len(results) /\ ResultOK(results[k])
          BY <1>7, <2>2 DEF WorkKnown
        <4>2. results[k] \in Result
          BY <1>7, <4>1, ElementOfSeq
        <4> QED
          BY <3>1, <4>1, <4>2 DEF Result
      <3>3. ResultOK(q)'
        BY <1>3, <3>2, ResultStays DEF Grown, Typed
      <3> QED
        BY <2>2, <3>1, <3>3
    <2> QED
      BY <1>7, <2>1, <2>2
  <1>9. ContactsKnown' /\ \A p \in DOMAIN proposals' : proposals'[p].sweep <= begun'
    BY <1>3 DEF WorkKnown, ContactsKnown
  <1> QED
    BY <1>3, <1>7, <1>8, <1>9 DEF WorkKnown

LEMMA StepWorks ==
    ASSUME Typed, WorkKnown, Typed', [Next]_vars
    PROVE  WorkKnown'
  <1>1. CASE \/ \E a \in Artifacts \union {NULL} : Publish(a)
             \/ Reset \/ ResetGlued \/ TornReset \/ UNCHANGED vars \/ Midnight
    <2>1. UNCHANGED <<sweep, begun, contacts, proposals, results>>
      BY <1>1 DEF Publish, Reset, ResetGlued, TornReset, vars, Midnight, work
    <2>2. ActionFor(Here)' = ActionFor(Here)
      BY <2>1 DEF ActionFor, Here, Blocked
    <2>3. sweep.pc # "idle" =>
              /\ ItemsDone(sweep.n, sweep.book, sweep.i, sweep.items)'
              /\ EscalationsDone(sweep.book, sweep.i, sweep.escalations)'
      BY <2>1, SweepStays DEF WorkKnown
    <2>4. /\ begun <= begun'
          /\ sweep.pc # "idle" => sweep.n = begun /\ sweep.i <= Len(sweep.book) + 1
          /\ sweep.pc = "propose" /\ ActionFor(Here) = "draft_customer_outreach" => sweep.i \in contacts
      BY <2>1 DEF WorkKnown, Typed
    <2> QED
      BY <2>1, <2>2, <2>3, <2>4, QuietWork
  <1>2. ASSUME NEW book \in Books, Start(book)
        PROVE  WorkKnown'
    BY <1>2, StartWorks
  <1>3. CASE GateRaises \/ Restart
    <2>1. sweep'.pc = "idle" /\ UNCHANGED <<begun, contacts, proposals, results>>
      BY <1>3 DEF GateRaises, Restart, NoSweep, work
    <2>2. begun <= begun'
      BY <2>1 DEF Typed
    <2> QED
      BY <2>1, <2>2, QuietWork
  <1> QED
    BY <1>1, <1>2, <1>3, VisitWorks, DraftWorks, ContactWorks, ProposeWorks, ReturnWorks DEF Next

-----------------------------------------------------------------------------
(* A sweep that has visited all its book returns what it did: its items    *)
(* and the accounts it identified are as many, one for one.                *)
LEMMA DoneMatches ==
    ASSUME NEW r \in Result, ResultOK(r)
    PROVE  ResultMatches(r)
  <1>1. r.book \in Seq(Facts) /\ Len(r.book) \in Nat /\ DOMAIN r.book = 1..Len(r.book)
    BY DEF Result
  <1>2. \A i \in DOMAIN r.book : i < Len(r.book) + 1
    BY <1>1
  <1>3. /\ Found(r.book, Len(r.book) + 1) = Identified(r)
        /\ Before(r.book, Len(r.book) + 1, "ambiguous") = Ambiguous(r)
    BY <1>2 DEF Found, Before, Identified, Ambiguous
  <1>4. /\ {x.account : x \in r.items} = Identified(r)
        /\ \A x, y \in r.items : x.account = y.account => x = y
    BY <1>3 DEF ResultOK, ItemsDone
  <1>5. Cardinality(r.items) = Cardinality(Identified(r))
    <2>1. IsFiniteSet(Identified(r))
      <3>1. IsFiniteSet(1..Len(r.book))
        <4>1. 1 \in Int /\ Len(r.book) \in Int
          BY <1>1
        <4> QED
          BY <4>1, FS_Interval, Zenon
      <3> QED
        BY <1>1, <3>1, FS_Subset DEF Identified
    <2> DEFINE f == [x \in r.items |-> x.account]
    <2>2. f \in Bijection(r.items, Identified(r))
      BY <1>4 DEF Bijection, Injection, Surjection, IsInjective
    <2>3. ExistsBijection(Identified(r), r.items)
      BY <2>2, Fun_ExistsBijSymmetric DEF ExistsBijection
    <2> QED
      BY <2>1, <2>3, FS_Bijection
  <1> QED
    BY <1>3, <1>4, <1>5 DEF ResultOK, ItemsDone, EscalationsDone, ResultMatches, MadeBy

-----------------------------------------------------------------------------
(* The inductive invariant: the types, and what a sweep has spent, may     *)
(* propose and has done.                                                   *)
IInv == Typed /\ SpendKnown /\ QualityKnown /\ WorkKnown

(* IInv holds in every reachable state (agent1/sweep.py:250).              *)
THEOREM Invariance == Spec => []IInv
  <1>1. Init => IInv
    BY InitTyped, InitSpends, InitClear, InitWorks DEF IInv
  <1>2. IInv /\ [Next]_vars => IInv'
    BY StepTyped, StepSpends, StepClears, StepWorks DEF IInv
  <1> QED
    BY <1>1, <1>2, PTL DEF Spec

(* What a sweep and a day cost stays within the budget, one call's estimate*)
(* and, for the day, one budget per restart aside, for every budget        *)
(* (cost_tracker.py:201, agent1/sweep.py:268).                             *)
THEOREM SpendingIsBounded == Spec => []SpendIsBounded
  <1>1. IInv => SpendIsBounded
    <2> SUFFICES ASSUME IInv PROVE SpendIsBounded
      OBVIOUS
    <2> DEFINE D == Within(MaxPerDay)
    <2>1. /\ spent.sweep <= Within(MaxPerSweep)
          /\ tracker.day <= D /\ spent.day <= restarts * D + tracker.day
          /\ restarts \in Nat /\ spent.day \in Nat /\ tracker.day \in Nat
      BY DEF IInv, SpendKnown, Typed
    <2>2. D \in Nat
      BY Constants
    <2> HIDE DEF D
    <2>3. (1 + restarts) * D = restarts * D + D /\ restarts * D \in Nat
      BY <2>1, <2>2
    <2>4. spent.day <= (1 + restarts) * D
      BY <2>1, <2>2, <2>3
    <2> QED
      BY <2>1, <2>4 DEF SpendIsBounded, D
  <1> QED
    BY <1>1, Invariance, PTL

(* A sweep that began under no artifact, or a red one that was not reset,  *)
(* proposes nothing to a customer (quality_breaker.py:133,                 *)
(* agent1/sweep.py:1089).                                                  *)
THEOREM RedHolds == Spec => []RedIsHeld
  <1>1. IInv => RedIsHeld
    BY DEF IInv, QualityKnown
  <1> QED
    BY <1>1, Invariance, PTL

(* A sweep returns what it did, for books of any length (agent1/sweep.py:  *)
(* 250, 1160).                                                             *)
THEOREM ResultsAreTrue == Spec => []ItemsMatchProposals
  <1>1. IInv => ItemsMatchProposals
    <2> SUFFICES ASSUME IInv PROVE ItemsMatchProposals
      OBVIOUS
    <2>1. ASSUME NEW k \in DOMAIN results PROVE ResultMatches(results[k])
      <3>1. results \in Seq(Result) /\ k \in 1..Len(results) /\ ResultOK(results[k])
        BY DEF IInv, WorkKnown
      <3>2. results[k] \in Result
        BY <3>1, ElementOfSeq
      <3> QED
        BY <3>1, <3>2, DoneMatches
    <2> QED
      BY <2>1 DEF IInv, WorkKnown, ContactsKnown, ItemsMatchProposals
  <1> QED
    BY <1>1, Invariance, PTL
=============================================================================
