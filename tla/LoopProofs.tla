----------------------------- MODULE LoopProofs -----------------------------
(***************************************************************************)
(* Proofs about the two loops that come back to earlier proposals.  First  *)
(* ReviseLoop: whatever the number of proposals and requests and the bound *)
(* on reruns, the invariant IInv holds, so no two versions of a draft are  *)
(* live at once and every chain is bounded.  Then Tick: for any days,      *)
(* accounts, rules and books, and any number of overlapping ticks, what a  *)
(* tick fires follows every row it could read.                             *)
(***************************************************************************)
EXTENDS ReviseLoop, Tick, FiniteSetTheorems, SequenceTheorems, TLAPS

LEMMA InitEstablishes == Init => IInv
  <1> SUFFICES ASSUME Init PROVE IInv
    OBVIOUS
  <1>1. TypeOK
    BY RerunsAssumption DEF Init, TypeOK, RootChain, Idle
  <1>2. Present = {} /\ rejected = {}
    BY DEF Init, Present
  <1>3. ChainsAreRooted /\ RejectedIsDenied /\ ParentsComeBefore
    BY <1>2 DEF Init, ChainsAreRooted, RejectedIsDenied, ParentsComeBefore
  <1>4. RequestsAreSound
    BY DEF Init, RequestsAreSound, Proposing, Idle
  <1>5. OneOpenPerChain /\ OpenIsLast /\ RerunsDiffer
    BY <1>2 DEF OneOpenPerChain, OpenIsLast, RerunsDiffer
  <1> QED
    BY <1>1, <1>3, <1>4, <1>5 DEF IInv

(* A new draft is alone in its chain. *)
LEMMA ProposeDraftKeeps ==
    ASSUME IInv, NEW p \in Proposals, ProposeDraft(p)
    PROVE  IInv'
  <1> USE DEF IInv
  <1>1. /\ p \notin Present /\ chain[p] = RootChain(p)
        /\ status' = [status EXCEPT ![p] = "pending"]
        /\ UNCHANGED <<chain, rejected, loop>>
    BY DEF ProposeDraft, Present, ChainsAreRooted
  <1>2. TypeOK'
    BY <1>1 DEF TypeOK
  <1>3. Present' = Present \union {p} /\ (\A q \in Present : Open(q)' <=> Open(q))
    BY <1>1 DEF Present, Live, Open, Proposing, TypeOK
  <1>4. \A q \in Present : chain[q].root # p
    BY <1>1 DEF ChainsAreRooted
  <1>5. ChainsAreRooted'
    BY <1>1, <1>3 DEF ChainsAreRooted, RootChain, TypeOK
  <1>6. RequestsAreSound'
    BY <1>1, <1>3 DEF RequestsAreSound, Proposing, WithinBound
  <1>7. RejectedIsDenied'
    BY <1>1 DEF RejectedIsDenied, TypeOK, ProposeDraft
  <1>8. OneOpenPerChain' /\ RerunsDiffer'
    BY <1>1, <1>3, <1>4 DEF OneOpenPerChain, RerunsDiffer, SameChain, RootChain
  <1>9. OpenIsLast'
    BY <1>1, <1>3, <1>4 DEF OpenIsLast, SameChain, RootChain
  <1>10. ParentsComeBefore'
    BY <1>1, <1>3 DEF ParentsComeBefore, SameChain, RootChain
  <1> QED
    BY <1>2, <1>5, <1>6, <1>7, <1>8, <1>9, <1>10

(* A step that leaves chains, rejections and presence alone and opens      *)
(* nothing keeps what the invariant says of chains.                        *)
LEMMA ChainsStay ==
    ASSUME ChainsAreRooted, OneOpenPerChain, OpenIsLast, RerunsDiffer,
           chain' = chain, Present' = Present,
           \A p \in Proposals : status'[p] = "absent" => status[p] = "absent",
           \A p \in Present : Open(p)' => Open(p)
    PROVE  ChainsAreRooted' /\ OneOpenPerChain' /\ OpenIsLast' /\ RerunsDiffer'
  BY DEF ChainsAreRooted, OneOpenPerChain, OpenIsLast, RerunsDiffer, SameChain, RootChain

LEMMA DecideKeeps ==
    ASSUME IInv, NEW p \in Proposals, NEW decision \in {"approved", "denied"},
           Decide(p, decision)
    PROVE  IInv'
  <1> USE DEF IInv
  <1>1. /\ status[p] = "pending" /\ status' = [status EXCEPT ![p] = decision]
        /\ UNCHANGED <<chain, rejected, loop>>
    BY DEF Decide
  <1>2. TypeOK'
    BY <1>1 DEF TypeOK
  <1>3. Present' = Present /\ (\A q \in Present : Open(q)' => Open(q))
    BY <1>1 DEF Present, Live, Open, Proposing, TypeOK
  <1>4. ChainsAreRooted' /\ OneOpenPerChain' /\ OpenIsLast' /\ RerunsDiffer'
    BY <1>1, <1>3, ChainsStay DEF TypeOK
  <1>5. RequestsAreSound' /\ ParentsComeBefore'
    BY <1>1, <1>3 DEF RequestsAreSound, ParentsComeBefore, Proposing, WithinBound, SameChain
  <1>6. RejectedIsDenied'
    BY <1>1 DEF RejectedIsDenied, TypeOK
  <1> QED
    BY <1>2, <1>4, <1>5, <1>6

LEMMA RequestKeeps ==
    ASSUME IInv, NEW c \in Callers, NEW p \in Proposals, NEW portable \in BOOLEAN,
           Request(c, p, portable)
    PROVE  IInv'
  <1> USE DEF IInv
  <1>1. /\ p \in Present /\ WithinBound(p) /\ loop[c].pc = "idle"
        /\ loop' = [loop EXCEPT ![c] = [pc |-> "reject", p |-> p, portable |-> portable]]
        /\ UNCHANGED <<status, chain, rejected>>
    BY DEF Request, Present
  <1>2. TypeOK'
    BY <1>1 DEF TypeOK
  <1>3. \A d \in Callers : d # c => loop'[d] = loop[d]
    BY <1>1 DEF TypeOK
  <1>4. loop'[c].pc = "reject" /\ loop'[c].p = p
    BY <1>1 DEF TypeOK
  <1>5. Present' = Present /\ (\A q \in Present : Open(q)' => Open(q))
    BY <1>1, <1>3, <1>4 DEF Present, Live, Open, Proposing
  <1>6. ChainsAreRooted' /\ OneOpenPerChain' /\ OpenIsLast' /\ RerunsDiffer'
    BY <1>1, <1>5, ChainsStay
  <1>7. RequestsAreSound'
    BY <1>1, <1>3, <1>4, <1>5 DEF RequestsAreSound, Proposing, WithinBound
  <1>8. RejectedIsDenied' /\ ParentsComeBefore'
    BY <1>1, <1>5 DEF RejectedIsDenied, ParentsComeBefore, SameChain
  <1> QED
    BY <1>2, <1>6, <1>7, <1>8

(* A request gives up, or dies. *)
LEMMA EndsKeeps ==
    ASSUME IInv, NEW c \in Callers, loop' = [loop EXCEPT ![c] = Idle],
           UNCHANGED <<status, chain, rejected>>
    PROVE  IInv'
  <1> USE DEF IInv
  <1>2. TypeOK'
    BY DEF TypeOK, Idle
  <1>3. \A d \in Callers : loop'[d] = IF d = c THEN Idle ELSE loop[d]
    BY DEF TypeOK
  <1>5. Present' = Present /\ (\A q \in Present : Open(q)' => Open(q))
    BY <1>3 DEF Present, Live, Open, Proposing, Idle
  <1>6. ChainsAreRooted' /\ OneOpenPerChain' /\ OpenIsLast' /\ RerunsDiffer'
    BY <1>5, ChainsStay
  <1>7. RequestsAreSound'
    BY <1>3, <1>5 DEF RequestsAreSound, Proposing, WithinBound, Idle
  <1>8. RejectedIsDenied' /\ ParentsComeBefore'
    BY <1>5 DEF RejectedIsDenied, ParentsComeBefore, SameChain
  <1> QED
    BY <1>2, <1>6, <1>7, <1>8

(* The rejected draft was pending, so nobody else has rejected it; it      *)
(* stays open in the hands of its request.                                 *)
LEMMA RejectKeeps ==
    ASSUME IInv, NEW c \in Callers, Reject(c)
    PROVE  IInv'
  <1> USE DEF IInv
  <1> DEFINE p == loop[c].p
  <1>1. CASE ~ Rejectable(p)
    BY <1>1, EndsKeeps DEF Reject
  <1>2. CASE Rejectable(p)
    <2>1. /\ status[p] = "pending" /\ loop[c].pc = "reject"
          /\ status' = [status EXCEPT ![p] = "denied"]
          /\ rejected' = rejected \union {p}
          /\ loop' = [loop EXCEPT ![c].pc = "propose"]
          /\ chain' = chain
      BY <1>2 DEF Reject, Rejectable
    <2>2. p \in Present /\ WithinBound(p)
      BY <2>1 DEF RequestsAreSound
    <2>3. TypeOK'
      BY <2>1, <2>2 DEF TypeOK, Present
    <2>4. \A d \in Callers : /\ d # c => loop'[d] = loop[d]
                             /\ loop'[d].p = loop[d].p
      BY <2>1 DEF TypeOK
    <2>5. loop'[c].pc = "propose"
      BY <2>1 DEF TypeOK
    <2>6. Present' = Present
      BY <2>1, <2>2 DEF Present, TypeOK
    <2>7. \A q \in Present : Open(q)' => Open(q)
      BY <2>1, <2>2, <2>4, <2>6 DEF Open, Live, Present, Proposing, TypeOK
    <2>8. ChainsAreRooted' /\ OneOpenPerChain' /\ OpenIsLast' /\ RerunsDiffer'
      BY <2>1, <2>2, <2>6, <2>7, ChainsStay DEF TypeOK
    <2>9. \A d \in Callers : Proposing(d) => loop[d].p # p
      BY <2>1 DEF RequestsAreSound, RejectedIsDenied
    <2>10. RequestsAreSound'
      BY <2>1, <2>2, <2>4, <2>5, <2>6, <2>9 DEF RequestsAreSound, Proposing, WithinBound
    <2>11. RejectedIsDenied'
      BY <2>1, <2>2 DEF RejectedIsDenied, TypeOK, Present
    <2>12. ParentsComeBefore'
      BY <2>1, <2>6 DEF ParentsComeBefore, SameChain
    <2> QED
      BY <2>3, <2>8, <2>10, <2>11, <2>12
  <1> QED
    BY <1>1, <1>2

(* The revision is the last of its chain and the only open one: its parent *)
(* was, and is closed by this step.                                        *)
LEMMA SupersedeKeeps ==
    ASSUME IInv, NEW c \in Callers, NEW q \in Proposals, Supersede(c, q)
    PROVE  IInv'
  <1> USE DEF IInv
  <1> DEFINE p == loop[c].p
  <1>1. CASE ~ loop[c].portable
    BY <1>1, EndsKeeps DEF Supersede
  <1>2. CASE loop[c].portable
    <2>1. /\ loop[c].pc = "propose" /\ status[q] = "absent"
          /\ status' = [status EXCEPT ![q] = "pending"]
          /\ chain' = [chain EXCEPT ![q] = Superseding(p)]
          /\ loop' = [loop EXCEPT ![c] = Idle]
          /\ rejected' = rejected
      BY <1>2 DEF Supersede
    <2>2. /\ p \in Present /\ WithinBound(p) /\ p \in rejected /\ status[p] = "denied"
          /\ q \notin Present /\ p # q
      BY <2>1 DEF RequestsAreSound, RejectedIsDenied, Proposing, Present
    <2>3. /\ chain[p].root \in Proposals /\ chain[p].reruns \in 0..MaxAutoReruns
          /\ chain[p].reruns < MaxAutoReruns
      BY <2>2 DEF TypeOK, Present, WithinBound
    <2>4. /\ chain'[q].root = chain[p].root /\ chain'[q].parent = p
          /\ chain'[q].reruns = chain[p].reruns + 1
          /\ \A x \in Proposals : x # q => chain'[x] = chain[x]
      BY <2>1 DEF Superseding, TypeOK
    <2>5. TypeOK'
      <3>1. Superseding(p) \in [root : Proposals, parent : Proposals \union {NULL},
                                reruns : 0..MaxAutoReruns]
        BY <2>2, <2>3, RerunsAssumption DEF Superseding, Present
      <3> QED
        BY <2>1, <3>1 DEF TypeOK, Idle
    <2>6. \A d \in Callers : loop'[d] = IF d = c THEN Idle ELSE loop[d]
      BY <2>1 DEF TypeOK
    <2>7. Present' = Present \union {q}
      BY <2>1 DEF Present, TypeOK
    <2>8. Open(p)
      BY <2>1 DEF Open, Proposing
    <2>9. \A x \in Present : Open(x)' => Open(x) /\ x # p
      <3> SUFFICES ASSUME NEW x \in Present, Open(x)' PROVE Open(x) /\ x # p
        OBVIOUS
      <3>1. x # q /\ status'[x] = status[x]
        BY <2>1, <2>2 DEF TypeOK, Present
      <3>2. CASE x \in Live'
        BY <3>1, <3>2, <2>2 DEF Open, Live
      <3>3. CASE \E d \in Callers : Proposing(d)' /\ loop'[d].p = x
        <4>1. PICK d \in Callers : Proposing(d)' /\ loop'[d].p = x
          BY <3>3
        <4>2. d # c /\ loop'[d] = loop[d]
          BY <4>1, <2>6 DEF Proposing, Idle
        <4>3. Proposing(d) /\ loop[d].p = x
          BY <4>1, <4>2 DEF Proposing
        <4>4. x # p
          BY <4>2, <4>3, <2>1 DEF RequestsAreSound, Proposing
        <4> QED
          BY <4>3, <4>4 DEF Open
      <3> QED
        BY <3>2, <3>3 DEF Open
    <2>10. \A x \in Present : Open(x)' => chain[x].root # chain[p].root
      BY <2>2, <2>8, <2>9 DEF OneOpenPerChain, SameChain
    <2>11. \A x \in Present : /\ x \in Proposals /\ x # q
                              /\ chain'[x] = chain[x]
                              /\ chain[x].reruns \in Nat
      BY <2>2, <2>4 DEF Present, TypeOK
    <2>12. \A x \in Present : chain[x].root = chain[p].root =>
                chain[x].reruns <= chain[p].reruns
      BY <2>2, <2>8 DEF OpenIsLast, SameChain
    <2>13. ChainsAreRooted'
      BY <2>1, <2>2, <2>4, <2>7, <2>11 DEF ChainsAreRooted, RootChain, TypeOK
    <2>14. RequestsAreSound'
      BY <2>1, <2>6, <2>7, <2>11 DEF RequestsAreSound, Proposing, WithinBound, Idle
    <2>15. RejectedIsDenied'
      BY <2>1 DEF RejectedIsDenied, TypeOK
    <2>16. OneOpenPerChain'
      BY <2>4, <2>7, <2>9, <2>10, <2>11 DEF OneOpenPerChain, SameChain
    <2>17. OpenIsLast'
      BY <2>3, <2>4, <2>7, <2>9, <2>10, <2>11, <2>12 DEF OpenIsLast, SameChain
    <2>18. RerunsDiffer'
      BY <2>3, <2>4, <2>7, <2>11, <2>12 DEF RerunsDiffer, SameChain
    <2>19. ParentsComeBefore'
      <3>1. \A x \in rejected : x \in Present
        BY DEF RejectedIsDenied, TypeOK, Present
      <3> QED
        BY <2>1, <2>2, <2>4, <2>7, <2>11, <3>1 DEF ParentsComeBefore, SameChain
    <2> QED
      BY <2>5, <2>13, <2>14, <2>15, <2>16, <2>17, <2>18, <2>19
  <1> QED
    BY <1>1, <1>2

LEMMA StutterKeeps == IInv /\ UNCHANGED vars => IInv'
  BY DEF IInv, vars, TypeOK, ChainsAreRooted, RequestsAreSound, RejectedIsDenied,
         OneOpenPerChain, OpenIsLast, RerunsDiffer, ParentsComeBefore, Present, Live,
         Open, Proposing, SameChain, WithinBound, RootChain

(* The strengthened invariant holds in every reachable state               *)
(* (agent1/revise.py:103-200 against any verdicts and crashes).            *)
THEOREM Invariance == Spec => []IInv
  <1>1. IInv /\ [Next]_vars => IInv'
    <2> SUFFICES ASSUME IInv, [Next]_vars PROVE IInv'
      OBVIOUS
    <2>1. ASSUME NEW p \in Proposals, ProposeDraft(p) PROVE IInv'
      BY <2>1, ProposeDraftKeeps
    <2>2. ASSUME NEW p \in Proposals, NEW decision \in {"approved", "denied"},
                 Decide(p, decision) PROVE IInv'
      BY <2>2, DecideKeeps
    <2>3. ASSUME NEW c \in Callers, NEW p \in Proposals, NEW portable \in BOOLEAN,
                 Request(c, p, portable) PROVE IInv'
      BY <2>3, RequestKeeps
    <2>4. ASSUME NEW c \in Callers, Reject(c) PROVE IInv'
      BY <2>4, RejectKeeps
    <2>5. ASSUME NEW c \in Callers, Crash(c) PROVE IInv'
      BY <2>5, EndsKeeps DEF Crash
    <2>6. ASSUME NEW c \in Callers, NEW q \in Proposals, Supersede(c, q) PROVE IInv'
      BY <2>6, SupersedeKeeps
    <2> QED
      BY <2>1, <2>2, <2>3, <2>4, <2>5, <2>6, StutterKeeps DEF Next
  <1> QED
    BY <1>1, InitEstablishes, PTL DEF Spec

(* A draft is never open or approved in two versions: what is live is      *)
(* open, and a chain has one open version (revise.py:165-183).             *)
THEOREM NeverTwoLiveVersions == Spec => []OneLivePerChain
  <1>1. IInv => OneLivePerChain
    BY DEF IInv, OneOpenPerChain, OneLivePerChain, Open, SameChain, Live, Present
  <1> QED
    BY <1>1, Invariance, PTL

(* The versions of a chain have different rerun counts, all within the     *)
(* bound, so there are not more of them than that; and two revisions of    *)
(* one draft would have the same count (revise.py:308-320).                *)
THEOREM ChainsStayBounded == Spec => []ChainsAreBounded
  <1>1. IInv => ChainsAreBounded
    <2> SUFFICES ASSUME IInv PROVE ChainsAreBounded
      OBVIOUS
    <2> USE DEF IInv
    <2>1. ASSUME NEW p \in Present, chain[p].parent # NULL
          PROVE  /\ chain[p].parent \in rejected
                 /\ \A q \in Present : chain[q].parent = chain[p].parent => p = q
      BY <2>1 DEF ParentsComeBefore, RerunsDiffer, SameChain
    <2>2. ASSUME NEW r \in Present
          PROVE  Cardinality({p \in Present : chain[p].root = r}) <= MaxAutoReruns + 1
      <3> DEFINE S == {p \in Present : chain[p].root = r}
                 f == [p \in S |-> chain[p].reruns]
      <3>1. f \in [S -> 0..MaxAutoReruns]
        BY DEF TypeOK, Present
      <3>2. \A p, q \in S : f[p] = f[q] => p = q
        BY DEF RerunsDiffer, SameChain
      <3>3. f \in Injection(S, 0..MaxAutoReruns)
        BY <3>1, <3>2 DEF Injection, IsInjective
      <3>4. /\ IsFiniteSet(0..MaxAutoReruns)
            /\ Cardinality(0..MaxAutoReruns) = MaxAutoReruns + 1
        BY FS_Interval, RerunsAssumption
      <3> HIDE DEF S, f
      <3>5. Cardinality(S) <= MaxAutoReruns + 1
        BY <3>3, <3>4, FS_Injection
      <3> QED
        BY <3>5 DEF S
    <2> QED
      BY <2>1, <2>2 DEF ChainsAreBounded
  <1> QED
    BY <1>1, Invariance, PTL

-----------------------------------------------------------------------------
(* What a tick that fires g on day to knows of an earlier fire f.          *)
Settled(f) == \A p \in f.made : ~ Pending(p)

Apart(f, from, g, to) ==
    /\ f.key # g.key
    /\ Rule[f.t].kind = "schedule" => to - from >= Rule[f.t].every
    /\ Rule[f.t].cooldown > 0 => to - from > Rule[f.t].cooldown

Follows(f, from, g, to) == SameSubject(f, g) => Settled(f) /\ Apart(f, from, g, to)

SeenBefore ==
    /\ \A j \in DOMAIN ledger : ledger[j].seen < j
    /\ \A r \in Runners : tick[r].pc # "idle" => tick[r].seen <= Len(ledger)

(* Until it evaluates, a tick has all the rows it saw that are still good. *)
Remembered ==
    \A r \in Runners : tick[r].pc = "evaluate" =>
        /\ tick[r].fired = {}
        /\ \A i \in 1..tick[r].seen :
               ledger[i].ok => i \in DOMAIN tick[r].rows /\ tick[r].rows[i] = ledger[i]

(* Afterwards what it fires, or is about to, follows these rows.           *)
FiresFollow ==
    \A r \in Runners : tick[r].pc = "sweep" =>
        \A i \in 1..tick[r].seen : ledger[i].ok =>
            \A f \in ledger[i].fired, c \in tick[r].todo \union tick[r].fired :
                Follows(f, ledger[i].day, c, tick[r].day)

RowsFollow ==
    \A i, j \in DOMAIN ledger : Knew(i, j) =>
        \A f \in ledger[i].fired, g \in ledger[j].fired :
            Follows(f, ledger[i].day, g, ledger[j].day)

MadeApart == \A r, s \in Runners : r # s => Unrecorded(r) \cap Unrecorded(s) = {}

TickInv ==
    /\ TickTypes
    /\ SeenBefore
    /\ Remembered
    /\ FiresFollow
    /\ RowsFollow
    /\ AccountedFor
    /\ MadeApart

-----------------------------------------------------------------------------
ProposalRow == [t : Triggers, a : Accounts \union {BOOK}, account : Accounts,
                status : {"pending", "decided"}]

TickState == [pc : {"idle", "evaluate", "sweep", "audit"}, day : Days, rows : Rows,
              seen : Nat, todo : SUBSET Candidate, fired : SUBSET Fire]

LEMMA NoTickTyped == NoTick \in TickState
  <1>1. (CHOOSE d \in Days : TRUE) \in Days
    BY DaysAssumption
  <1>2. <<>> \in Rows
    <2>1. <<>> = [i \in {} |-> i]
      OBVIOUS
    <2>2. <<>> \in [{} -> Row]
      BY <2>1
    <2> QED
      BY <2>2 DEF Rows
  <1> QED
    BY <1>1, <1>2 DEF NoTick, TickState

(* A sweep appends its proposals and touches no other.                     *)
LEMMA SweepAppends ==
    ASSUME TickTypes, NEW c \in Candidate, NEW chosen \in SUBSET Accounts, Propose(c, chosen)
    PROVE  /\ Cardinality(chosen) \in Nat
           /\ proposals' \in Seq(ProposalRow)
           /\ DOMAIN proposals' = DOMAIN proposals \union New(chosen)
           /\ DOMAIN proposals \cap New(chosen) = {}
           /\ \A p \in DOMAIN proposals : proposals'[p] = proposals[p]
  <1> DEFINE n == Cardinality(chosen)
             seq == SetToSeq(chosen)
             new == [i \in 1..n |-> Proposal(c, seq[i])]
  <1>1. IsFiniteSet(chosen) /\ n \in Nat
    BY BookAssumption, FS_Subset, FS_CardinalityType
  <1>2. seq \in [1..n -> chosen]
    <2>1. \E f \in [1..n -> chosen] : IsInjective(f)
      <3>1. PICK f : f \in Bijection(1..n, chosen)
        BY <1>1, FS_CardinalityType DEF ExistsBijection
      <3> QED
        BY <3>1 DEF Bijection, Injection, IsInjective
    <2> QED
      BY <2>1 DEF SetToSeq
  <1>3. new \in Seq(ProposalRow) /\ Len(new) = n
    <2>1. \A i \in 1..n : new[i] \in ProposalRow
      BY <1>2 DEF Proposal, ProposalRow, Candidate
    <2> HIDE DEF n, seq
    <2> QED
      BY <2>1, <1>1
  <1>4. proposals \in Seq(ProposalRow) /\ proposals' = proposals \o new
    BY DEF TickTypes, ProposalRow, Propose
  <1> HIDE DEF new, seq
  <1>5. /\ proposals' \in Seq(ProposalRow)
        /\ Len(proposals') = Len(proposals) + n
        /\ \A p \in 1..Len(proposals) : proposals'[p] = proposals[p]
    <2> HIDE DEF n, ProposalRow
    <2>1. Len(proposals) \in Nat /\ Len(new) \in Nat
      BY <1>1, <1>3, <1>4
    <2>2. /\ proposals \o new \in Seq(ProposalRow)
          /\ Len(proposals \o new) = Len(proposals) + Len(new)
          /\ \A i \in 1..Len(proposals) + Len(new) :
                (proposals \o new)[i] = IF i <= Len(proposals) THEN proposals[i]
                                                              ELSE new[i - Len(proposals)]
      BY <1>3, <1>4, ConcatProperties
    <2>3. \A p \in 1..Len(proposals) : (proposals \o new)[p] = proposals[p]
      BY <2>1, <2>2
    <2> QED
      BY <1>3, <1>4, <2>2, <2>3
  <1>6. New(chosen) = Len(proposals) + 1 .. Len(proposals) + n
    BY DEF New
  <1> HIDE DEF n
  <1>7. DOMAIN proposals = 1..Len(proposals) /\ DOMAIN proposals' = 1..(Len(proposals) + n)
    BY <1>4, <1>5
  <1>8. Len(proposals) \in Nat
    BY <1>4
  <1> QED
    BY <1>1, <1>5, <1>6, <1>7, <1>8 DEF n

LEMMA CandidatesTyped ==
    ASSUME TickTypes, NEW d \in Days, NEW rows \in Rows
    PROVE  Candidates(rows, d) \subseteq Candidate
  <1> SUFFICES \A t \in Triggers :
                  /\ Rule[t].kind = "schedule" => ScheduleCandidates(t, rows, d) \subseteq Candidate
                  /\ DeadlineCandidates(t, d) \subseteq Candidate
                  /\ EventCandidates(t, rows, d) \subseteq Candidate
    <2>1. \A t \in Triggers : Rule[t].kind \in {"schedule", "deadline", "event"}
      BY RuleAssumption DEF TriggerRule
    <2> QED
      BY <2>1 DEF Candidates
  <1> TAKE t \in Triggers
  <1>1. d \in Nat
    BY DaysAssumption
  <1>2. Rule[t].kind = "schedule" => ScheduleCandidates(t, rows, d) \subseteq Candidate
    <2> SUFFICES ASSUME Rule[t].kind = "schedule"
                 PROVE  d \div Rule[t].every \in Nat
      BY DEF ScheduleCandidates, Candidate, Keys
    <2>1. Rule[t].every \in Nat /\ Rule[t].every > 0
      BY RuleAssumption DEF TriggerRule
    <2> QED
      BY <2>1, <1>1
  <1>3. DeadlineCandidates(t, d) \subseteq Candidate
    BY <1>1 DEF DeadlineCandidates, Candidate, Keys
  <1>4. EventCandidates(t, rows, d) \subseteq Candidate
    <2>1. LastDay(rows) \subseteq Nat
      BY DaysAssumption DEF LastDay, Rows, Row
    <2> QED
      BY <1>1, <2>1 DEF EventCandidates, Candidate, Keys
  <1> QED
    BY <1>2, <1>3, <1>4

(* What fires follows every row the tick has read.                         *)
LEMMA FiredFollows ==
    ASSUME TickTypes, NEW d \in Days, NEW rows \in Rows,
           NEW c \in Candidates(rows, d), Fires(rows, c, d),
           NEW i \in DOMAIN rows, NEW f \in rows[i].fired
    PROVE  Follows(f, rows[i].day, c, d)
  <1> SUFFICES ASSUME SameSubject(f, c)
               PROVE  Settled(f) /\ Apart(f, rows[i].day, c, d)
    BY DEF Follows
  <1>1. c \in Candidate /\ f \in FiresIn(rows) /\ rows[i].day \in FireDays(rows, c.t, c.a)
    BY CandidatesTyped DEF FiresIn, FireDays, SameSubject
  <1>2. rows[i].day \in Nat /\ d \in Nat
    BY DaysAssumption DEF Rows, Row
  <1>3. Settled(f)
    BY <1>1 DEF Settled, Fires, HasPending, SameSubject
  <1>4. f.key # c.key
    BY <1>1 DEF Fires, AlreadyFired
  <1>5. c.t \in Triggers /\ f.t = c.t /\ Rule[c.t] \in TriggerRule
    BY <1>1, RuleAssumption DEF SameSubject, Candidate
  <1>6. Rule[c.t].cooldown > 0 => d - rows[i].day > Rule[c.t].cooldown
    BY <1>1, <1>2, <1>5 DEF Fires, CoolingDown, Elapsed, TriggerRule
  <1>7. Rule[c.t].kind = "schedule" => d - rows[i].day >= Rule[c.t].every
    <2> SUFFICES ASSUME Rule[c.t].kind = "schedule"
                 PROVE  c.a = BOOK /\ Elapsed(rows, c.t, BOOK, d, Rule[c.t].every)
      BY <1>1 DEF Elapsed
    <2>1. PICK t \in Triggers : c \in CASE Rule[t].kind = "schedule" -> ScheduleCandidates(t, rows, d)
             [] Rule[t].kind = "deadline" -> DeadlineCandidates(t, d)
             [] Rule[t].kind = "event"    -> EventCandidates(t, rows, d)
      BY DEF Candidates
    <2>2. t = c.t
      <3>1. \A x \in ScheduleCandidates(t, rows, d) : x.t = t
        BY DEF ScheduleCandidates
      <3>2. \A x \in DeadlineCandidates(t, d) : x.t = t
        BY DEF DeadlineCandidates
      <3>3. \A x \in EventCandidates(t, rows, d) : x.t = t
        BY DEF EventCandidates
      <3>4. Rule[t].kind \in {"schedule", "deadline", "event"}
        BY RuleAssumption DEF TriggerRule
      <3> QED
        BY <2>1, <3>1, <3>2, <3>3, <3>4
    <2>3. c \in ScheduleCandidates(c.t, rows, d)
      BY <2>1, <2>2
    <2> QED
      BY <2>3 DEF ScheduleCandidates
  <1> QED
    BY <1>3, <1>4, <1>5, <1>6, <1>7 DEF Apart
-----------------------------------------------------------------------------
(* How a step changes the ledger.                                          *)
SameRow(new, old) ==
    /\ new.day = old.day /\ new.fired = old.fired /\ new.seen = old.seen
    /\ new.ok => old.ok

LEMMA SpoiltTyped ==
    ASSUME TickTypes
    PROVE  /\ Spoilt(ledger) \in Seq(Row)
           /\ Len(Spoilt(ledger)) = Len(ledger)
           /\ \A i \in 1..Len(ledger) : SameRow(Spoilt(ledger)[i], ledger[i])
           /\ \A i \in 1..Len(ledger) :
                 i < Len(ledger) \/ tail = "clean" => Spoilt(ledger)[i] = ledger[i]
  <1>1. ledger \in Seq(Row)
    BY DEF TickTypes
  <1>2. CASE tail # "unterminated"
    <2>1. Spoilt(ledger) = ledger
      BY <1>2 DEF Spoilt
    <2>2. ledger \in Seq(Row) /\ \A i \in 1..Len(ledger) : SameRow(ledger[i], ledger[i])
      BY <1>1 DEF SameRow
    <2>3. /\ Len(Spoilt(ledger)) = Len(ledger)
          /\ \A i \in 1..Len(ledger) : Spoilt(ledger)[i] = ledger[i]
      BY <2>1
    <2> QED
      BY <2>1, <2>2, <2>3
  <1>3. CASE tail = "unterminated"
    <2> DEFINE n == Len(ledger)
               new == [ledger EXCEPT ![n].ok = FALSE]
    <2>0. n \in Nat
      BY <1>1
    <2>1. n \in Nat /\ ledger \in [1..n -> Row]
      BY <1>1
    <2>2. \A i \in 1..n : new[i] \in Row /\ SameRow(new[i], ledger[i])
                          /\ (i # n => new[i] = ledger[i])
      BY <2>1 DEF Row, SameRow
    <2>3. new \in [1..n -> Row]
      BY <2>1, <2>2
    <2>4. new \in Seq(Row) /\ Len(new) = n
      BY <2>1, <2>3
    <2>5. Spoilt(ledger) = new
      BY <1>3 DEF Spoilt
    <2> HIDE DEF new
    <2>6. /\ Spoilt(ledger) \in Seq(Row)
          /\ Len(Spoilt(ledger)) = Len(ledger)
          /\ \A i \in 1..Len(ledger) : SameRow(Spoilt(ledger)[i], ledger[i])
      BY <2>2, <2>4, <2>5
    <2>7. \A i \in 1..n : i < n => new[i] = ledger[i]
      <3>1. \A i \in 1..n : i < n => i # n
        <4> HIDE DEF n
        <4> QED
          BY <2>0
      <3> QED
        BY <2>2, <3>1
    <2>8. \A i \in 1..Len(ledger) :
             i < Len(ledger) \/ tail = "clean" => Spoilt(ledger)[i] = ledger[i]
      BY <1>3, <2>5, <2>7
    <2> QED
      BY <2>6, <2>8
  <1> QED
    BY <1>2, <1>3

LEMMA RowOfTyped ==
    ASSUME TickTypes, NEW r \in Runners
    PROVE  RowOf(r) \in Row /\ RowOf(r).ok
  BY DEF TickTypes, RowOf, Row

(* A row is appended behind the rows there are, which stay what they were  *)
(* except that the last may stop to parse.                                 *)
LEMMA AppendRowKeeps ==
    ASSUME TickTypes, NEW row \in Row, row.ok, AppendRow(row)
    PROVE  /\ ledger' \in Seq(Row)
           /\ Len(ledger') = Len(ledger) + 1
           /\ \A i \in 1..Len(ledger) : SameRow(ledger'[i], ledger[i])
           /\ \A i \in 1..Len(ledger) :
                 i < Len(ledger) \/ tail = "clean" => ledger'[i] = ledger[i]
           /\ SameRow(ledger'[Len(ledger) + 1], row)
  <1> DEFINE new == [row EXCEPT !.ok = (tail = "clean")]
  <1>1. new \in Row /\ SameRow(new, row)
    BY DEF Row, SameRow
  <1>2. ledger' = Append(Spoilt(ledger), new)
    BY DEF AppendRow
  <1> HIDE DEF new
  <1>3. /\ ledger' \in Seq(Row)
        /\ Len(ledger') = Len(Spoilt(ledger)) + 1
        /\ \A i \in 1..Len(Spoilt(ledger)) : ledger'[i] = Spoilt(ledger)[i]
        /\ ledger'[Len(Spoilt(ledger)) + 1] = new
    BY <1>1, <1>2, SpoiltTyped, AppendProperties
  <1> QED
    BY <1>1, <1>3, SpoiltTyped

(* Where the proposals are, without the tuple of places.                   *)
Partition ==
    /\ DOMAIN proposals = InRows \union InFlight \union dropped \union orphaned
    /\ InRows \cap InFlight = {} /\ InRows \cap dropped = {} /\ InRows \cap orphaned = {}
    /\ InFlight \cap dropped = {} /\ InFlight \cap orphaned = {}
    /\ dropped \cap orphaned = {}

LEMMA Places == AccountedFor <=> Partition
  <1> DEFINE places == <<InRows, InFlight, dropped, orphaned>>
  <1>1. /\ DOMAIN places = {1, 2, 3, 4}
        /\ places[1] = InRows /\ places[2] = InFlight
        /\ places[3] = dropped /\ places[4] = orphaned
    OBVIOUS
  <1>2. AccountedFor <=>
          /\ DOMAIN proposals = UNION {places[i] : i \in DOMAIN places}
          /\ \A i, j \in DOMAIN places : i # j => places[i] \cap places[j] = {}
    BY DEF AccountedFor
  <1> HIDE DEF places
  <1>3. UNION {places[i] : i \in DOMAIN places} = InRows \union InFlight \union dropped \union orphaned
    BY <1>1
  <1>4. (\A i, j \in DOMAIN places : i # j => places[i] \cap places[j] = {}) <=>
          /\ InRows \cap InFlight = {} /\ InRows \cap dropped = {} /\ InRows \cap orphaned = {}
          /\ InFlight \cap dropped = {} /\ InFlight \cap orphaned = {}
          /\ dropped \cap orphaned = {}
    BY <1>1
  <1> QED
    BY <1>2, <1>3, <1>4 DEF Partition

LEMMA PlacesNext == AccountedFor' <=> Partition'
  BY Places, PTL

LEMMA TypesKept ==
    ASSUME TickTypes, AccountedFor, [TickNext]_tickVars
    PROVE  TickTypes'
  <1> DEFINE Clean == {"clean", "fragment", "unterminated"}
  <1> USE DEF TickState, ProposalRow
  <1>0. \A r \in Runners : tick[r] \in TickState
    BY DEF TickTypes
  <1>a. \A r \in Runners : Unrecorded(r) \subseteq DOMAIN proposals
    BY Places DEF Partition, InFlight
  <1>1. ASSUME NEW r \in Runners, NEW d \in Days, Start(r, d)
        PROVE  TickTypes'
    <2>1. Readable \in Rows
      <3>1. {j \in DOMAIN ledger : ledger[j].ok} \in SUBSET Nat
        BY DEF TickTypes
      <3>2. Readable \in [{j \in DOMAIN ledger : ledger[j].ok} -> Row]
        BY DEF TickTypes, Readable
      <3> QED
        BY <3>1, <3>2 DEF Rows
    <2>2. Len(ledger) \in Nat
      BY DEF TickTypes
    <2>3. [NoTick EXCEPT !.pc = "evaluate", !.day = d, !.rows = Readable, !.seen = Len(ledger)]
             \in TickState
      BY <2>1, <2>2, NoTickTyped
    <2>4. tick' \in [Runners -> TickState]
      BY <1>1, <2>3 DEF Start, TickTypes
    <2>5. started' \in 0..MaxTicks
      BY <1>1, BoundAssumption DEF Start, TickTypes
    <2> QED
      BY <1>1, <2>4, <2>5 DEF Start, TickTypes
  <1>2. ASSUME NEW r \in Runners, Evaluate(r)
        PROVE  TickTypes'
    <2>1. {c \in Candidates(tick[r].rows, tick[r].day) : Fires(tick[r].rows, c, tick[r].day)}
             \in SUBSET Candidate
      BY <1>0, CandidatesTyped
    <2>2. <<>> \in Rows
      BY NoTickTyped DEF NoTick
    <2>3. tick'[r] \in TickState /\ tick' = [tick EXCEPT ![r] = tick'[r]]
      BY <1>0, <1>2, <2>1, <2>2 DEF Evaluate, TickTypes
    <2>4. tick' \in [Runners -> TickState]
      BY <2>3 DEF TickTypes
    <2> QED
      BY <1>2, <2>4 DEF Evaluate, TickTypes
  <1>3. ASSUME NEW r \in Runners, AppendLedger(r)
        PROVE  TickTypes'
    <2>1. ledger' \in Seq(Row)
      BY <1>3, RowOfTyped, AppendRowKeeps DEF AppendLedger
    <2>2. tick' \in [Runners -> TickState] /\ tail' = "clean"
      BY <1>0, <1>3 DEF AppendLedger, AppendRow, TickTypes
    <2> QED
      BY <1>3, <2>1, <2>2 DEF AppendLedger, TickTypes
  <1>4. ASSUME NEW r \in Runners, RecordAudit(r)
        PROVE  TickTypes'
    <2>1. Event(r) \in [day : Days, made : SUBSET Nat]
      BY <1>0 DEF Event, Made, Fire
    <2>2. audit' \in SUBSET [day : Days, made : SUBSET Nat]
      BY <1>4, <2>1 DEF RecordAudit, Recorded, TickTypes
    <2>3. tick' \in [Runners -> TickState]
      BY <1>4, NoTickTyped DEF RecordAudit, TickTypes
    <2> QED
      BY <1>4, <2>2, <2>3 DEF RecordAudit, TickTypes
  <1>5. ASSUME NEW r \in Runners, CrashBetween(r)
        PROVE  TickTypes'
    <2>1. Unrecorded(r) \subseteq DOMAIN proposals
      BY <1>a
    <2>2. tick' \in [Runners -> TickState]
      BY <1>5, NoTickTyped DEF CrashBetween, TickTypes
    <2>3. faults' \in 0..MaxFaults
      BY <1>5, BoundAssumption DEF CrashBetween, Fault, TickTypes
    <2> QED
      BY <1>5, <2>1, <2>2, <2>3 DEF CrashBetween, TickTypes
  <1>6. ASSUME NEW r \in Runners, TornAppend(r)
        PROVE  TickTypes'
    <2>1. Made(r) \subseteq DOMAIN proposals
      BY <1>6, <1>a DEF Unrecorded, TornAppend
    <2>2. tick' \in [Runners -> TickState]
      BY <1>6, NoTickTyped DEF TornAppend, TickTypes
    <2>3. faults' \in 0..MaxFaults
      BY <1>6, BoundAssumption DEF TornAppend, Fault, TickTypes
    <2>4. ledger' \in Seq(Row) /\ tail' \in Clean /\ orphaned' \subseteq DOMAIN proposals
      <3>1. CASE tail' = "fragment" /\ ledger' = Spoilt(ledger) /\ orphaned' = orphaned \union Made(r)
        BY <2>1, <3>1, SpoiltTyped DEF TickTypes
      <3>2. CASE tail' = "unterminated" /\ ledger' = Append(ledger, RowOf(r)) /\ UNCHANGED orphaned
        BY <3>2, RowOfTyped, AppendProperties DEF TickTypes
      <3> QED
        BY <1>6, <3>1, <3>2 DEF TornAppend
    <2> QED
      BY <1>6, <2>2, <2>3, <2>4 DEF TornAppend, TickTypes
  <1>7. ASSUME NEW r \in Runners, NEW c \in tick[r].todo, NEW chosen \in SUBSET Accounts,
               Sweep(r, c, chosen)
        PROVE  TickTypes'
    <2> DEFINE gone == {p \in New(chosen) : Collapsed(c, tick[r].day, p)}
               fire == [t |-> c.t, a |-> c.a, key |-> c.key, made |-> Reported(New(chosen), gone)]
    <2>1. c \in Candidate /\ Propose(c, chosen)
      BY <1>0, <1>7 DEF Sweep
    <2>2. gone \subseteq New(chosen) /\ New(chosen) \subseteq Nat
      BY <2>1, SweepAppends DEF New, TickTypes
    <2>3. fire \in Fire
      BY <2>1, <2>2 DEF Fire, Candidate, Reported
    <2>4. tick' = [tick EXCEPT ![r].todo = @ \ {c}, ![r].fired = @ \union {fire}]
      BY <1>7 DEF Sweep
    <2>5. tick'[r] \in TickState /\ tick' = [tick EXCEPT ![r] = tick'[r]]
      <3> HIDE DEF fire
      <3> QED
        BY <1>0, <2>3, <2>4 DEF TickTypes
    <2>6. tick' \in [Runners -> TickState]
      BY <2>5 DEF TickTypes
    <2>7. dropped' = dropped \union gone
      BY <1>7 DEF Sweep
    <2>8. dropped' \union orphaned' \subseteq DOMAIN proposals'
      BY <1>7, <2>1, <2>2, <2>7, SweepAppends DEF Sweep, TickTypes
    <2> HIDE DEF gone
    <2> QED
      BY <1>7, <2>1, <2>6, <2>8, SweepAppends DEF Sweep, TickTypes
  <1>8. ASSUME NEW r \in Runners, NEW c \in tick[r].todo, NEW chosen \in SUBSET Accounts,
               CrashInSweep(r, c, chosen)
        PROVE  TickTypes'
    <2>1. c \in Candidate /\ Propose(c, chosen)
      BY <1>0, <1>8 DEF CrashInSweep
    <2>2. Made(r) \subseteq DOMAIN proposals
      BY <1>8, <1>a DEF Unrecorded, CrashInSweep
    <2>3. tick' \in [Runners -> TickState]
      BY <1>8, NoTickTyped DEF CrashInSweep, TickTypes
    <2>4. faults' \in 0..MaxFaults
      BY <1>8, BoundAssumption DEF CrashInSweep, Fault, TickTypes
    <2>5. dropped' \union orphaned' \subseteq DOMAIN proposals'
      BY <1>8, <2>1, <2>2, SweepAppends DEF CrashInSweep, TickTypes
    <2> QED
      BY <1>8, <2>1, <2>3, <2>4, <2>5, SweepAppends DEF CrashInSweep, TickTypes
  <1>9. ASSUME NEW p \in DOMAIN proposals, DecideProposal(p)
        PROVE  TickTypes'
    <2>1. proposals' \in Seq(ProposalRow) /\ DOMAIN proposals' = DOMAIN proposals
      <3> DEFINE n == Len(proposals)
      <3>0. proposals \in Seq(ProposalRow)
        BY DEF TickTypes
      <3>1. n \in Nat /\ proposals \in [1..n -> ProposalRow] /\ p \in 1..n
        <4> HIDE DEF ProposalRow
        <4> QED
          BY <3>0
      <3>2. [proposals[p] EXCEPT !.status = "decided"] \in ProposalRow
        BY <3>1
      <3>3. proposals' = [proposals EXCEPT ![p] = [proposals[p] EXCEPT !.status = "decided"]]
        BY <1>9 DEF DecideProposal
      <3>4. proposals' \in [1..n -> ProposalRow]
        BY <3>1, <3>2, <3>3
      <3> HIDE DEF n, ProposalRow
      <3> QED
        BY <3>1, <3>4
    <2> QED
      BY <1>9, <2>1 DEF DecideProposal, TickTypes
  <1>10. CASE UNCHANGED tickVars
    BY <1>10 DEF tickVars, TickTypes
  <1> QED
    BY <1>1, <1>2, <1>3, <1>4, <1>5, <1>6, <1>7, <1>8, <1>9, <1>10 DEF TickNext

(* A decided proposal stays decided, and a proposal stays a proposal.      *)
LEMMA PendingEnds ==
    ASSUME TickTypes, [TickNext]_tickVars
    PROVE  \A p \in DOMAIN proposals :
               /\ p \in DOMAIN proposals'
               /\ proposals'[p].account = proposals[p].account
               /\ proposals'[p].status = "pending" => proposals[p].status = "pending"
  <1>0. \A r \in Runners : tick[r].todo \subseteq Candidate
    BY DEF TickTypes
  <1>1. ASSUME NEW r \in Runners, NEW c \in tick[r].todo, NEW chosen \in SUBSET Accounts,
               Sweep(r, c, chosen) \/ CrashInSweep(r, c, chosen)
        PROVE  \A p \in DOMAIN proposals : p \in DOMAIN proposals' /\ proposals'[p] = proposals[p]
    <2>1. c \in Candidate /\ Propose(c, chosen)
      BY <1>0, <1>1 DEF Sweep, CrashInSweep
    <2> QED
      BY <2>1, SweepAppends
  <1>2. ASSUME NEW q \in DOMAIN proposals, DecideProposal(q)
        PROVE  \A p \in DOMAIN proposals :
                  /\ p \in DOMAIN proposals'
                  /\ proposals'[p].account = proposals[p].account
                  /\ proposals'[p].status = "pending" => proposals[p].status = "pending"
    BY <1>2 DEF DecideProposal, TickTypes
  <1>3. CASE UNCHANGED proposals
    BY <1>3
  <1> QED
    BY <1>1, <1>2, <1>3
    DEF TickNext, Start, Evaluate, AppendLedger, RecordAudit, CrashBetween, TornAppend, tickVars

(* The rows of a ledger stay, and at most one is added, for a tick that    *)
(* has done its sweeps.                                                    *)
LEMMA RowsStay ==
    ASSUME TickTypes, [TickNext]_tickVars
    PROVE  /\ \A i \in DOMAIN ledger : i \in DOMAIN ledger' /\ SameRow(ledger'[i], ledger[i])
           /\ \A i \in DOMAIN ledger :
                 i < Len(ledger) \/ tail = "clean" => ledger'[i] = ledger[i]
           /\ \A j \in DOMAIN ledger' \ DOMAIN ledger :
                 /\ j = Len(ledger) + 1
                 /\ \E r \in Runners : /\ tick[r].pc = "sweep" /\ tick[r].todo = {}
                                       /\ tick'[r].pc # "sweep"
                                       /\ \A s \in Runners \ {r} : tick'[s] = tick[s]
                                       /\ proposals' = proposals
                                       /\ SameRow(ledger'[j], RowOf(r))
  <1>0. Len(ledger) \in Nat /\ DOMAIN ledger = 1..Len(ledger)
    BY DEF TickTypes
  <1>1. ASSUME NEW r \in Runners, AppendLedger(r)
        PROVE  /\ Len(ledger') = Len(ledger) + 1 /\ DOMAIN ledger' = 1..Len(ledger) + 1
               /\ \A i \in 1..Len(ledger) : SameRow(ledger'[i], ledger[i])
               /\ \A i \in 1..Len(ledger) :
                     i < Len(ledger) \/ tail = "clean" => ledger'[i] = ledger[i]
               /\ SameRow(ledger'[Len(ledger) + 1], RowOf(r))
    <2>1. AppendRow(RowOf(r)) /\ RowOf(r) \in Row /\ RowOf(r).ok
      BY <1>1, RowOfTyped DEF AppendLedger
    <2>2. /\ ledger' \in Seq(Row)
          /\ Len(ledger') = Len(ledger) + 1
          /\ \A i \in 1..Len(ledger) : SameRow(ledger'[i], ledger[i])
          /\ \A i \in 1..Len(ledger) :
                i < Len(ledger) \/ tail = "clean" => ledger'[i] = ledger[i]
          /\ SameRow(ledger'[Len(ledger) + 1], RowOf(r))
      BY <2>1, AppendRowKeeps
    <2> QED
      BY <2>2
  <1>2. ASSUME NEW r \in Runners, TornAppend(r)
        PROVE  \/ /\ DOMAIN ledger' = DOMAIN ledger
                  /\ \A i \in 1..Len(ledger) : SameRow(ledger'[i], ledger[i])
                  /\ \A i \in 1..Len(ledger) :
                        i < Len(ledger) \/ tail = "clean" => ledger'[i] = ledger[i]
               \/ /\ DOMAIN ledger' = 1..Len(ledger) + 1
                  /\ \A i \in 1..Len(ledger) : ledger'[i] = ledger[i]
                  /\ ledger'[Len(ledger) + 1] = RowOf(r)
    <2>1. ASSUME ledger' = Spoilt(ledger)
          PROVE  /\ DOMAIN ledger' = DOMAIN ledger
                 /\ \A i \in 1..Len(ledger) : SameRow(ledger'[i], ledger[i])
                 /\ \A i \in 1..Len(ledger) :
                       i < Len(ledger) \/ tail = "clean" => ledger'[i] = ledger[i]
      <3>1. DOMAIN Spoilt(ledger) = 1..Len(ledger)
        BY SpoiltTyped
      <3> QED
        BY <1>0, <2>1, <3>1, SpoiltTyped
    <2>2. ASSUME ledger' = Append(ledger, RowOf(r))
          PROVE  /\ DOMAIN ledger' = 1..Len(ledger) + 1
                 /\ \A i \in 1..Len(ledger) : ledger'[i] = ledger[i]
                 /\ ledger'[Len(ledger) + 1] = RowOf(r)
      <3>1. ledger \in Seq(Row) /\ RowOf(r) \in Row
        BY RowOfTyped DEF TickTypes
      <3> QED
        BY <2>2, <3>1, AppendProperties
    <2>3. ledger' = Spoilt(ledger) \/ ledger' = Append(ledger, RowOf(r))
      BY <1>2 DEF TornAppend
    <2> QED
      BY <2>1, <2>2, <2>3
  <1>3. \A r \in Runners : AppendLedger(r) \/ TornAppend(r) =>
            /\ tick[r].pc = "sweep" /\ tick[r].todo = {} /\ tick'[r].pc # "sweep"
            /\ \A s \in Runners \ {r} : tick'[s] = tick[s]
            /\ proposals' = proposals
    BY DEF AppendLedger, TornAppend, NoTick, TickTypes
  <1>4. CASE UNCHANGED ledger
    BY <1>4 DEF SameRow
  <1>5. CASE \E r \in Runners : AppendLedger(r)
    BY <1>0, <1>1, <1>3, <1>5
  <1>6. CASE \E r \in Runners : TornAppend(r)
    BY <1>0, <1>2, <1>3, <1>6 DEF SameRow
  <1> QED
    BY <1>4, <1>5, <1>6
    DEF TickNext, Start, Evaluate, RecordAudit, CrashBetween, Sweep, CrashInSweep,
        DecideProposal, tickVars

-----------------------------------------------------------------------------
(* How a step changes the tick of a runner.                                *)
Began(r) ==
    /\ ledger' = ledger
    /\ tick'[r].pc = "evaluate" /\ tick'[r].fired = {}
    /\ tick'[r].rows = Readable /\ tick'[r].seen = Len(ledger)

Evaluated(r) ==
    /\ ledger' = ledger
    /\ tick[r].pc = "evaluate" /\ tick'[r].pc = "sweep"
    /\ tick'[r].day = tick[r].day /\ tick'[r].seen = tick[r].seen
    /\ tick'[r].fired = tick[r].fired
    /\ tick'[r].todo = {c \in Candidates(tick[r].rows, tick[r].day) :
                          Fires(tick[r].rows, c, tick[r].day)}

Swept(r) ==
    /\ ledger' = ledger
    /\ tick[r].pc = "sweep" /\ tick'[r].pc = "sweep"
    /\ tick'[r].day = tick[r].day /\ tick'[r].seen = tick[r].seen
    /\ tick'[r].todo \subseteq tick[r].todo
    /\ \A f \in tick'[r].fired \ tick[r].fired :
          \E c \in tick[r].todo : f.t = c.t /\ f.a = c.a /\ f.key = c.key

LEMMA TickSteps ==
    ASSUME TickTypes, [TickNext]_tickVars, NEW r \in Runners
    PROVE  \/ tick'[r] = tick[r]
           \/ tick'[r].pc = "idle"
           \/ tick'[r].pc = "audit" /\ tick[r].pc = "sweep" /\ tick'[r].seen = tick[r].seen
           \/ Began(r) \/ Evaluated(r) \/ Swept(r)
  <1>0. r \in DOMAIN tick /\ tick \in [Runners -> TickState]
    BY DEF TickTypes, TickState
  <1>1. ASSUME NEW s \in Runners, NEW d \in Days, Start(s, d)
        PROVE  tick'[r] = tick[r] \/ Began(r)
    BY <1>0, <1>1 DEF Start, Began, NoTick
  <1>2. ASSUME NEW s \in Runners, Evaluate(s)
        PROVE  tick'[r] = tick[r] \/ Evaluated(r)
    BY <1>0, <1>2 DEF Evaluate, Evaluated, TickState
  <1>3. ASSUME NEW s \in Runners, AppendLedger(s)
        PROVE  \/ tick'[r] = tick[r]
               \/ tick'[r].pc = "audit" /\ tick[r].pc = "sweep" /\ tick'[r].seen = tick[r].seen
    BY <1>0, <1>3 DEF AppendLedger, TickState
  <1>4. ASSUME NEW s \in Runners, NEW c \in tick[s].todo, NEW chosen \in SUBSET Accounts,
               Sweep(s, c, chosen)
        PROVE  tick'[r] = tick[r] \/ Swept(r)
    <2> DEFINE fire == [t |-> c.t, a |-> c.a, key |-> c.key,
                        made |-> Reported(New(chosen), {p \in New(chosen) :
                                                           Collapsed(c, tick[s].day, p)})]
    <2>1. fire.t = c.t /\ fire.a = c.a /\ fire.key = c.key
      OBVIOUS
    <2>2. tick' = [tick EXCEPT ![s].todo = @ \ {c}, ![s].fired = @ \union {fire}]
      BY <1>4 DEF Sweep
    <2>3. tick[s].pc = "sweep" /\ ledger' = ledger
      BY <1>4 DEF Sweep
    <2> HIDE DEF fire
    <2>4. CASE r = s
      <3>1. /\ tick'[r].pc = tick[r].pc /\ tick'[r].day = tick[r].day
            /\ tick'[r].seen = tick[r].seen /\ tick'[r].todo = tick[r].todo \ {c}
            /\ tick'[r].fired = tick[r].fired \union {fire}
        BY <1>0, <2>2, <2>4 DEF TickState
      <3> QED
        BY <2>1, <2>3, <2>4, <3>1 DEF Swept
    <2> QED
      BY <1>0, <2>2, <2>4
  <1>5. ASSUME NEW s \in Runners, tick' = [tick EXCEPT ![s] = NoTick]
        PROVE  tick'[r] = tick[r] \/ tick'[r].pc = "idle"
    BY <1>0, <1>5 DEF NoTick
  <1>6. CASE UNCHANGED tick
    BY <1>6
  <1> QED
    BY <1>1, <1>2, <1>3, <1>4, <1>5, <1>6
    DEF TickNext, RecordAudit, CrashBetween, TornAppend, CrashInSweep, DecideProposal, tickVars

-----------------------------------------------------------------------------
(* What the rows and the ticks know of each other is kept.                 *)
LEMMA SettledStays ==
    ASSUME TickTypes, [TickNext]_tickVars
    PROVE  \A f : f.made \subseteq DOMAIN proposals /\ Settled(f) => Settled(f)'
  BY PendingEnds DEF Settled, Pending

LEMMA MadeKnown ==
    ASSUME AccountedFor, NEW i \in DOMAIN ledger, NEW f \in ledger[i].fired
    PROVE  f.made \subseteq DOMAIN proposals
  <1>1. f \in FiresIn(ledger)
    BY DEF FiresIn
  <1> QED
    BY <1>1, Places DEF Partition, InRows

LEMMA GoodRowIsSame ==
    ASSUME NEW x \in Row, NEW y \in Row, SameRow(x, y), x.ok
    PROVE  y.ok /\ x = y
  BY DEF Row, SameRow

LEMMA SeenBeforeKept ==
    ASSUME TickTypes, SeenBefore, [TickNext]_tickVars, TickTypes'
    PROVE  SeenBefore'
  <1>0. /\ Len(ledger) \in Nat /\ DOMAIN ledger = 1..Len(ledger)
        /\ Len(ledger') \in Nat /\ DOMAIN ledger' = 1..Len(ledger')
        /\ \A r \in Runners : tick[r].seen \in Nat /\ tick'[r].seen \in Nat
    BY DEF TickTypes
  <1>1. Len(ledger) <= Len(ledger')
    <2>1. DOMAIN ledger \subseteq DOMAIN ledger'
      BY RowsStay
    <2>2. Len(ledger) > 0 => Len(ledger) \in 1..Len(ledger')
      BY <1>0, <2>1
    <2> QED
      BY <1>0, <2>2
  <1>2. ASSUME NEW j \in DOMAIN ledger'
        PROVE  ledger'[j].seen < j
    <2>1. CASE j \in DOMAIN ledger
      BY <2>1, RowsStay DEF SeenBefore, SameRow
    <2>2. CASE j \notin DOMAIN ledger
      <3>1. PICK r \in Runners : /\ j = Len(ledger) + 1 /\ tick[r].pc = "sweep"
                                 /\ SameRow(ledger'[j], RowOf(r))
        BY <2>2, RowsStay
      <3>2. ledger'[j].seen = tick[r].seen
        BY <3>1 DEF SameRow, RowOf
      <3>3. tick[r].seen <= Len(ledger)
        BY <3>1 DEF SeenBefore
      <3> QED
        BY <1>0, <3>1, <3>2, <3>3
    <2> QED
      BY <2>1, <2>2
  <1>3. ASSUME NEW r \in Runners, tick'[r].pc # "idle"
        PROVE  tick'[r].seen <= Len(ledger')
    <2>1. \/ tick'[r].seen = Len(ledger)
          \/ tick[r].pc # "idle" /\ tick'[r].seen = tick[r].seen
      BY <1>3, TickSteps DEF Began, Evaluated, Swept
    <2>2. tick'[r].seen <= Len(ledger)
      BY <1>0, <2>1 DEF SeenBefore
    <2> QED
      BY <1>0, <1>1, <2>2
  <1> QED
    BY <1>2, <1>3 DEF SeenBefore

LEMMA RememberedKept ==
    ASSUME TickTypes, SeenBefore, Remembered, [TickNext]_tickVars, TickTypes'
    PROVE  Remembered'
  <1> SUFFICES ASSUME NEW r \in Runners, tick'[r].pc = "evaluate"
               PROVE  /\ tick'[r].fired = {}
                      /\ \A i \in 1..tick'[r].seen :
                            ledger'[i].ok => /\ i \in DOMAIN tick'[r].rows
                                             /\ tick'[r].rows[i] = ledger'[i]
    BY DEF Remembered
  <1>0. /\ Len(ledger) \in Nat /\ DOMAIN ledger = 1..Len(ledger)
        /\ tick[r].seen \in Nat /\ \A i \in DOMAIN ledger : ledger[i] \in Row
    BY DEF TickTypes
  <1>1. tick'[r] = tick[r] \/ Began(r)
    BY TickSteps DEF Evaluated, Swept
  <1>2. CASE Began(r)
    BY <1>0, <1>2 DEF Began, Readable
  <1>3. CASE tick'[r] = tick[r]
    <2>1. /\ tick[r].fired = {} /\ tick[r].seen <= Len(ledger)
          /\ \A i \in 1..tick[r].seen :
                ledger[i].ok => i \in DOMAIN tick[r].rows /\ tick[r].rows[i] = ledger[i]
      BY <1>3 DEF Remembered, SeenBefore
    <2>2. ASSUME NEW i \in 1..tick[r].seen, ledger'[i].ok
          PROVE  ledger[i].ok /\ ledger'[i] = ledger[i]
      <3>1. i \in DOMAIN ledger
        BY <1>0, <2>1
      <3>2. ledger[i] \in Row /\ ledger'[i] \in Row
        BY <3>1, RowsStay DEF TickTypes
      <3> QED
        BY <2>2, <3>1, <3>2, RowsStay, GoodRowIsSame
    <2> QED
      BY <1>3, <2>1, <2>2
  <1> QED
    BY <1>1, <1>2, <1>3

LEMMA FiresFollowKept ==
    ASSUME TickTypes, AccountedFor, SeenBefore, Remembered, FiresFollow,
           [TickNext]_tickVars, TickTypes'
    PROVE  FiresFollow'
  <1> SUFFICES ASSUME NEW r \in Runners, tick'[r].pc = "sweep",
                      NEW i \in 1..tick'[r].seen, ledger'[i].ok,
                      NEW f \in ledger'[i].fired,
                      NEW c \in tick'[r].todo \union tick'[r].fired
               PROVE  SameSubject(f, c) =>
                          Settled(f)' /\ Apart(f, ledger'[i].day, c, tick'[r].day)
    BY DEF FiresFollow, Follows
  <1>0. /\ Len(ledger) \in Nat /\ DOMAIN ledger = 1..Len(ledger)
        /\ tick[r] \in TickState
    BY DEF TickTypes, TickState
  <1>1. \/ tick'[r] = tick[r] /\ tick[r].pc = "sweep"
        \/ Evaluated(r) \/ Swept(r)
    BY TickSteps DEF Began
  <1>2. tick'[r].seen = tick[r].seen /\ tick'[r].day = tick[r].day /\ tick[r].pc # "idle"
    BY <1>1 DEF Evaluated, Swept
  <1>3. i \in DOMAIN ledger /\ i \in 1..tick[r].seen
    BY <1>0, <1>2 DEF SeenBefore, TickState
  <1>4. /\ ledger[i].ok /\ f \in ledger[i].fired /\ ledger'[i].day = ledger[i].day
    BY <1>3, RowsStay DEF SameRow
  <1>5. PICK b : /\ b.t = c.t /\ b.a = c.a /\ b.key = c.key
                 /\ Follows(f, ledger[i].day, b, tick[r].day)
    <2>1. ASSUME tick[r].pc = "sweep"
          PROVE  \A x \in tick[r].todo \union tick[r].fired :
                     Follows(f, ledger[i].day, x, tick[r].day)
      BY <1>3, <1>4, <2>1 DEF FiresFollow
    <2>2. CASE tick'[r] = tick[r] /\ tick[r].pc = "sweep"
      BY <2>1, <2>2
    <2>3. CASE Swept(r)
      <3>1. \E b \in tick[r].todo \union tick[r].fired : b.t = c.t /\ b.a = c.a /\ b.key = c.key
        BY <2>3 DEF Swept
      <3> QED
        BY <2>1, <2>3, <3>1 DEF Swept
    <2>4. CASE Evaluated(r)
      <3>1. /\ tick[r].fired = {} /\ i \in DOMAIN tick[r].rows /\ tick[r].rows[i] = ledger[i]
        BY <1>3, <1>4, <2>4 DEF Remembered, Evaluated
      <3>2. c \in Candidates(tick[r].rows, tick[r].day) /\ Fires(tick[r].rows, c, tick[r].day)
        BY <2>4, <3>1 DEF Evaluated
      <3>3. tick[r].rows \in Rows /\ tick[r].day \in Days
        BY <1>0 DEF TickState
      <3>4. Follows(f, tick[r].rows[i].day, c, tick[r].day)
        BY <1>4, <3>1, <3>2, <3>3, FiredFollows
      <3> QED
        BY <3>1, <3>4
    <2> QED
      BY <1>1, <2>2, <2>3, <2>4
  <1>6. SameSubject(f, c) => Settled(f) /\ Apart(f, ledger[i].day, c, tick[r].day)
    BY <1>5 DEF Follows, SameSubject, Apart
  <1>7. Settled(f) => Settled(f)'
    BY <1>3, <1>4, MadeKnown, SettledStays
  <1> QED
    BY <1>2, <1>4, <1>6, <1>7

LEMMA RowsFollowKept ==
    ASSUME TickTypes, AccountedFor, SeenBefore, FiresFollow, RowsFollow,
           [TickNext]_tickVars, TickTypes'
    PROVE  RowsFollow'
  <1> SUFFICES ASSUME NEW i \in DOMAIN ledger', NEW j \in DOMAIN ledger',
                      i <= ledger'[j].seen, ledger'[i].ok,
                      NEW f \in ledger'[i].fired, NEW g \in ledger'[j].fired
               PROVE  SameSubject(f, g) =>
                          Settled(f)' /\ Apart(f, ledger'[i].day, g, ledger'[j].day)
    BY DEF RowsFollow, Follows, Knew
  <1>0. /\ Len(ledger) \in Nat /\ DOMAIN ledger = 1..Len(ledger)
        /\ DOMAIN ledger' \subseteq Nat /\ \A k \in DOMAIN ledger' : k > 0
        /\ \A r \in Runners : tick[r].seen \in Nat
    BY DEF TickTypes
  <1>1. CASE j \in DOMAIN ledger
    <2>1. /\ ledger'[j].seen = ledger[j].seen /\ ledger'[j].day = ledger[j].day
          /\ ledger'[j].fired = ledger[j].fired
      BY <1>1, RowsStay DEF SameRow
    <2>2. i \in DOMAIN ledger
      <3>1. ledger[j].seen < j /\ ledger[j].seen \in Nat
        <4>1. ledger[j] \in Row
          BY <1>1 DEF TickTypes
        <4> QED
          BY <1>1, <4>1 DEF SeenBefore, Row
      <3> QED
        BY <1>0, <1>1, <2>1, <3>1
    <2>3. ledger[i].ok /\ f \in ledger[i].fired /\ ledger'[i].day = ledger[i].day
      BY <2>2, RowsStay DEF SameRow
    <2>4. Follows(f, ledger[i].day, g, ledger[j].day)
      BY <1>1, <2>1, <2>2, <2>3 DEF RowsFollow, Knew
    <2>5. Settled(f) => Settled(f)'
      BY <2>2, <2>3, MadeKnown, SettledStays
    <2> QED
      BY <2>1, <2>3, <2>4, <2>5 DEF Follows
  <1>2. CASE j \notin DOMAIN ledger
    <2>1. PICK r \in Runners : /\ tick[r].pc = "sweep"
                               /\ SameRow(ledger'[j], RowOf(r))
      BY <1>2, RowsStay
    <2>2. /\ ledger'[j].seen = tick[r].seen /\ ledger'[j].day = tick[r].day
          /\ ledger'[j].fired = tick[r].fired
      BY <2>1 DEF SameRow, RowOf
    <2>3. i \in DOMAIN ledger /\ i \in 1..tick[r].seen
      <3>1. tick[r].seen <= Len(ledger)
        BY <2>1 DEF SeenBefore
      <3> QED
        BY <1>0, <2>2, <3>1
    <2>4. ledger[i].ok /\ f \in ledger[i].fired /\ ledger'[i].day = ledger[i].day
      BY <2>3, RowsStay DEF SameRow
    <2>5. Follows(f, ledger[i].day, g, tick[r].day)
      BY <2>1, <2>2, <2>3, <2>4 DEF FiresFollow
    <2>6. Settled(f) => Settled(f)'
      BY <2>3, <2>4, MadeKnown, SettledStays
    <2> QED
      BY <2>2, <2>4, <2>5, <2>6 DEF Follows
  <1> QED
    BY <1>1, <1>2

-----------------------------------------------------------------------------
(* Where the proposals are after a step: the sweeps' own are the new ones, *)
(* and those of a tick move as one.                                        *)
(* The proposals in rows when none is added, and when one is.              *)
LEMMA InRowsSame ==
    ASSUME \A i \in DOMAIN ledger : SameRow(ledger'[i], ledger[i]),
           DOMAIN ledger' = DOMAIN ledger
    PROVE  InRows' = InRows
  BY DEF InRows, FiresIn, SameRow

LEMMA InRowsMore ==
    ASSUME TickTypes, NEW r \in Runners,
           \A i \in DOMAIN ledger : SameRow(ledger'[i], ledger[i]),
           DOMAIN ledger' = 1..Len(ledger) + 1,
           SameRow(ledger'[Len(ledger) + 1], RowOf(r))
    PROVE  InRows' = InRows \union Made(r)
  <1> DEFINE new == Len(ledger) + 1
  <1>1. DOMAIN ledger' = DOMAIN ledger \union {new}
    BY DEF TickTypes
  <1>2. \A i \in DOMAIN ledger : ledger'[i].fired = ledger[i].fired
    BY DEF SameRow
  <1>3. ledger'[new].fired = tick[r].fired
    BY DEF SameRow, RowOf
  <1> HIDE DEF new
  <1>4. FiresIn(ledger)' = FiresIn(ledger) \union tick[r].fired
    <2>1. ASSUME NEW f
          PROVE  f \in FiresIn(ledger)' <=> \E i \in DOMAIN ledger' : f \in ledger'[i].fired
      BY DEF FiresIn
    <2>2. ASSUME NEW f
          PROVE  f \in FiresIn(ledger) <=> \E i \in DOMAIN ledger : f \in ledger[i].fired
      BY DEF FiresIn
    <2>3. ASSUME NEW f
          PROVE  f \in FiresIn(ledger)' <=> f \in FiresIn(ledger) \/ f \in tick[r].fired
      <3>1. (\E i \in DOMAIN ledger' : f \in ledger'[i].fired) <=>
               \/ \E i \in DOMAIN ledger : f \in ledger'[i].fired
               \/ f \in ledger'[new].fired
        BY <1>1
      <3> QED
        BY <1>2, <1>3, <2>1, <2>2, <3>1
    <2> QED
      BY <2>3
  <1> QED
    BY <1>4 DEF InRows, Made

Others(r) == UNION {Unrecorded(s) : s \in Runners \ {r}}

LEMMA Flight ==
    ASSUME MadeApart, NEW r \in Runners,
           \A s \in Runners \ {r} : Unrecorded(s)' = Unrecorded(s)
    PROVE  /\ InFlight = Others(r) \union Unrecorded(r)
           /\ InFlight' = Others(r) \union Unrecorded(r)'
           /\ Others(r) \cap Unrecorded(r) = {}
           /\ Others(r) \cap Unrecorded(r)' = {} => MadeApart'
  <1>1. InFlight = Others(r) \union Unrecorded(r)
    BY DEF InFlight, Others
  <1>2. InFlight' = Others(r) \union Unrecorded(r)'
    BY DEF InFlight, Others
  <1>3. Others(r) \cap Unrecorded(r) = {}
    BY DEF MadeApart, Others
  <1>4. ASSUME Others(r) \cap Unrecorded(r)' = {},
               NEW p \in Runners, NEW s \in Runners, p # s
        PROVE  Unrecorded(p)' \cap Unrecorded(s)' = {}
    BY <1>4 DEF MadeApart, Others
  <1> QED
    BY <1>1, <1>2, <1>3, <1>4 DEF MadeApart

(* Nothing is made and nothing moves.                                      *)
LEMMA NothingMoves ==
    ASSUME AccountedFor, MadeApart, UNCHANGED <<ledger, dropped, orphaned>>,
           DOMAIN proposals' = DOMAIN proposals,
           \A s \in Runners : Unrecorded(s)' = Unrecorded(s)
    PROVE  AccountedFor' /\ MadeApart'
  <1>1. InRows' = InRows
    BY DEF InRows, FiresIn
  <1>2. InFlight' = InFlight /\ MadeApart'
    BY DEF InFlight, MadeApart
  <1> QED
    BY <1>1, <1>2, Places, PlacesNext DEF Partition

(* What a tick has made moves to its row.                                  *)
LEMMA MovesToRow ==
    ASSUME AccountedFor, MadeApart, UNCHANGED <<proposals, dropped, orphaned>>,
           NEW r \in Runners, tick[r].pc = "sweep", Unrecorded(r)' = {},
           \A s \in Runners \ {r} : Unrecorded(s)' = Unrecorded(s),
           InRows' = InRows \union Made(r)
    PROVE  AccountedFor' /\ MadeApart'
  <1>1. Unrecorded(r) = Made(r)
    BY DEF Unrecorded
  <1> QED
    BY <1>1, Flight, Places, PlacesNext DEF Partition

(* What a tick has made, and may be making, is left behind.                *)
LEMMA LeftBehind ==
    ASSUME AccountedFor, MadeApart, InRows' = InRows, dropped' = dropped,
           NEW r \in Runners, Unrecorded(r)' = {},
           \A s \in Runners \ {r} : Unrecorded(s)' = Unrecorded(s),
           NEW more, DOMAIN proposals' = DOMAIN proposals \union more,
           more \cap DOMAIN proposals = {},
           orphaned' = orphaned \union Unrecorded(r) \union more
    PROVE  AccountedFor' /\ MadeApart'
  BY Flight, Places, PlacesNext DEF Partition

(* A sweep's proposals are reported to its tick, or their work is dropped. *)
LEMMA Proposed ==
    ASSUME AccountedFor, MadeApart, InRows' = InRows, orphaned' = orphaned,
           NEW r \in Runners,
           \A s \in Runners \ {r} : Unrecorded(s)' = Unrecorded(s),
           NEW more, DOMAIN proposals' = DOMAIN proposals \union more,
           more \cap DOMAIN proposals = {},
           NEW gone \in SUBSET more,
           Unrecorded(r)' = Unrecorded(r) \union (more \ gone),
           dropped' = dropped \union gone
    PROVE  AccountedFor' /\ MadeApart'
  BY Flight, Places, PlacesNext DEF Partition

LEMMA AccountedForKept ==
    ASSUME TickTypes, AccountedFor, MadeApart, Remembered, [TickNext]_tickVars, TickTypes'
    PROVE  AccountedFor' /\ MadeApart'
  <1>0. tick \in [Runners -> TickState]
    BY DEF TickTypes, TickState
  <1>a. ASSUME NEW s \in Runners, tick'[s] = tick[s]
        PROVE  Unrecorded(s)' = Unrecorded(s)
    BY <1>a DEF Unrecorded, Made
  <1>b. ASSUME NEW s \in Runners, tick'[s].pc # "sweep"
        PROVE  Unrecorded(s)' = {}
    BY <1>b DEF Unrecorded
  <1>c. ASSUME ledger' = ledger
        PROVE  InRows' = InRows
    BY <1>c DEF InRows, FiresIn
  <1>1. ASSUME NEW r \in Runners, NEW d \in Days, Start(r, d)
        PROVE  AccountedFor' /\ MadeApart'
    <2>1. tick[r].pc = "idle" /\ tick'[r].pc = "evaluate"
          /\ \A s \in Runners \ {r} : tick'[s] = tick[s]
      BY <1>0, <1>1 DEF Start, NoTick
    <2>2. \A s \in Runners : Unrecorded(s)' = Unrecorded(s)
      BY <1>a, <1>b, <2>1 DEF Unrecorded
    <2> QED
      BY <1>1, <2>2, NothingMoves DEF Start
  <1>2. ASSUME NEW r \in Runners, Evaluate(r)
        PROVE  AccountedFor' /\ MadeApart'
    <2>1. tick[r].pc = "evaluate" /\ tick[r].fired = {} /\ tick'[r].fired = tick[r].fired
          /\ \A s \in Runners \ {r} : tick'[s] = tick[s]
      BY <1>0, <1>2 DEF Evaluate, Remembered, TickState
    <2>2. \A s \in Runners : Unrecorded(s)' = Unrecorded(s)
      <3>1. Unrecorded(r) = {} /\ Unrecorded(r)' = {}
        BY <2>1 DEF Unrecorded, Made
      <3> QED
        BY <1>a, <2>1, <3>1
    <2> QED
      BY <1>2, <2>2, NothingMoves DEF Evaluate
  <1>3. ASSUME NEW r \in Runners, AppendLedger(r)
        PROVE  AccountedFor' /\ MadeApart'
    <2>1. tick[r].pc = "sweep" /\ tick'[r].pc = "audit"
          /\ \A s \in Runners \ {r} : tick'[s] = tick[s]
      BY <1>0, <1>3 DEF AppendLedger, TickState
    <2>2. InRows' = InRows \union Made(r)
      <3>1. RowOf(r) \in Row /\ RowOf(r).ok /\ AppendRow(RowOf(r))
        BY <1>3, RowOfTyped DEF AppendLedger
      <3>2. /\ DOMAIN ledger' = 1..Len(ledger) + 1 /\ DOMAIN ledger = 1..Len(ledger)
            /\ \A i \in 1..Len(ledger) : SameRow(ledger'[i], ledger[i])
            /\ SameRow(ledger'[Len(ledger) + 1], RowOf(r))
        <4>1. ledger' \in Seq(Row) /\ ledger \in Seq(Row)
          BY DEF TickTypes
        <4> QED
          BY <3>1, <4>1, AppendRowKeeps
      <3> QED
        BY <3>2, InRowsMore
    <2>3. Unrecorded(r)' = {} /\ \A s \in Runners \ {r} : Unrecorded(s)' = Unrecorded(s)
      BY <1>a, <1>b, <2>1
    <2> QED
      BY <1>3, <2>1, <2>2, <2>3, MovesToRow DEF AppendLedger
  <1>4. ASSUME NEW r \in Runners, RecordAudit(r)
        PROVE  AccountedFor' /\ MadeApart'
    <2>1. tick[r].pc = "audit" /\ tick'[r].pc = "idle"
          /\ \A s \in Runners \ {r} : tick'[s] = tick[s]
      BY <1>0, <1>4 DEF RecordAudit, NoTick
    <2>2. \A s \in Runners : Unrecorded(s)' = Unrecorded(s)
      BY <1>a, <1>b, <2>1 DEF Unrecorded
    <2> QED
      BY <1>4, <2>2, NothingMoves DEF RecordAudit
  <1>d. ASSUME NEW r \in Runners, tick' = [tick EXCEPT ![r] = NoTick]
        PROVE  Unrecorded(r)' = {} /\ \A s \in Runners \ {r} : Unrecorded(s)' = Unrecorded(s)
    <2>1. tick'[r].pc = "idle" /\ \A s \in Runners \ {r} : tick'[s] = tick[s]
      BY <1>0, <1>d DEF NoTick
    <2> QED
      BY <1>a, <1>b, <2>1
  <1>5. ASSUME NEW r \in Runners, CrashBetween(r)
        PROVE  AccountedFor' /\ MadeApart'
    <2>1. /\ InRows' = InRows /\ dropped' = dropped
          /\ orphaned' = orphaned \union Unrecorded(r) \union {}
          /\ DOMAIN proposals' = DOMAIN proposals \union {}
      BY <1>5, <1>c DEF CrashBetween
    <2>2. Unrecorded(r)' = {} /\ \A s \in Runners \ {r} : Unrecorded(s)' = Unrecorded(s)
      BY <1>5, <1>d DEF CrashBetween
    <2> QED
      BY <2>1, <2>2, LeftBehind
  <1>6. ASSUME NEW r \in Runners, TornAppend(r)
        PROVE  AccountedFor' /\ MadeApart'
    <2>1. Unrecorded(r)' = {} /\ \A s \in Runners \ {r} : Unrecorded(s)' = Unrecorded(s)
      BY <1>6, <1>d DEF TornAppend
    <2>2. tick[r].pc = "sweep" /\ UNCHANGED <<proposals, dropped>> /\ Unrecorded(r) = Made(r)
      BY <1>6 DEF TornAppend, Unrecorded
    <2>3. CASE ledger' = Spoilt(ledger) /\ orphaned' = orphaned \union Made(r)
      <3>1. InRows' = InRows
        <4>1. DOMAIN ledger = 1..Len(ledger) /\ DOMAIN Spoilt(ledger) = 1..Len(ledger)
          BY SpoiltTyped DEF TickTypes
        <4> QED
          BY <2>3, <4>1, SpoiltTyped, InRowsSame
      <3>2. /\ orphaned' = orphaned \union Unrecorded(r) \union {}
            /\ DOMAIN proposals' = DOMAIN proposals \union {}
        BY <2>2, <2>3
      <3> QED
        BY <2>1, <2>2, <3>1, <3>2, LeftBehind
    <2>4. CASE ledger' = Append(ledger, RowOf(r)) /\ UNCHANGED orphaned
      <3>1. /\ DOMAIN ledger' = 1..Len(ledger) + 1 /\ DOMAIN ledger = 1..Len(ledger)
            /\ \A i \in 1..Len(ledger) : ledger'[i] = ledger[i]
            /\ ledger'[Len(ledger) + 1] = RowOf(r)
        BY <2>4, RowOfTyped, AppendProperties DEF TickTypes
      <3>2. /\ \A i \in DOMAIN ledger : SameRow(ledger'[i], ledger[i])
            /\ SameRow(ledger'[Len(ledger) + 1], RowOf(r))
        BY <3>1 DEF SameRow
      <3>3. InRows' = InRows \union Made(r)
        BY <3>1, <3>2, InRowsMore
      <3> QED
        BY <2>1, <2>2, <2>4, <3>3, MovesToRow
    <2> QED
      BY <1>6, <2>3, <2>4 DEF TornAppend
  <1>7. ASSUME NEW r \in Runners, NEW c \in tick[r].todo, NEW chosen \in SUBSET Accounts,
               Sweep(r, c, chosen)
        PROVE  AccountedFor' /\ MadeApart'
    <2> DEFINE gone == {p \in New(chosen) : Collapsed(c, tick[r].day, p)}
               fire == [t |-> c.t, a |-> c.a, key |-> c.key, made |-> Reported(New(chosen), gone)]
    <2>1. c \in Candidate /\ Propose(c, chosen)
      BY <1>0, <1>7 DEF Sweep, TickState
    <2>2. /\ DOMAIN proposals' = DOMAIN proposals \union New(chosen)
          /\ New(chosen) \cap DOMAIN proposals = {}
      BY <2>1, SweepAppends
    <2>3. gone \in SUBSET New(chosen) /\ fire.made = New(chosen) \ gone
      BY DEF Reported
    <2>4. tick' = [tick EXCEPT ![r].todo = @ \ {c}, ![r].fired = @ \union {fire}]
      BY <1>7 DEF Sweep
    <2>5. dropped' = dropped \union gone
      BY <1>7 DEF Sweep
    <2>6. InRows' = InRows /\ orphaned' = orphaned /\ tick[r].pc = "sweep"
      BY <1>7, <1>c DEF Sweep
    <2> HIDE DEF gone, fire
    <2>7. /\ tick'[r].pc = "sweep" /\ tick'[r].fired = tick[r].fired \union {fire}
          /\ \A s \in Runners \ {r} : tick'[s] = tick[s]
      BY <1>0, <2>4, <2>6 DEF TickState
    <2>8. Unrecorded(r)' = Unrecorded(r) \union (New(chosen) \ gone)
      <3>1. Made(r)' = Made(r) \union fire.made
        BY <2>7 DEF Made
      <3> QED
        BY <2>3, <2>6, <2>7, <3>1 DEF Unrecorded
    <2>9. \A s \in Runners \ {r} : Unrecorded(s)' = Unrecorded(s)
      BY <1>a, <2>7
    <2> QED
      BY <2>2, <2>3, <2>5, <2>6, <2>8, <2>9, Proposed
  <1>8. ASSUME NEW r \in Runners, NEW c \in tick[r].todo, NEW chosen \in SUBSET Accounts,
               CrashInSweep(r, c, chosen)
        PROVE  AccountedFor' /\ MadeApart'
    <2>1. c \in Candidate /\ Propose(c, chosen)
      BY <1>0, <1>8 DEF CrashInSweep, TickState
    <2>2. /\ DOMAIN proposals' = DOMAIN proposals \union New(chosen)
          /\ New(chosen) \cap DOMAIN proposals = {}
      BY <2>1, SweepAppends
    <2>3. /\ InRows' = InRows /\ dropped' = dropped
          /\ orphaned' = orphaned \union Unrecorded(r) \union New(chosen)
      BY <1>8, <1>c DEF CrashInSweep, Unrecorded
    <2>4. Unrecorded(r)' = {} /\ \A s \in Runners \ {r} : Unrecorded(s)' = Unrecorded(s)
      BY <1>8, <1>d DEF CrashInSweep
    <2> QED
      BY <2>2, <2>3, <2>4, LeftBehind
  <1>9. ASSUME NEW p \in DOMAIN proposals, DecideProposal(p)
        PROVE  AccountedFor' /\ MadeApart'
    <2>1. DOMAIN proposals' = DOMAIN proposals /\ tick' = tick
      BY <1>9 DEF DecideProposal
    <2>2. \A s \in Runners : Unrecorded(s)' = Unrecorded(s)
      BY <1>a, <2>1
    <2> QED
      BY <1>9, <2>1, <2>2, NothingMoves DEF DecideProposal
  <1>10. CASE UNCHANGED tickVars
    BY <1>10, <1>a, NothingMoves DEF tickVars
  <1> QED
    BY <1>1, <1>2, <1>3, <1>4, <1>5, <1>6, <1>7, <1>8, <1>9, <1>10 DEF TickNext

-----------------------------------------------------------------------------
LEMMA TickInitEstablishes == TickInit => TickInv
  <1> SUFFICES ASSUME TickInit
               PROVE  TickInv
    OBVIOUS
  <1>1. TickTypes
    <2>1. tick \in [Runners -> TickState]
      BY NoTickTyped DEF TickInit
    <2>2. started \in 0..MaxTicks /\ faults \in 0..MaxFaults
      BY BoundAssumption DEF TickInit
    <2> QED
      BY <2>1, <2>2 DEF TickInit, TickTypes, TickState
  <1>2. \A r \in Runners : tick[r].pc = "idle"
    BY DEF TickInit, NoTick
  <1>3. DOMAIN ledger = {} /\ DOMAIN proposals = {} /\ dropped = {} /\ orphaned = {}
    BY DEF TickInit
  <1>4. SeenBefore /\ Remembered /\ FiresFollow /\ RowsFollow
    BY <1>2, <1>3 DEF SeenBefore, Remembered, FiresFollow, RowsFollow
  <1>5. \A r \in Runners : Unrecorded(r) = {}
    BY <1>2 DEF Unrecorded
  <1>6. InRows = {} /\ InFlight = {}
    BY <1>3, <1>5 DEF InRows, FiresIn, InFlight
  <1>7. AccountedFor /\ MadeApart
    BY <1>3, <1>5, <1>6, Places DEF Partition, MadeApart
  <1> QED
    BY <1>1, <1>4, <1>7 DEF TickInv

(* TickInv is inductive: a row is written by a tick that has evaluated its *)
(* triggers against every earlier row it saw, and since then proposals     *)
(* were only decided and rows only lost.                                   *)
THEOREM TickInvariance == TickSpec => []TickInv
  <1>1. ASSUME TickInv, [TickNext]_tickVars
        PROVE  TickInv'
    <2>1. TickTypes'
      BY <1>1, TypesKept DEF TickInv
    <2> QED
      BY <1>1, <2>1, SeenBeforeKept, RememberedKept, FiresFollowKept, RowsFollowKept,
         AccountedForKept DEF TickInv
  <1> QED
    BY <1>1, TickInitEstablishes, PTL DEF TickSpec

(* Every variable of the tick runner keeps its type.                       *)
THEOREM TickTypesHold == TickSpec => []TickTypes
  BY TickInvariance, PTL DEF TickInv

(* No trigger fires again over a proposal that is still undecided.         *)
THEOREM NeverTwicePending == TickSpec => []NoDoublePending
  <1>1. TickInv => NoDoublePending
    BY DEF TickInv, NoDoublePending, KnownPairs, RowsFollow, Follows, Settled
  <1> QED
    BY <1>1, TickInvariance, PTL

(* Two fires for a subject are of different instances, and spaced.         *)
THEOREM FiresStayApart == TickSpec => []FiresAreSpaced
  <1>1. TickInv => FiresAreSpaced
    BY DEF TickInv, FiresAreSpaced, KnownPairs, RowsFollow, Follows, Apart
  <1> QED
    BY <1>1, TickInvariance, PTL

(* Each proposal is in one row, one running tick, dropped, or left behind. *)
THEOREM EveryProposalAccounted == TickSpec => []AccountedFor
  BY TickInvariance, PTL DEF TickInv

(* A row that was written with its newline is never spoilt.                *)
THEOREM WholeRowsStay == TickSpec => TerminatedRowsStay
  <1>1. ASSUME TickInv, [TickNext]_tickVars
        PROVE  [\A i \in DOMAIN ledger :
                   ledger[i].ok /\ (i < Len(ledger) \/ tail = "clean")
                       => ledger'[i].ok]_tickVars
    BY <1>1, RowsStay DEF TickInv
  <1> QED
    BY <1>1, TickInvariance, PTL DEF TickSpec, TerminatedRowsStay
=============================================================================
