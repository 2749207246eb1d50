-------------------------- MODULE SimCommitProofs ---------------------------
(***************************************************************************)
(* Proofs about SimCommit: for any number of keys, processes and faults, a *)
(* completed key is final, was written to both files and was reported once,*)
(* and calls that do not overlap never leave a second row.                 *)
(***************************************************************************)
EXTENDS SimCommit, TLAPS

(* What an append, whole or torn, does to the file it lands in: it hides   *)
(* no row that is not counted as spoiled, and adds one of its own at most. *)
LEMMA AppendKeepsRows ==
    ASSUME NEW f \in File, NEW k \in Keys, NEW lost \in SUBSET Keys
    PROVE  LET g == Appended(f, k)  gone == lost \union SpoiltBy(f, k) IN
           /\ g \in File /\ gone \in SUBSET Keys
           /\ Recorded(g, gone, k)
           /\ Readable(g, k) <= Readable(f, k) + 1
           /\ \A j \in Keys \ {k} : Readable(g, j) <= Readable(f, j)
           /\ \A j \in Keys : Recorded(f, lost, j) => Recorded(g, gone, j)
           /\ lost \subseteq gone
  <1>1. CASE f.tail = Clean
    <2>1. Appended(f, k) = [f EXCEPT !.rows[k] = @ + 1] /\ SpoiltBy(f, k) = {}
      BY <1>1 DEF Appended, SpoiltBy
    <2> DEFINE g == [f EXCEPT !.rows[k] = @ + 1]
    <2>2. /\ g \in File /\ g.tail = f.tail
          /\ g.rows[k] = f.rows[k] + 1
          /\ \A j \in Keys \ {k} : g.rows[j] = f.rows[j]
      BY DEF File
    <2>3. \A j \in Keys : f.rows[j] \in Nat
      BY DEF File
    <2> HIDE DEF g
    <2>4. /\ Readable(g, k) = Readable(f, k) + 1
          /\ Readable(f, k) \in Nat
          /\ \A j \in Keys \ {k} : Readable(g, j) = Readable(f, j)
          /\ \A j \in Keys : Readable(f, j) \in Nat
      BY <2>2, <2>3 DEF Readable
    <2> QED
      BY <2>1, <2>2, <2>4 DEF Recorded, g
  <1>2. CASE f.tail # Clean
    <2>1. Appended(f, k) = [f EXCEPT !.tail = Clean]
          /\ SpoiltBy(f, k) = {k} \union ({f.tail} \cap Keys)
      BY <1>2 DEF Appended, SpoiltBy, SpoiltTail
    <2> DEFINE g == [f EXCEPT !.tail = Clean]
    <2>2. g \in File /\ g.tail = Clean /\ g.rows = f.rows
      BY DEF File
    <2>3. \A j \in Keys : f.rows[j] \in Nat
      BY DEF File
    <2> HIDE DEF g
    <2>4. \A j \in Keys : /\ Readable(f, j) \in Nat /\ Readable(g, j) \in Nat
                          /\ Readable(g, j) <= Readable(f, j)
                          /\ f.tail = j \/ Readable(g, j) = Readable(f, j)
      BY <2>2, <2>3, TailAssumption DEF Readable
    <2> DEFINE gone == lost \union SpoiltBy(f, k)
    <2>5. gone = lost \union {k} \union ({f.tail} \cap Keys)
      BY <2>1
    <2> HIDE DEF gone
    <2>6. ASSUME NEW j \in Keys, Recorded(f, lost, j) PROVE Recorded(g, gone, j)
      <3>1. CASE f.tail = j
        BY <3>1, <2>5 DEF Recorded
      <3>2. CASE Readable(g, j) = Readable(f, j)
        BY <3>2, <2>5, <2>6 DEF Recorded
      <3> QED
        BY <3>1, <3>2, <2>4
    <2>7. gone \in SUBSET Keys /\ Recorded(g, gone, k) /\ lost \subseteq gone
      BY <2>5 DEF Recorded
    <2>8. Readable(g, k) <= Readable(f, k) + 1
      <3>1. /\ Readable(g, k) \in Nat /\ Readable(f, k) \in Nat
            /\ Readable(g, k) <= Readable(f, k)
        BY <2>4
      <3> QED
        BY <3>1
    <2>9. \A j \in Keys \ {k} : Readable(g, j) <= Readable(f, j)
      BY <2>4
    <2>10. Appended(f, k) = g /\ lost \union SpoiltBy(f, k) = gone /\ g \in File
      BY <2>1, <2>2 DEF g, gone
    <2> QED
      BY <2>6, <2>7, <2>8, <2>9, <2>10
  <1> QED
    BY <1>1, <1>2

LEMMA TornAppendKeepsRows ==
    ASSUME NEW f \in File, NEW k \in Keys, NEW lost \in SUBSET Keys,
           NEW g \in TornAppends(f, k)
    PROVE  LET gone == lost \union SpoiltTail(f) IN
           /\ g \in File /\ gone \in SUBSET Keys
           /\ Readable(g, k) <= Readable(f, k) + 1
           /\ \A j \in Keys \ {k} : Readable(g, j) <= Readable(f, j)
           /\ \A j \in Keys : Recorded(f, lost, j) => Recorded(g, gone, j)
           /\ lost \subseteq gone
  <1>1. PICK t \in {Fragment} \union (IF f.tail = Clean THEN {k} ELSE {}) :
            g = [f EXCEPT !.tail = t]
    BY DEF TornAppends
  <1>2. /\ g \in File /\ g.tail = t /\ g.rows = f.rows
        /\ \A j \in Keys : f.rows[j] \in Nat
    BY <1>1 DEF File
  <1>3. SpoiltTail(f) = {f.tail} \cap Keys
    BY DEF SpoiltTail
  <1>4. \A j \in Keys : /\ Readable(f, j) \in Nat /\ Readable(g, j) \in Nat
                        /\ j # k => Readable(g, j) <= Readable(f, j)
                        /\ Readable(g, j) <= Readable(f, j) + 1
                        /\ f.tail = j \/ Readable(g, j) >= Readable(f, j)
    BY <1>1, <1>2, TailAssumption DEF Readable
  <1> DEFINE gone == lost \union SpoiltTail(f)
  <1>5. ASSUME NEW j \in Keys, Recorded(f, lost, j) PROVE Recorded(g, gone, j)
    <2>1. CASE f.tail = j
      BY <2>1, <1>3 DEF Recorded
    <2>2. CASE Readable(g, j) >= Readable(f, j)
      BY <2>2, <1>4, <1>5 DEF Recorded
    <2> QED
      BY <2>1, <2>2, <1>4
  <1>6. gone \in SUBSET Keys /\ lost \subseteq gone
    BY <1>3
  <1> QED
    BY <1>2, <1>4, <1>5, <1>6

(* What a step of the call for k does to the files: others' rows are not   *)
(* added to, and whatever was recorded stays so.                           *)
FilesGoOn(k) ==
    /\ \A j \in Keys : /\ Readable(outbox, j) \in Nat /\ Readable(outbox', j) \in Nat
                       /\ Readable(audit, j) \in Nat /\ Readable(audit', j) \in Nat
    /\ \A j \in Keys \ {k} : /\ Readable(outbox', j) <= Readable(outbox, j)
                             /\ Readable(audit', j) <= Readable(audit, j)
    /\ \A j \in Keys : /\ Recorded(outbox, spoiled.outbox, j) =>
                              Recorded(outbox', spoiled'.outbox, j)
                       /\ Recorded(audit, spoiled.audit, j) =>
                              Recorded(audit', spoiled'.audit, j)
                       /\ j \in spoiled.outbox => j \in spoiled'.outbox
                       /\ j \in spoiled.audit => j \in spoiled'.audit

LEMMA ReadableIsNat ==
    ASSUME NEW f \in File, NEW k \in Keys
    PROVE  Readable(f, k) \in Nat
  BY DEF File, Readable

LEMMA FilesUntouched ==
    ASSUME TypeOK, NEW k \in Keys, UNCHANGED <<outbox, audit, spoiled>>
    PROVE  FilesGoOn(k)
  BY ReadableIsNat DEF FilesGoOn, TypeOK

(* A step of the call for k disturbs no other key, and no other call: one  *)
(* for the same key overlaps with it, and nothing is claimed of these.     *)
OthersOK(w, k) ==
    /\ OverlapsAreNoted'
    /\ \A j \in Keys \ {k} : KeyOK(j)'
    /\ \A v \in Workers \ {w} : IF call'[v].pc = "idle" THEN call'[v].k = NULL
                                ELSE call'[v].k \in Keys /\ CallOK(v, call[v].k)'

LEMMA OthersKeep ==
    ASSUME IInv, NEW w \in Workers, NEW k \in Keys, call[w].k = k,
           UNCHANGED overlapped, FilesGoOn(k),
           \A v \in Workers \ {w} : call'[v] = call[v],
           call'[w].k \in {NULL, k},
           \A j \in Keys \ {k} : keyRow'[j] = keyRow[j] /\ receipts'[j] = receipts[j]
    PROVE  OthersOK(w, k)
  <1> USE DEF IInv
  <1>1. OverlapsAreNoted'
    BY DEF OverlapsAreNoted
  <1>2. ASSUME NEW j \in Keys \ {k} PROVE KeyOK(j)'
    <2>1. KeyOK(j)
      OBVIOUS
    <2> QED
      BY <2>1 DEF KeyOK, FilesGoOn, Recorded
  <1>3. ASSUME NEW v \in Workers \ {w}, call'[v].pc # "idle"
        PROVE  call'[v].k \in Keys /\ CallOK(v, call[v].k)'
    <2>1. call'[v] = call[v] /\ call[v].pc # "idle" /\ call[v].k \in Keys /\ CallOK(v, call[v].k)
      BY <1>3
    <2> DEFINE j == call[v].k
    <2>2. j = k => k \in overlapped
      BY NullAssumption DEF OverlapsAreNoted
    <2>3. j \notin overlapped =>
              /\ Readable(outbox', j) <= Readable(outbox, j)
              /\ Readable(audit', j) <= Readable(audit, j)
              /\ j \in spoiled.outbox => j \in spoiled'.outbox
              /\ Readable(outbox, j) \in Nat /\ Readable(outbox', j) \in Nat
              /\ Readable(audit, j) \in Nat /\ Readable(audit', j) \in Nat
      BY <2>1, <2>2 DEF FilesGoOn
    <2>4. /\ Recorded(outbox, spoiled.outbox, j) => Recorded(outbox', spoiled'.outbox, j)
          /\ Recorded(audit, spoiled.audit, j) => Recorded(audit', spoiled'.audit, j)
      BY <2>1 DEF FilesGoOn
    <2> QED
      BY <2>1, <2>3, <2>4 DEF CallOK
  <1>4. \A v \in Workers \ {w} : call'[v].pc = "idle" => call'[v].k = NULL
    OBVIOUS
  <1> QED
    BY <1>1, <1>2, <1>3, <1>4 DEF OthersOK

LEMMA HolderOfKey ==
    ASSUME IInv, NEW w \in Workers, call[w].pc # "idle"
    PROVE  \E k \in Keys : call[w].k = k /\ KeyOK(k) /\ CallOK(w, k)
  BY DEF IInv

(* Where a call goes when it takes a step or ends. *)
LEMMA GotoMoves ==
    ASSUME TypeOK, NEW w \in Workers, NEW k \in Keys, call[w].k = k,
           NEW pc \in {"acquire", "write", "audit", "mark", "fail", "reconcile", "repair",
                       "markReconciled"},
           Goto(w, pc)
    PROVE  /\ call' \in [Workers -> Call]
           /\ \A v \in Workers \ {w} : call'[v] = call[v]
           /\ call'[w].pc = pc /\ call'[w].k = k
           /\ call'[w].found = call[w].found
  BY DEF TypeOK, Goto, Call

LEMMA ReturnMoves ==
    ASSUME TypeOK, NEW w \in Workers, Return(w)
    PROVE  /\ call' \in [Workers -> Call]
           /\ \A v \in Workers \ {w} : call'[v] = call[v]
           /\ call'[w].pc = "idle" /\ call'[w].k = NULL
  <1>1. NoCall \in Call /\ NoCall.pc = "idle" /\ NoCall.k = NULL
    BY DEF NoCall, Call
  <1> QED
    BY <1>1 DEF TypeOK, Return

(* A call that ends, having changed nothing or only its own key. *)
LEMMA ReturnKeeps ==
    ASSUME IInv, NEW w \in Workers, NEW k \in Keys, call[w].k = k, Return(w),
           TypeOK', UNCHANGED overlapped, FilesGoOn(k), KeyOK(k)',
           \A j \in Keys \ {k} : keyRow'[j] = keyRow[j] /\ receipts'[j] = receipts[j]
    PROVE  IInv'
  <1>1. /\ \A v \in Workers \ {w} : call'[v] = call[v]
        /\ call'[w].pc = "idle" /\ call'[w].k = NULL
    BY ReturnMoves DEF IInv
  <1>2. OthersOK(w, k)
    BY <1>1, OthersKeep
  <1> QED
    BY <1>1, <1>2 DEF IInv, OthersOK

(* A call that goes on, knowing what CallOK says of where it is. *)
LEMMA GoesOnKeeps ==
    ASSUME IInv, NEW w \in Workers, NEW k \in Keys, call[w].k = k,
           call'[w].k = k, call'[w].pc # "idle",
           \A v \in Workers \ {w} : call'[v] = call[v],
           TypeOK', UNCHANGED overlapped, FilesGoOn(k), KeyOK(k)', CallOK(w, k)',
           \A j \in Keys \ {k} : keyRow'[j] = keyRow[j] /\ receipts'[j] = receipts[j]
    PROVE  IInv'
  <1>1. OthersOK(w, k)
    BY OthersKeep
  <1> QED
    BY <1>1 DEF IInv, OthersOK

LEMMA LookKeeps ==
    ASSUME IInv, NEW w \in Workers, Look(w)
    PROVE  IInv'
  <1>1. PICK k \in Keys : call[w].k = k /\ KeyOK(k) /\ CallOK(w, k)
    BY HolderOfKey DEF Look, At
  <1>2. UNCHANGED <<keyRow, outbox, audit, faults, receipts, overlapped, spoiled>>
    BY DEF Look
  <1>3. FilesGoOn(k) /\ KeyOK(k)'
    BY <1>1, <1>2, FilesUntouched DEF IInv, KeyOK, Recorded
  <1>4. CASE Return(w)
    <2>1. TypeOK'
      BY <1>2, <1>4, ReturnMoves DEF IInv, TypeOK
    <2> QED
      BY <1>1, <1>2, <1>3, <1>4, <2>1, ReturnKeeps
  <1>5. CASE call' = [call EXCEPT ![w].pc = "acquire", ![w].found = Contains(outbox, k)]
    <2> DEFINE b == Contains(outbox, k)
    <2>1. b \in BOOLEAN /\ (b <=> Readable(outbox, k) > 0)
      BY DEF Contains
    <2> HIDE DEF b
    <2>2. /\ call' \in [Workers -> Call]
          /\ \A v \in Workers \ {w} : call'[v] = call[v]
          /\ call'[w].pc = "acquire" /\ call'[w].k = k /\ call'[w].found = b
      <3>1. call' = [call EXCEPT ![w].pc = "acquire", ![w].found = b]
        BY <1>5 DEF b
      <3> QED
        BY <1>1, <2>1, <3>1 DEF IInv, TypeOK, Call
    <2>3. Readable(outbox, k) \in Nat
      BY ReadableIsNat DEF IInv, TypeOK
    <2>4. CallOK(w, k)'
      BY <1>2, <2>1, <2>2, <2>3 DEF CallOK, Recorded
    <2>5. TypeOK'
      BY <1>2, <2>2 DEF IInv, TypeOK
    <2> QED
      BY <1>1, <1>2, <1>3, <2>2, <2>4, <2>5, GoesOnKeeps
  <1> QED
    BY <1>1, <1>4, <1>5 DEF Look

(* What the lookup found decides; the lease is the caller's own. *)
LEMMA AcquireKeeps ==
    ASSUME IInv, NEW w \in Workers, Acquire(w)
    PROVE  IInv'
  <1>1. PICK k \in Keys : call[w].k = k /\ KeyOK(k) /\ CallOK(w, k)
    BY HolderOfKey DEF Acquire, At
  <1>2. UNCHANGED <<outbox, audit, faults, receipts, overlapped, spoiled>>
        /\ call[w].pc = "acquire"
    BY DEF Acquire, At
  <1>3. FilesGoOn(k)
    BY <1>2, FilesUntouched DEF IInv
  <1>4. CASE Return(w) /\ UNCHANGED keyRow
    <2>1. TypeOK'
      BY <1>2, <1>4, ReturnMoves DEF IInv, TypeOK
    <2>2. KeyOK(k)'
      BY <1>1, <1>2, <1>4 DEF KeyOK, Recorded
    <2> QED
      BY <1>1, <1>2, <1>3, <1>4, <2>1, <2>2, ReturnKeeps
  <1>5. CASE /\ Acquirable(keyRow[k])
             /\ keyRow' = [keyRow EXCEPT ![k] =
                   [state |-> "pending", token |-> w, lease |-> "live"]]
             /\ Goto(w, IF call[w].found THEN "reconcile" ELSE "write")
    <2> DEFINE pc == IF call[w].found THEN "reconcile" ELSE "write"
    <2>1. /\ call' \in [Workers -> Call]
          /\ \A v \in Workers \ {w} : call'[v] = call[v]
          /\ call'[w].pc = pc /\ call'[w].k = k
      BY <1>1, <1>5, GotoMoves DEF IInv
    <2>2. /\ keyRow' \in [Keys -> KeyRow]
          /\ keyRow'[k] = [state |-> "pending", token |-> w, lease |-> "live"]
          /\ \A j \in Keys \ {k} : keyRow'[j] = keyRow[j]
      BY <1>5 DEF IInv, TypeOK, KeyRow
    <2>3. TypeOK'
      BY <1>2, <2>1, <2>2 DEF IInv, TypeOK
    <2>4. keyRow[k].state # "completed" /\ receipts[k] = 0
      BY <1>1, <1>5 DEF Acquirable, KeyOK
    <2>5. KeyOK(k)'
      BY <1>1, <1>2, <2>2, <2>4 DEF KeyOK, Recorded
    <2>6. CallOK(w, k)'
      BY <1>1, <1>2, <2>1 DEF CallOK, Recorded
    <2> QED
      BY <1>1, <1>2, <1>3, <2>1, <2>2, <2>3, <2>5, <2>6, GoesOnKeeps
  <1> QED
    BY <1>1, <1>4, <1>5 DEF Acquire

(* A row in the outbox is the one of its key, and hides no other. *)
LEMMA OutboxAppended ==
    ASSUME TypeOK, NEW k \in Keys, outbox' = Appended(outbox, k), UNCHANGED audit,
           spoiled' = [spoiled EXCEPT !.outbox = @ \union SpoiltBy(outbox, k)]
    PROVE  /\ outbox' \in File /\ spoiled' \in [outbox : SUBSET Keys, audit : SUBSET Keys]
           /\ spoiled'.audit = spoiled.audit /\ spoiled.outbox \subseteq spoiled'.outbox
           /\ FilesGoOn(k)
           /\ Readable(outbox', k) \in Nat /\ Readable(outbox, k) \in Nat
           /\ Readable(outbox', k) <= Readable(outbox, k) + 1
           /\ Recorded(outbox', spoiled'.outbox, k)
  <1> DEFINE lost == spoiled.outbox
             gone == lost \union SpoiltBy(outbox, k)
  <1>1. outbox \in File /\ audit \in File /\ lost \in SUBSET Keys
    BY DEF TypeOK
  <1>2. spoiled'.outbox = gone /\ spoiled'.audit = spoiled.audit
    BY DEF TypeOK
  <1>3. /\ outbox' \in File /\ gone \in SUBSET Keys
        /\ Readable(outbox', k) <= Readable(outbox, k) + 1
        /\ \A j \in Keys \ {k} : Readable(outbox', j) <= Readable(outbox, j)
        /\ \A j \in Keys : Recorded(outbox, lost, j) => Recorded(outbox', gone, j)
        /\ lost \subseteq gone
        /\ Recorded(outbox', gone, k)
    BY <1>1, AppendKeepsRows
  <1>4. spoiled' \in [outbox : SUBSET Keys, audit : SUBSET Keys]
    BY <1>2, <1>3 DEF TypeOK
  <1>5. \A j \in Keys : /\ Readable(outbox, j) \in Nat /\ Readable(outbox', j) \in Nat
                        /\ Readable(audit, j) \in Nat /\ audit' = audit
    BY <1>1, <1>3, ReadableIsNat
  <1> HIDE DEF lost, gone
  <1>6. FilesGoOn(k)
    <2>1. \A j \in Keys \ {k} : /\ Readable(outbox', j) <= Readable(outbox, j)
                                 /\ Readable(audit', j) <= Readable(audit, j)
      BY <1>3, <1>5
    <2>2. \A j \in Keys : /\ Recorded(outbox, spoiled.outbox, j) =>
                                 Recorded(outbox', spoiled'.outbox, j)
                          /\ j \in spoiled.outbox => j \in spoiled'.outbox
      BY <1>2, <1>3 DEF lost
    <2>3. audit' = audit
      OBVIOUS
    <2> QED
      BY <1>2, <1>5, <2>1, <2>2, <2>3 DEF FilesGoOn
  <1> QED
    BY <1>2, <1>3, <1>4, <1>5, <1>6 DEF lost

(* Part of a row in the outbox. *)
LEMMA OutboxTorn ==
    ASSUME TypeOK, NEW k \in Keys, outbox' \in TornAppends(outbox, k), UNCHANGED audit,
           spoiled' = [spoiled EXCEPT !.outbox = @ \union SpoiltTail(outbox)]
    PROVE  /\ outbox' \in File /\ spoiled' \in [outbox : SUBSET Keys, audit : SUBSET Keys]
           /\ spoiled'.audit = spoiled.audit /\ spoiled.outbox \subseteq spoiled'.outbox
           /\ FilesGoOn(k)
           /\ Readable(outbox', k) \in Nat /\ Readable(outbox, k) \in Nat
           /\ Readable(outbox', k) <= Readable(outbox, k) + 1
  <1> DEFINE lost == spoiled.outbox
             gone == lost \union SpoiltTail(outbox)
  <1>1. outbox \in File /\ audit \in File /\ lost \in SUBSET Keys
    BY DEF TypeOK
  <1>2. spoiled'.outbox = gone /\ spoiled'.audit = spoiled.audit
    BY DEF TypeOK
  <1>3. /\ outbox' \in File /\ gone \in SUBSET Keys
        /\ Readable(outbox', k) <= Readable(outbox, k) + 1
        /\ \A j \in Keys \ {k} : Readable(outbox', j) <= Readable(outbox, j)
        /\ \A j \in Keys : Recorded(outbox, lost, j) => Recorded(outbox', gone, j)
        /\ lost \subseteq gone
    BY <1>1, TornAppendKeepsRows
  <1>4. spoiled' \in [outbox : SUBSET Keys, audit : SUBSET Keys]
    BY <1>2, <1>3 DEF TypeOK
  <1>5. \A j \in Keys : /\ Readable(outbox, j) \in Nat /\ Readable(outbox', j) \in Nat
                        /\ Readable(audit, j) \in Nat /\ audit' = audit
    BY <1>1, <1>3, ReadableIsNat
  <1> HIDE DEF lost, gone
  <1>6. FilesGoOn(k)
    <2>1. \A j \in Keys \ {k} : /\ Readable(outbox', j) <= Readable(outbox, j)
                                 /\ Readable(audit', j) <= Readable(audit, j)
      BY <1>3, <1>5
    <2>2. \A j \in Keys : /\ Recorded(outbox, spoiled.outbox, j) =>
                                 Recorded(outbox', spoiled'.outbox, j)
                          /\ j \in spoiled.outbox => j \in spoiled'.outbox
      BY <1>2, <1>3 DEF lost
    <2>3. audit' = audit
      OBVIOUS
    <2> QED
      BY <1>2, <1>5, <2>1, <2>2, <2>3 DEF FilesGoOn
  <1> QED
    BY <1>2, <1>3, <1>4, <1>5, <1>6 DEF lost

(* A row in the audit file. *)
LEMMA AuditAppended ==
    ASSUME TypeOK, NEW k \in Keys, audit' = Appended(audit, k), UNCHANGED outbox,
           spoiled' = [spoiled EXCEPT !.audit = @ \union SpoiltBy(audit, k)]
    PROVE  /\ audit' \in File /\ spoiled' \in [outbox : SUBSET Keys, audit : SUBSET Keys]
           /\ spoiled'.outbox = spoiled.outbox /\ spoiled.audit \subseteq spoiled'.audit
           /\ FilesGoOn(k)
           /\ Readable(audit', k) \in Nat /\ Readable(audit, k) \in Nat
           /\ Readable(audit', k) <= Readable(audit, k) + 1
           /\ Recorded(audit', spoiled'.audit, k)
  <1> DEFINE lost == spoiled.audit
             gone == lost \union SpoiltBy(audit, k)
  <1>1. audit \in File /\ outbox \in File /\ lost \in SUBSET Keys
    BY DEF TypeOK
  <1>2. spoiled'.audit = gone /\ spoiled'.outbox = spoiled.outbox
    BY DEF TypeOK
  <1>3. /\ audit' \in File /\ gone \in SUBSET Keys
        /\ Readable(audit', k) <= Readable(audit, k) + 1
        /\ \A j \in Keys \ {k} : Readable(audit', j) <= Readable(audit, j)
        /\ \A j \in Keys : Recorded(audit, lost, j) => Recorded(audit', gone, j)
        /\ lost \subseteq gone
        /\ Recorded(audit', gone, k)
    BY <1>1, AppendKeepsRows
  <1>4. spoiled' \in [outbox : SUBSET Keys, audit : SUBSET Keys]
    BY <1>2, <1>3 DEF TypeOK
  <1>5. \A j \in Keys : /\ Readable(audit, j) \in Nat /\ Readable(audit', j) \in Nat
                        /\ Readable(outbox, j) \in Nat /\ outbox' = outbox
    BY <1>1, <1>3, ReadableIsNat
  <1> HIDE DEF lost, gone
  <1>6. FilesGoOn(k)
    <2>1. \A j \in Keys \ {k} : /\ Readable(audit', j) <= Readable(audit, j)
                                 /\ Readable(outbox', j) <= Readable(outbox, j)
      BY <1>3, <1>5
    <2>2. \A j \in Keys : /\ Recorded(audit, spoiled.audit, j) =>
                                 Recorded(audit', spoiled'.audit, j)
                          /\ j \in spoiled.audit => j \in spoiled'.audit
      BY <1>2, <1>3 DEF lost
    <2>3. outbox' = outbox
      OBVIOUS
    <2> QED
      BY <1>2, <1>5, <2>1, <2>2, <2>3 DEF FilesGoOn
  <1> QED
    BY <1>2, <1>3, <1>4, <1>5, <1>6 DEF lost

(* Part of a row in the audit file. *)
LEMMA AuditTorn ==
    ASSUME TypeOK, NEW k \in Keys, audit' \in TornAppends(audit, k), UNCHANGED outbox,
           spoiled' = [spoiled EXCEPT !.audit = @ \union SpoiltTail(audit)]
    PROVE  /\ audit' \in File /\ spoiled' \in [outbox : SUBSET Keys, audit : SUBSET Keys]
           /\ spoiled'.outbox = spoiled.outbox /\ spoiled.audit \subseteq spoiled'.audit
           /\ FilesGoOn(k)
           /\ Readable(audit', k) \in Nat /\ Readable(audit, k) \in Nat
           /\ Readable(audit', k) <= Readable(audit, k) + 1
  <1> DEFINE lost == spoiled.audit
             gone == lost \union SpoiltTail(audit)
  <1>1. audit \in File /\ outbox \in File /\ lost \in SUBSET Keys
    BY DEF TypeOK
  <1>2. spoiled'.audit = gone /\ spoiled'.outbox = spoiled.outbox
    BY DEF TypeOK
  <1>3. /\ audit' \in File /\ gone \in SUBSET Keys
        /\ Readable(audit', k) <= Readable(audit, k) + 1
        /\ \A j \in Keys \ {k} : Readable(audit', j) <= Readable(audit, j)
        /\ \A j \in Keys : Recorded(audit, lost, j) => Recorded(audit', gone, j)
        /\ lost \subseteq gone
    BY <1>1, TornAppendKeepsRows
  <1>4. spoiled' \in [outbox : SUBSET Keys, audit : SUBSET Keys]
    BY <1>2, <1>3 DEF TypeOK
  <1>5. \A j \in Keys : /\ Readable(audit, j) \in Nat /\ Readable(audit', j) \in Nat
                        /\ Readable(outbox, j) \in Nat /\ outbox' = outbox
    BY <1>1, <1>3, ReadableIsNat
  <1> HIDE DEF lost, gone
  <1>6. FilesGoOn(k)
    <2>1. \A j \in Keys \ {k} : /\ Readable(audit', j) <= Readable(audit, j)
                                 /\ Readable(outbox', j) <= Readable(outbox, j)
      BY <1>3, <1>5
    <2>2. \A j \in Keys : /\ Recorded(audit, spoiled.audit, j) =>
                                 Recorded(audit', spoiled'.audit, j)
                          /\ j \in spoiled.audit => j \in spoiled'.audit
      BY <1>2, <1>3 DEF lost
    <2>3. outbox' = outbox
      OBVIOUS
    <2> QED
      BY <1>2, <1>5, <2>1, <2>2, <2>3 DEF FilesGoOn
  <1> QED
    BY <1>2, <1>3, <1>4, <1>5, <1>6 DEF lost

(* A call that found nothing writes the only row, unless others do as well. *)
LEMMA WriteOutboxKeeps ==
    ASSUME IInv, NEW w \in Workers, WriteOutbox(w)
    PROVE  IInv'
  <1>1. PICK k \in Keys : call[w].k = k /\ KeyOK(k) /\ CallOK(w, k)
    BY HolderOfKey DEF WriteOutbox, At
  <1>2. /\ call[w].pc = "write" /\ Goto(w, "audit")
        /\ outbox' = Appended(outbox, k)
        /\ spoiled' = [spoiled EXCEPT !.outbox = @ \union SpoiltBy(outbox, k)]
        /\ UNCHANGED <<keyRow, audit, faults, receipts, overlapped>>
    BY <1>1 DEF WriteOutbox, At
  <1>3. /\ outbox' \in File /\ spoiled' \in [outbox : SUBSET Keys, audit : SUBSET Keys]
        /\ spoiled'.audit = spoiled.audit /\ spoiled.outbox \subseteq spoiled'.outbox
        /\ FilesGoOn(k)
        /\ Readable(outbox', k) \in Nat /\ Readable(outbox, k) \in Nat
        /\ Readable(outbox', k) <= Readable(outbox, k) + 1
        /\ Recorded(outbox', spoiled'.outbox, k)
    BY <1>2, OutboxAppended DEF IInv
  <1>4. /\ call' \in [Workers -> Call]
        /\ \A v \in Workers \ {w} : call'[v] = call[v]
        /\ call'[w].pc = "audit" /\ call'[w].k = k
    BY <1>1, <1>2, GotoMoves DEF IInv
  <1>5. TypeOK'
    BY <1>2, <1>3, <1>4 DEF IInv, TypeOK
  <1>6. KeyOK(k)'
    BY <1>1, <1>2, <1>3 DEF KeyOK, CallOK, Recorded, FilesGoOn
  <1>7. CallOK(w, k)'
    BY <1>1, <1>2, <1>3, <1>4 DEF CallOK, KeyOK, Recorded, FilesGoOn
  <1> QED
    BY <1>1, <1>2, <1>3, <1>4, <1>5, <1>6, <1>7, GoesOnKeeps

(* The audit row follows the outbox row. *)
LEMMA WriteAuditKeeps ==
    ASSUME IInv, NEW w \in Workers, WriteAudit(w)
    PROVE  IInv'
  <1>1. PICK k \in Keys : call[w].k = k /\ KeyOK(k) /\ CallOK(w, k)
    BY HolderOfKey DEF WriteAudit, At
  <1>2. /\ call[w].pc = "audit" /\ Goto(w, "mark")
        /\ audit' = Appended(audit, k)
        /\ spoiled' = [spoiled EXCEPT !.audit = @ \union SpoiltBy(audit, k)]
        /\ UNCHANGED <<keyRow, outbox, faults, receipts, overlapped>>
    BY <1>1 DEF WriteAudit, At, AppendAudit
  <1>3. /\ audit' \in File /\ spoiled' \in [outbox : SUBSET Keys, audit : SUBSET Keys]
        /\ spoiled'.outbox = spoiled.outbox /\ spoiled.audit \subseteq spoiled'.audit
        /\ FilesGoOn(k)
        /\ Readable(audit', k) \in Nat /\ Readable(audit, k) \in Nat
        /\ Readable(audit', k) <= Readable(audit, k) + 1
        /\ Recorded(audit', spoiled'.audit, k)
    BY <1>2, AuditAppended DEF IInv
  <1>4. /\ call' \in [Workers -> Call]
        /\ \A v \in Workers \ {w} : call'[v] = call[v]
        /\ call'[w].pc = "mark" /\ call'[w].k = k
    BY <1>1, <1>2, GotoMoves DEF IInv
  <1>5. TypeOK'
    BY <1>2, <1>3, <1>4 DEF IInv, TypeOK
  <1>6. KeyOK(k)'
    BY <1>1, <1>2, <1>3 DEF KeyOK, CallOK, Recorded, FilesGoOn
  <1>7. CallOK(w, k)'
    BY <1>1, <1>2, <1>3, <1>4 DEF CallOK, KeyOK, Recorded, FilesGoOn
  <1> QED
    BY <1>1, <1>2, <1>3, <1>4, <1>5, <1>6, <1>7, GoesOnKeeps

(* The audit row that was missing. *)
LEMMA RepairKeeps ==
    ASSUME IInv, NEW w \in Workers, Repair(w)
    PROVE  IInv'
  <1>1. PICK k \in Keys : call[w].k = k /\ KeyOK(k) /\ CallOK(w, k)
    BY HolderOfKey DEF Repair, At
  <1>2. /\ call[w].pc = "repair" /\ Goto(w, "markReconciled")
        /\ audit' = Appended(audit, k)
        /\ spoiled' = [spoiled EXCEPT !.audit = @ \union SpoiltBy(audit, k)]
        /\ UNCHANGED <<keyRow, outbox, faults, receipts, overlapped>>
    BY <1>1 DEF Repair, At, AppendAudit
  <1>3. /\ audit' \in File /\ spoiled' \in [outbox : SUBSET Keys, audit : SUBSET Keys]
        /\ spoiled'.outbox = spoiled.outbox /\ spoiled.audit \subseteq spoiled'.audit
        /\ FilesGoOn(k)
        /\ Readable(audit', k) \in Nat /\ Readable(audit, k) \in Nat
        /\ Readable(audit', k) <= Readable(audit, k) + 1
        /\ Recorded(audit', spoiled'.audit, k)
    BY <1>2, AuditAppended DEF IInv
  <1>4. /\ call' \in [Workers -> Call]
        /\ \A v \in Workers \ {w} : call'[v] = call[v]
        /\ call'[w].pc = "markReconciled" /\ call'[w].k = k
    BY <1>1, <1>2, GotoMoves DEF IInv
  <1>5. TypeOK'
    BY <1>2, <1>3, <1>4 DEF IInv, TypeOK
  <1>6. KeyOK(k)'
    BY <1>1, <1>2, <1>3 DEF KeyOK, CallOK, Recorded, FilesGoOn
  <1>7. CallOK(w, k)'
    BY <1>1, <1>2, <1>3, <1>4 DEF CallOK, KeyOK, Recorded, FilesGoOn
  <1> QED
    BY <1>1, <1>2, <1>3, <1>4, <1>5, <1>6, <1>7, GoesOnKeeps

(* The owner of the token finds the key pending, and no receipt yet. *)
LEMMA MarkResultKeeps ==
    ASSUME IInv, NEW w \in Workers, MarkResult(w)
    PROVE  IInv'
  <1>1. PICK k \in Keys : call[w].k = k /\ KeyOK(k) /\ CallOK(w, k)
    BY HolderOfKey DEF MarkResult, At
  <1>2. /\ call[w].pc = "mark" /\ Return(w)
        /\ UNCHANGED <<outbox, audit, faults, overlapped, spoiled>>
        /\ \/ UNCHANGED <<keyRow, receipts>>
           \/ keyRow[k].token = w /\ keyRow' = [keyRow EXCEPT ![k] = Completed]
              /\ receipts' = [receipts EXCEPT ![k] = @ + 1]
    BY <1>1 DEF MarkResult, At, Owns
  <1>3. /\ keyRow' \in [Keys -> KeyRow] /\ receipts' \in [Keys -> Nat]
        /\ \A j \in Keys \ {k} : keyRow'[j] = keyRow[j] /\ receipts'[j] = receipts[j]
    BY <1>2 DEF IInv, TypeOK, KeyRow, Completed
  <1>4. TypeOK'
    BY <1>2, <1>3, ReturnMoves DEF IInv, TypeOK
  <1>5. FilesGoOn(k)
    BY <1>2, FilesUntouched DEF IInv
  <1>6. KeyOK(k)'
    <2>1. CASE UNCHANGED <<keyRow, receipts>>
      BY <1>1, <1>2, <2>1 DEF KeyOK, Recorded
    <2>2. CASE /\ keyRow[k].token = w /\ keyRow' = [keyRow EXCEPT ![k] = Completed]
               /\ receipts' = [receipts EXCEPT ![k] = @ + 1]
      <3>1. keyRow[k].state = "pending" /\ receipts[k] = 0
        BY <1>1, <2>2, NullAssumption DEF KeyOK
      <3>2. keyRow'[k] = Completed
        BY <2>2 DEF IInv, TypeOK
      <3>3. receipts'[k] \in {0, 1}
        BY <2>2, <3>1 DEF IInv, TypeOK
      <3> QED
        BY <1>1, <1>2, <3>2, <3>3 DEF KeyOK, CallOK, Recorded, Completed
    <2> QED
      BY <1>2, <2>1, <2>2
  <1> QED
    BY <1>1, <1>2, <1>3, <1>4, <1>5, <1>6, ReturnKeeps

(* A key that failed can be leased again. *)
LEMMA MarkFailedKeeps ==
    ASSUME IInv, NEW w \in Workers, MarkFailed(w)
    PROVE  IInv'
  <1>1. PICK k \in Keys : call[w].k = k /\ KeyOK(k) /\ CallOK(w, k)
    BY HolderOfKey DEF MarkFailed, At
  <1>2. /\ call[w].pc = "fail" /\ Return(w)
        /\ UNCHANGED <<outbox, audit, faults, overlapped, spoiled>>
        /\ \/ UNCHANGED <<keyRow, receipts>>
           \/ keyRow[k].token = w /\ keyRow' = [keyRow EXCEPT ![k] = Failed]
              /\ UNCHANGED receipts
    BY <1>1 DEF MarkFailed, At, Owns
  <1>3. /\ keyRow' \in [Keys -> KeyRow] /\ receipts' \in [Keys -> Nat]
        /\ \A j \in Keys \ {k} : keyRow'[j] = keyRow[j] /\ receipts'[j] = receipts[j]
    BY <1>2 DEF IInv, TypeOK, KeyRow, Failed
  <1>4. TypeOK'
    BY <1>2, <1>3, ReturnMoves DEF IInv, TypeOK
  <1>5. FilesGoOn(k)
    BY <1>2, FilesUntouched DEF IInv
  <1>6. KeyOK(k)'
    <2>1. CASE UNCHANGED <<keyRow, receipts>>
      BY <1>1, <1>2, <2>1 DEF KeyOK, Recorded
    <2>2. CASE /\ keyRow[k].token = w /\ keyRow' = [keyRow EXCEPT ![k] = Failed]
               /\ UNCHANGED receipts
      <3>1. keyRow[k].state = "pending" /\ receipts[k] = 0
        BY <1>1, <2>2, NullAssumption DEF KeyOK
      <3>2. keyRow'[k] = Failed
        BY <2>2 DEF IInv, TypeOK
      <3>3. receipts'[k] \in {0, 1} /\ receipts'[k] = 0
        BY <2>2, <3>1 DEF IInv, TypeOK
      <3> QED
        BY <1>1, <1>2, <3>2, <3>3 DEF KeyOK, CallOK, Recorded, Failed
    <2> QED
      BY <1>2, <2>1, <2>2
  <1> QED
    BY <1>1, <1>2, <1>3, <1>4, <1>5, <1>6, ReturnKeeps

(* The reconciled key is in both files. *)
LEMMA MarkReconciledKeeps ==
    ASSUME IInv, NEW w \in Workers, MarkReconciled(w)
    PROVE  IInv'
  <1>1. PICK k \in Keys : call[w].k = k /\ KeyOK(k) /\ CallOK(w, k)
    BY HolderOfKey DEF MarkReconciled, At
  <1>2. /\ call[w].pc = "markReconciled" /\ Return(w)
        /\ UNCHANGED <<outbox, audit, faults, overlapped, spoiled>>
        /\ \/ UNCHANGED <<keyRow, receipts>>
           \/ keyRow[k].token = w /\ keyRow' = [keyRow EXCEPT ![k] = Completed]
              /\ UNCHANGED receipts
    BY <1>1 DEF MarkReconciled, At, Owns
  <1>3. /\ keyRow' \in [Keys -> KeyRow] /\ receipts' \in [Keys -> Nat]
        /\ \A j \in Keys \ {k} : keyRow'[j] = keyRow[j] /\ receipts'[j] = receipts[j]
    BY <1>2 DEF IInv, TypeOK, KeyRow, Completed
  <1>4. TypeOK'
    BY <1>2, <1>3, ReturnMoves DEF IInv, TypeOK
  <1>5. FilesGoOn(k)
    BY <1>2, FilesUntouched DEF IInv
  <1>6. KeyOK(k)'
    <2>1. CASE UNCHANGED <<keyRow, receipts>>
      BY <1>1, <1>2, <2>1 DEF KeyOK, Recorded
    <2>2. CASE /\ keyRow[k].token = w /\ keyRow' = [keyRow EXCEPT ![k] = Completed]
               /\ UNCHANGED receipts
      <3>1. keyRow[k].state = "pending" /\ receipts[k] = 0
        BY <1>1, <2>2, NullAssumption DEF KeyOK
      <3>2. keyRow'[k] = Completed
        BY <2>2 DEF IInv, TypeOK
      <3>3. receipts'[k] \in {0, 1}
        BY <2>2, <3>1 DEF IInv, TypeOK
      <3> QED
        BY <1>1, <1>2, <3>2, <3>3 DEF KeyOK, CallOK, Recorded, Completed
    <2> QED
      BY <1>2, <2>1, <2>2
  <1> QED
    BY <1>1, <1>2, <1>3, <1>4, <1>5, <1>6, ReturnKeeps

(* The audit row is there, or the outbox row is, or the call gives up. *)
LEMMA ReconcileKeeps ==
    ASSUME IInv, NEW w \in Workers, Reconcile(w)
    PROVE  IInv'
  <1>1. PICK k \in Keys : call[w].k = k /\ KeyOK(k) /\ CallOK(w, k)
    BY HolderOfKey DEF Reconcile, At
  <1>2. /\ call[w].pc = "reconcile"
        /\ UNCHANGED <<keyRow, outbox, audit, faults, receipts, overlapped, spoiled>>
    BY DEF Reconcile, At
  <1>3. FilesGoOn(k) /\ KeyOK(k)'
    BY <1>1, <1>2, FilesUntouched DEF IInv, KeyOK, Recorded
  <1>4. CASE Return(w)
    <2>1. TypeOK'
      BY <1>2, <1>4, ReturnMoves DEF IInv, TypeOK
    <2> QED
      BY <1>1, <1>2, <1>3, <1>4, <2>1, ReturnKeeps
  <1>5. ASSUME NEW pc \in {"markReconciled", "repair"}, Goto(w, pc),
               pc = "markReconciled" <=> Contains(audit, k)
        PROVE  IInv'
    <2>1. /\ call' \in [Workers -> Call]
          /\ \A v \in Workers \ {w} : call'[v] = call[v]
          /\ call'[w].pc = pc /\ call'[w].k = k
      BY <1>1, <1>5, GotoMoves DEF IInv
    <2>2. TypeOK'
      BY <1>2, <2>1 DEF IInv, TypeOK
    <2>3. Readable(audit, k) \in Nat
      BY ReadableIsNat DEF IInv, TypeOK
    <2>4. CallOK(w, k)'
      BY <1>1, <1>2, <1>5, <2>1, <2>3 DEF CallOK, Recorded, Contains
    <2> QED
      BY <1>1, <1>2, <1>3, <2>1, <2>2, <2>4, GoesOnKeeps
  <1> QED
    BY <1>1, <1>4, <1>5 DEF Reconcile

(* A crash leaves everything as it is. *)
LEMMA CrashKeeps ==
    ASSUME IInv, NEW w \in Workers, Crash(w)
    PROVE  IInv'
  <1>1. PICK k \in Keys : call[w].k = k /\ KeyOK(k) /\ CallOK(w, k)
    BY HolderOfKey DEF Crash, At
  <1>2. Return(w) /\ UNCHANGED <<keyRow, outbox, audit, receipts, overlapped, spoiled>>
        /\ faults < MaxFaults /\ faults' = faults + 1
    BY DEF Crash, Fault
  <1>3. FilesGoOn(k) /\ KeyOK(k)'
    BY <1>1, <1>2, FilesUntouched DEF IInv, KeyOK, Recorded
  <1>4. TypeOK'
    BY <1>2, FaultsAssumption, ReturnMoves DEF IInv, TypeOK
  <1> QED
    BY <1>1, <1>2, <1>3, <1>4, ReturnKeeps

(* A torn outbox row is the first one, or unreadable. *)
LEMMA OutboxWriteFailsKeeps ==
    ASSUME IInv, NEW w \in Workers, OutboxWriteFails(w)
    PROVE  IInv'
  <1>1. PICK k \in Keys : call[w].k = k /\ KeyOK(k) /\ CallOK(w, k)
    BY HolderOfKey DEF OutboxWriteFails, At
  <1>2. /\ call[w].pc \in {"write"} /\ faults < MaxFaults /\ faults' = faults + 1
        /\ Goto(w, "fail") \/ Return(w)
        /\ UNCHANGED <<keyRow, audit, receipts, overlapped>>
    BY DEF OutboxWriteFails, At, Fault
  <1>3. /\ outbox' \in File /\ spoiled' \in [outbox : SUBSET Keys, audit : SUBSET Keys]
        /\ spoiled'.audit = spoiled.audit /\ spoiled.outbox \subseteq spoiled'.outbox
        /\ FilesGoOn(k)
        /\ Readable(outbox', k) \in Nat /\ Readable(outbox, k) \in Nat
        /\ Readable(outbox', k) <= Readable(outbox, k) + 1
    <2>1. CASE UNCHANGED <<outbox, spoiled>>
      <3>1. FilesGoOn(k) /\ Readable(outbox, k) \in Nat
        BY <1>2, <2>1, FilesUntouched, ReadableIsNat DEF IInv, TypeOK
      <3>2. outbox' \in File /\ spoiled' \in [outbox : SUBSET Keys, audit : SUBSET Keys]
        BY <2>1 DEF IInv, TypeOK
      <3> QED
        BY <2>1, <3>1, <3>2
    <2>2. CASE /\ outbox' \in TornAppends(outbox, k)
               /\ spoiled' = [spoiled EXCEPT !.outbox = @ \union SpoiltTail(outbox)]
      BY <1>2, <2>2, OutboxTorn DEF IInv
    <2> QED
      BY <1>1, <2>1, <2>2 DEF OutboxWriteFails
  <1>4. KeyOK(k)'
    BY <1>1, <1>2, <1>3 DEF KeyOK, CallOK, Recorded, FilesGoOn
  <1>5. faults' \in 0..MaxFaults
    BY <1>2, FaultsAssumption DEF IInv, TypeOK
  <1>6. CASE Return(w)
    <2>1. TypeOK'
      BY <1>2, <1>3, <1>5, <1>6, ReturnMoves DEF IInv, TypeOK
    <2> QED
      BY <1>1, <1>2, <1>3, <1>4, <1>6, <2>1, ReturnKeeps
  <1>7. CASE Goto(w, "fail")
    <2>1. /\ call' \in [Workers -> Call]
          /\ \A v \in Workers \ {w} : call'[v] = call[v]
          /\ call'[w].pc = "fail" /\ call'[w].k = k
      BY <1>1, <1>7, GotoMoves DEF IInv
    <2>2. TypeOK' /\ CallOK(w, k)'
      BY <1>2, <1>3, <1>5, <2>1 DEF IInv, TypeOK, CallOK
    <2> QED
      BY <1>1, <1>2, <1>3, <1>4, <2>1, <2>2, GoesOnKeeps
  <1> QED
    BY <1>2, <1>6, <1>7

(* So is a torn audit row. *)
LEMMA AuditWriteFailsKeeps ==
    ASSUME IInv, NEW w \in Workers, AuditWriteFails(w)
    PROVE  IInv'
  <1>1. PICK k \in Keys : call[w].k = k /\ KeyOK(k) /\ CallOK(w, k)
    BY HolderOfKey DEF AuditWriteFails, At
  <1>2. /\ call[w].pc \in {"audit", "repair"} /\ faults < MaxFaults /\ faults' = faults + 1
        /\ Goto(w, "fail") \/ Return(w)
        /\ UNCHANGED <<keyRow, outbox, receipts, overlapped>>
    BY DEF AuditWriteFails, At, Fault
  <1>3. /\ audit' \in File /\ spoiled' \in [outbox : SUBSET Keys, audit : SUBSET Keys]
        /\ spoiled'.outbox = spoiled.outbox /\ spoiled.audit \subseteq spoiled'.audit
        /\ FilesGoOn(k)
        /\ Readable(audit', k) \in Nat /\ Readable(audit, k) \in Nat
        /\ Readable(audit', k) <= Readable(audit, k) + 1
    <2>1. CASE UNCHANGED <<audit, spoiled>>
      <3>1. FilesGoOn(k) /\ Readable(audit, k) \in Nat
        BY <1>2, <2>1, FilesUntouched, ReadableIsNat DEF IInv, TypeOK
      <3>2. audit' \in File /\ spoiled' \in [outbox : SUBSET Keys, audit : SUBSET Keys]
        BY <2>1 DEF IInv, TypeOK
      <3> QED
        BY <2>1, <3>1, <3>2
    <2>2. CASE /\ audit' \in TornAppends(audit, k)
               /\ spoiled' = [spoiled EXCEPT !.audit = @ \union SpoiltTail(audit)]
      BY <1>2, <2>2, AuditTorn DEF IInv
    <2> QED
      BY <1>1, <2>1, <2>2 DEF AuditWriteFails
  <1>4. KeyOK(k)'
    BY <1>1, <1>2, <1>3 DEF KeyOK, CallOK, Recorded, FilesGoOn
  <1>5. faults' \in 0..MaxFaults
    BY <1>2, FaultsAssumption DEF IInv, TypeOK
  <1>6. CASE Return(w)
    <2>1. TypeOK'
      BY <1>2, <1>3, <1>5, <1>6, ReturnMoves DEF IInv, TypeOK
    <2> QED
      BY <1>1, <1>2, <1>3, <1>4, <1>6, <2>1, ReturnKeeps
  <1>7. CASE Goto(w, "fail")
    <2>1. /\ call' \in [Workers -> Call]
          /\ \A v \in Workers \ {w} : call'[v] = call[v]
          /\ call'[w].pc = "fail" /\ call'[w].k = k
      BY <1>1, <1>7, GotoMoves DEF IInv
    <2>2. TypeOK' /\ CallOK(w, k)'
      BY <1>2, <1>3, <1>5, <2>1 DEF IInv, TypeOK, CallOK
    <2> QED
      BY <1>1, <1>2, <1>3, <1>4, <2>1, <2>2, GoesOnKeeps
  <1> QED
    BY <1>2, <1>6, <1>7

(* A call for a key that is in flight makes the key overlapped. *)
LEMMA StartKeeps ==
    ASSUME IInv, NEW w \in Workers, NEW k \in Keys, Start(w, k)
    PROVE  IInv'
  <1> DEFINE started == [pc |-> "look", k |-> k, found |-> FALSE,
                         done |-> keyRow[k].state = "completed"]
  <1>1. /\ call[w].pc = "idle" /\ call[w].k = NULL
        /\ call' = [call EXCEPT ![w] = started]
        /\ overlapped' = IF \E v \in Workers : call[v].k = k
                         THEN overlapped \union {k} ELSE overlapped
        /\ UNCHANGED <<keyRow, outbox, audit, faults, receipts, spoiled>>
    BY DEF Start, At, IInv
  <1>2. started \in Call /\ started.pc = "look" /\ started.k = k
    BY DEF Call
  <1> HIDE DEF started
  <1>3. /\ call' \in [Workers -> Call]
        /\ \A v \in Workers \ {w} : call'[v] = call[v]
        /\ call'[w].pc = "look" /\ call'[w].k = k
    BY <1>1, <1>2 DEF IInv, TypeOK
  <1>4. overlapped \subseteq overlapped' /\ overlapped' \in SUBSET Keys
    BY <1>1 DEF IInv, TypeOK
  <1>5. TypeOK'
    BY <1>1, <1>3, <1>4 DEF IInv, TypeOK
  <1>6. OverlapsAreNoted'
    BY <1>1, <1>3, <1>4 DEF IInv, OverlapsAreNoted
  <1>7. \A j \in Keys : KeyOK(j)'
    BY <1>1, <1>4 DEF IInv, KeyOK, Recorded
  <1>8. ASSUME NEW v \in Workers \ {w}
        PROVE  IF call'[v].pc = "idle" THEN call'[v].k = NULL
               ELSE call'[v].k \in Keys /\ CallOK(v, call[v].k)'
    <2>1. /\ call'[v] = call[v]
          /\ IF call[v].pc = "idle" THEN call[v].k = NULL
             ELSE call[v].k \in Keys /\ CallOK(v, call[v].k)
      BY <1>3 DEF IInv
    <2> QED
      BY <1>1, <1>4, <2>1 DEF CallOK, Recorded
  <1>9. CallOK(w, call[w].k)'
    BY <1>3 DEF CallOK
  <1> QED
    BY <1>3, <1>5, <1>6, <1>7, <1>8, <1>9 DEF IInv

(* A lease that is live belongs to a pending key; it expires as such. *)
LEMMA ExpiryKeeps ==
    ASSUME IInv, NEW k \in Keys, LeaseRunsOut(k) \/ Stall(k)
    PROVE  IInv'
  <1>1. /\ keyRow' = [keyRow EXCEPT ![k].lease = "expired"]
        /\ UNCHANGED <<outbox, audit, call, receipts, overlapped, spoiled>>
        /\ faults' \in {faults, faults + 1} /\ (faults' = faults \/ faults < MaxFaults)
    BY DEF LeaseRunsOut, Stall, ExpireLease, Fault
  <1>2. /\ keyRow' \in [Keys -> KeyRow]
        /\ \A j \in Keys : /\ keyRow'[j].state = keyRow[j].state
                           /\ keyRow'[j].token = keyRow[j].token
                           /\ keyRow'[j].lease = "live" => keyRow[j].lease = "live"
    BY <1>1 DEF IInv, TypeOK, KeyRow
  <1>3. TypeOK'
    BY <1>1, <1>2, FaultsAssumption DEF IInv, TypeOK
  <1>4. OverlapsAreNoted'
    BY <1>1 DEF IInv, OverlapsAreNoted
  <1>5. \A j \in Keys : KeyOK(j)'
    BY <1>1, <1>2 DEF IInv, KeyOK, Recorded
  <1>6. \A w \in Workers : IF call'[w].pc = "idle" THEN call'[w].k = NULL
                           ELSE call'[w].k \in Keys /\ CallOK(w, call[w].k)'
    BY <1>1 DEF IInv, CallOK, Recorded
  <1> QED
    BY <1>3, <1>4, <1>5, <1>6 DEF IInv

LEMMA InitEstablishes == Init => IInv
  <1> SUFFICES ASSUME Init PROVE IInv
    OBVIOUS
  <1>1. NoKeyRow \in KeyRow /\ NoCall \in Call /\ EmptyFile \in File
    BY DEF NoKeyRow, KeyRow, NoCall, Call, EmptyFile, File
  <1>2. TypeOK
    BY <1>1, FaultsAssumption DEF Init, TypeOK
  <1>3. \A w \in Workers : call[w].pc = "idle" /\ call[w].k = NULL
    BY DEF Init, NoCall
  <1>4. ASSUME NEW k \in Keys PROVE Readable(EmptyFile, k) = 0
    BY TailAssumption DEF Readable, EmptyFile
  <1>5. ASSUME NEW k \in Keys PROVE KeyOK(k)
    <2>1. /\ keyRow[k] = NoKeyRow /\ receipts[k] = 0
          /\ Readable(outbox, k) = 0 /\ Readable(audit, k) = 0
      BY <1>4 DEF Init
    <2> QED
      BY <2>1 DEF KeyOK, NoKeyRow
  <1>6. OverlapsAreNoted
    BY <1>3 DEF OverlapsAreNoted
  <1> QED
    BY <1>2, <1>3, <1>5, <1>6 DEF IInv

(* Every step of a call, every fault and every expiry. *)
LEMMA StepKeeps == IInv /\ [Next]_vars => IInv'
  <1> SUFFICES ASSUME IInv, [Next]_vars PROVE IInv'
    OBVIOUS
  <1>1. ASSUME NEW w \in Workers, NEW k \in Keys, Start(w, k) PROVE IInv'
    BY <1>1, StartKeeps
  <1>2. ASSUME NEW w \in Workers, Work(w) PROVE IInv'
    BY <1>2, LookKeeps, AcquireKeeps, WriteOutboxKeeps, WriteAuditKeeps, MarkResultKeeps,
       MarkFailedKeeps, ReconcileKeeps, RepairKeeps, MarkReconciledKeeps DEF Work
  <1>3. ASSUME NEW w \in Workers, Crash(w) \/ OutboxWriteFails(w) \/ AuditWriteFails(w)
        PROVE  IInv'
    BY <1>3, CrashKeeps, OutboxWriteFailsKeeps, AuditWriteFailsKeeps
  <1>4. ASSUME NEW k \in Keys, LeaseRunsOut(k) \/ Stall(k) PROVE IInv'
    BY <1>4, ExpiryKeeps
  <1>5. CASE UNCHANGED vars
    BY <1>5 DEF vars, IInv, TypeOK, OverlapsAreNoted, KeyOK, CallOK, Recorded
  <1> QED
    BY <1>1, <1>2, <1>3, <1>4, <1>5 DEF Next

(* In every state the key, its files, its receipts and the calls that work *)
(* on it agree, whatever crashed, was torn, overlapped or ran out.         *)
THEOREM Invariance == Spec => []IInv
  BY InitEstablishes, StepKeeps, PTL DEF Spec

(* Every variable keeps its type. *)
THEOREM TypeCorrectness == Spec => []TypeOK
  <1>1. IInv => TypeOK
    BY DEF IInv
  <1> QED
    BY <1>1, Invariance, PTL

(* A completed key was written to the outbox and to the audit file, by     *)
(* whichever attempt (committers.py:139-150, 170-193).                     *)
THEOREM CompletionIsRecorded == Spec => []CompletedMeansRecorded
  <1>1. IInv => CompletedMeansRecorded
    BY DEF IInv, KeyOK, Recorded, CompletedMeansRecorded, Contains
  <1> QED
    BY <1>1, Invariance, PTL

(* However many processes race and leases expire under their owners, a key *)
(* is reported committed once at most (gate.py:537).                       *)
THEOREM ReportedOnce == Spec => []OneCommittedReceipt
  <1>1. IInv => OneCommittedReceipt
    BY DEF IInv, KeyOK, OneCommittedReceipt
  <1> QED
    BY <1>1, Invariance, PTL

(* Crashes, failed appends and retries write nothing twice unless two      *)
(* calls were in flight at once.                                           *)
THEOREM RetriesAreSafe == Spec => []RetriesNeverDuplicate
  <1>1. IInv => RetriesNeverDuplicate
    BY DEF IInv, KeyOK, RetriesNeverDuplicate
  <1> QED
    BY <1>1, Invariance, PTL

(* No step leases, fails or marks a completed key (gate.py:497).           *)
THEOREM CompletionIsFinal == Spec => CompletedIsFinal
  <1> DEFINE Stays == \A k \in Keys :
          keyRow[k].state = "completed" => UNCHANGED <<keyRow[k], receipts[k]>>
  <1>1. ASSUME IInv, [Next]_vars PROVE Stays
    <2> SUFFICES ASSUME NEW k \in Keys, keyRow[k].state = "completed"
                 PROVE  UNCHANGED <<keyRow[k], receipts[k]>>
      OBVIOUS
    <2>1. keyRow[k].token = NULL /\ keyRow[k].lease # "live" /\ ~ Acquirable(keyRow[k])
      BY <1>1 DEF IInv, KeyOK, Acquirable
    <2>2. \A w \in Workers : ~ Owns(w, k)
      BY <2>1, NullAssumption DEF Owns
    <2>3. ASSUME NEW w \in Workers, Work(w) PROVE UNCHANGED <<keyRow[k], receipts[k]>>
      <3>1. CASE UNCHANGED <<keyRow, receipts>>
        BY <3>1
      <3>2. CASE Acquire(w)
        BY <2>1, <3>2, <1>1 DEF Acquire, IInv, TypeOK
      <3>3. CASE MarkResult(w)
        BY <2>2, <3>3, <1>1 DEF MarkResult, IInv, TypeOK
      <3>4. CASE MarkFailed(w) \/ MarkReconciled(w)
        BY <2>2, <3>4, <1>1 DEF MarkFailed, MarkReconciled, IInv, TypeOK
      <3> QED
        BY <2>3, <3>1, <3>2, <3>3, <3>4
           DEF Work, Look, WriteOutbox, WriteAudit, Reconcile, Repair
    <2>4. ASSUME NEW w \in Workers,
                 \/ \E j \in Keys : Start(w, j)
                 \/ Crash(w) \/ OutboxWriteFails(w) \/ AuditWriteFails(w)
          PROVE  UNCHANGED <<keyRow[k], receipts[k]>>
      BY <2>4 DEF Start, Crash, OutboxWriteFails, AuditWriteFails
    <2>5. ASSUME NEW j \in Keys, LeaseRunsOut(j) \/ Stall(j)
          PROVE  UNCHANGED <<keyRow[k], receipts[k]>>
      BY <1>1, <2>1, <2>5 DEF LeaseRunsOut, Stall, ExpireLease, IInv, TypeOK
    <2>6. CASE UNCHANGED vars
      BY <2>6 DEF vars
    <2> QED
      BY <1>1, <2>3, <2>4, <2>5, <2>6 DEF Next
  <1>2. IInv /\ [Next]_vars => [Stays]_vars
    BY <1>1
  <1> QED
    BY <1>2, Invariance, PTL DEF Spec, CompletedIsFinal
=============================================================================
