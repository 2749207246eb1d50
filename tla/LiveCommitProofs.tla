-------------------------- MODULE LiveCommitProofs --------------------------
(***************************************************************************)
(* Proofs about LiveCommit: for any number of keys, processes and claims,  *)
(* whatever crashes, is lost or races, a key is delivered once more than   *)
(* its answers were misread at most, and the ledger tells the truth.       *)
(***************************************************************************)
EXTENDS LiveCommit, TLAPS

Busy(w) == call[w].pc # "idle"

(* What was delivered and not misread is nothing or one: nothing while the *)
(* key is free, one when it is completed, either when it is stranded.      *)
NothingUnread(k) == delivered[k] = misread[k]
OneUnread(k)     == delivered[k] = misread[k] + 1

KeyOK(k) ==
    /\ NothingUnread(k) \/ OneUnread(k)
    /\ reserved[k] = "absent" => NothingUnread(k)
    /\ reserved[k] = "completed" => OneUnread(k)
    /\ k \notin GmailKeys => delivered[k] <= ledger[k].intent
    /\ ledger[k].confirmed = 0 \/ (ledger[k].confirmed = 1 /\ reserved[k] = "completed")

(* A call under way holds its key, knows whether it has been delivered,    *)
(* has an intent for what it may send, and has confirmed nothing.          *)
CallOK(w, k) ==
    /\ reserved[k] = IF call[w].pc = "confirm" THEN "completed" ELSE "pending"
    /\ IF call[w].pc \in {"mark", "confirm"} THEN OneUnread(k) ELSE NothingUnread(k)
    /\ k \notin GmailKeys /\ call[w].pc \in {"auth", "post"} => delivered[k] < ledger[k].intent
    /\ ledger[k].confirmed = 0

(* The claim is won by one, and only its winner releases or completes it.  *)
OneHolder ==
    \A v, w \in Workers : Busy(v) /\ Busy(w) /\ call[v].k = call[w].k => v = w

IInv ==
    /\ TypeOK
    /\ OneHolder
    /\ \A k \in Keys : KeyOK(k)
    /\ \A w \in Workers : Busy(w) => call[w].k \in Keys /\ CallOK(w, call[w].k)

-----------------------------------------------------------------------------
LEMMA InitEstablishes == Init => IInv
  <1> SUFFICES ASSUME Init PROVE IInv
    OBVIOUS
  <1>1. TypeOK
    BY AttemptsAssumption DEF Init, TypeOK, NoCall, Ledger, Steps
  <1>2. \A w \in Workers : ~ Busy(w)
    BY DEF Init, Busy, NoCall
  <1>3. \A k \in Keys : KeyOK(k)
    <2> TAKE k \in Keys
    <2>1. /\ reserved[k] = "absent" /\ delivered[k] = 0 /\ misread[k] = 0
          /\ ledger[k].intent = 0 /\ ledger[k].confirmed = 0
      BY DEF Init
    <2> QED
      BY <2>1 DEF KeyOK, NothingUnread, OneUnread
  <1> QED
    BY <1>1, <1>2, <1>3 DEF IInv, OneHolder

(* A step of w that changes the rows of k only, which no other call holds, *)
(* disturbs no other key and no other call.                                *)
LEMMA OthersKeep ==
    ASSUME IInv, NEW w \in Workers, NEW k \in Keys,
           TypeOK',
           \A v \in Workers \ {w} : call'[v] = call[v],
           \A v \in Workers \ {w} : call[v].pc # "idle" => call[v].k # k,
           call'[w].pc = "idle" \/ call'[w].k = k,
           \A j \in Keys \ {k} : reserved'[j] = reserved[j],
           \A j \in Keys \ {k} : ledger'[j] = ledger[j],
           \A j \in Keys \ {k} : delivered'[j] = delivered[j],
           \A j \in Keys \ {k} : misread'[j] = misread[j],
           KeyOK(k)',
           call'[w].pc # "idle" => CallOK(w, k)'
    PROVE  IInv'
  <1> USE DEF IInv
  <1>1. OneHolder'
    BY DEF OneHolder, Busy
  <1>2. \A j \in Keys \ {k} : KeyOK(j)'
    BY DEF KeyOK, NothingUnread, OneUnread
  <1>3. ASSUME NEW v \in Workers \ {w}, call'[v].pc # "idle"
        PROVE  call'[v].k \in Keys /\ CallOK(v, call[v].k)'
    <2>1. call'[v] = call[v] /\ call[v].k \in Keys \ {k} /\ CallOK(v, call[v].k)
      BY <1>3 DEF Busy
    <2> QED
      BY <2>1 DEF CallOK, NothingUnread, OneUnread
  <1> QED
    BY <1>1, <1>2, <1>3 DEF Busy, KeyOK, CallOK, NothingUnread, OneUnread

(* A call under way holds its key, and nobody else does. *)
LEMMA HolderOfKey ==
    ASSUME IInv, NEW w \in Workers, call[w].pc # "idle"
    PROVE  \E k \in Keys : /\ call[w].k = k
                           /\ KeyOK(k) /\ CallOK(w, k)
                           /\ \A v \in Workers \ {w} : call[v].pc # "idle" => call[v].k # k
  BY DEF IInv, OneHolder, Busy

(* Where the steps of a call leave the other calls. *)
LEMMA StepOfCall ==
    ASSUME TypeOK, NEW w \in Workers, NEW k \in Keys, call[w].k = k,
           Return(w) \/ \E pc \in Steps : Goto(w, pc)
    PROVE  /\ call' \in [Workers -> [pc : Steps, k : Keys \union {NULL}]]
           /\ \A v \in Workers \ {w} : call'[v] = call[v]
           /\ call'[w].pc = "idle" \/ call'[w].k = k
           /\ Return(w) => call'[w].pc = "idle"
           /\ \A pc \in Steps : Goto(w, pc) => call'[w].pc = pc
  <1>1. CASE Return(w)
    <2>1. call' = [call EXCEPT ![w] = NoCall] /\ NoCall \in [pc : Steps, k : Keys \union {NULL}]
      BY <1>1 DEF Return, NoCall, Steps
    <2>2. call'[w].pc = "idle"
      BY <2>1 DEF TypeOK, NoCall
    <2>3. ASSUME NEW pc \in Steps, Goto(w, pc) PROVE call'[w].pc = pc
      BY <2>3 DEF TypeOK, Goto
    <2> QED
      BY <2>1, <2>2, <2>3 DEF TypeOK
  <1>2. CASE \E pc \in Steps : Goto(w, pc)
    <2>1. PICK pc \in Steps : call' = [call EXCEPT ![w].pc = pc]
      BY <1>2 DEF Goto
    <2>2. call'[w].pc = pc /\ call'[w].k = k
      BY <2>1 DEF TypeOK
    <2>3. Return(w) => call'[w].pc = "idle"
      BY DEF TypeOK, Return, NoCall
    <2>4. ASSUME NEW q \in Steps, Goto(w, q) PROVE call'[w].pc = q
      BY <2>4 DEF TypeOK, Goto
    <2> QED
      BY <2>1, <2>2, <2>3, <2>4 DEF TypeOK
  <1> QED
    BY <1>1, <1>2

(* The intent row makes room for one task. *)
LEMMA RecordIntentKeeps ==
    ASSUME IInv, NEW w \in Workers, RecordIntent(w)
    PROVE  IInv'
  <1> USE DEF IInv
  <1>1. PICK k \in Keys : /\ call[w].k = k
                          /\ KeyOK(k) /\ CallOK(w, k)
                          /\ \A v \in Workers \ {w} : call[v].pc # "idle" => call[v].k # k
    BY HolderOfKey DEF RecordIntent, At
  <1>2. /\ call[w].pc = "intent"
        /\ Goto(w, "auth")
        /\ ledger' = [ledger EXCEPT ![k].intent = @ + 1]
        /\ UNCHANGED <<reserved, delivered, misread, attempts>>
    BY <1>1 DEF RecordIntent, At
  <1>3. /\ call' \in [Workers -> [pc : Steps, k : Keys \union {NULL}]]
        /\ \A v \in Workers \ {w} : call'[v] = call[v]
        /\ call'[w].pc = "idle" \/ call'[w].k = k
        /\ call'[w].pc \in {"auth"}
    BY <1>1, <1>2, StepOfCall DEF Steps
  <1>4. TypeOK'
    BY <1>2, <1>3 DEF TypeOK, Ledger
  <1>5. KeyOK(k)'
    BY <1>1, <1>2 DEF KeyOK, CallOK, NothingUnread, OneUnread, TypeOK, Ledger
  <1>6. call'[w].pc # "idle" => CallOK(w, k)'
    BY <1>1, <1>2, <1>3 DEF KeyOK, CallOK, NothingUnread, OneUnread, TypeOK, Ledger
  <1>7. \A j \in Keys \ {k} : /\ reserved'[j] = reserved[j] /\ ledger'[j] = ledger[j]
                              /\ delivered'[j] = delivered[j] /\ misread'[j] = misread[j]
    BY <1>2 DEF TypeOK
  <1> QED
    BY <1>1, <1>3, <1>4, <1>5, <1>6, <1>7, OthersKeep
       DEF KeyOK, CallOK, NothingUnread, OneUnread

(* The token request sends nothing. *)
LEMMA AuthenticateKeeps ==
    ASSUME IInv, NEW w \in Workers, Authenticate(w)
    PROVE  IInv'
  <1> USE DEF IInv
  <1>1. PICK k \in Keys : /\ call[w].k = k
                          /\ KeyOK(k) /\ CallOK(w, k)
                          /\ \A v \in Workers \ {w} : call[v].pc # "idle" => call[v].k # k
    BY HolderOfKey DEF Authenticate, At
  <1>2. /\ call[w].pc = "auth"
        /\ Return(w) \/ Goto(w, "post") \/ Goto(w, "release")
        /\ UNCHANGED <<reserved, ledger, delivered, misread, attempts>>
    BY <1>1 DEF Authenticate, At
  <1>3. /\ call' \in [Workers -> [pc : Steps, k : Keys \union {NULL}]]
        /\ \A v \in Workers \ {w} : call'[v] = call[v]
        /\ call'[w].pc = "idle" \/ call'[w].k = k
        /\ call'[w].pc \in {"idle", "post", "release"}
    BY <1>1, <1>2, StepOfCall DEF Steps
  <1>4. TypeOK'
    BY <1>2, <1>3 DEF TypeOK, Ledger
  <1>5. KeyOK(k)'
    BY <1>1, <1>2 DEF KeyOK, CallOK, NothingUnread, OneUnread, TypeOK, Ledger
  <1>6. call'[w].pc # "idle" => CallOK(w, k)'
    BY <1>1, <1>2, <1>3 DEF KeyOK, CallOK, NothingUnread, OneUnread, TypeOK, Ledger
  <1>7. \A j \in Keys \ {k} : /\ reserved'[j] = reserved[j] /\ ledger'[j] = ledger[j]
                              /\ delivered'[j] = delivered[j] /\ misread'[j] = misread[j]
    BY <1>2 DEF TypeOK
  <1> QED
    BY <1>1, <1>3, <1>4, <1>5, <1>6, <1>7, OthersKeep
       DEF KeyOK, CallOK, NothingUnread, OneUnread

(* A POST delivers what was not delivered before, or was misread. *)
LEMMA PostSucceedsKeeps ==
    ASSUME IInv, NEW w \in Workers, PostSucceeds(w)
    PROVE  IInv'
  <1> USE DEF IInv
  <1>1. PICK k \in Keys : /\ call[w].k = k
                          /\ KeyOK(k) /\ CallOK(w, k)
                          /\ \A v \in Workers \ {w} : call[v].pc # "idle" => call[v].k # k
    BY HolderOfKey DEF PostSucceeds, At
  <1>2. /\ call[w].pc = "post"
        /\ Goto(w, "mark")
        /\ delivered' = [delivered EXCEPT ![k] = @ + 1]
        /\ UNCHANGED <<reserved, ledger, misread, attempts>>
    BY <1>1 DEF PostSucceeds, At
  <1>3. /\ call' \in [Workers -> [pc : Steps, k : Keys \union {NULL}]]
        /\ \A v \in Workers \ {w} : call'[v] = call[v]
        /\ call'[w].pc = "idle" \/ call'[w].k = k
        /\ call'[w].pc \in {"mark"}
    BY <1>1, <1>2, StepOfCall DEF Steps
  <1>4. TypeOK'
    BY <1>2, <1>3 DEF TypeOK, Ledger
  <1>5. KeyOK(k)'
    BY <1>1, <1>2 DEF KeyOK, CallOK, NothingUnread, OneUnread, TypeOK, Ledger
  <1>6. call'[w].pc # "idle" => CallOK(w, k)'
    BY <1>1, <1>2, <1>3 DEF KeyOK, CallOK, NothingUnread, OneUnread, TypeOK, Ledger
  <1>7. \A j \in Keys \ {k} : /\ reserved'[j] = reserved[j] /\ ledger'[j] = ledger[j]
                              /\ delivered'[j] = delivered[j] /\ misread'[j] = misread[j]
    BY <1>2 DEF TypeOK
  <1> QED
    BY <1>1, <1>3, <1>4, <1>5, <1>6, <1>7, OthersKeep
       DEF KeyOK, CallOK, NothingUnread, OneUnread

(* A refusal delivers nothing. *)
LEMMA PostRefusedKeeps ==
    ASSUME IInv, NEW w \in Workers, PostRefused(w)
    PROVE  IInv'
  <1> USE DEF IInv
  <1>1. PICK k \in Keys : /\ call[w].k = k
                          /\ KeyOK(k) /\ CallOK(w, k)
                          /\ \A v \in Workers \ {w} : call[v].pc # "idle" => call[v].k # k
    BY HolderOfKey DEF PostRefused, At
  <1>2. /\ call[w].pc = "post"
        /\ Goto(w, "failed") \/ Goto(w, "release")
        /\ UNCHANGED <<reserved, ledger, delivered, misread, attempts>>
    BY <1>1 DEF PostRefused, At, AfterWriteError
  <1>3. /\ call' \in [Workers -> [pc : Steps, k : Keys \union {NULL}]]
        /\ \A v \in Workers \ {w} : call'[v] = call[v]
        /\ call'[w].pc = "idle" \/ call'[w].k = k
        /\ call'[w].pc \in {"failed", "release"}
    BY <1>1, <1>2, StepOfCall DEF Steps
  <1>4. TypeOK'
    BY <1>2, <1>3 DEF TypeOK, Ledger
  <1>5. KeyOK(k)'
    BY <1>1, <1>2 DEF KeyOK, CallOK, NothingUnread, OneUnread, TypeOK, Ledger
  <1>6. call'[w].pc # "idle" => CallOK(w, k)'
    BY <1>1, <1>2, <1>3 DEF KeyOK, CallOK, NothingUnread, OneUnread, TypeOK, Ledger
  <1>7. \A j \in Keys \ {k} : /\ reserved'[j] = reserved[j] /\ ledger'[j] = ledger[j]
                              /\ delivered'[j] = delivered[j] /\ misread'[j] = misread[j]
    BY <1>2 DEF TypeOK
  <1> QED
    BY <1>1, <1>3, <1>4, <1>5, <1>6, <1>7, OthersKeep
       DEF KeyOK, CallOK, NothingUnread, OneUnread

(* A misread delivery counts on both sides. *)
LEMMA PostMisreadKeeps ==
    ASSUME IInv, NEW w \in Workers, PostMisread(w)
    PROVE  IInv'
  <1> USE DEF IInv
  <1>1. PICK k \in Keys : /\ call[w].k = k
                          /\ KeyOK(k) /\ CallOK(w, k)
                          /\ \A v \in Workers \ {w} : call[v].pc # "idle" => call[v].k # k
    BY HolderOfKey DEF PostMisread, At
  <1>2. /\ call[w].pc = "post"
        /\ Goto(w, "failed") \/ Goto(w, "release")
        /\ delivered' = [delivered EXCEPT ![k] = @ + 1]
        /\ misread' = [misread EXCEPT ![k] = @ + 1]
        /\ UNCHANGED <<reserved, ledger, attempts>>
    BY <1>1 DEF PostMisread, At, AfterWriteError
  <1>3. /\ call' \in [Workers -> [pc : Steps, k : Keys \union {NULL}]]
        /\ \A v \in Workers \ {w} : call'[v] = call[v]
        /\ call'[w].pc = "idle" \/ call'[w].k = k
        /\ call'[w].pc \in {"failed", "release"}
    BY <1>1, <1>2, StepOfCall DEF Steps
  <1>4. TypeOK'
    BY <1>2, <1>3 DEF TypeOK, Ledger
  <1>5. KeyOK(k)'
    BY <1>1, <1>2 DEF KeyOK, CallOK, NothingUnread, OneUnread, TypeOK, Ledger
  <1>6. call'[w].pc # "idle" => CallOK(w, k)'
    BY <1>1, <1>2, <1>3 DEF KeyOK, CallOK, NothingUnread, OneUnread, TypeOK, Ledger
  <1>7. \A j \in Keys \ {k} : /\ reserved'[j] = reserved[j] /\ ledger'[j] = ledger[j]
                              /\ delivered'[j] = delivered[j] /\ misread'[j] = misread[j]
    BY <1>2 DEF TypeOK
  <1> QED
    BY <1>1, <1>3, <1>4, <1>5, <1>6, <1>7, OthersKeep
       DEF KeyOK, CallOK, NothingUnread, OneUnread

(* A lost answer strands the key, so that nobody sends again. *)
LEMMA PostLostKeeps ==
    ASSUME IInv, NEW w \in Workers, PostLost(w)
    PROVE  IInv'
  <1> USE DEF IInv
  <1>1. PICK k \in Keys : /\ call[w].k = k
                          /\ KeyOK(k) /\ CallOK(w, k)
                          /\ \A v \in Workers \ {w} : call[v].pc # "idle" => call[v].k # k
    BY HolderOfKey DEF PostLost, At
  <1>2. /\ call[w].pc = "post"
        /\ Return(w)
        /\ delivered' = delivered \/ delivered' = [delivered EXCEPT ![k] = @ + 1]
        /\ UNCHANGED <<reserved, ledger, misread, attempts>>
    BY <1>1 DEF PostLost, At, Unhandled
  <1>3. /\ call' \in [Workers -> [pc : Steps, k : Keys \union {NULL}]]
        /\ \A v \in Workers \ {w} : call'[v] = call[v]
        /\ call'[w].pc = "idle" \/ call'[w].k = k
        /\ call'[w].pc \in {"idle"}
    BY <1>1, <1>2, StepOfCall DEF Steps
  <1>4. TypeOK'
    BY <1>2, <1>3 DEF TypeOK, Ledger
  <1>5. KeyOK(k)'
    BY <1>1, <1>2 DEF KeyOK, CallOK, NothingUnread, OneUnread, TypeOK, Ledger
  <1>6. call'[w].pc # "idle" => CallOK(w, k)'
    BY <1>3
  <1>7. \A j \in Keys \ {k} : /\ reserved'[j] = reserved[j] /\ ledger'[j] = ledger[j]
                              /\ delivered'[j] = delivered[j] /\ misread'[j] = misread[j]
    BY <1>2 DEF TypeOK
  <1> QED
    BY <1>1, <1>3, <1>4, <1>5, <1>6, <1>7, OthersKeep
       DEF KeyOK, CallOK, NothingUnread, OneUnread

(* The failed row is not counted. *)
LEMMA RecordFailedKeeps ==
    ASSUME IInv, NEW w \in Workers, RecordFailed(w)
    PROVE  IInv'
  <1> USE DEF IInv
  <1>1. PICK k \in Keys : /\ call[w].k = k
                          /\ KeyOK(k) /\ CallOK(w, k)
                          /\ \A v \in Workers \ {w} : call[v].pc # "idle" => call[v].k # k
    BY HolderOfKey DEF RecordFailed, At
  <1>2. /\ call[w].pc = "failed"
        /\ Goto(w, "release")
        /\ ledger' = [ledger EXCEPT ![k].failed = @ + 1]
        /\ UNCHANGED <<reserved, delivered, misread, attempts>>
    BY <1>1 DEF RecordFailed, At
  <1>3. /\ call' \in [Workers -> [pc : Steps, k : Keys \union {NULL}]]
        /\ \A v \in Workers \ {w} : call'[v] = call[v]
        /\ call'[w].pc = "idle" \/ call'[w].k = k
        /\ call'[w].pc \in {"release"}
    BY <1>1, <1>2, StepOfCall DEF Steps
  <1>4. TypeOK'
    BY <1>2, <1>3 DEF TypeOK, Ledger
  <1>5. KeyOK(k)'
    BY <1>1, <1>2 DEF KeyOK, CallOK, NothingUnread, OneUnread, TypeOK, Ledger
  <1>6. call'[w].pc # "idle" => CallOK(w, k)'
    BY <1>1, <1>2, <1>3 DEF KeyOK, CallOK, NothingUnread, OneUnread, TypeOK, Ledger
  <1>7. \A j \in Keys \ {k} : /\ reserved'[j] = reserved[j] /\ ledger'[j] = ledger[j]
                              /\ delivered'[j] = delivered[j] /\ misread'[j] = misread[j]
    BY <1>2 DEF TypeOK
  <1> QED
    BY <1>1, <1>3, <1>4, <1>5, <1>6, <1>7, OthersKeep
       DEF KeyOK, CallOK, NothingUnread, OneUnread

(* Only a call that has nothing unread releases. *)
LEMMA ReleaseKeeps ==
    ASSUME IInv, NEW w \in Workers, Release(w)
    PROVE  IInv'
  <1> USE DEF IInv
  <1>1. PICK k \in Keys : /\ call[w].k = k
                          /\ KeyOK(k) /\ CallOK(w, k)
                          /\ \A v \in Workers \ {w} : call[v].pc # "idle" => call[v].k # k
    BY HolderOfKey DEF Release, At
  <1>2. /\ call[w].pc = "release"
        /\ Return(w)
        /\ reserved' = [reserved EXCEPT ![k] = "absent"]
        /\ UNCHANGED <<ledger, delivered, misread, attempts>>
    BY <1>1 DEF Release, At
  <1>3. /\ call' \in [Workers -> [pc : Steps, k : Keys \union {NULL}]]
        /\ \A v \in Workers \ {w} : call'[v] = call[v]
        /\ call'[w].pc = "idle" \/ call'[w].k = k
        /\ call'[w].pc \in {"idle"}
    BY <1>1, <1>2, StepOfCall DEF Steps
  <1>4. TypeOK'
    BY <1>2, <1>3 DEF TypeOK, Ledger
  <1>5. KeyOK(k)'
    BY <1>1, <1>2 DEF KeyOK, CallOK, NothingUnread, OneUnread, TypeOK, Ledger
  <1>6. call'[w].pc # "idle" => CallOK(w, k)'
    BY <1>3
  <1>7. \A j \in Keys \ {k} : /\ reserved'[j] = reserved[j] /\ ledger'[j] = ledger[j]
                              /\ delivered'[j] = delivered[j] /\ misread'[j] = misread[j]
    BY <1>2 DEF TypeOK
  <1> QED
    BY <1>1, <1>3, <1>4, <1>5, <1>6, <1>7, OthersKeep
       DEF KeyOK, CallOK, NothingUnread, OneUnread

(* Only a call that has delivered completes. *)
LEMMA MarkResultKeeps ==
    ASSUME IInv, NEW w \in Workers, MarkResult(w)
    PROVE  IInv'
  <1> USE DEF IInv
  <1>1. PICK k \in Keys : /\ call[w].k = k
                          /\ KeyOK(k) /\ CallOK(w, k)
                          /\ \A v \in Workers \ {w} : call[v].pc # "idle" => call[v].k # k
    BY HolderOfKey DEF MarkResult, At
  <1>2. /\ call[w].pc = "mark"
        /\ Goto(w, "confirm")
        /\ reserved' = [reserved EXCEPT ![k] = "completed"]
        /\ UNCHANGED <<ledger, delivered, misread, attempts>>
    BY <1>1 DEF MarkResult, At
  <1>3. /\ call' \in [Workers -> [pc : Steps, k : Keys \union {NULL}]]
        /\ \A v \in Workers \ {w} : call'[v] = call[v]
        /\ call'[w].pc = "idle" \/ call'[w].k = k
        /\ call'[w].pc \in {"confirm"}
    BY <1>1, <1>2, StepOfCall DEF Steps
  <1>4. TypeOK'
    BY <1>2, <1>3 DEF TypeOK, Ledger
  <1>5. KeyOK(k)'
    BY <1>1, <1>2 DEF KeyOK, CallOK, NothingUnread, OneUnread, TypeOK, Ledger
  <1>6. call'[w].pc # "idle" => CallOK(w, k)'
    BY <1>1, <1>2, <1>3 DEF KeyOK, CallOK, NothingUnread, OneUnread, TypeOK, Ledger
  <1>7. \A j \in Keys \ {k} : /\ reserved'[j] = reserved[j] /\ ledger'[j] = ledger[j]
                              /\ delivered'[j] = delivered[j] /\ misread'[j] = misread[j]
    BY <1>2 DEF TypeOK
  <1> QED
    BY <1>1, <1>3, <1>4, <1>5, <1>6, <1>7, OthersKeep
       DEF KeyOK, CallOK, NothingUnread, OneUnread

(* The holder writes its confirmed row once, and returns. *)
LEMMA RecordConfirmedKeeps ==
    ASSUME IInv, NEW w \in Workers, RecordConfirmed(w)
    PROVE  IInv'
  <1> USE DEF IInv
  <1>1. PICK k \in Keys : /\ call[w].k = k
                          /\ KeyOK(k) /\ CallOK(w, k)
                          /\ \A v \in Workers \ {w} : call[v].pc # "idle" => call[v].k # k
    BY HolderOfKey DEF RecordConfirmed, At
  <1>2. /\ call[w].pc = "confirm"
        /\ Return(w)
        /\ ledger' = [ledger EXCEPT ![k].confirmed = @ + 1]
        /\ UNCHANGED <<reserved, delivered, misread, attempts>>
    BY <1>1 DEF RecordConfirmed, At
  <1>3. /\ call' \in [Workers -> [pc : Steps, k : Keys \union {NULL}]]
        /\ \A v \in Workers \ {w} : call'[v] = call[v]
        /\ call'[w].pc = "idle" \/ call'[w].k = k
        /\ call'[w].pc \in {"idle"}
    BY <1>1, <1>2, StepOfCall DEF Steps
  <1>4. TypeOK'
    <2>1. ledger' \in [Keys -> Ledger]
      BY <1>2 DEF TypeOK, Ledger
    <2> QED
      BY <1>2, <1>3, <2>1 DEF TypeOK
  <1>5. KeyOK(k)'
    BY <1>1, <1>2 DEF KeyOK, CallOK, NothingUnread, OneUnread, TypeOK, Ledger
  <1>6. call'[w].pc # "idle" => CallOK(w, k)'
    BY <1>3
  <1>7. \A j \in Keys \ {k} : /\ reserved'[j] = reserved[j] /\ ledger'[j] = ledger[j]
                              /\ delivered'[j] = delivered[j] /\ misread'[j] = misread[j]
    BY <1>2 DEF TypeOK
  <1> QED
    BY <1>1, <1>3, <1>4, <1>5, <1>6, <1>7, OthersKeep
       DEF KeyOK, CallOK, NothingUnread, OneUnread

(* A crash strands the key as it is. *)
LEMMA CrashKeeps ==
    ASSUME IInv, NEW w \in Workers, Crash(w)
    PROVE  IInv'
  <1> USE DEF IInv
  <1>1. PICK k \in Keys : /\ call[w].k = k
                          /\ KeyOK(k) /\ CallOK(w, k)
                          /\ \A v \in Workers \ {w} : call[v].pc # "idle" => call[v].k # k
    BY HolderOfKey DEF Crash, At
  <1>2. /\ call[w].pc # "idle"
        /\ Return(w)
        /\ UNCHANGED <<reserved, ledger, delivered, misread, attempts>>
    BY <1>1 DEF Crash, At
  <1>3. /\ call' \in [Workers -> [pc : Steps, k : Keys \union {NULL}]]
        /\ \A v \in Workers \ {w} : call'[v] = call[v]
        /\ call'[w].pc = "idle" \/ call'[w].k = k
        /\ call'[w].pc \in {"idle"}
    BY <1>1, <1>2, StepOfCall DEF Steps
  <1>4. TypeOK'
    BY <1>2, <1>3 DEF TypeOK, Ledger
  <1>5. KeyOK(k)'
    BY <1>1, <1>2 DEF KeyOK, CallOK, NothingUnread, OneUnread, TypeOK, Ledger
  <1>6. call'[w].pc # "idle" => CallOK(w, k)'
    BY <1>3
  <1>7. \A j \in Keys \ {k} : /\ reserved'[j] = reserved[j] /\ ledger'[j] = ledger[j]
                              /\ delivered'[j] = delivered[j] /\ misread'[j] = misread[j]
    BY <1>2 DEF TypeOK
  <1> QED
    BY <1>1, <1>3, <1>4, <1>5, <1>6, <1>7, OthersKeep
       DEF KeyOK, CallOK, NothingUnread, OneUnread

(* The claim finds a free key, which has no holder, and makes one. *)
LEMMA ClaimKeeps ==
    ASSUME IInv, NEW w \in Workers, NEW k \in Keys, Claim(w, k)
    PROVE  IInv'
  <1> USE DEF IInv
  <1>1. /\ call[w].pc = "idle" /\ reserved[k] = "absent" /\ attempts[k] < MaxAttempts
        /\ attempts' = [attempts EXCEPT ![k] = @ + 1]
        /\ reserved' = [reserved EXCEPT ![k] = "pending"]
        /\ call' = [call EXCEPT ![w] = [pc |-> AfterClaim(k), k |-> k]]
        /\ UNCHANGED <<ledger, delivered, misread>>
    BY DEF Claim, Claimable, At
  <1>2. AfterClaim(k) = IF k \in GmailKeys THEN "auth" ELSE "intent"
    BY DEF AfterClaim
  <1>3. TypeOK'
    BY <1>1, <1>2, AttemptsAssumption DEF TypeOK, Steps
  <1>4. /\ \A v \in Workers \ {w} : call'[v] = call[v]
        /\ call'[w].k = k /\ call'[w].pc = AfterClaim(k)
    BY <1>1 DEF TypeOK
  <1>5. \A v \in Workers \ {w} : call[v].pc # "idle" => call[v].k # k
    BY <1>1 DEF Busy, CallOK
  <1>6. NothingUnread(k) /\ ledger[k].confirmed = 0 /\ KeyOK(k)
    BY <1>1 DEF KeyOK
  <1>7. KeyOK(k)' /\ CallOK(w, k)'
    BY <1>1, <1>2, <1>4, <1>6 DEF KeyOK, CallOK, NothingUnread, OneUnread, TypeOK
  <1>8. \A j \in Keys \ {k} : /\ reserved'[j] = reserved[j] /\ ledger'[j] = ledger[j]
                              /\ delivered'[j] = delivered[j] /\ misread'[j] = misread[j]
    BY <1>1 DEF TypeOK
  <1> QED
    BY <1>3, <1>4, <1>5, <1>7, <1>8, OthersKeep
       DEF KeyOK, CallOK, NothingUnread, OneUnread

(* A call that loses the claim leaves one row that counts for nothing. *)
LEMMA SkipKeeps ==
    ASSUME IInv, NEW w \in Workers, NEW k \in Keys, Skip(w, k)
    PROVE  IInv'
  <1> USE DEF IInv
  <1>1. /\ ledger' = [ledger EXCEPT ![k].skipped = TRUE]
        /\ UNCHANGED <<reserved, call, delivered, misread, attempts>>
    BY DEF Skip
  <1>2. /\ ledger' \in [Keys -> Ledger]
        /\ \A j \in Keys : /\ ledger'[j].intent = ledger[j].intent
                           /\ ledger'[j].confirmed = ledger[j].confirmed
    BY <1>1 DEF TypeOK, Ledger
  <1> QED
    BY <1>1, <1>2 DEF TypeOK, OneHolder, Busy, KeyOK, CallOK, NothingUnread, OneUnread

(* Every step of a call, by name. *)
LEMMA StepKeeps == IInv /\ [Next]_vars => IInv'
  <1> SUFFICES ASSUME IInv, [Next]_vars PROVE IInv'
    OBVIOUS
  <1>1. ASSUME NEW w \in Workers, NEW k \in Keys, Claim(w, k) \/ Skip(w, k)
        PROVE  IInv'
    BY <1>1, ClaimKeeps, SkipKeeps
  <1>2. ASSUME NEW w \in Workers,
               \/ RecordIntent(w) \/ Authenticate(w) \/ PostSucceeds(w)
               \/ PostRefused(w) \/ PostMisread(w) \/ PostLost(w)
        PROVE  IInv'
    BY <1>2, RecordIntentKeeps, AuthenticateKeeps, PostSucceedsKeeps,
       PostRefusedKeeps, PostMisreadKeeps, PostLostKeeps
  <1>3. ASSUME NEW w \in Workers,
               \/ RecordFailed(w) \/ Release(w) \/ MarkResult(w)
               \/ RecordConfirmed(w) \/ Crash(w)
        PROVE  IInv'
    BY <1>3, RecordFailedKeeps, ReleaseKeeps, MarkResultKeeps,
       RecordConfirmedKeeps, CrashKeeps
  <1>4. CASE UNCHANGED vars
    BY <1>4 DEF vars, IInv, TypeOK, OneHolder, Busy, KeyOK, CallOK, NothingUnread, OneUnread
  <1> QED
    BY <1>1, <1>2, <1>3, <1>4 DEF Next

(* Every state has the invariant: the reservation, the call that holds it, *)
(* the service and the ledger agree, whatever crashed and was lost.        *)
THEOREM Invariance == Spec => []IInv
  BY InitEstablishes, StepKeeps, PTL DEF Spec

(* A proposal is sent again only after an answer that was taken for a      *)
(* refusal (gmail_writeback.py:206, salesforce_writeback.py:136): no crash,*)
(* lost answer or race of any number of processes sends it twice.          *)
THEOREM SendsOncePerMisread == Spec => []SecondNeedsMisread
  <1>1. ASSUME IInv, NEW k \in Keys PROVE delivered[k] <= misread[k] + 1
    <2>1. misread[k] \in Nat /\ (delivered[k] = misread[k] \/ delivered[k] = misread[k] + 1)
      BY <1>1 DEF IInv, TypeOK, KeyOK, NothingUnread, OneUnread
    <2> QED
      BY <2>1
  <1>2. IInv => SecondNeedsMisread
    BY <1>1 DEF SecondNeedsMisread
  <1> QED
    BY <1>2, Invariance, PTL

(* A completed key has been delivered, once more than it was misread.      *)
THEOREM CompletionIsTrue == Spec => []CompletedIsDelivered
  <1>1. IInv => CompletedIsDelivered
    BY DEF IInv, KeyOK, OneUnread, CompletedIsDelivered
  <1> QED
    BY <1>1, Invariance, PTL

(* The intent row of a Salesforce task is written before the task, even    *)
(* when the process dies in between (salesforce_writeback.py:103).         *)
THEOREM IntentPrecedesTask == Spec => []TasksHaveIntent
  <1>1. IInv => TasksHaveIntent
    BY DEF IInv, KeyOK, TasksHaveIntent, SalesforceKeys
  <1> QED
    BY <1>1, Invariance, PTL

(* The ledger confirms no send that did not happen, and one at most.       *)
THEOREM ConfirmationIsTrue == Spec => []ConfirmedIsDelivered
  <1>1. ASSUME IInv, NEW k \in Keys
        PROVE  ledger[k].confirmed <= 1 /\ (ledger[k].confirmed = 1 => reserved[k] = "completed")
    <2>1. ledger[k].confirmed = 0 \/ (ledger[k].confirmed = 1 /\ reserved[k] = "completed")
      BY <1>1 DEF IInv, KeyOK
    <2> QED
      BY <2>1
  <1>2. IInv => ConfirmedIsDelivered
    BY <1>1 DEF ConfirmedIsDelivered
  <1> QED
    BY <1>2, Invariance, PTL
=============================================================================
