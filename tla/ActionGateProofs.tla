-------------------------- MODULE ActionGateProofs --------------------------
(***************************************************************************)
(* Proofs about ActionGate: for any number of proposals, payloads, gates   *)
(* and committers, the inductive invariant IInv holds, so committers only  *)
(* execute authorised bodies, decided proposals are frozen, and the gate   *)
(* implements Authorization.                                               *)
(***************************************************************************)
EXTENDS ActionGate, TLAPS

(* A hash in both languages identifies the payload that was hashed. *)
LEMMA HashIdentifiesPayload ==
    ASSUME NEW x \in Payloads, NEW y \in Payloads
    PROVE  /\ PyHash(x) = PyHash(y) => x = y
           /\ PyHash(x) \in Hashes
           /\ PyHash(x) # NULL
  <1>1. PyHash(x) \in Hashes
    BY DEF PyHash, Hashes
  <1>2. PyHash(x) = PyHash(y) => x = y
    BY DEF PyHash
  <1>3. PyHash(x) # NULL
    BY <1>1, NullAssumption DEF Hashes
  <1> QED
    BY <1>1, <1>2, <1>3

LEMMA InitEstablishes == Init => IInv
  <1> SUFFICES ASSUME Init PROVE IInv
    OBVIOUS
  <1>1. TypeOK
    BY DEF Init, TypeOK, Row, NoRow, Verdict, NoVerdict, Tx, NoTx, NothingInHand
  <1>2. RowsComplete /\ VerdictMatchesStatus /\ OutreachWasConsented
    BY DEF Init, RowsComplete, VerdictMatchesStatus, OutreachWasConsented, NoVerdict
  <1>3. LocksExclusive /\ TxCoherent /\ TxAccepted
    BY DEF Init, LocksExclusive, TxCoherent, TxAccepted, NoTx
  <1>4. ConsentIsLogged /\ ApproversEntitled /\ EffectsAuthorized
    BY DEF Init, ConsentIsLogged, ApproversEntitled, EffectsAuthorized
  <1> QED
    BY <1>1, <1>2, <1>3, <1>4 DEF IInv

LEMMA ProposeKeeps ==
    ASSUME IInv, NEW g \in Gates, NEW p \in Proposals, NEW a \in Actions,
           NEW x \in Payloads, Propose(g, p, a, x)
    PROVE  IInv'
  <1> USE DEF IInv
  <1>h. PyHash(x) \in Hashes
    BY HashIdentifiesPayload
  <1>r. DEFINE r == [actor |-> ActorOf[g], action |-> a, payload |-> x,
                     sha |-> PyHash(x)]
  <1>q. r \in Row /\ ActorOf[g] \in Principals
    BY <1>h, ActorOfAssumption DEF Row
  <1>1. TypeOK'
    BY <1>q DEF Propose, TypeOK
  <1>2. RowsComplete'
    BY <1>q DEF Propose, TypeOK, RowsComplete, HashTriggerAccepts
  <1>3. VerdictMatchesStatus'
    BY DEF Propose, TypeOK, VerdictMatchesStatus
  <1>4. LocksExclusive' /\ ConsentIsLogged'
    BY DEF Propose, LocksExclusive, ConsentIsLogged
  <1>5. TxCoherent'
    BY DEF Propose, TypeOK, TxCoherent
  <1>6. TxAccepted'
    BY DEF Propose, TypeOK, TxAccepted
  <1>7. OutreachWasConsented'
    BY DEF Propose, TypeOK, OutreachWasConsented
  <1>8. EffectsAuthorized' /\ ApproversEntitled'
    BY DEF Propose, TypeOK, EffectsAuthorized, Authorized, ApproversEntitled
  <1> QED
    BY <1>1, <1>2, <1>3, <1>4, <1>5, <1>6, <1>7, <1>8

LEMMA LockKeeps ==
    ASSUME IInv, NEW g \in Gates, NEW p \in Proposals,
           NEW kind \in {"approve", "deny", "revise"}, NEW x \in Payloads \union {NULL},
           kind = "revise" => x \in Payloads, NEW who \in Principals,
           LockForVerdict(g, p, kind, x, who)
    PROVE  IInv'
  <1> USE DEF IInv
  <1> DEFINE r == IF kind = "revise"
                  THEN [row[p] EXCEPT !.payload = x, !.sha = PyHash(x)]
                  ELSE row[p]
             v == [kind |-> kind, by |-> who,
                   sha |-> IF kind = "deny" THEN NULL ELSE r.sha]
             t == [stage |-> "locked", p |-> p, row |-> r,
                   status |-> StatusAfter(kind), verdict |-> v]
  <1>a. /\ status[p] = "pending" /\ RowLockFree(p)
        /\ tx' = [tx EXCEPT ![g] = t]
        /\ UNCHANGED <<status, row, verdict, consent, consentLog, hand, effects>>
    BY DEF LockForVerdict
  <1>b. row[p] \in Row /\ row[p].payload \in Payloads /\ row[p].sha = PyHash(row[p].payload)
    BY <1>a DEF TypeOK, RowsComplete
  <1>c. kind = "revise" => PyHash(x) \in Hashes
    BY HashIdentifiesPayload
  <1>d. r \in Row /\ r.sha = PyHash(r.payload) /\ r.payload \in Payloads
        /\ r.actor = row[p].actor /\ r.action = row[p].action
    BY <1>b, <1>c DEF Row
  <1>e. v \in Verdict
    BY <1>d DEF Verdict, Row
  <1>f. t \in Tx
    BY <1>d, <1>e DEF Tx, StatusAfter
  <1>g. \A h \in Gates : tx'[h] = IF h = g THEN t ELSE tx[h]
    BY <1>a DEF TypeOK
  <1> HIDE DEF r
  <1>1. TypeOK'
    BY <1>a, <1>f DEF TypeOK
  <1>2. RowsComplete' /\ VerdictMatchesStatus' /\ ApproversEntitled'
        /\ ConsentIsLogged' /\ OutreachWasConsented'
    BY <1>a DEF RowsComplete, VerdictMatchesStatus, ApproversEntitled, ConsentIsLogged,
               OutreachWasConsented
  <1>3. LocksExclusive'
    BY <1>a, <1>g DEF LocksExclusive, RowLockFree
  <1>4. TxCoherent'
    <2>1. t.verdict.kind # "revise" => t.row = row[p]
      BY DEF r
    <2>2. CASE kind = "deny"
      BY <2>1, <2>2, <1>a, <1>d, <1>g DEF TxCoherent, StatusAfter
    <2>3. CASE kind # "deny"
      BY <2>1, <2>3, <1>a, <1>d, <1>g DEF TxCoherent, StatusAfter
    <2> QED
      BY <2>2, <2>3
  <1>5. TxAccepted'
    BY <1>a, <1>g DEF TxAccepted
  <1>6. EffectsAuthorized'
    BY <1>a DEF EffectsAuthorized, Authorized
  <1> QED
    BY <1>1, <1>2, <1>3, <1>4, <1>5, <1>6

LEMMA DecideKeeps ==
    ASSUME IInv, NEW g \in Gates, Decide(g)
    PROVE  IInv'
  <1> USE DEF IInv
  <1> DEFINE t == tx[g]
  <1>a. /\ t.stage = "locked" /\ status[t.p] = "pending" /\ t.p \in Proposals
        /\ t.verdict.kind = "revise" => t.row.sha = DbHash(t.row.payload)
        /\ VerdictTriggersAccept(t)
        /\ tx' = [tx EXCEPT ![g].stage = "decided"]
        /\ UNCHANGED <<status, row, verdict, consent, consentLog, hand, effects>>
    BY DEF Decide, StillUndecided, HashTriggerAccepts, TxCoherent
  <1>b. t \in Tx
    BY DEF TypeOK
  <1>c. /\ \A h \in Gates : h # g => tx'[h] = tx[h]
        /\ tx'[g] \in Tx /\ tx'[g] = [t EXCEPT !.stage = "decided"]
        /\ tx'[g].stage = "decided" /\ tx'[g].p = t.p /\ tx'[g].row = t.row
        /\ tx'[g].status = t.status /\ tx'[g].verdict = t.verdict
    BY <1>a, <1>b DEF TypeOK, Tx
  <1>d. t.row.sha = DbHash(t.row.payload)
    <2>1. CASE t.verdict.kind = "revise"
      BY <2>1, <1>a
    <2>2. CASE t.verdict.kind # "revise"
      BY <2>2, <1>a DEF TxCoherent, RowsComplete
    <2> QED
      BY <2>1, <2>2
  <1>e. t.status = "approved" =>
           /\ HumanApproverTrigger(t.row, t.verdict)
           /\ t.row.action = "draft_customer_outreach" =>
                 ContactOf[t.row.payload] \in consentLog
    <2> SUFFICES ASSUME t.status = "approved"
                 PROVE  /\ HumanApproverTrigger(t.row, t.verdict)
                        /\ t.row.action = "draft_customer_outreach" =>
                              ContactOf[t.row.payload] \in consentLog
      OBVIOUS
    <2>1. t.verdict.sha = PyHash(t.row.payload) /\ t.row.payload \in Payloads
      BY <1>a DEF TxCoherent
    <2>2. t.verdict.sha # NULL
      BY <2>1, HashIdentifiesPayload
    <2>3. HumanApproverTrigger(t.row, t.verdict) /\ Consented(t.row)
      BY <2>2, <1>a DEF VerdictTriggersAccept, ConsentTrigger
    <2> QED
      BY <2>3 DEF Consented, ConsentIsLogged
  <1>1. TypeOK'
    BY <1>a, <1>c DEF TypeOK
  <1>2. RowsComplete' /\ VerdictMatchesStatus' /\ ApproversEntitled'
        /\ ConsentIsLogged' /\ OutreachWasConsented'
    BY <1>a DEF RowsComplete, VerdictMatchesStatus, ApproversEntitled, ConsentIsLogged,
               OutreachWasConsented
  <1>3. LocksExclusive'
    BY <1>a, <1>c DEF LocksExclusive
  <1>4. TxCoherent'
    BY <1>a, <1>c DEF TxCoherent
  <1>5. TxAccepted'
    BY <1>a, <1>c, <1>d, <1>e DEF TxAccepted, HumanApproverTrigger
  <1>6. EffectsAuthorized'
    BY <1>a DEF EffectsAuthorized, Authorized
  <1> QED
    BY <1>1, <1>2, <1>3, <1>4, <1>5, <1>6

LEMMA RejectKeeps ==
    ASSUME IInv, NEW g \in Gates, NEW p \in Proposals, NEW who \in Principals,
           RejectAndSupersede(g, p, who)
    PROVE  IInv'
  <1> USE DEF IInv
  <1> DEFINE v == [kind |-> "revise", sha |-> NULL, by |-> who]
             t == [stage |-> "decided", p |-> p, row |-> row[p],
                   status |-> "denied", verdict |-> v]
  <1>a. /\ status[p] = "pending" /\ RowLockFree(p)
        /\ tx' = [tx EXCEPT ![g] = t]
        /\ UNCHANGED <<status, row, verdict, consent, consentLog, hand, effects>>
    BY DEF RejectAndSupersede, StillUndecided
  <1>b. v \in Verdict /\ t \in Tx
    BY DEF Verdict, Tx, TypeOK
  <1>c. \A h \in Gates : tx'[h] = IF h = g THEN t ELSE tx[h]
    BY <1>a DEF TypeOK
  <1>1. TypeOK'
    BY <1>a, <1>b DEF TypeOK
  <1>2. RowsComplete' /\ VerdictMatchesStatus' /\ ApproversEntitled'
        /\ ConsentIsLogged' /\ OutreachWasConsented'
    BY <1>a DEF RowsComplete, VerdictMatchesStatus, ApproversEntitled, ConsentIsLogged,
               OutreachWasConsented
  <1>3. LocksExclusive'
    BY <1>a, <1>c DEF LocksExclusive, RowLockFree
  <1>4. TxCoherent'
    BY <1>a, <1>c DEF TxCoherent, RowsComplete
  <1>5. TxAccepted'
    BY <1>a, <1>c DEF TxAccepted, RowsComplete
  <1>6. EffectsAuthorized'
    BY <1>a DEF EffectsAuthorized, Authorized
  <1> QED
    BY <1>1, <1>2, <1>3, <1>4, <1>5, <1>6

LEMMA RollbackKeeps ==
    ASSUME IInv, NEW g \in Gates, Rollback(g)
    PROVE  IInv'
  <1> USE DEF IInv
  <1>a. /\ tx' = [tx EXCEPT ![g] = NoTx]
        /\ UNCHANGED <<status, row, verdict, consent, consentLog, hand, effects>>
    BY DEF Rollback
  <1>b. \A h \in Gates : tx'[h] = IF h = g THEN NoTx ELSE tx[h]
    BY <1>a DEF TypeOK
  <1>c. NoTx \in Tx /\ NoTx.stage = "idle" /\ NoTx.p = NULL
    BY DEF NoTx, Tx, NoRow, Row, NoVerdict, Verdict
  <1>1. TypeOK'
    BY <1>a, <1>c DEF TypeOK
  <1>2. RowsComplete' /\ VerdictMatchesStatus' /\ ApproversEntitled'
        /\ ConsentIsLogged' /\ OutreachWasConsented'
    BY <1>a DEF RowsComplete, VerdictMatchesStatus, ApproversEntitled, ConsentIsLogged,
               OutreachWasConsented
  <1>3. LocksExclusive'
    BY <1>b, <1>c DEF LocksExclusive
  <1>4. TxCoherent' /\ TxAccepted'
    BY <1>a, <1>b, <1>c DEF TxCoherent, TxAccepted
  <1>5. EffectsAuthorized'
    BY <1>a DEF EffectsAuthorized, Authorized
  <1> QED
    BY <1>1, <1>2, <1>3, <1>4, <1>5

LEMMA CommitKeeps ==
    ASSUME IInv, NEW g \in Gates, Commit(g)
    PROVE  IInv'
  <1> USE DEF IInv
  <1> DEFINE t == tx[g]
             p == t.p
  <1>a. /\ t.stage = "decided"
        /\ status' = [status EXCEPT ![p] = t.status]
        /\ row' = [row EXCEPT ![p] = t.row]
        /\ verdict' = [verdict EXCEPT ![p] = t.verdict]
        /\ tx' = [tx EXCEPT ![g] = NoTx]
        /\ UNCHANGED <<consent, consentLog, hand, effects>>
    BY DEF Commit
  <1>b. t \in Tx /\ t.row \in Row /\ t.verdict \in Verdict
    BY DEF TypeOK, Tx
  <1>c. /\ p \in Proposals /\ status[p] = "pending"
        /\ t.row.actor = row[p].actor /\ t.row.action = row[p].action
        /\ t.row.payload \in Payloads
        /\ t.row.sha = PyHash(t.row.payload) /\ t.row.sha = DbHash(t.row.payload)
        /\ t.row.sha # NULL
    BY <1>a, HashIdentifiesPayload DEF TxCoherent, TxAccepted
  <1>d. \/ /\ t.status = "denied" /\ t.verdict.sha = NULL
           /\ t.verdict.kind \in {"deny", "revise"}
        \/ /\ t.status = "approved" /\ t.verdict.sha = t.row.sha
           /\ t.verdict.kind \in {"approve", "revise"}
    BY <1>a DEF TxCoherent
  <1>e. /\ \A q \in Proposals : q # p => /\ status'[q] = status[q]
                                        /\ row'[q] = row[q]
                                        /\ verdict'[q] = verdict[q]
        /\ status'[p] = t.status /\ row'[p] = t.row /\ verdict'[p] = t.verdict
    BY <1>a, <1>c DEF TypeOK
  <1>f. \A h \in Gates : tx'[h] = IF h = g THEN NoTx ELSE tx[h]
    BY <1>a DEF TypeOK
  <1>g. NoTx \in Tx /\ NoTx.stage = "idle" /\ NoTx.p = NULL
    BY DEF NoTx, Tx, NoRow, Row, NoVerdict, Verdict
  <1>h. t.verdict # NoVerdict
    BY <1>d DEF NoVerdict
  <1>p. p # NULL
    BY <1>c, NullAssumption
  <1>o. \A h \in Gates : h # g => tx[h].p # p
    BY <1>p DEF LocksExclusive
  <1> HIDE DEF t, p
  <1>1. TypeOK'
    <2>1. status' \in [Proposals -> {"absent", "pending", "approved", "denied"}]
      BY <1>a, <1>c, <1>d DEF TypeOK
    <2>2. row' \in [Proposals -> Row] /\ verdict' \in [Proposals -> Verdict]
      BY <1>a, <1>b, <1>c DEF TypeOK
    <2>3. tx' \in [Gates -> Tx]
      BY <1>a, <1>g DEF TypeOK
    <2> QED
      BY <1>a, <2>1, <2>2, <2>3 DEF TypeOK
  <1>2. RowsComplete'
    BY <1>c, <1>e DEF RowsComplete
  <1>3. VerdictMatchesStatus'
    <2>1. ASSUME NEW q \in Proposals, q = p
          PROVE  /\ (status'[q] = "approved") <=> (verdict'[q].sha # NULL)
                 /\ (status'[q] \in {"absent", "pending"}) <=> (verdict'[q] = NoVerdict)
                 /\ status'[q] = "approved" =>
                       /\ verdict'[q].kind \in {"approve", "revise"}
                       /\ verdict'[q].sha = row'[q].sha
                       /\ row'[q].sha = DbHash(row'[q].payload)
                 /\ status'[q] = "denied" => verdict'[q].kind \in {"deny", "revise"}
      BY <2>1, <1>c, <1>d, <1>e, <1>h
    <2> QED
      BY <2>1, <1>e DEF VerdictMatchesStatus
  <1>4. LocksExclusive'
    BY <1>f, <1>g DEF LocksExclusive
  <1>5. TxCoherent'
    BY <1>e, <1>f, <1>g, <1>o DEF TxCoherent
  <1>6. TxAccepted'
    BY <1>a, <1>f, <1>g DEF TxAccepted
  <1>7. ConsentIsLogged'
    BY <1>a DEF ConsentIsLogged
  <1>8. OutreachWasConsented'
    <2>1. t.status = "approved" /\ t.row.action = "draft_customer_outreach"
             => ContactOf[t.row.payload] \in consentLog
      BY <1>a DEF TxAccepted, t
    <2> QED
      BY <2>1, <1>a, <1>c, <1>e DEF OutreachWasConsented
  <1>j. ApproversEntitled'
    <2>1. t.status = "approved" => HumanApproverTrigger(t.row, t.verdict)
      BY <1>a DEF TxAccepted, t
    <2> QED
      BY <2>1, <1>c, <1>e DEF ApproversEntitled, HumanApproverTrigger
  <1>9. EffectsAuthorized'
    <2>1. ASSUME NEW q \in Proposals, NEW x, Authorized(q, x) PROVE Authorized(q, x)'
      BY <2>1, <1>c, <1>e DEF Authorized
    <2>2. \A q, x : Authorized(q, x) => q \in Proposals
      BY DEF Authorized
    <2> QED
      BY <2>1, <2>2, <1>a DEF EffectsAuthorized
  <1> QED
    BY <1>1, <1>2, <1>3, <1>4, <1>5, <1>6, <1>7, <1>8, <1>9, <1>j

LEMMA RecordContactKeeps ==
    ASSUME IInv, NEW g \in Gates, NEW c \in Contacts, NEW allowed \in BOOLEAN,
           RecordOutreachContactRef(g, c, allowed)
    PROVE  IInv'
  <1> USE DEF IInv, RecordOutreachContactRef
  <1>1. TypeOK'
    BY DEF TypeOK
  <1>2. consentLog \subseteq consentLog'
    OBVIOUS
  <1>3. ConsentIsLogged'
    BY DEF ConsentIsLogged, TypeOK
  <1>4. OutreachWasConsented'
    BY <1>2 DEF OutreachWasConsented
  <1>5. TxAccepted'
    BY <1>2 DEF TxAccepted
  <1>6. RowsComplete' /\ VerdictMatchesStatus' /\ LocksExclusive' /\ TxCoherent'
    BY DEF RowsComplete, VerdictMatchesStatus, LocksExclusive, TxCoherent
  <1>7. EffectsAuthorized' /\ ApproversEntitled'
    BY DEF EffectsAuthorized, Authorized, ApproversEntitled
  <1> QED
    BY <1>1, <1>3, <1>4, <1>5, <1>6, <1>7

(* What assert_payload_bound establishes at the moment it returns. *)
LEMMA PayloadBoundAuthorizes ==
    ASSUME IInv, NEW p \in Proposals, NEW claimed \in Actions, NEW x \in Payloads,
           PayloadBound(p, claimed, x)
    PROVE  Authorized(p, x)
  <1>1. status[p] = "approved" /\ row[p].sha = PyHash(x)
    BY DEF PayloadBound, StoredProposalMatches, DurableVerdictAuthorizes
  <1>2. row[p].payload \in Payloads /\ row[p].sha = PyHash(row[p].payload)
    BY <1>1 DEF IInv, RowsComplete
  <1>3. row[p].payload = x
    BY <1>1, <1>2, HashIdentifiesPayload
  <1>4. Tier[row[p].action] >= 2 => verdict[p].by \in Humans \ {row[p].actor}
    BY <1>1 DEF IInv, ApproversEntitled, HumanApproverTrigger
  <1> QED
    BY <1>1, <1>3, <1>4 DEF Authorized

LEMMA CommitterKeeps ==
    ASSUME IInv, NEW k \in Committers, CommitterStep(k)
    PROVE  IInv'
  <1> USE DEF IInv
  <1>a. UNCHANGED <<status, row, verdict, consent, consentLog, tx>>
    BY DEF CommitterStep, CheckBound, Execute, GiveUp
  <1>b. /\ RowsComplete' /\ VerdictMatchesStatus' /\ LocksExclusive'
        /\ TxCoherent' /\ TxAccepted' /\ ApproversEntitled'
        /\ ConsentIsLogged' /\ OutreachWasConsented'
    BY <1>a DEF ApproversEntitled, RowsComplete, VerdictMatchesStatus, LocksExclusive, TxCoherent,
               TxAccepted, ConsentIsLogged, OutreachWasConsented
  <1>c. \A q, x : Authorized(q, x) => Authorized(q, x)'
    BY <1>a DEF Authorized
  <1>1. ASSUME NEW p \in Proposals, NEW claimed \in Actions, NEW x \in Payloads,
               CheckBound(k, p, claimed, x)
        PROVE  TypeOK' /\ EffectsAuthorized'
    <2>1. Authorized(p, x)
      BY <1>1, PayloadBoundAuthorizes DEF CheckBound
    <2>2. /\ hand' = [hand EXCEPT ![k] = [p |-> p, payload |-> x]]
          /\ effects' = effects
      BY <1>1 DEF CheckBound
    <2>3. TypeOK'
      BY <2>2, <1>a DEF TypeOK
    <2>4. EffectsAuthorized'
      BY <2>1, <2>2, <1>c DEF EffectsAuthorized, TypeOK
    <2> QED
      BY <2>3, <2>4
  <1>2. CASE Execute(k)
    <2>1. /\ Authorized(hand[k].p, hand[k].payload)
          /\ hand[k].p \in Proposals /\ hand[k].payload \in Payloads
      BY <1>2 DEF Execute, EffectsAuthorized, Authorized, RowsComplete
    <2>2. /\ effects' = effects \union {<<hand[k].p, hand[k].payload>>}
          /\ hand' = [hand EXCEPT ![k] = NothingInHand]
      BY <1>2 DEF Execute
    <2>3. TypeOK'
      BY <2>1, <2>2, <1>a DEF TypeOK, NothingInHand
    <2>4. EffectsAuthorized'
      BY <2>1, <2>2, <1>c DEF EffectsAuthorized, TypeOK
    <2> QED
      BY <2>3, <2>4, <1>b
  <1>3. CASE GiveUp(k)
    <2>1. effects' = effects /\ hand' = [hand EXCEPT ![k] = NothingInHand]
      BY <1>3 DEF GiveUp
    <2>2. TypeOK'
      BY <2>1, <1>a DEF TypeOK, NothingInHand
    <2>3. EffectsAuthorized'
      BY <2>1, <1>c DEF EffectsAuthorized, TypeOK
    <2> QED
      BY <2>2, <2>3, <1>b
  <1> QED
    BY <1>b, <1>1, <1>2, <1>3 DEF CommitterStep

LEMMA GateKeeps ==
    ASSUME IInv, NEW g \in Gates, GateStep(g)
    PROVE  IInv'
  <1>1. ASSUME NEW p \in Proposals, NEW a \in Actions, NEW x \in Payloads,
               Propose(g, p, a, x)
        PROVE  IInv'
    BY <1>1, ProposeKeeps
  <1>2. ASSUME NEW p \in Proposals, NEW kind \in {"approve", "deny", "revise"},
               NEW x \in Payloads, NEW who \in Principals,
               RecordVerdict(g, p, kind, x, who)
        PROVE  IInv'
    BY <1>2, LockKeeps DEF RecordVerdict
  <1>3. ASSUME NEW p \in Proposals, NEW claimed \in Actions,
               AutoApproveInternal(g, p, claimed)
        PROVE  IInv'
    <2>1. row[p].payload \in Payloads \union {NULL}
      BY DEF IInv, TypeOK, Row
    <2> QED
      BY <1>3, <2>1, SystemAssumption, LockKeeps DEF AutoApproveInternal
  <1>4. CASE Decide(g)
    BY <1>4, DecideKeeps
  <1>5. ASSUME NEW p \in Proposals, NEW who \in Principals,
               RejectAndSupersede(g, p, who)
        PROVE  IInv'
    BY <1>5, RejectKeeps
  <1>6. CASE Commit(g)
    BY <1>6, CommitKeeps
  <1>7. CASE Rollback(g)
    BY <1>7, RollbackKeeps
  <1>8. ASSUME NEW c \in Contacts, NEW allowed \in BOOLEAN,
               RecordOutreachContactRef(g, c, allowed)
        PROVE  IInv'
    BY <1>8, RecordContactKeeps
  <1> QED
    BY <1>1, <1>2, <1>3, <1>4, <1>5, <1>6, <1>7, <1>8 DEF GateStep

-----------------------------------------------------------------------------
(* The inductive invariant holds in every reachable state of the gate, its *)
(* tables and its committers (gate.py:173, gate.py:294, gate.py:334).      *)
THEOREM Invariance == Spec => []IInv
  <1>1. Init => IInv
    BY InitEstablishes
  <1>2. IInv /\ [Next]_vars => IInv'
    <2> SUFFICES ASSUME IInv, [Next]_vars PROVE IInv'
      OBVIOUS
    <2>1. CASE Next
      BY <2>1, GateKeeps, CommitterKeeps DEF Next
    <2>2. CASE UNCHANGED vars
      BY <2>2 DEF vars, IInv, TypeOK, RowsComplete, VerdictMatchesStatus,
                 LocksExclusive, TxCoherent, TxAccepted, ApproversEntitled,
                 ConsentIsLogged, OutreachWasConsented, EffectsAuthorized, Authorized
    <2> QED
      BY <2>1, <2>2
  <1> QED
    BY <1>1, <1>2, PTL DEF Spec

(* The columns of action_proposal and action_verdict, the transactions and *)
(* the committers' hands stay within their types.                          *)
THEOREM TypeCorrectness == Spec => []TypeOK
  <1>1. IInv => TypeOK
    BY DEF IInv
  <1> QED
    BY <1>1, Invariance, PTL

(* Committers execute, and hold for execution, only the stored body of an  *)
(* approved proposal, released by a second human from tier 2 on            *)
(* (assert_payload_bound, gate.py:334; trigger 0005).                      *)
THEOREM OnlyAuthorizedEffects == Spec => []EffectsAuthorized
  <1>1. IInv => EffectsAuthorized
    BY DEF IInv
  <1> QED
    BY <1>1, Invariance, PTL

(* Proposal and verdict agree whichever path wrote them (gate.py:262-286,  *)
(* gate.py:315-331; trigger 0011).                                         *)
THEOREM VerdictAndStatusAgree == Spec => []VerdictMatchesStatus
  <1>1. IInv => VerdictMatchesStatus
    BY DEF IInv
  <1> QED
    BY <1>1, Invariance, PTL

(* No approved outreach without a consent on record for its contact, also  *)
(* after a revision (trigger of 0009_safety_backstops.sql:98).             *)
THEOREM OutreachNeedsConsent == Spec => []OutreachWasConsented
  <1>1. IInv => OutreachWasConsented
    BY DEF IInv
  <1> QED
    BY <1>1, Invariance, PTL

(* A decision is final: status, body and verdict of a decided proposal     *)
(* never change again (the compare-and-set at gate.py:262 and gate.py:317).*)
THEOREM DecisionsAreFinal == Spec => DecidedIsFrozen
  <1> DEFINE Step == \A p \in Proposals :
                        status[p] \in {"approved", "denied"} => Frozen(p)
  <1>1. IInv /\ [Next]_vars => [Step]_vars
    <2> SUFFICES ASSUME IInv, Next, NEW q \in Proposals,
                        status[q] \in {"approved", "denied"}
                 PROVE  Frozen(q)
      BY DEF Frozen
    <2> USE DEF Frozen
    <2>1. ASSUME NEW g \in Gates, NEW p \in Proposals, NEW a \in Actions,
                 NEW x \in Payloads, Propose(g, p, a, x)
          PROVE  Frozen(q)
      BY <2>1 DEF Propose, IInv, TypeOK
    <2>2. ASSUME NEW g \in Gates, Commit(g)
          PROVE  Frozen(q)
      <3>1. tx[g].p # q
        BY <2>2 DEF Commit, IInv, TxCoherent
      <3> QED
        BY <2>2, <3>1 DEF Commit, IInv, TypeOK
    <2>3. ASSUME NEW g \in Gates, GateStep(g),
                 ~ Commit(g),
                 ~ \E p \in Proposals, a \in Actions, x \in Payloads :
                       Propose(g, p, a, x)
          PROVE  Frozen(q)
      BY <2>3 DEF GateStep, RecordVerdict, AutoApproveInternal, LockForVerdict,
                 Decide, RejectAndSupersede, Rollback, RecordOutreachContactRef
    <2>4. ASSUME NEW k \in Committers, CommitterStep(k)
          PROVE  Frozen(q)
      BY <2>4 DEF CommitterStep, CheckBound, Execute, GiveUp
    <2> QED
      BY <2>1, <2>2, <2>3, <2>4 DEF Next
  <1> QED
    BY <1>1, Invariance, PTL DEF Spec, DecidedIsFrozen

-----------------------------------------------------------------------------
(* Refinement.  The abstract decision about p depends on the status, row   *)
(* and verdict of p alone.                                                 *)
LEMMA DecisionUnchanged ==
    ASSUME UNCHANGED <<status, row, verdict>>
    PROVE  decisionBar' = decisionBar
  BY DEF decisionBar, DecisionOf

LEMMA InitMaps == IInv /\ Init => A!Init
  <1> SUFFICES ASSUME IInv, Init PROVE A!Init
    OBVIOUS
  <1>1. \A p \in Proposals : DecisionOf(p) = A!Undecided
    BY DEF Init, DecisionOf, A!Undecided, NoRow, NoVerdict
  <1> QED
    BY <1>1 DEF A!Init, decisionBar, Init

LEMMA ProposeMaps ==
    ASSUME IInv, NEW g \in Gates, NEW p \in Proposals, NEW a \in Actions,
           NEW x \in Payloads, Propose(g, p, a, x)
    PROVE  A!Open(p, ActorOf[g], Tier[a])
  <1>1. decisionBar[p].state = "none"
    BY DEF Propose, decisionBar, DecisionOf
  <1>2. /\ status'[p] = "pending" /\ row'[p].actor = ActorOf[g] /\ row'[p].action = a
        /\ verdict'[p] = NoVerdict
        /\ \A q \in Proposals : q # p => /\ status'[q] = status[q]
                                        /\ row'[q] = row[q]
                                        /\ verdict'[q] = verdict[q]
    BY DEF Propose, IInv, TypeOK, VerdictMatchesStatus
  <1>3. DecisionOf(p)' = [state |-> "open", proposer |-> ActorOf[g], tier |-> Tier[a],
                          payload |-> NULL, by |-> NULL]
    BY <1>2 DEF DecisionOf, NoVerdict
  <1>4. \A q \in Proposals : q # p => DecisionOf(q)' = DecisionOf(q)
    BY <1>2 DEF DecisionOf
  <1>5. decisionBar' = [decisionBar EXCEPT ![p] = [state |-> "open",
                          proposer |-> ActorOf[g], tier |-> Tier[a],
                          payload |-> NULL, by |-> NULL]]
    BY <1>3, <1>4 DEF decisionBar
  <1>6. effects' = effects
    BY DEF Propose
  <1> QED
    BY <1>1, <1>5, <1>6 DEF A!Open

LEMMA CommitMaps ==
    ASSUME IInv, NEW g \in Gates, Commit(g),
           NEW t, t = tx[g], NEW p, p = tx[g].p
    PROVE  \/ A!Grant(p, t.row.payload, t.verdict.by)
           \/ A!Refuse(p, t.verdict.by)
  <1>1. /\ p \in Proposals /\ status[p] = "pending" /\ t.stage = "decided"
        /\ row[p].actor = t.row.actor /\ row[p].action = t.row.action
        /\ verdict[p].by = NULL
    BY DEF Commit, IInv, TxCoherent, VerdictMatchesStatus, NoVerdict
  <1>2. /\ status' = [status EXCEPT ![p] = t.status]
        /\ row' = [row EXCEPT ![p] = t.row]
        /\ verdict' = [verdict EXCEPT ![p] = t.verdict]
        /\ effects' = effects
    BY DEF Commit
  <1>3. /\ status'[p] = t.status /\ row'[p] = t.row /\ verdict'[p] = t.verdict
        /\ \A q \in Proposals : q # p => /\ status'[q] = status[q]
                                        /\ row'[q] = row[q]
                                        /\ verdict'[q] = verdict[q]
    BY <1>1, <1>2 DEF IInv, TypeOK
  <1>4. \A q \in Proposals : q # p => decisionBar'[q] = decisionBar[q]
    BY <1>3 DEF DecisionOf, decisionBar
  <1> DEFINE open == [state |-> "open", proposer |-> row[p].actor,
                      tier |-> Tier[row[p].action], payload |-> NULL, by |-> NULL]
  <1>5. decisionBar[p] = open
    BY <1>1 DEF DecisionOf, decisionBar
  <1>6. /\ decisionBar = [q \in Proposals |-> decisionBar[q]]
        /\ decisionBar' = [q \in Proposals |-> decisionBar'[q]]
    BY DEF decisionBar
  <1>7. CASE t.status = "approved"
    <2> DEFINE granted == [state |-> "granted", proposer |-> row[p].actor,
                           tier |-> Tier[row[p].action],
                           payload |-> t.row.payload, by |-> t.verdict.by]
    <2>1. decisionBar'[p] = granted
      BY <1>1, <1>3, <1>7 DEF DecisionOf, decisionBar
    <2> HIDE DEF open
    <2>3. decisionBar' = [decisionBar EXCEPT ![p] = granted]
      BY <2>1, <1>1, <1>4, <1>6
    <2>4. decisionBar[p].state = "open" /\ decisionBar[p].tier = Tier[row[p].action]
          /\ decisionBar[p].proposer = row[p].actor
      BY <1>5 DEF open
    <2>5. decisionBar[p].tier >= 2 =>
             t.verdict.by \in Humans \ {decisionBar[p].proposer}
      BY <1>1, <2>4, <1>7 DEF IInv, TxAccepted, HumanApproverTrigger
    <2> QED
      BY <2>3, <2>4, <2>5, <1>2 DEF A!Grant
  <1>8. CASE t.status = "denied"
    <2> DEFINE refused == [state |-> "refused", proposer |-> row[p].actor,
                           tier |-> Tier[row[p].action],
                           payload |-> NULL, by |-> t.verdict.by]
    <2>1. decisionBar'[p] = refused
      BY <1>1, <1>3, <1>8 DEF DecisionOf, decisionBar
    <2>3. decisionBar[p].state = "open" /\ decisionBar[p].tier = Tier[row[p].action]
          /\ decisionBar[p].proposer = row[p].actor
      BY <1>5
    <2>4. decisionBar' = [decisionBar EXCEPT ![p] = refused]
      BY <2>1, <1>1, <1>4, <1>6
    <2> QED
      BY <2>3, <2>4, <1>2 DEF A!Refuse
  <1> QED
    BY <1>1, <1>7, <1>8 DEF IInv, TxCoherent

LEMMA ExecuteMaps ==
    ASSUME IInv, NEW k \in Committers, Execute(k)
    PROVE  A!Perform(hand[k].p)
  <1>1. /\ hand[k].p \in Proposals /\ status[hand[k].p] = "approved"
        /\ row[hand[k].p].payload = hand[k].payload
    BY DEF Execute, IInv, EffectsAuthorized, Authorized
  <1>2. /\ decisionBar[hand[k].p].state = "granted"
        /\ decisionBar[hand[k].p].payload = hand[k].payload
    BY <1>1 DEF decisionBar, DecisionOf
  <1>3. decisionBar' = decisionBar
    BY DecisionUnchanged DEF Execute
  <1> QED
    BY <1>2, <1>3 DEF Execute, A!Perform

(* Every behaviour of the gate, its triggers and its committers is one the *)
(* abstract authorization allows.                                          *)
THEOREM GateImplementsAuthorization == Spec => ImplementsAuthorization
  <1>1. IInv /\ Init => A!Init
    BY InitMaps
  <1>2. IInv /\ [Next]_vars => [A!Next]_(A!vars)
    <2> SUFFICES ASSUME IInv, [Next]_vars PROVE A!Next \/ UNCHANGED A!vars
      OBVIOUS
    <2>1. ASSUME NEW g \in Gates, NEW p \in Proposals, NEW a \in Actions,
                 NEW x \in Payloads, Propose(g, p, a, x)
          PROVE  A!Next
      BY <2>1, ProposeMaps, ActorOfAssumption, TierAssumption DEF A!Next
    <2>2. ASSUME NEW g \in Gates, Commit(g)
          PROVE  A!Next
      <3>1. /\ tx[g].p \in Proposals /\ tx[g].row.payload \in Payloads
            /\ tx[g].verdict.by \in Principals
        BY <2>2 DEF Commit, IInv, TxCoherent
      <3> QED
        BY <2>2, <3>1, CommitMaps DEF A!Next
    <2>3. ASSUME NEW k \in Committers, Execute(k)
          PROVE  A!Next
      BY <2>3, ExecuteMaps DEF A!Next, Execute, IInv, EffectsAuthorized, Authorized
    <2>4. ASSUME UNCHANGED <<status, row, verdict, effects>>
          PROVE  UNCHANGED A!vars
      BY <2>4, DecisionUnchanged DEF A!vars
    <2>5. ASSUME NEW g \in Gates, GateStep(g), ~ Commit(g),
                 ~ \E p \in Proposals, a \in Actions, x \in Payloads :
                       Propose(g, p, a, x)
          PROVE  UNCHANGED <<status, row, verdict, effects>>
      BY <2>5 DEF GateStep, RecordVerdict, AutoApproveInternal, LockForVerdict,
                 Decide, RejectAndSupersede, Rollback, RecordOutreachContactRef
    <2>6. ASSUME NEW k \in Committers, CommitterStep(k), ~ Execute(k)
          PROVE  UNCHANGED <<status, row, verdict, effects>>
      BY <2>6 DEF CommitterStep, CheckBound, GiveUp
    <2>7. CASE UNCHANGED vars
      BY <2>7, <2>4 DEF vars
    <2> QED
      BY <2>1, <2>2, <2>3, <2>4, <2>5, <2>6, <2>7 DEF Next
  <1> QED
    BY <1>1, <1>2, Invariance, PTL DEF Spec, ImplementsAuthorization, A!Spec
=============================================================================
