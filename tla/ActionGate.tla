----------------------------- MODULE ActionGate -----------------------------
(***************************************************************************)
(* The approve / deny / revise gate (governance/gate.py) over its tables   *)
(* and their triggers (migrations 0004, 0005, 0009, 0011).                 *)
(*                                                                         *)
(* Several gates, one per connection and acting principal, work on the     *)
(* same proposals.  A verdict is one database transaction, taken here in   *)
(* three steps so that others interleave: the row is locked and read, the  *)
(* UPDATE and the INSERT run under the triggers, the transaction commits.  *)
(* Any step of it may be the last (an exception, a trigger that raises, a  *)
(* lost connection), which rolls it back.  Committers check a payload      *)
(* against the stored verdict first and touch their target later.          *)
(***************************************************************************)
EXTENDS Integers

CONSTANTS
    Proposals,          \* proposal identifiers
    Payloads,           \* action bodies (dicts in Python, jsonb in Postgres)
    PortablePayloads,   \* those both languages serialise to the same text
    Contacts,           \* contact references with a consent fact
    ContactOf,          \* payload -> the contact it names, or NULL
    Actions,            \* the CSM action types in play
    Tier,               \* action -> its autonomy tier
    AutoInternal,       \* actions released under auto_internal_only
    Principals, Humans, \* principals, and those of kind 'human'
    System,             \* the system principal that auto-releases
    Gates, ActorOf,     \* gate instances, and the principal each acts for
    Committers,         \* processes that execute approved proposals
    NULL

ASSUME PortableAssumption   == PortablePayloads \subseteq Payloads
ASSUME ContactOfAssumption  == ContactOf \in [Payloads -> Contacts \union {NULL}]
ASSUME TierAssumption       == Tier \in [Actions -> 1..3]
ASSUME HumansAssumption     == Humans \subseteq Principals
ASSUME SystemAssumption     == System \in Principals
ASSUME ActorOfAssumption    == ActorOf \in [Gates -> Principals]
ASSUME NullAssumption       == NULL \notin Payloads \union Contacts \union Principals
                                           \union Proposals \union Actions
                                           \union ({"json", "jsonb"} \X Payloads)

VARIABLES
    status,     \* action_proposal.status, "absent" before the row exists
    row,        \* the other columns of action_proposal
    verdict,    \* the action_verdict row of the proposal (UNIQUE)
    consent,    \* outreach_contact_consent_ref.consent, FALSE without a row
    consentLog, \* contacts audit.change_log has an entry consent = true for
    tx,         \* the open verdict transaction of each gate
    hand,       \* what a committer has checked and is about to execute
    effects     \* <<proposal, payload>> pairs executed against a target

vars == <<status, row, verdict, consent, consentLog, tx, hand, effects>>

-----------------------------------------------------------------------------
(* Hashes.  SHA-256 is taken to be injective, so a hash is the text that   *)
(* was hashed.  Python escapes non-ASCII text and prints floats its own    *)
(* way where canonical_jsonb prints the jsonb text, so the two agree only  *)
(* on portable payloads.                                                   *)

PyHash(x) == <<"json", x>>

DbHash(x) == IF x \in PortablePayloads THEN <<"json", x>> ELSE <<"jsonb", x>>

Hashes == {"json", "jsonb"} \X Payloads

(* The trigger action_proposal_payload_hash. *)
HashTriggerAccepts(x, sha) == sha = DbHash(x)

Row == [actor   : Principals \union {NULL},
        action  : Actions \union {NULL},
        payload : Payloads \union {NULL},
        sha     : Hashes \union {NULL}]

NoRow == [actor |-> NULL, action |-> NULL, payload |-> NULL, sha |-> NULL]

Verdict == [kind : {"none", "approve", "deny", "revise"},
            sha  : Hashes \union {NULL},
            by   : Principals \union {NULL}]

NoVerdict == [kind |-> "none", sha |-> NULL, by |-> NULL]

(* A verdict transaction: the row as it was read under the lock, the row   *)
(* and status it will leave, and the verdict row it inserts.               *)
Tx == [stage   : {"idle", "locked", "decided"},
       p       : Proposals \union {NULL},
       row     : Row,
       status  : {"absent", "approved", "denied"},
       verdict : Verdict]

NoTx == [stage |-> "idle", p |-> NULL, row |-> NoRow, status |-> "absent",
         verdict |-> NoVerdict]

NothingInHand == [p |-> NULL, payload |-> NULL]

Init ==
    /\ status = [p \in Proposals |-> "absent"]
    /\ row = [p \in Proposals |-> NoRow]
    /\ verdict = [p \in Proposals |-> NoVerdict]
    /\ consent = [c \in Contacts |-> FALSE]
    /\ consentLog = {}
    /\ tx = [g \in Gates |-> NoTx]
    /\ hand = [k \in Committers |-> NothingInHand]
    /\ effects = {}

-----------------------------------------------------------------------------
(* propose: the INSERT commits as pending, or the hash trigger raises. *)
Propose(g, p, a, x) ==
    /\ tx[g].stage = "idle"
    /\ status[p] = "absent"
    /\ HashTriggerAccepts(x, PyHash(x))
    /\ status' = [status EXCEPT ![p] = "pending"]
    /\ row' = [row EXCEPT ![p] = [actor |-> ActorOf[g], action |-> a,
                                  payload |-> x, sha |-> PyHash(x)]]
    /\ UNCHANGED <<verdict, consent, consentLog, tx, hand, effects>>

(* SELECT ... FOR UPDATE and the UPDATE wait while another transaction     *)
(* holds the row.                                                          *)
NoRowLock(p) == TRUE  \* mutant

RowLockFree(p) == \A g \in Gates : tx[g].p # p

(* The check record_verdict makes itself.  It compares the approver with   *)
(* the principal of this gate, not with the proposal's own actor.          *)
GateHumanCheck(g, r, who) ==
    Tier[r.action] >= 2 => who \in Humans \ {ActorOf[g]}

(* new_status, for each kind of verdict. *)
StatusAfter(kind) == IF kind = "deny" THEN "denied" ELSE "approved"

(* record_verdict up to its UPDATE: lock, rebuild the authoritative row,   *)
(* take the verdict, derive the effective payload and hash.                *)
LockForVerdict(g, p, kind, x, who) ==
    /\ tx[g].stage = "idle"
    /\ RowLockFree(p)
    /\ status[p] = "pending"
    /\ kind # "deny" => GateHumanCheck(g, row[p], who)
    /\ LET r == IF kind = "revise"
                THEN [row[p] EXCEPT !.payload = x, !.sha = PyHash(x)]
                ELSE row[p]
       IN tx' = [tx EXCEPT ![g] = [stage |-> "locked", p |-> p, row |-> r,
                    status |-> StatusAfter(kind),
                    verdict |-> [kind |-> kind, by |-> who,
                        sha |-> IF kind = "deny" THEN NULL ELSE r.sha]]]
    /\ UNCHANGED <<status, row, verdict, consent, consentLog, hand, effects>>

(* record_verdict with a verdict from the console or a fixture. *)
RecordVerdict(g, p, kind, x, who) ==
    /\ kind = "revise" \/ x = row[p].payload
    /\ LockForVerdict(g, p, kind, x, who)

(* auto_approve_internal looks the action up in the caller's snapshot,     *)
(* which need not be the stored one.                                       *)
AutoApproveInternal(g, p, claimed) ==
    /\ claimed \in AutoInternal
    /\ LockForVerdict(g, p, "approve", row[p].payload, System)

(* UPDATE ... WHERE status = 'pending', and UNIQUE (proposal_id). *)
BlindWrite(p) == status[p] # "absent"  \* mutant

StillUndecided(p) == status[p] = "pending" /\ verdict[p] = NoVerdict

(* The BEFORE INSERT triggers of action_verdict; they see the row as the   *)
(* UPDATE of the same transaction left it.                                 *)
AnyHumanApproves(r, v) == Tier[r.action] >= 2 => v.by \in Humans  \* mutant

HumanApproverTrigger(r, v) ==
    Tier[r.action] >= 2 => v.by \in Humans \ {r.actor}

Consented(r) ==
    r.action = "draft_customer_outreach" =>
        \E c \in Contacts : ContactOf[r.payload] = c /\ consent[c]

ConsentBeforeRevise(t) == Consented(row[t.p])  \* mutant

ConsentTrigger(t) == Consented(t.row)

BindingTrigger(t) == t.status = "approved" /\ t.verdict.sha = t.row.sha

VerdictTriggersAccept(t) ==
    t.verdict.sha # NULL => /\ HumanApproverTrigger(t.row, t.verdict)
                            /\ ConsentTrigger(t)
                            /\ BindingTrigger(t)

(* record_verdict's UPDATE and INSERT; nothing is visible outside yet. *)
Decide(g) ==
    LET t == tx[g] IN
    /\ t.stage = "locked"
    /\ StillUndecided(t.p)
    /\ t.verdict.kind = "revise" => HashTriggerAccepts(t.row.payload, t.row.sha)
    /\ VerdictTriggersAccept(t)
    /\ tx' = [tx EXCEPT ![g].stage = "decided"]
    /\ UNCHANGED <<status, row, verdict, consent, consentLog, hand, effects>>

(* reject_and_supersede: its UPDATE takes the lock itself, and its verdict *)
(* row is a 'revise' that authorises nothing.                              *)
RejectAndSupersede(g, p, who) ==
    /\ tx[g].stage = "idle"
    /\ RowLockFree(p)
    /\ StillUndecided(p)
    /\ tx' = [tx EXCEPT ![g] = [stage |-> "decided", p |-> p, row |-> row[p],
                 status |-> "denied",
                 verdict |-> [kind |-> "revise", sha |-> NULL, by |-> who]]]
    /\ UNCHANGED <<status, row, verdict, consent, consentLog, hand, effects>>

(* session(): a clean exit commits everything the transaction wrote ... *)
LosesVerdictRow(g) ==  \* mutant
    LET t == tx[g] IN
    /\ t.stage = "decided"
    /\ status' = [status EXCEPT ![t.p] = t.status]
    /\ row' = [row EXCEPT ![t.p] = t.row]
    /\ tx' = [tx EXCEPT ![g] = NoTx]
    /\ UNCHANGED <<verdict, consent, consentLog, hand, effects>>

Commit(g) ==
    LET t == tx[g] IN
    /\ t.stage = "decided"
    /\ status' = [status EXCEPT ![t.p] = t.status]
    /\ row' = [row EXCEPT ![t.p] = t.row]
    /\ verdict' = [verdict EXCEPT ![t.p] = t.verdict]
    /\ tx' = [tx EXCEPT ![g] = NoTx]
    /\ UNCHANGED <<consent, consentLog, hand, effects>>

(* ... and any exception, or the death of the process, rolls it back. *)
Rollback(g) ==
    /\ tx[g].stage # "idle"
    /\ tx' = [tx EXCEPT ![g] = NoTx]
    /\ UNCHANGED <<status, row, verdict, consent, consentLog, hand, effects>>

(* record_outreach_contact_ref: an upsert of the observed consent, which   *)
(* the provenance trigger logs.                                            *)
RecordOutreachContactRef(g, c, allowed) ==
    /\ tx[g].stage = "idle"
    /\ consent' = [consent EXCEPT ![c] = allowed]
    /\ consentLog' = IF allowed THEN consentLog \union {c} ELSE consentLog
    /\ UNCHANGED <<status, row, verdict, tx, hand, effects>>

-----------------------------------------------------------------------------
(* assert_payload_bound(proposal, outcome, payload).  Neither the snapshot *)
(* nor the outcome is trusted: both are values any caller can build.       *)

Outcomes == [p : Proposals, authorized : BOOLEAN, sha : Hashes]

OutcomeMatches(p, x, outcome) ==
    /\ outcome.authorized
    /\ outcome.p = p
    /\ outcome.sha = PyHash(x)

StoredProposalMatches(p, claimed, x) ==
    /\ status[p] # "absent"
    /\ row[p].action = claimed
    /\ row[p].sha = PyHash(x)

TrustsTheOutcome(p, x) == status[p] # "absent"  \* mutant

DurableVerdictAuthorizes(p, x) ==
    /\ status[p] = "approved"
    /\ verdict[p].kind \in {"approve", "revise"}
    /\ verdict[p].sha = PyHash(x)

PayloadBound(p, claimed, x) ==
    /\ StoredProposalMatches(p, claimed, x)
    /\ DurableVerdictAuthorizes(p, x)
    /\ \E outcome \in Outcomes : OutcomeMatches(p, x, outcome)

(* A committer passes the check and now holds the payload it will write. *)
CheckBound(k, p, claimed, x) ==
    /\ hand[k] = NothingInHand
    /\ PayloadBound(p, claimed, x)
    /\ hand' = [hand EXCEPT ![k] = [p |-> p, payload |-> x]]
    /\ UNCHANGED <<status, row, verdict, consent, consentLog, tx, effects>>

(* It writes to its target some time later; nothing is checked again. *)
Execute(k) ==
    /\ hand[k] # NothingInHand
    /\ effects' = effects \union {<<hand[k].p, hand[k].payload>>}
    /\ hand' = [hand EXCEPT ![k] = NothingInHand]
    /\ UNCHANGED <<status, row, verdict, consent, consentLog, tx>>

(* Or it dies, or its target refuses, before writing. *)
GiveUp(k) ==
    /\ hand[k] # NothingInHand
    /\ hand' = [hand EXCEPT ![k] = NothingInHand]
    /\ UNCHANGED <<status, row, verdict, consent, consentLog, tx, effects>>

GateStep(g) ==
    \/ \E p \in Proposals, a \in Actions, x \in Payloads : Propose(g, p, a, x)
    \/ \E p \in Proposals, kind \in {"approve", "deny", "revise"},
          x \in Payloads, who \in Principals : RecordVerdict(g, p, kind, x, who)
    \/ \E p \in Proposals, claimed \in Actions : AutoApproveInternal(g, p, claimed)
    \/ Decide(g)
    \/ \E p \in Proposals, who \in Principals : RejectAndSupersede(g, p, who)
    \/ Commit(g)
    \/ Rollback(g)
    \/ \E c \in Contacts, allowed \in BOOLEAN : RecordOutreachContactRef(g, c, allowed)

CommitterStep(k) ==
    \/ \E p \in Proposals, claimed \in Actions, x \in Payloads :
          CheckBound(k, p, claimed, x)
    \/ Execute(k)
    \/ GiveUp(k)

Next == (\E g \in Gates : GateStep(g)) \/ (\E k \in Committers : CommitterStep(k))

Spec == Init /\ [][Next]_vars

-----------------------------------------------------------------------------
(* Properties.                                                             *)

TypeOK ==
    /\ status \in [Proposals -> {"absent", "pending", "approved", "denied"}]
    /\ row \in [Proposals -> Row]
    /\ verdict \in [Proposals -> Verdict]
    /\ consent \in [Contacts -> BOOLEAN]
    /\ consentLog \in SUBSET Contacts
    /\ tx \in [Gates -> Tx]
    /\ hand \in [Committers -> [p : Proposals \union {NULL},
                                payload : Payloads \union {NULL}]]
    /\ effects \in SUBSET (Proposals \X Payloads)

(* The proposal and its verdict never tell two stories, whichever of the   *)
(* three verdict paths wrote them: approved exactly when the verdict binds *)
(* a hash, and then the hash of the payload that is stored; a verdict row  *)
(* exactly for a decided proposal, and never 'approve' on a denied one.    *)
VerdictMatchesStatus ==
    \A p \in Proposals :
        /\ (status[p] = "approved") <=> (verdict[p].sha # NULL)
        /\ (status[p] \in {"absent", "pending"}) <=> (verdict[p] = NoVerdict)
        /\ status[p] = "approved" =>
              /\ verdict[p].kind \in {"approve", "revise"}
              /\ verdict[p].sha = row[p].sha
              /\ row[p].sha = DbHash(row[p].payload)
        /\ status[p] = "denied" => verdict[p].kind \in {"deny", "revise"}

(* p is approved with body x, by a human other than its proposer when its  *)
(* tier is 2 or more.                                                      *)
Authorized(p, x) ==
    /\ p \in Proposals
    /\ status[p] = "approved"
    /\ row[p].payload = x
    /\ Tier[row[p].action] >= 2 =>
          verdict[p].by \in Humans \ {row[p].actor}

(* Whatever a committer executed, and whatever it is about to execute, is  *)
(* the stored body of an approved proposal, released by a second human     *)
(* from tier 2 on: whatever snapshot, outcome or payload it was handed,    *)
(* whichever gate recorded the verdict, and however verdicts, revisions    *)
(* and rejections of the same proposal interleaved (gate.py:334).          *)
EffectsAuthorized ==
    /\ \A e \in effects : Authorized(e[1], e[2])
    /\ \A k \in Committers :
          hand[k] # NothingInHand => Authorized(hand[k].p, hand[k].payload)

(* An outreach proposal is approved only with a contact whose consent was  *)
(* recorded at some time, also when the approving verdict revised the      *)
(* payload to name another contact (0009_safety_backstops.sql:98).         *)
OutreachWasConsented ==
    \A p \in Proposals :
        status[p] = "approved" /\ row[p].action = "draft_customer_outreach"
            => ContactOf[row[p].payload] \in consentLog

(* A decided proposal never changes again: not its status, not its body,   *)
(* not its verdict (the compare-and-set at gate.py:262, UNIQUE).           *)
Frozen(p) == UNCHANGED <<status[p], row[p], verdict[p]>>

DecidedIsFrozen ==
    [][\A p \in Proposals : status[p] \in {"approved", "denied"} => Frozen(p)]_vars

(* What keeps the above true.  A row that exists is complete and carries   *)
(* the hash both languages agree on.                                       *)
RowsComplete ==
    \A p \in Proposals :
        status[p] # "absent" =>
            /\ row[p].actor \in Principals
            /\ row[p].action \in Actions
            /\ row[p].payload \in Payloads
            /\ row[p].sha = PyHash(row[p].payload)
            /\ row[p].sha = DbHash(row[p].payload)

(* An open transaction holds a proposal that is still undecided, keeps its *)
(* actor and action, and is about to leave a verdict that fits the status. *)
TxCoherent ==
    \A g \in Gates :
        LET t == tx[g] IN
        /\ t.stage = "idle" => t = NoTx
        /\ t.stage # "idle" =>
              /\ t.p \in Proposals
              /\ status[t.p] = "pending"
              /\ t.row.actor = row[t.p].actor
              /\ t.row.action = row[t.p].action
              /\ t.row.payload \in Payloads
              /\ t.row.sha = PyHash(t.row.payload)
              /\ t.verdict.by \in Principals
              /\ t.verdict.kind # "revise" => t.row = row[t.p]
              /\ \/ /\ t.status = "denied"
                    /\ t.verdict.sha = NULL
                    /\ t.verdict.kind \in {"deny", "revise"}
                 \/ /\ t.status = "approved"
                    /\ t.verdict.sha = t.row.sha
                    /\ t.verdict.kind \in {"approve", "revise"}

(* What the triggers have established once the writes are made. *)
TxAccepted ==
    \A g \in Gates :
        LET t == tx[g] IN
        t.stage = "decided" =>
            /\ t.row.sha = DbHash(t.row.payload)
            /\ t.status = "approved" =>
                  /\ HumanApproverTrigger(t.row, t.verdict)
                  /\ t.row.action = "draft_customer_outreach" =>
                        ContactOf[t.row.payload] \in consentLog

(* The approval of a proposal came from somebody entitled to give it. *)
ApproversEntitled ==
    \A p \in Proposals :
        status[p] = "approved" => HumanApproverTrigger(row[p], verdict[p])

(* A proposal is in the hands of one transaction at a time. *)
LocksExclusive ==
    \A g, h \in Gates : tx[g].p = tx[h].p => g = h \/ tx[g].p = NULL

ConsentIsLogged == \A c \in Contacts : consent[c] => c \in consentLog

(* The inductive invariant: the four invariants above and what they rest   *)
(* on, over every interleaving of the gates and the committers.            *)
IInv ==
    /\ TypeOK
    /\ RowsComplete
    /\ VerdictMatchesStatus
    /\ LocksExclusive
    /\ TxCoherent
    /\ TxAccepted
    /\ ApproversEntitled
    /\ ConsentIsLogged
    /\ OutreachWasConsented
    /\ EffectsAuthorized

(* The abstract decision about p. *)
DecisionOf(p) ==
    [state    |-> CASE status[p] = "absent"   -> "none"
                    [] status[p] = "pending"  -> "open"
                    [] status[p] = "approved" -> "granted"
                    [] status[p] = "denied"   -> "refused",
     proposer |-> row[p].actor,
     tier     |-> IF status[p] = "absent" THEN 0 ELSE Tier[row[p].action],
     payload  |-> IF status[p] = "approved" THEN row[p].payload ELSE NULL,
     by       |-> verdict[p].by]

decisionBar == [p \in Proposals |-> DecisionOf(p)]

A == INSTANCE Authorization WITH decision <- decisionBar, performed <- effects

(* The gate, its tables and its triggers keep the promise of Authorization:*)
(* one open, one decision by somebody entitled to it, and only the granted *)
(* body performed.                                                         *)
ImplementsAuthorization == A!Spec
=============================================================================
