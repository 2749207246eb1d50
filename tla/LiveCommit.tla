----------------------------- MODULE LiveCommit -----------------------------
(***************************************************************************)
(* The two live committers, LiveGmailOutboundCommitter.commit and          *)
(* LiveSalesforceActivityCommitter.commit: a key is claimed once, one POST *)
(* goes out, and the answer decides whether the key is completed, released *)
(* for a retry, or left pending for good because nobody knows what         *)
(* happened.  A ledger file outside the repository records the attempts.   *)
(*                                                                         *)
(* The proposals are approved and the payloads bound (ActionGate); dry     *)
(* runs reserve and send nothing.  The service may deliver and then answer *)
(* badly, the network may fail after the delivery, and the process may die *)
(* between any two steps.                                                  *)
(***************************************************************************)
EXTENDS Integers

CONSTANTS
    Keys,           \* idempotency keys, one per approved proposal and target
    GmailKeys,      \* those of the Gmail committer; the others are Salesforce's
    Workers,        \* processes calling commit
    MaxAttempts,    \* bound on the claims of each key
    NULL

ASSUME KeysAssumption     == GmailKeys \subseteq Keys
ASSUME AttemptsAssumption == MaxAttempts \in Nat \ {0}
ASSUME NullAssumption     == NULL \notin Keys

VARIABLES
    reserved,   \* idempotency_keys: absent, pending or completed
    call,       \* the step and key of the call each worker is executing
    ledger,     \* rows of each phase in the ledger, per key
    delivered,  \* messages or tasks the service really created, per key
    misread,    \* those whose answer the committer took for a refusal
    attempts    \* claims of each key, at most MaxAttempts

vars == <<reserved, call, ledger, delivered, misread, attempts>>

SalesforceKeys == Keys \ GmailKeys

(* Of the rows that say "nothing was sent" it matters only that they exist.*)
Ledger == [intent : Nat, failed : Nat, confirmed : Nat, skipped : BOOLEAN]

NoCall == [pc |-> "idle", k |-> NULL]

Init ==
    /\ reserved = [k \in Keys |-> "absent"]
    /\ call = [w \in Workers |-> NoCall]
    /\ ledger = [k \in Keys |-> [intent |-> 0, failed |-> 0, confirmed |-> 0,
                                 skipped |-> FALSE]]
    /\ delivered = [k \in Keys |-> 0]
    /\ misread = [k \in Keys |-> 0]
    /\ attempts = [k \in Keys |-> 0]

At(w, pc) == call[w].pc = pc

Goto(w, pc) == call' = [call EXCEPT ![w].pc = pc]

Return(w) == call' = [call EXCEPT ![w] = NoCall]

-----------------------------------------------------------------------------
(* claim_idempotency_key: INSERT ... ON CONFLICT DO NOTHING. *)
ReclaimsPending(k) == reserved[k] # "completed"  \* mutant

Claimable(k) == reserved[k] = "absent"

(* A call that wins the claim goes on: Salesforce writes its intent to the *)
(* ledger first, Gmail asks for an access token.                           *)
SendsBeforeIntent(k) == "auth"  \* mutant

AfterClaim(k) == IF k \in GmailKeys THEN "auth" ELSE "intent"

Claim(w, k) ==
    /\ At(w, "idle")
    /\ Claimable(k)
    /\ attempts[k] < MaxAttempts
    /\ attempts' = [attempts EXCEPT ![k] = @ + 1]
    /\ reserved' = [reserved EXCEPT ![k] = "pending"]
    /\ call' = [call EXCEPT ![w] = [pc |-> AfterClaim(k), k |-> k]]
    /\ UNCHANGED <<ledger, delivered, misread>>

(* A call that loses it writes a ledger row and returns committed = False; *)
(* so does one to a recipient outside the allowlist, which claims nothing. *)
Skip(w, k) ==
    /\ At(w, "idle")
    /\ ~ Claimable(k) \/ k \in GmailKeys
    /\ ledger' = [ledger EXCEPT ![k].skipped = TRUE]
    /\ UNCHANGED <<reserved, call, delivered, misread, attempts>>

(* The Salesforce intent row. *)
RecordIntent(w) ==
    /\ At(w, "intent")
    /\ ledger' = [ledger EXCEPT ![call[w].k].intent = @ + 1]
    /\ Goto(w, "auth")
    /\ UNCHANGED <<reserved, delivered, misread, attempts>>

(* The token request: granted; answered badly, which Gmail's handler takes *)
(* for a refusal; or raised outside every handler.                         *)
Authenticate(w) ==
    /\ At(w, "auth")
    /\ \/ Goto(w, "post")
       \/ call[w].k \in GmailKeys /\ Goto(w, "release")
       \/ Return(w)
    /\ UNCHANGED <<reserved, ledger, delivered, misread, attempts>>

(* What handles a WriteError: Salesforce appends a failed row first. *)
AfterWriteError(k) == IF k \in GmailKeys THEN "release" ELSE "failed"

(* An exception that is not a WriteError (a timeout, an answer that is not *)
(* JSON) has no handler: the key stays pending.                            *)
ReleasesAnyway(w) == Goto(w, AfterWriteError(call[w].k))  \* mutant

Unhandled(w) == Return(w)

PostSucceeds(w) ==
    /\ At(w, "post")
    /\ delivered' = [delivered EXCEPT ![call[w].k] = @ + 1]
    /\ Goto(w, "mark")
    /\ UNCHANGED <<reserved, ledger, misread, attempts>>

(* A status that is not 200 or 201: nothing was created. *)
PostRefused(w) ==
    /\ At(w, "post")
    /\ Goto(w, AfterWriteError(call[w].k))
    /\ UNCHANGED <<reserved, ledger, delivered, misread, attempts>>

(* Something was created, but the answer has another status or no id. *)
PostMisread(w) ==
    /\ At(w, "post")
    /\ delivered' = [delivered EXCEPT ![call[w].k] = @ + 1]
    /\ misread' = [misread EXCEPT ![call[w].k] = @ + 1]
    /\ Goto(w, AfterWriteError(call[w].k))
    /\ UNCHANGED <<reserved, ledger, attempts>>

(* The call raises otherwise, before or after the service acted. *)
PostLost(w) ==
    /\ At(w, "post")
    /\ \/ UNCHANGED delivered
       \/ delivered' = [delivered EXCEPT ![call[w].k] = @ + 1]
    /\ Unhandled(w)
    /\ UNCHANGED <<reserved, ledger, misread, attempts>>

RecordFailed(w) ==
    /\ At(w, "failed")
    /\ ledger' = [ledger EXCEPT ![call[w].k].failed = @ + 1]
    /\ Goto(w, "release")
    /\ UNCHANGED <<reserved, delivered, misread, attempts>>

(* release_idempotency_key: DELETE, whoever holds it. *)
MarksInstead(w) ==  \* mutant
    /\ At(w, "release")
    /\ reserved' = [reserved EXCEPT ![call[w].k] = "completed"]
    /\ Return(w)
    /\ UNCHANGED <<ledger, delivered, misread, attempts>>

Release(w) ==
    /\ At(w, "release")
    /\ reserved' = [reserved EXCEPT ![call[w].k] = "absent"]
    /\ Return(w)
    /\ UNCHANGED <<ledger, delivered, misread, attempts>>

(* mark_idempotency_result, without a token. *)
MarkResult(w) ==
    /\ At(w, "mark")
    /\ reserved' = [reserved EXCEPT ![call[w].k] = "completed"]
    /\ Goto(w, "confirm")
    /\ UNCHANGED <<ledger, delivered, misread, attempts>>

(* The row with the message or task id; then the receipt. *)
RecordConfirmed(w) ==
    /\ At(w, "confirm")
    /\ ledger' = [ledger EXCEPT ![call[w].k].confirmed = @ + 1]
    /\ Return(w)
    /\ UNCHANGED <<reserved, delivered, misread, attempts>>

(* The process dies, or a database or file operation raises. *)
Crash(w) ==
    /\ ~ At(w, "idle")
    /\ Return(w)
    /\ UNCHANGED <<reserved, ledger, delivered, misread, attempts>>

Next ==
    \/ \E w \in Workers, k \in Keys : Claim(w, k) \/ Skip(w, k)
    \/ \E w \in Workers :
          \/ RecordIntent(w) \/ Authenticate(w) \/ PostSucceeds(w)
          \/ PostRefused(w) \/ PostMisread(w) \/ PostLost(w)
          \/ RecordFailed(w) \/ Release(w) \/ MarkResult(w) \/ RecordConfirmed(w)
          \/ Crash(w)

Spec == Init /\ [][Next]_vars

-----------------------------------------------------------------------------
(* Properties.                                                             *)

Steps == {"idle", "intent", "auth", "post", "failed", "release", "mark", "confirm"}

TypeOK ==
    /\ reserved \in [Keys -> {"absent", "pending", "completed"}]
    /\ call \in [Workers -> [pc : Steps, k : Keys \union {NULL}]]
    /\ ledger \in [Keys -> Ledger]
    /\ delivered \in [Keys -> Nat]
    /\ misread \in [Keys -> Nat]
    /\ attempts \in [Keys -> 0..MaxAttempts]

(* Crashes, lost answers and concurrent calls never send a proposal twice: *)
(* a second message or task exists only when an earlier one was delivered  *)
(* and its answer was taken for a refusal (gmail_writeback.py:206,         *)
(* salesforce_writeback.py:136).                                           *)
SecondNeedsMisread == \A k \in Keys : delivered[k] <= misread[k] + 1

(* A completed key has been delivered, and it is never released or sent    *)
(* again: the call that completed it knew what it had done.                *)
CompletedIsDelivered ==
    \A k \in Keys : reserved[k] = "completed" => delivered[k] = misread[k] + 1

(* No Salesforce task exists without an intent row written before it,      *)
(* wherever the process died (salesforce_writeback.py:103).                *)
TasksHaveIntent == \A k \in SalesforceKeys : delivered[k] <= ledger[k].intent

(* The ledger never reports a send that did not happen, and reports one    *)
(* confirmed send of a key at most.                                        *)
ConfirmedIsDelivered ==
    \A k \in Keys : ledger[k].confirmed <= 1
        /\ (ledger[k].confirmed = 1 => reserved[k] = "completed")
=============================================================================
