------------------------------ MODULE SimCommit ------------------------------
(***************************************************************************)
(* SimOutboundCommitter.commit (committers.py) over the idempotency leases *)
(* of the gate (gate.py:468-584) and two append-only files, outbox.jsonl   *)
(* and commit_audit.jsonl.                                                 *)
(*                                                                         *)
(* The proposals behind the keys are approved and their payloads bound     *)
(* (ActionGate), so a call is only the commit protocol: read the state of  *)
(* the key, look for the key in the outbox, acquire a five-minute lease,   *)
(* then write and mark, or reconcile what an earlier attempt left.  Each   *)
(* of these is a transaction or a file operation of its own, so calls of   *)
(* several processes interleave between any two, and a process may die     *)
(* between any two or half-way through an append.                          *)
(***************************************************************************)
EXTENDS Integers, FiniteSets

CONSTANTS
    Keys,            \* idempotency keys, one per approved proposal
    Workers,         \* processes calling commit
    ClockAdvances,   \* FALSE when the gates pin app.now (mcp_server.py:383)
    MaxFaults,       \* bound on crashes, failed appends and stalls
    NULL

ASSUME ClockAssumption  == ClockAdvances \in BOOLEAN
ASSUME FaultsAssumption == MaxFaults \in Nat
ASSUME NullAssumption   == NULL \notin Keys \union Workers

VARIABLES
    keyRow,     \* idempotency_keys: state, attempt_token and lease of each key
    outbox,     \* outbox.jsonl
    audit,      \* commit_audit.jsonl
    call,       \* the commit call each worker is executing
    faults,     \* faults that have happened, at most MaxFaults
    receipts,   \* receipts with committed = True returned for each key
    overlapped, \* keys on which two calls have been in flight at once
    spoiled     \* keys a row of which ended in an unreadable line, per file

vars == <<keyRow, outbox, audit, call, faults, receipts, overlapped, spoiled>>

-----------------------------------------------------------------------------
(* A line file: how many readable, terminated rows carry each key, and how *)
(* the file ends: cleanly, in a fragment, or in a whole row whose newline  *)
(* was not written (tail is then its key).                                 *)
Fragment == "fragment"
Clean == "clean"

ASSUME TailAssumption == Keys \cap {Clean, Fragment} = {}

File == [rows : [Keys -> Nat], tail : {Clean, Fragment} \union Keys]

EmptyFile == [rows |-> [k \in Keys |-> 0], tail |-> Clean]

(* A reader parses line by line and skips what does not parse. *)
Readable(f, k) == f.rows[k] + (IF f.tail = k THEN 1 ELSE 0)

FindsNothing(f, k) == FALSE  \* mutant

Contains(f, k) == Readable(f, k) > 0

(* One write of a row and its newline.  It lands on the line the file ends *)
(* in, so after anything but a clean end the line parses as nothing.       *)
Appended(f, k) ==
    IF f.tail = Clean THEN [f EXCEPT !.rows[k] = @ + 1]
                      ELSE [f EXCEPT !.tail = Clean]

(* A write cut short, with or without all of the row's text. *)
TornAppends(f, k) ==
    {[f EXCEPT !.tail = t] : t \in {Fragment} \union (IF f.tail = Clean THEN {k} ELSE {})}

(* The keys a row of which the next write to f makes unreadable: its own   *)
(* when the file does not end cleanly, and the one waiting for a newline.  *)
SpoiltTail(f) == {f.tail} \cap Keys

SpoiltBy(f, k) == IF f.tail = Clean THEN {} ELSE {k} \union SpoiltTail(f)

KeyRow == [state : {"absent", "pending", "completed", "failed"},
           token : Workers \union {NULL},
           lease : {"none", "live", "expired"}]

NoKeyRow == [state |-> "absent", token |-> NULL, lease |-> "none"]

(* done is what idempotency_state answered, found what the outbox showed.  *)
Call == [pc : {"idle", "look", "acquire", "write", "audit", "mark", "fail",
               "reconcile", "repair", "markReconciled"},
         k : Keys \union {NULL}, done : BOOLEAN, found : BOOLEAN]

NoCall == [pc |-> "idle", k |-> NULL, done |-> FALSE, found |-> FALSE]

Init ==
    /\ keyRow = [k \in Keys |-> NoKeyRow]
    /\ outbox = EmptyFile
    /\ audit = EmptyFile
    /\ call = [w \in Workers |-> NoCall]
    /\ faults = 0
    /\ receipts = [k \in Keys |-> 0]
    /\ overlapped = {}
    /\ spoiled = [outbox |-> {}, audit |-> {}]

At(w, pc) == call[w].pc = pc

Goto(w, pc) == call' = [call EXCEPT ![w].pc = pc]

Return(w) == call' = [call EXCEPT ![w] = NoCall]

(* The attempt token is compared in the WHERE clause of every update. *)
AnyToken(w, k) == TRUE  \* mutant

Owns(w, k) == keyRow[k].token = w

-----------------------------------------------------------------------------
(* commit(): idempotency_state, in a transaction of its own. *)
Start(w, k) ==
    /\ At(w, "idle")
    /\ call' = [call EXCEPT ![w] = [pc |-> "look", k |-> k, found |-> FALSE,
                                    done |-> keyRow[k].state = "completed"]]
    /\ overlapped' = IF \E v \in Workers : call[v].k = k
                     THEN overlapped \union {k} ELSE overlapped
    /\ UNCHANGED <<keyRow, outbox, audit, faults, receipts, spoiled>>

(* _jsonl_contains_idempotency_key(outbox, key); a key that was completed  *)
(* needs no lease and the call returns committed = False.                  *)
Look(w) ==
    /\ At(w, "look")
    /\ IF call[w].done
       THEN Return(w)
       ELSE call' = [call EXCEPT ![w].pc = "acquire",
                                 ![w].found = Contains(outbox, call[w].k)]
    /\ UNCHANGED <<keyRow, outbox, audit, faults, receipts, overlapped, spoiled>>

(* The INSERT ... ON CONFLICT DO NOTHING, then the UPDATE's WHERE clause.  *)
AlsoWithoutLease(r) == r.state # "pending" \/ r.lease # "live"  \* mutant

NeverReclaims(r) == r.state \in {"absent", "failed"}  \* mutant

Acquirable(r) ==
    \/ r.state = "absent"
    \/ r.state = "failed"
    \/ r.state = "pending" /\ r.lease # "live"

(* acquire_sim_idempotency_attempt: a fresh lease, or None and the call    *)
(* returns committed = False.  What was found decides how it goes on.      *)
Acquire(w) ==
    LET k == call[w].k IN
    /\ At(w, "acquire")
    /\ IF Acquirable(keyRow[k])
       THEN /\ keyRow' = [keyRow EXCEPT ![k] =
                   [state |-> "pending", token |-> w, lease |-> "live"]]
            /\ Goto(w, IF call[w].found THEN "reconcile" ELSE "write")
       ELSE Return(w) /\ UNCHANGED keyRow
    /\ UNCHANGED <<outbox, audit, faults, receipts, overlapped, spoiled>>

(* The outbox row, then the audit row. *)
WriteOutbox(w) ==
    LET k == call[w].k IN
    /\ At(w, "write")
    /\ outbox' = Appended(outbox, k)
    /\ spoiled' = [spoiled EXCEPT !.outbox = @ \union SpoiltBy(outbox, k)]
    /\ Goto(w, "audit")
    /\ UNCHANGED <<keyRow, audit, faults, receipts, overlapped>>

AppendAudit(k) ==
    /\ audit' = Appended(audit, k)
    /\ spoiled' = [spoiled EXCEPT !.audit = @ \union SpoiltBy(audit, k)]

WriteAudit(w) ==
    /\ At(w, "audit")
    /\ AppendAudit(call[w].k)
    /\ Goto(w, "mark")
    /\ UNCHANGED <<keyRow, outbox, faults, receipts, overlapped>>

Committed == [state |-> "committed", token |-> NULL, lease |-> "none"]  \* mutant

Completed == [state |-> "completed", token |-> NULL, lease |-> "none"]

Failed == [state |-> "failed", token |-> NULL, lease |-> "none"]

(* mark_idempotency_result: only the owner of the token completes the key  *)
(* and returns a receipt with committed = True; otherwise GateError.       *)
MarkResult(w) ==
    LET k == call[w].k IN
    /\ At(w, "mark")
    /\ IF Owns(w, k)
       THEN /\ keyRow' = [keyRow EXCEPT ![k] = Completed]
            /\ receipts' = [receipts EXCEPT ![k] = @ + 1]
       ELSE UNCHANGED <<keyRow, receipts>>
    /\ Return(w)
    /\ UNCHANGED <<outbox, audit, faults, overlapped, spoiled>>

(* mark_idempotency_failed after a write raised; then the exception. *)
MarkFailed(w) ==
    LET k == call[w].k IN
    /\ At(w, "fail")
    /\ keyRow' = IF Owns(w, k) THEN [keyRow EXCEPT ![k] = Failed] ELSE keyRow
    /\ Return(w)
    /\ UNCHANGED <<outbox, audit, faults, receipts, overlapped, spoiled>>

(* _ensure_outbound_audit looks for the key in the audit file ... *)
SkipsTheAudit(w) ==  \* mutant
    /\ At(w, "reconcile")
    /\ Goto(w, "markReconciled")
    /\ UNCHANGED <<keyRow, outbox, audit, faults, receipts, overlapped, spoiled>>

Reconcile(w) ==
    LET k == call[w].k IN
    /\ At(w, "reconcile")
    /\ IF Contains(audit, k) THEN Goto(w, "markReconciled")
       ELSE IF Contains(outbox, k) THEN Goto(w, "repair")
       ELSE Return(w)      \* CommitError: outbox result missing
    /\ UNCHANGED <<keyRow, outbox, audit, faults, receipts, overlapped, spoiled>>

(* ... and appends the receipt it copied from the outbox. *)
Repair(w) ==
    /\ At(w, "repair")
    /\ AppendAudit(call[w].k)
    /\ Goto(w, "markReconciled")
    /\ UNCHANGED <<keyRow, outbox, faults, receipts, overlapped>>

(* The reconciled key is completed; the receipt says committed = False. *)
MarkReconciled(w) ==
    LET k == call[w].k IN
    /\ At(w, "markReconciled")
    /\ keyRow' = IF Owns(w, k) THEN [keyRow EXCEPT ![k] = Completed] ELSE keyRow
    /\ Return(w)
    /\ UNCHANGED <<outbox, audit, faults, receipts, overlapped, spoiled>>

-----------------------------------------------------------------------------
(* Faults. *)
Fault == faults < MaxFaults /\ faults' = faults + 1

(* The process dies between two steps, or a database call raises: the call *)
(* is gone and whatever it did stays.                                      *)
Crash(w) ==
    /\ ~ At(w, "idle")
    /\ Fault
    /\ Return(w)
    /\ UNCHANGED <<keyRow, outbox, audit, receipts, overlapped, spoiled>>

(* An append raises, having written nothing or part of the row: the        *)
(* exception handler runs, unless the process died of it, or was           *)
(* reconciling, which has no handler.                                      *)
OutboxWriteFails(w) ==
    LET k == call[w].k IN
    /\ At(w, "write")
    /\ Fault
    /\ \/ UNCHANGED <<outbox, spoiled>>
       \/ /\ outbox' \in TornAppends(outbox, k)
          /\ spoiled' = [spoiled EXCEPT !.outbox = @ \union SpoiltTail(outbox)]
    /\ Goto(w, "fail") \/ Return(w)
    /\ UNCHANGED <<keyRow, audit, receipts, overlapped>>

AuditWriteFails(w) ==
    LET k == call[w].k IN
    /\ call[w].pc \in {"audit", "repair"}
    /\ Fault
    /\ \/ UNCHANGED <<audit, spoiled>>
       \/ /\ audit' \in TornAppends(audit, k)
          /\ spoiled' = [spoiled EXCEPT !.audit = @ \union SpoiltTail(audit)]
    /\ (At(w, "audit") /\ Goto(w, "fail")) \/ Return(w)
    /\ UNCHANGED <<keyRow, outbox, receipts, overlapped>>

Working(k) == \E w \in Workers : keyRow[k].token = w /\ call[w].k = k
                  /\ call[w].pc \notin {"look", "acquire"}

(* app.clock() passes lease_expires_at: after the owner is gone, or, which *)
(* counts as a fault, while it still works (a stall of five minutes).      *)
ExpireLease(k) ==
    /\ ClockAdvances
    /\ keyRow[k].lease = "live"
    /\ keyRow' = [keyRow EXCEPT ![k].lease = "expired"]
    /\ UNCHANGED <<outbox, audit, call, receipts, overlapped, spoiled>>

LeaseRunsOut(k) == ExpireLease(k) /\ ~ Working(k) /\ UNCHANGED faults

Stall(k) == ExpireLease(k) /\ Working(k) /\ Fault

Work(w) ==
    \/ Look(w) \/ Acquire(w) \/ WriteOutbox(w) \/ WriteAudit(w) \/ MarkResult(w)
    \/ MarkFailed(w) \/ Reconcile(w) \/ Repair(w) \/ MarkReconciled(w)

Next ==
    \/ \E w \in Workers, k \in Keys : Start(w, k)
    \/ \E w \in Workers : Work(w)
    \/ \E w \in Workers : Crash(w) \/ OutboxWriteFails(w) \/ AuditWriteFails(w)
    \/ \E k \in Keys : LeaseRunsOut(k) \/ Stall(k)

Spec == Init /\ [][Next]_vars

(* A process that is not killed goes on, time passes, and the caller of a  *)
(* key that is not completed retries.                                      *)
Fairness ==
    /\ \A w \in Workers : WF_vars(Work(w))
    /\ \A k \in Keys : WF_vars(LeaseRunsOut(k))
    /\ \A k \in Keys : SF_vars(\E w \in Workers : Start(w, k))

FairSpec == Spec /\ Fairness

-----------------------------------------------------------------------------
(* Properties.                                                             *)

TypeOK ==
    /\ keyRow \in [Keys -> KeyRow]
    /\ outbox \in File
    /\ audit \in File
    /\ call \in [Workers -> Call]
    /\ faults \in 0..MaxFaults
    /\ receipts \in [Keys -> Nat]
    /\ overlapped \in SUBSET Keys
    /\ spoiled \in [outbox : SUBSET Keys, audit : SUBSET Keys]

(* A completed key has its outbox row and its audit row, whether one       *)
(* attempt wrote and marked it or a later one reconciled what crashed,     *)
(* failed or stalled attempts left; only an append that landed on a torn   *)
(* line can have lost one (committers.py:139-150, 170-193).                *)
CompletedMeansRecorded ==
    \A k \in Keys : keyRow[k].state = "completed" =>
        /\ Contains(outbox, k) \/ k \in spoiled.outbox
        /\ Contains(audit, k) \/ k \in spoiled.audit

(* As long as the calls for a key come one after the other, no crash,      *)
(* failed append or retry leaves a second row for it.                      *)
RetriesNeverDuplicate ==
    \A k \in Keys \ overlapped :
        /\ Readable(outbox, k) <= 1
        /\ k \notin spoiled.outbox => Readable(audit, k) <= 1

(* However calls overlap and leases expire under their owners, one call at *)
(* most returns committed = True for a key, and the key is then completed  *)
(* (the attempt token of gate.py:537).                                     *)
OneCommittedReceipt ==
    \A k \in Keys :
        /\ receipts[k] <= 1
        /\ receipts[k] = 1 => keyRow[k].state = "completed"

(* A completed key is never leased, failed or marked again (gate.py:497).  *)
CompletedIsFinal ==
    [][\A k \in Keys :
          keyRow[k].state = "completed" => UNCHANGED <<keyRow[k], receipts[k]>>]_vars

(* If its caller keeps retrying, every key is completed in the end, and a  *)
(* reservation no crash, failure or stall can strand (0011:3, the test at  *)
(* tests/test_demo_loop.py:171).                                           *)
EventuallyCompleted == \A k \in Keys : <>(keyRow[k].state = "completed")

-----------------------------------------------------------------------------
(* Why they hold.                                                          *)

(* A row was written for k, and is still there or ended in a torn line.    *)
Recorded(f, lost, k) == Readable(f, k) > 0 \/ k \in lost

(* A token and a live lease belong to a pending key only, and a receipt to *)
(* a completed one.  The audit row comes after the outbox row, so a key    *)
(* without an outbox row has none.                                         *)
KeyOK(k) ==
    /\ receipts[k] = 0 \/ (receipts[k] = 1 /\ keyRow[k].state = "completed")
    /\ keyRow[k].token # NULL \/ keyRow[k].lease = "live" => keyRow[k].state = "pending"
    /\ keyRow[k].state = "completed" =>
          Recorded(outbox, spoiled.outbox, k) /\ Recorded(audit, spoiled.audit, k)
    /\ Readable(audit, k) > 0 => Recorded(outbox, spoiled.outbox, k)
    /\ k \notin overlapped =>
          /\ Readable(outbox, k) <= 1
          /\ k \in spoiled.outbox \/ Readable(audit, k) <= 1

(* What a call has written or found stays recorded; what it has not found  *)
(* is still missing when it writes, unless another call was there too.     *)
CallOK(w, k) ==
    /\ call[w].pc \in {"audit", "mark", "reconcile", "repair", "markReconciled"} =>
          Recorded(outbox, spoiled.outbox, k)
    /\ call[w].pc = "acquire" /\ call[w].found => Recorded(outbox, spoiled.outbox, k)
    /\ call[w].pc \in {"mark", "markReconciled"} => Recorded(audit, spoiled.audit, k)
    /\ k \notin overlapped =>
          /\ call[w].pc = "acquire" /\ ~ call[w].found => Readable(outbox, k) = 0
          /\ call[w].pc = "write" => Readable(outbox, k) = 0
          /\ call[w].pc = "audit" => k \in spoiled.outbox \/ Readable(audit, k) = 0
          /\ call[w].pc = "repair" => Readable(audit, k) = 0

OverlapsAreNoted ==
    \A v, w \in Workers :
        v # w /\ call[v].k = call[w].k /\ call[v].k # NULL => call[v].k \in overlapped

(* These and the types hold in every reachable state, and every step keeps *)
(* them (SimCommitProofs).                                                 *)
IInv ==
    /\ TypeOK
    /\ OverlapsAreNoted
    /\ \A k \in Keys : KeyOK(k)
    /\ \A w \in Workers : IF call[w].pc = "idle" THEN call[w].k = NULL
                          ELSE call[w].k \in Keys /\ CallOK(w, call[w].k)

-----------------------------------------------------------------------------
(* What the repository says of these committers and the code does not do.  *)

(* "Sim committers reconcile the target by idempotency key on retry before *)
(* attempting the write again" (gate.py:571): no key is written twice.     *)
WrittenOnce == \A k \in Keys : Readable(outbox, k) <= 1
=============================================================================
