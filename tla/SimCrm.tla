------------------------------- MODULE SimCrm -------------------------------
(***************************************************************************)
(* SimCrmActivityCommitter.commit (committers.py) and the state file of    *)
(* the simulated tenant (data_plane/sim_tenant.py).                        *)
(*                                                                         *)
(* The store has one JSON file.  Every operation reads all of it, adds     *)
(* something and replaces it: the new text goes to a temporary file of a   *)
(* fixed name, which is then renamed.  The lease keeps two calls apart     *)
(* that commit the same key, but not calls of different keys, nor the      *)
(* clock of the simulation (advance_after_commits), which takes no lease.  *)
(* So reads, truncations, writes and renames of several processes          *)
(* interleave, a renamed file may still be open for writing, and any of    *)
(* the processes may die.                                                  *)
(***************************************************************************)
EXTENDS Integers, FiniteSets, Sequences

CONSTANTS
    Keys,       \* idempotency keys of approved activities
    Accounts,   \* the accounts of the tenant
    AccountOf,  \* key -> the account of its proposal
    Internal,   \* keys of activities that do not reach the customer
    Outboxed,   \* accounts with a row in outbox.jsonl
    Workers,    \* processes using the store
    MaxCalls,   \* bound on operations started
    MaxFaults,  \* bound on crashes, failed writes and stalls
    NULL

ASSUME KeysAssumption   == Keys \intersect Accounts = {} /\ AccountOf \in [Keys -> Accounts]
ASSUME OutboxAssumption == Outboxed \subseteq Accounts
ASSUME BoundAssumption  == MaxCalls \in Nat /\ MaxFaults \in Nat
ASSUME NullAssumption   == NULL \notin Keys \union Accounts \union Workers

VARIABLES
    keyRow,    \* idempotency_keys: state, attempt_token and lease of each key
    file,      \* tenant_state.json
    tmp,       \* tenant_state.tmp, <<>> when there is none
    call,      \* the store operation each worker is executing
    started,   \* operations started, at most MaxCalls
    faults,    \* faults that have happened, at most MaxFaults
    raced,     \* what was read and replaced while another operation did so
    collided,  \* two operations have had the temporary file in use at once
    unaudited  \* what was stored by an operation that ended before its event

vars == <<keyRow, file, tmp, call, started, faults, raced, collided, unaudited>>

-----------------------------------------------------------------------------
(* What a file holds: activities by key, completions by account and the    *)
(* audit events of both; or nothing yet, or a mixture no reader parses.    *)
Text == [state : {"whole", "empty", "mixed"}, activities : SUBSET Keys,
         completions : SUBSET Accounts, events : SUBSET (Keys \union Accounts)]

Seeded == [state |-> "whole", activities |-> {}, completions |-> {}, events |-> {}]
Truncated == [Seeded EXCEPT !.state = "empty"]
Mixed == [Seeded EXCEPT !.state = "mixed"]

(* A key's row and its lease are as in SimCommit. *)
KeyRow == [state : {"absent", "pending", "completed", "failed"},
           token : Workers \union {NULL}, lease : {"none", "live", "expired"}]

(* half says which of its two writes an operation is at, adds what it has  *)
(* to add, next the text it computed, fd what its open file now is.        *)
Call == [pc : {"idle", "read", "open", "write", "rename", "mark", "fail"},
         k : Keys \union {NULL}, half : {"change", "audit"},
         adds : SUBSET (Keys \union Accounts), next : Text,
         fd : {"none", "tmp", "file", "unlinked"}]

NoCall == [pc |-> "idle", k |-> NULL, half |-> "change", adds |-> {},
           next |-> Seeded, fd |-> "none"]

Init ==
    /\ keyRow = [k \in Keys |-> [state |-> "absent", token |-> NULL, lease |-> "none"]]
    /\ file = Seeded
    /\ tmp = <<>>
    /\ call = [w \in Workers |-> NoCall]
    /\ started = 0
    /\ faults = 0
    /\ raced = {}
    /\ collided = FALSE
    /\ unaudited = {}

At(w, pc) == call[w].pc = pc

IsCommit(w) == call[w].k # NULL

(* From its read until its rename an operation holds a copy of the file. *)
Holds(w) == call[w].pc \in {"open", "write", "rename"}

HasTmp(w) == call[w].pc \in {"write", "rename"}

(* What an operation holding a copy is about to change. *)
Subject(w) == IF IsCommit(w) THEN {call[w].k} ELSE call[w].adds

-----------------------------------------------------------------------------
(* commit: idempotency_state and acquire_sim_idempotency_attempt.  A key   *)
(* found completed is not acquired, and neither is one acquire finds       *)
(* completed, so the two transactions are one step here.                   *)
Acquirable(r) ==
    \/ r.state \in {"absent", "failed"}
    \/ r.state = "pending" /\ r.lease # "live"

Starts(w) == At(w, "idle") /\ started < MaxCalls /\ started' = started + 1

Acquire(w, k) ==
    /\ Starts(w)
    /\ Acquirable(keyRow[k])
    /\ keyRow' = [keyRow EXCEPT ![k] = [state |-> "pending", token |-> w, lease |-> "live"]]
    /\ call' = [call EXCEPT ![w] = [NoCall EXCEPT !.pc = "read", !.k = k]]
    /\ UNCHANGED <<file, tmp, faults, raced, collided, unaudited>>

(* advance_after_commits takes no lease. *)
Advance(w) ==
    /\ Starts(w)
    /\ call' = [call EXCEPT ![w].pc = "read"]
    /\ UNCHANGED <<keyRow, file, tmp, faults, raced, collided, unaudited>>

(* An exception: a commit marks its key failed, an advance just ends. *)
Raised(c) == IF c.k # NULL THEN [NoCall EXCEPT !.pc = "fail", !.k = c.k] ELSE NoCall

(* No exception: a commit marks its key completed. *)
Done(c) == IF c.k # NULL THEN [NoCall EXCEPT !.pc = "mark", !.k = c.k] ELSE NoCall

(* What is left of an operation when it ends early.                        *)
Interrupted(w) ==
    IF call[w].half = "audit" /\ call[w].pc \in {"read", "open", "write", "rename"}
    THEN call[w].adds ELSE {}

Raise(w) == unaudited' = unaudited \union Interrupted(w)

(* The accounts an advance completes: those with an outbound activity or   *)
(* an outbox row and no completion.                                        *)
Reached(text) == {AccountOf[k] : k \in text.activities \ Internal} \union Outboxed

ToAdd(w) ==
    IF IsCommit(w) THEN {call[w].k} \ file.activities
                   ELSE Reached(file) \ file.completions

AloneInTheFile(w, adds) ==  \* mutant
    [file EXCEPT !.activities = adds \intersect Keys, !.completions = adds \intersect Accounts]

Changed(w, adds) ==
    [file EXCEPT !.activities = @ \union (adds \intersect Keys),
                 !.completions = @ \union (adds \intersect Accounts)]

Audited(adds) == [file EXCEPT !.events = @ \union adds]

StartsWrite(w, adds, text) ==
    /\ call' = [call EXCEPT ![w].pc = "open", ![w].adds = adds, ![w].next = text]
    /\ raced' = IF \E v \in Workers \ {w} : Holds(v)
                THEN raced \union adds \union
                     UNION {Subject(v) : v \in {u \in Workers \ {w} : Holds(u)}}
                ELSE raced

(* state(), twice in an operation: before the change, where it may find    *)
(* there is nothing to do, and in append_audit.                            *)
Read(w) ==
    /\ At(w, "read")
    /\ IF file.state # "whole"
       THEN call' = [call EXCEPT ![w] = Raised(call[w])] /\ Raise(w) /\ UNCHANGED raced
       ELSE /\ UNCHANGED unaudited
            /\ IF call[w].half = "audit" THEN StartsWrite(w, call[w].adds, Audited(call[w].adds))
               ELSE IF ToAdd(w) # {} THEN StartsWrite(w, ToAdd(w), Changed(w, ToAdd(w)))
               ELSE call' = [call EXCEPT ![w] = Done(@)] /\ UNCHANGED raced
    /\ UNCHANGED <<keyRow, file, tmp, faults, collided, started>>

(* _write opens the temporary file and truncates what is there, ... *)
OpensTheFile(w) ==  \* mutant
    /\ file' = Truncated
    /\ call' = [call EXCEPT ![w].pc = "write", ![w].fd = "file"]
    /\ UNCHANGED tmp

OpensTmp(w) ==
    /\ tmp' = <<Truncated>>
    /\ call' = [call EXCEPT ![w].pc = "write", ![w].fd = "tmp"]
    /\ UNCHANGED file

Open(w) ==
    /\ At(w, "open")
    /\ OpensTmp(w)
    /\ collided' = (collided \/ \E v \in Workers \ {w} : HasTmp(v))
    /\ UNCHANGED <<keyRow, faults, raced, unaudited, started>>

(* ... writes from its beginning, over what another has written there, ... *)
Over(old, text) == IF old.state = "empty" THEN {text} ELSE {text, Mixed}

Results(w, old, fails) == IF fails THEN {Mixed} ELSE Over(old, call[w].next)

Puts(w, fails) ==
    CASE call[w].fd = "tmp"      -> /\ \E t \in Results(w, tmp[1], fails) : tmp' = <<t>>
                                    /\ UNCHANGED file
      [] call[w].fd = "file"     -> file' \in Results(w, file, fails) /\ UNCHANGED tmp
      [] call[w].fd = "unlinked" -> UNCHANGED <<file, tmp>>

Write(w) ==
    /\ At(w, "write")
    /\ Puts(w, FALSE)
    /\ call' = [call EXCEPT ![w].pc = "rename", ![w].fd = "none"]
    /\ UNCHANGED <<keyRow, faults, raced, collided, unaudited, started>>

(* ... and renames it, whoever wrote it last; a file that is still open    *)
(* moves with its name.  Without a temporary file the rename raises.       *)
Moved(fd) == CASE fd = "tmp" -> "file" [] fd = "file" -> "unlinked" [] OTHER -> fd

SkipsTheEvent(c) == Done(c)  \* mutant

AfterRename(c) ==
    IF c.half = "change"
    THEN [NoCall EXCEPT !.pc = "read", !.k = c.k, !.half = "audit", !.adds = c.adds]
    ELSE Done(c)

Rename(w) ==
    /\ At(w, "rename")
    /\ IF tmp = <<>>
       THEN /\ call' = [call EXCEPT ![w] = Raised(call[w])]
            /\ Raise(w)
            /\ UNCHANGED <<file, tmp>>
       ELSE /\ file' = tmp[1]
            /\ tmp' = <<>>
            /\ call' = [v \in Workers |->
                           IF v = w THEN AfterRename(call[v])
                                    ELSE [call[v] EXCEPT !.fd = Moved(@)]]
            /\ UNCHANGED unaudited
    /\ UNCHANGED <<keyRow, faults, raced, collided, started>>

(* mark_idempotency_result, mark_idempotency_failed: only the owner. *)
Marked(w, state) ==
    LET k == call[w].k IN
    keyRow' = IF keyRow[k].token = w
              THEN [keyRow EXCEPT ![k] = [state |-> state, token |-> NULL, lease |-> "none"]]
              ELSE keyRow

CompletesAnyway == "completed"  \* mutant

FailureState == "failed"

Mark(w) ==
    /\ At(w, "mark")
    /\ Marked(w, "completed")
    /\ call' = [call EXCEPT ![w] = NoCall]
    /\ UNCHANGED <<file, tmp, faults, raced, collided, unaudited, started>>

MarkFailed(w) ==
    /\ At(w, "fail")
    /\ Marked(w, FailureState)
    /\ call' = [call EXCEPT ![w] = NoCall]
    /\ UNCHANGED <<file, tmp, faults, raced, collided, unaudited, started>>

-----------------------------------------------------------------------------
Fault == faults < MaxFaults /\ faults' = faults + 1

(* A process dies; what it had not flushed is gone. *)
Crash(w) ==
    /\ ~ At(w, "idle")
    /\ Fault
    /\ Raise(w)
    /\ call' = [call EXCEPT ![w] = NoCall]
    /\ UNCHANGED <<keyRow, file, tmp, raced, collided, started>>

(* A write raises, having written part of the text. *)
WriteFails(w) ==
    /\ At(w, "write")
    /\ Fault
    /\ Raise(w)
    /\ Puts(w, TRUE)
    /\ call' = [call EXCEPT ![w] = Raised(call[w])]
    /\ UNCHANGED <<keyRow, raced, collided, started>>

Working(k) == \E w \in Workers : keyRow[k].token = w /\ call[w].k = k

(* The lease of a dead owner runs out, or of one that stalls. *)
ExpireLease(k) ==
    /\ keyRow[k].lease = "live"
    /\ keyRow' = [keyRow EXCEPT ![k].lease = "expired"]
    /\ IF Working(k) THEN Fault ELSE UNCHANGED faults
    /\ UNCHANGED <<file, tmp, call, raced, collided, unaudited, started>>

Next ==
    \/ \E w \in Workers, k \in Keys : Acquire(w, k)
    \/ \E w \in Workers :
          \/ Advance(w) \/ Read(w) \/ Open(w) \/ Write(w) \/ Rename(w)
          \/ Mark(w) \/ MarkFailed(w) \/ Crash(w) \/ WriteFails(w)
    \/ \E k \in Keys : ExpireLease(k)

Spec == Init /\ [][Next]_vars

-----------------------------------------------------------------------------
(* Properties.                                                             *)

TypeOK ==
    /\ keyRow \in [Keys -> KeyRow]
    /\ file \in Text
    /\ tmp = <<>> \/ (Len(tmp) = 1 /\ tmp[1] \in Text)
    /\ call \in [Workers -> Call]
    /\ started \in 0..MaxCalls
    /\ faults \in 0..MaxFaults
    /\ raced \subseteq Keys \union Accounts
    /\ collided \in BOOLEAN
    /\ unaudited \subseteq Keys \union Accounts

Completed == {k \in Keys : keyRow[k].state = "completed"}

(* Until two operations have had the temporary file in use at once, every  *)
(* reader parses the state file, whatever died between truncation, write   *)
(* and rename (sim_tenant.py:188).                                         *)
WholeUnlessCollided == ~ collided => file.state = "whole"

(* A completed key's activity is in the file, after any crashes, failed    *)
(* writes, expired leases and retries, unless its own read and replacement *)
(* was interleaved with another's; somebody else's race never loses it     *)
(* (committers.py:284, sim_tenant.py:121).                                 *)
CompletedIsLogged ==
    ~ collided => Completed \ raced \subseteq file.activities

(* What the file stores and its audit events agree, but for operations     *)
(* that are between the two, that died or failed there, or that raced.     *)
Stored == file.activities \union file.completions

BetweenWrites == UNION {Interrupted(w) : w \in Workers}

EventsMatch ==
    ~ collided => /\ Stored \ (file.events \union BetweenWrites \union unaudited) \subseteq raced
                  /\ file.events \ Stored \subseteq raced

(* As long as no read and replacement was interleaved with another, the    *)
(* file only grows: no crash, retry or advance of the clock takes back an  *)
(* activity, an outcome or an event.                                       *)
Grows(old, new) ==
    /\ old.activities \subseteq new.activities
    /\ old.completions \subseteq new.completions
    /\ old.events \subseteq new.events

NothingTakenBack == [][raced' = {} /\ ~ collided' => Grows(file, file')]_vars
=============================================================================
