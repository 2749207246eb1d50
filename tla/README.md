# A verification project for ultra-csm

TLA+ models of the parts of ultra-csm that decide whether something is done to
a customer, checked with TLC on small instances. Their safety properties are
also proved with TLAPS, for every instance. Paths below are relative to the
repository; `PROJECT.json` maps every definition to its lines.

## The system

ultra-csm watches a book of customer accounts, lets agents *propose* actions
(an email draft, a CRM note, a call), lets a human decide, and has *committers*
carry out what was approved.

| Part | State it keeps | Operations | Talks to |
|---|---|---|---|
| Action gate (`governance/gate.py`, migrations 0004, 0005, 0009, 0011) | `action_proposal`, `action_verdict`, `outreach_contact_consent_ref`, `audit.change_log` | `propose`, `record_verdict`, `reject_and_supersede`, `record_outreach_contact_ref`, `assert_payload_bound` | everything that changes the world goes through it; Postgres transactions and triggers |
| Idempotency keys (`gate.py:424-597`) | `idempotency_keys` with state, attempt token and lease | claim, acquire, mark completed / failed, release | all committers |
| Simulated outbound committer (`committers.py`) | `outbox.jsonl`, `commit_audit.jsonl` | `commit`, reconcile | gate, files shared by processes |
| Simulated CRM committer, tenant store (`committers.py`, `data_plane/sim_tenant.py`) | one JSON state file, rewritten whole | `commit`, `record_activity`, `append_audit`, `advance_after_commits` | gate, file shared by processes |
| Live Gmail and Salesforce committers (`data_plane/*_writeback.py`) | a ledger file each | `commit` | gate, remote services |
| Draft-revise loop (`agent1/revise.py`, `proposal_revise.py`) | the chain kept in the payloads | `run_slot_b_revise_loop` | gate, twice |
| Tick runner, triggers, snapshots (`tick.py`, `triggers.py`, `snapshot_store.py`) | `tick_ledger.jsonl`, artifacts | `run_tick_with_config` | gate (sweeps propose), its own ledger |
| Precedence and verdict endpoints (`agent1/precedence.py`, `api.py`, `mcp_server.py`) | caches of proposals, session events | `submit_verdict`, `approval_decision`, hold and release | gate, committers, data plane |
| Action-control sandbox (`action_control_sandbox*.py`) | one rolled-back transaction, a temporary outbox | scripted propose, decide, commit, retry | gate |
| Sweep, quality breaker, cost budget (`agent1/sweep.py`, `quality_breaker.py`, `cost_tracker.py`) | the tracker in memory, the artifact and the operator events as files | `run_time_to_value_sweep`, `record_quality_breaker_reset`, `record` | gate (`propose`, contacts), called by API, tick and evaluation |
| Relay sessions (`mcp_server.py`) | sessions and relational books in memory | `ingest_book`, `confirm_book_mappings`, `ingest_table`, `confirm_book` | hosts that share the server |
| Audit ledger, outcome reobserver, rejection ledger | a row or a file each | record, observe | API, tick |
| Self-serve activation (`self_serve_activation*.py`, the signup endpoint of `api.py`) | `workflow_packet`, rows of `audit.event_log` | signup webhook: resolve, rank, recommend, propose, store, log | data plane, gate (`propose`, contacts), audit ledger |
| Other lenses, value model, packets, routing, knowledge | none | pure functions over the data plane | gate through `propose` |
| Connectors, fixtures, world simulator, LLM transport, CLI, UI, evaluation | external | reading, rendering, generation | |

What is hard in it:

* **Concurrency.** The API, the MCP server, the tick and scripts are separate
  processes on one database and one state directory. Row locks, a
  compare-and-set and unique constraints order verdicts; leases with tokens
  order simulated commits; nothing orders appends to files.
* **Stale and forged state.** Callers hold snapshots of proposals and outcomes
  they can build themselves. Only durable rows may authorise.
* **Crashes between steps.** Verdict then commit; outbox then audit then
  completion; POST then completion then ledger; rejection then new proposal;
  sweep then tick ledger.
* **Unclear answers** of remote services, and **retries**.
* **Two languages hashing one payload** (Python's JSON and Postgres' jsonb).

What makes each part correct: *gate*: one decision per proposal, by somebody
entitled, and only its body is executed; *committers*: a retry neither loses nor
duplicates what was done, and says truthfully what it did; *revise loop*: never
two live versions of a draft, a bounded chain; *tick*: a condition the ledger
still remembers is not acted upon again; *endpoints*: what was held back is not
approved, and what was approved is delivered or known not to be; *breaker and
budget*: a red result holds everything back until somebody resets that very
result, and what is spent stays within the limits; *relay*: what is confirmed is
what the host sent, all of it; *self-serve activation*: only who was meant and
may be written to is, and what was proposed can be found again.

## Modules

| Module | Models | |
|---|---|---|
| `Authorization` | what the gate promises | abstract specification |
| `ActionGate` | `gate.py`, its tables and triggers | implements `Authorization` |
| `ActionGateProofs` | | theorems and proofs about `ActionGate` |
| `SimCommit` | `SimOutboundCommitter.commit`, sim leases | |
| `SimCommitProofs` | | theorems and proofs about `SimCommit` |
| `LiveCommit` | the Gmail and the Salesforce committers | |
| `LiveCommitProofs` | | theorems and proofs about `LiveCommit` |
| `ReviseLoop` | the bounded revise loop over the abstract gate | |
| `SimCrm` | `SimCrmActivityCommitter.commit`, `SimTenantStore` | |
| `SimCrmProofs` | | theorems and proofs about `SimCrm` |
| `Tick` | `run_tick_with_config`, `triggers.py`, the tick ledger | |
| `LoopProofs` | | theorems and proofs about `ReviseLoop` and `Tick` |
| `VerdictEndpoint` | `submit_verdict` of the API and the MCP server | implements `Authorization` |
| `VerdictEndpointProofs` | | theorems and proofs about `VerdictEndpoint` |
| `Relay` | the four ingestion tools of the MCP server | |
| `Sweep` | the time-to-value sweep with breaker and budget | |
| `SweepProofs` | | theorems and proofs about `Sweep` |
| `SelfServe` | the signup endpoint and its workflow | |
| `InboundProofs` | | theorems and proofs about `Relay` and `SelfServe` |
| `MC...` | instances for TLC | |

`LoopProofs` and `InboundProofs` extend two components each, which share no name:
the specifications of `Tick` and `SelfServe` are `TickSpec` and `SignupSpec`.

### ActionGate

`status` and `row` are the columns of `action_proposal`, `verdict` its
`action_verdict` row, `consent` the consent table, and `consentLog` the
contacts for which `audit.change_log` (append-only by trigger) once recorded
consent. `tx[g]` is the open verdict transaction of gate `g`.

A verdict transaction takes three steps so that others run in between:
`LockForVerdict` is the `SELECT ... FOR UPDATE`, the pending check, and the
gate's own human check; `Decide` is the UPDATE with its `status = 'pending'`
and the INSERT under the three BEFORE INSERT triggers and the hash trigger;
`Commit` makes it visible. `Rollback` may replace any of them.
`RejectAndSupersede` locks with its UPDATE. `Propose` is one INSERT and hence
one step. `AutoApproveInternal` looks the action up in the caller's snapshot,
which the model lets be anything, as nothing in the code ties the two.

Committers check (`CheckBound`) and execute later (`Execute`); in between
anything may happen. The snapshot, the outcome and the payload they present are
arbitrary: the property has to hold through what the database says.

Abstractions. SHA-256 is injective, a hash is the hashed text. The Python text
and the database text of a payload agree exactly on `PortablePayloads`
(non-ASCII text and some floats are outside). An autonomy tier belongs to an
action, as `proposal_fields_for` makes it. Tenants are not modelled: row level
security separates them. Tier 3 is decided like tier 2, as in the code, which
has room for one verdict per proposal. Dry runs and `approval_principal_id`
only read.

### SimCommit

A call walks through `idempotency_state`, the search of the outbox, the lease,
the two appends and the completion, or the reconciliation, one step per
transaction or file operation. A file is the number of readable rows per key
and how it ends: cleanly, in a fragment, or in a whole row without its newline;
that is what decides what the next append and the next reader see. Faults are a
process that dies, an append that fails with nothing or part of it written, and
a stall that outlives the lease; `MaxFaults` bounds them. The token is the
worker, who has one attempt at a time. `receipts`, `overlapped` and `spoiled`
are history variables.

### LiveCommit

Claim, (Salesforce: intent row), login, POST, then by the answer completion and
ledger row, or release, or nothing: exceptions other than the module's own
WriteError leave the key pending. The service delivers and answers
independently, and `misread` counts deliveries that looked like refusals.
The release deletes the key whoever owns it, as in the code. `MaxAttempts`
bounds the claims.

### ReviseLoop

A request works on a snapshot which may be stale, rejects the draft by
compare-and-set in one transaction and proposes its successor in another. The
gate is used at the level of `Authorization`: one atomic decision. Which
instruction is safe and what the writer drafts are left out; an instruction
that the two hash functions serialise differently (`portable = FALSE`) makes
the second transaction raise after the first has committed.

### SimCrm

The tenant store is one JSON file, and each of its operations reads it, computes
a new text, opens a temporary file of a fixed name (which truncates it), writes
and renames; then it does so again for the audit event. `call[w]` is the
operation a process is in, with the text it computed and what its file handle
now denotes: a rename moves a file that another process still has open. A text
is the activities, completions and events it holds, or empty, or a mixture that
no reader parses. `advance_after_commits` is the second kind of operation: it
takes no lease, and neither do operations on different keys exclude each other,
so `raced` and `collided` remember who read and replaced, or had the temporary
file in use, at the same time as another; `unaudited` what was stored by an
operation that ended before its event. The lease is as in `SimCommit`; the two
transactions before it (state, acquire) are one step, since a key found
completed in either ends the call. `Internal` are the keys of recommendations
that do not reach the customer, which complete nothing.

### Tick

A tick reads the ledger (`Start`), reads the status of the proposals named there
and evaluates the triggers (`Evaluate`), sweeps per fired trigger (`Sweep`),
appends its row and records its audit event. Ticks of several processes overlap,
and a day may be ticked again or after a later one. The book of a day is data
(`Worlds`): health bands, renewal days, and the accounts that share a play. All
the runtime (last fire, pending, fired keys) is derived from the rows that
parse, as in the code; a row says how many rows its tick had read (`seen`), only
for the properties. `SimCommit`'s rule for a torn line holds here too:
`AppendRow` continues the fragment. A sweep may propose for any of the accounts
of its scope, since the lens decides; `collapse_cohorts` drops work items after
they were proposed.

Left out: schedules whose action has the scope of one account
(`RuleAssumption`). The parser accepts them, but a schedule names no account, so
the sweep raises (`tick.py:1063`) and no tick ever ends. Left out too:
artifacts, dry runs (which only read), precedence and rejection annotations of
work items. The risk and expansion lenses differ in what they look for only. The
fired triggers are swept in any order; the code sorts them. The database
outlives the tick. With one of its own per tick (when none is configured) it
knows no earlier proposal, and those the ledger names count as pending forever
(`tick.py:1010`); this is not modelled.

### VerdictEndpoint

`Submit` is a handler up to its database write: look the proposal up in the MCP
server's cache or the database, check consent and precedence. `Record` is the
gate's compare-and-set, which may refuse (`RecordRefused`: someone else decided,
or a trigger objected). A revision then proposes its successor (`Supersede`).
The demo operator's server goes on with the two committers and the session
receipt, each a step that may raise. `Crash` loses cache and session, `Boot` of
a demo server deletes the files. The precedence check differs by surface, as in
the code: the API evaluates the book of the proposal's own day and the rules
configured, the MCP server the book it was started with, advanced by the
completions of the simulation, and any finding. The checks read nothing that
another server's transaction changes, so they are one step with the lookup. What
the cache remembers of submissions that were refused is left out, and so are
proposals without an account.

### Relay

A session is what it stored, how many records it received and dropped, and the
proposal and replay made of it, each as the content it was made of. Chunks are
any sets of records, so they come in any order, overlap or repeat; `mode` is
`is_final` and `acknowledge_truncation`. What fits under the cap is kept: which
records these are depends on their order in the chunk and is left open. A call
that is refused after the append has appended all the same. Mapping contents,
`field_metadata` and confirmations are left out, as are refusals that change
nothing. An empty chunk is appended like any other, and a book may be of no
records.

### Sweep

The sweep visits the accounts of a book in order; an account is what the sweep
asks of it (`Facts`). It reads the breaker once at its start, checks the budget
by an estimate before each draft, charges what the answer cost after it, records
the contact, and proposes. Between any two steps an artifact may be published,
a reset recorded (whole or torn), midnight may pass, the gate may raise and the
process die, which forgets the tracker. `spent` is what was really spent.

Which caller passes what: the API passes tracker and budget, but its fixture
writer costs nothing; breaker and live writer are passed by the evaluation and
the tests. Calls that report no tokens cost 0 and are admitted like others. The
estimate is called a conservative upper bound (`cost_tracker.py:34`), though a
prompt may be longer than it assumes: `Costs` has a cost above `Estimate`. Draft
texts and scores are left out. The risk and expansion lenses have neither
breaker nor budget.

### SelfServe

A call of the signup endpoint reads the data plane and decides (`Receive`), and
then makes up to six transactions: consent fact, proposal, packet, three audit
rows. What it read is one snapshot, taken in one step; the next call may find
any other book. The decision is a chain of pure operators, one per function of
`self_serve_activation.py`: `Candidates` and `AccountFor`, `Blockers`, the seven
`PathDefinitions` with their metrics, `PrimaryPath`, `CurrentMilestone`,
`ActionType`, `Suppressions`, `Status` and `Plan`. The path tables are the
code's; scores are in quarters and signal values in halves. A contact is its
record. `disturbed` remembers packets whose calls failed or overlapped.

The endpoint runs the workflow as of the day of the event, so no milestone is
ever past its day, and the branch to the scaled review is unreachable there.
Wording, confidence, risks and the execution envelope (whose invariants are
computed and not enforced) decide nothing and are left out. Domains are matched
within the accounts of the event's tenant (`listed`), addresses and ids in the
whole book, as in the code.

## Runs

| Run | Checks | Bounds |
|---|---|---|
| `gate` | `VerdictMatchesStatus`, `EffectsAuthorized`, `OutreachWasConsented`, `DecidedIsFrozen`, `IInv`, refinement of `Authorization` | 2 proposals, 3 payloads (one without contact, one not portable), 2 gates for an agent and a human, 1 committer |
| `sim_commit` | completed keys are recorded, sequential retries never duplicate, one committed receipt, completed is final, `IInv` | 2 keys, 2 processes, 3 faults |
| `sim_retry` | every key is completed in the end | 1 key, 2 processes, 3 faults, fairness |
| `live` | a second delivery needs a misread answer, completed means delivered, tasks have intents, confirmations are true | 1 Gmail and 1 Salesforce key, 2 processes, 3 claims per key |
| `revise` | one live version per chain, bounded chains, `IInv` | 4 proposals, 2 requests, `MaxAutoReruns` = 2 |
| `crm` | the file stays whole until two operations meet in it, what is completed stays logged, events match, nothing is taken back | 2 keys, 2 processes, 4 operations, 1 fault |
| `tick` | no trigger fires again over an undecided proposal it knows of, fires keep their distance, every proposal is accounted for, whole rows stay readable | 3 days, 2 accounts, 3 triggers, 2 processes, 3 ticks, 2 proposals, 1 fault |
| `endpoint` | held calls are not approved, approved outreach is delivered or known to be abandoned, refinement of `Authorization` | 1 API and 1 demo server, 2 proposals, 2 faults |
| `relay` | nothing stale is proposed or confirmed, a book is whole unless a record came twice, replays agree, sessions are kept | 2 automatic ids, 1 book of 2 tables, books of up to 2 records, a cap of 1 for flat ones, 3 records in all |
| `sweep` | spending is bounded, red is held, the result is what was done | 2 books of 4 accounts, 2 sweeps, 1 midnight, 1 fault, costs 1 and 3, estimate 2, limits 4 and 5 |
| `signup` | outreach is warranted by what was read, first and last proposal of a signup are found, answered is recorded | 2 servers, 3 deliveries of 4 signups in one second, 3 books of 2 accounts, 1 failed call |
| `sim_duplicate` | expected to be violated: see below | as `sim_commit`, smaller |

Why the bounds are enough. Two transactions, or two processes, are what a row
lock, a token or a compare-and-set has to keep apart, and a third one meets the
same two states. Two proposals show that one decision leaves the other alone
(`ActionGate` is proved for any number). Two keys are needed in `SimCommit`
because they meet in a file, and three faults let a retry of a retry fail. The
revise bound is 2 where the code has 1, so that a chain has a middle; four
proposals leave room for a whole chain and one more. In `crm` two operations in
a row of each process let a loser of a race try again. Three ticks are one that
fires, one that loses or tears something, and one that decides on what is left;
three days make an event, its cooldown and a tick out of order possible. In
`endpoint` each of the two books holds back a call the other lets through, and
two faults are a failed commit and a crash. Three records make a book of two
with one repeated, or two confirmed tables of which one is sent again. In
`sweep` the limits are reached within one sweep (by a call above the estimate)
and only by the second (the day's). In `signup` a third delivery makes a
proposal that is neither first nor last; the signups share a second, two of them
a workspace; plan, address, nudge, interest in the CRM and an ambiguous match
each hold one of them back.

`IInv` is the inductive invariant of a component and has its type invariant as a
conjunct. `gate`, `sim_commit` and `revise` check it; the invariants of the other
proofs are defined beside them. `TypeOK` of the modules without proofs states
the types of their variables for the reader and takes no run of its own.

Deadlock is checked in `gate`, `sim_commit`, `sim_retry` and `live`. In the
others the system really stops: in `revise` when every proposal is decided and
has used up its reruns; in `crm`, `tick`, `relay`, `sweep` and `signup` when the bounds
on calls, ticks, records, sweeps or deliveries are used up; in `endpoint` when all proposals
are decided and the servers idle.

Fairness, in `sim_retry` only: a process that is not killed
takes its next step (weak fairness of `Work`); time passes, so that a lease
whose owner is gone runs out (weak fairness of `LeaseRunsOut`); and the caller of an uncompleted key retries
(strong fairness of `Start`: it is a property of the caller and not of the
committer, and the liveness claims are conditional on it). Faults are not fair
and are bounded.

### Where code and text differ

One of these is a run that TLC must find violated:

* `sim_duplicate`: `gate.py:571` says the target is reconciled before a write is
  attempted again. The outbox is searched before the lease is taken and not
  after it, so a call that searched early writes a second row.

Others were met while modelling and are part of the models, without a run:

* `gmail_writeback.py:19` says there is never a second call for a key. There is,
  after an answer without an id; `SecondNeedsMisread` says only then.
* `committers.py:359` says a row after a torn one stays distinguishable. It is
  glued to the torn line; the same holds for the tick ledger and the breaker's
  events, where it makes the evaluation of a red artifact raise.
* Migration 0011 says stranded attempts can be retried. Not through the MCP
  server, whose gates pin the clock the leases are compared with.
* `gmail_writeback.py:291` calls the ledger the authoritative count of sends. A
  crash between the completion and the append leaves one out.
* `revise.py:116` says a safe instruction produces a fresh proposal. After a
  crash between the two transactions, or when the two hashes differ, it does not.
* `workflow_playbooks.py:251` names the fields that make a signup the same one.
  Nothing reads them: each delivery proposes again, and the ledger and the packet
  name the first and the last of these proposals (`FirstAndLastAreFound`).
* `self_serve_activation.py:61` has the invite follow-up triggered by invites
  without activation. It is chosen when no invite was seen (line 976: the invite
  milestone is the current one), and not when one was and nobody activated.
* The consent fact of a contact is written as true when a signup leads to
  outreach, and this workflow never withdraws it.

## Proofs

`ActionGateProofs` proves, for any finite or infinite sets of proposals,
payloads, principals, gates and committers that satisfy the assumptions of
`ActionGate` (portable payloads are payloads, tiers are 1..3, humans are
principals, NULL is none of the others):

* `Invariance`: `Spec => []IInv`, and from it `TypeCorrectness`,
  `OnlyAuthorizedEffects`, `VerdictAndStatusAgree`, `OutreachNeedsConsent`
  (type correctness is a conjunct of `IInv`, so `gate` checks it there);
* `DecisionsAreFinal`: `Spec => DecidedIsFrozen`;
* `GateImplementsAuthorization`: `Spec => A!Spec`.

`EffectsAuthorized` is not inductive. A committer holds a payload that was
checked earlier, so it must be known that an approved row does not change, and
that follows from what open transactions may still do: `LocksExclusive` (one
transaction per proposal) and `TxCoherent` (its proposal is still pending, and
what it is about to write fits together) say so. `TxAccepted` remembers what
the triggers have checked until the commit makes it visible, `ApproversEntitled`
and `OutreachWasConsented` what it means afterwards, and `RowsComplete` that
the stored hash determines the stored payload, which is why a payload that
hashes to the approved hash *is* the approved payload. `IInv` is their
conjunction; TLC checks it as an invariant of `gate`. The proof of its
preservation has a lemma per action, and in each a step per conjunct the action
can disturb. The refinement maps a committed approval to `Grant`, a committed
denial or supersession to `Refuse`, an execution to `Perform`, and all else to
stuttering.

`LoopProofs` proves of the revise loop, for any sets of proposals and requests
and any bound on the reruns:

* `Invariance`: `Spec => []IInv`;
* `NeverTwoLiveVersions`: `Spec => []OneLivePerChain`;
* `ChainsStayBounded`: `Spec => []ChainsAreBounded`.

`OneLivePerChain` is not inductive: between the rejection of a draft and the
proposal of its revision nothing is live, and it must be known that nobody else
is about to revise the same draft. A proposal is therefore `Open` while it is
live or in the hands of a request that has rejected it, and `OneOpenPerChain` is
preserved: the compare-and-set of the rejection gives a draft to one request
(`RequestsAreSound`, `RejectedIsDenied`). `OpenIsLast` says that only the latest
version of a chain is open, so a revision gets a rerun count of its own
(`RerunsDiffer`); counts are in `0..MaxAutoReruns`, which bounds a chain by
counting an injection, and two revisions of one draft would have the same count
(`ParentsComeBefore`).

Of the tick it proves, for any days, finite set of accounts, triggers, rules,
observed books, processes and bounds:

* `TickInvariance`: `TickSpec => []TickInv`, with `TickTypesHold`;
* `NeverTwicePending`, `FiresStayApart` and `EveryProposalAccounted`:
  `NoDoublePending`, `FiresAreSpaced` and `AccountedFor`;
* `WholeRowsStay`: `TickSpec => TerminatedRowsStay`.

The first two compare rows, and a row is only what a tick did: it read the
ledger, evaluated its triggers against what it read, swept, and appended, while
others did the same. `TickInv` therefore follows a fire along that way. What a
tick has read are rows of the ledger, as many as its `seen` says (`SeenBefore`),
and rows it read are still there, or spoilt (`Remembered`). Evaluation
establishes `Follows` between a candidate and the fires of every such row: their
proposals are decided, their conditions are others, and the days are apart.
`FiresFollow` carries this through the sweeps and `RowsFollow` into the ledger.
It lasts, because a proposal is only ever decided and a row only ever lost.
`AccountedFor` needs to know that two fires never report the same proposal
(`MadeApart`): numbers of proposals are given out once.

`SimCommitProofs` proves, for any keys, processes and bound on the faults:
`TypeCorrectness`, `CompletionIsRecorded`, `RetriesAreSafe`, `ReportedOnce` and
`CompletionIsFinal`. None of the properties is inductive, since each depends on
what calls in progress know. `CallOK` says so per step: what a call has written
or found stays recorded, and what it looked for and did not find is still
missing when it writes, unless another call of the key was there
(`OverlapsAreNoted`). `KeyOK` says that tokens and live leases belong to pending
keys only, which makes the token check of `mark_completed` decide who reports,
and that an audit row has an outbox row before it. `AppendKeepsRows` is the lemma
about files: an append, onto whatever line, hides no row that is not counted as
spoiled, and adds one of its own at most.

`LiveCommitProofs` proves, for any keys, processes and bound on the claims,
`SendsOncePerMisread`, `CompletionIsTrue`, `IntentPrecedesTask` and
`ConfirmationIsTrue`. What was delivered and not misread is nothing for a free
key and one for a completed one (`KeyOK`); a call knows which it is (`CallOK`),
because a key has one holder (`OneHolder`), so its release by key alone cannot
free somebody else's.

`SimCrmProofs` proves, for any keys, accounts and processes, `FileStaysWhole`,
`CompletionIsLogged`, `EventsAgree` and `NothingIsTakenBack`. As long as nothing
collided one operation has the temporary file in use and finds in it what it put
there (`OneTmp`). A copy that is held differs from the file by what it adds and
by what raced (`Near`): another replacement meanwhile would have been noted
(`RacesAreNoted`), and so writing it back takes nothing else away.

`VerdictEndpointProofs` proves, for any servers (one demo server at most),
proposals, accounts, books and precedence rules, `HeldIsHeld`,
`ApprovalsAreDelivered` and `SurfacesImplementAuthorization`. A call is checked
before its verdict is recorded, so it must be known that it stays unheld:
completions only remove findings from a book (`BlockersShrink`). `CallOK` says
how far an approved proposal has come in the server that delivers it. The
refinement maps the record of an approval to `Grant`, that of a denial to
`Refuse`, the step that first delivers to `Perform`.

`SweepProofs` proves, for any books, artifacts, costs and limits,
`SpendingIsBounded`, `RedHolds` and `ResultsAreTrue`. `SpendKnown` relates the
tracker to what was really spent: they agree within a sweep, and of a day the
tracker forgets one limit's worth per restart. `QualityKnown` keeps what the
sweep read of the breaker at its start apart from what the files say later.
`WorkKnown` is the loop invariant of the sweep: when account `i` is next, items,
escalations and proposals are those of the accounts before it.

`InboundProofs` proves of the relay, for any ids, books, tables, sizes and caps,
`NothingIsStale`, `ProposalsAreWhole`, `ReplaysAreOne` and `NobodyIsReplaced`.
Counting is what makes a proposal whole: as long as no record came twice a
session received as many as arrived (`Counts`), so the count the host announced
is met by all its records. The tables of a book agree on its last confirmation
(`BookInv`); an id the server makes up has a number above those in use
(`IdsInv`).

Of self-serve activation it proves, for any servers, signups, finite books and
bounds, `SignupInvariance` (`SignupSpec => []SignupInv`),
`OutreachStaysWarranted`, `FirstAndLastStayFound` and `AnsweredStaysRecorded`.
The first of these properties is about the decision itself, for every signup and
book (`PlanIsMeant`): a plan addressed to somebody has one candidate left, whose
match is of the strongest kind there is, no suppression, and a value path other
than the CRM one. That the CRM path did not win means that its evidence, whose
metrics no other path selects, is outnumbered by the rest
(`CrmIsOutnumbered`).
The other two are about the six transactions. `CallOK` says for each step of a
call what it has left on record, which no other call takes away: an audit row
stays, and a packet may only be renamed by a call of its own id. Calls of one id
that did not overlap or fail are one after the other (`OverlapInv`), so the first
of them inserts the rows (`FirstInv`) and the last names the packet (`LastInv`).

What the proofs assume of the constants is what the modules' ASSUMEs say, the
same that TLC evaluates on the instances: `NULL` is no key, proposal or process;
how a file ends is no key (`TailAssumption`); keys are not accounts
(`KeysAssumption` of `SimCrm`); there is one demo server at most, since two
would share a state directory (`DemoAssumption`); costs have a largest one
(`CostAssumption`, without which no bound on the spending exists); the ids a
server makes up differ from each other and have a form of their own
(`IdsAssumption`); a tick has accounts in a finite number and some day, and a
schedule has a period above zero, as the parser demands, and the scope of the
book (`DaysAssumption`, `BookAssumption`, `RuleAssumption`); and what a signup
reads is finite (`IsBook`). The other sets may be of any size.

Only model-checked: liveness (`EventuallyCompleted`), which is out of the
prover's reach, as is `ENABLED`. The other properties of the passing runs are
theorems.

## Plan

Done: the gate, the committers, the revise loop, the tick, the verdict
endpoints, the relay sessions, the sweep with its breaker and budget, and
self-serve activation. Next:

1. The outcome reobserver over the audit ledger, with the draft placement that
   feeds it: an observation that is queued
   is made once, also when ticks overlap, and an account whose observation raises
   (`outcome_reobserver.py:67`) does not block those behind it.
2. Creation and release of precedence holds as a state machine over findings,
   and the session of the action-control sandbox.

## Not modelled

Scoring, drafting and rendering (lenses, value model, packets) are pure functions
over large records: they reach the gate through `propose` only, whose arguments
the models take arbitrarily. Connectors, generated books, the world simulator,
the LLM transport, the command line, the user interface and the evaluation
harness are input, output or offline; they are most of the repository's lines,
which is why the mapped share of it is small. The rejection ledger annotates
work items and decides nothing. The Gmail draft placement (`email_drafts.py`) is
used by tests only, and has no idempotency key: calling it again places another
draft. The sandbox runs, in one transaction that is
rolled back, what `ActionGate` and `SimCommit` model. Permissions and tenants
are kept apart by the database's row level security.

Two things the code does not promise and no property states: `POST /sweep` run
twice proposes twice for every account (`api.py:1855`; only the tick looks at
what is pending), and the breaker's reset takes the artifact there is when it
runs, not the one the operator looked at (`quality_breaker.py:95`).
