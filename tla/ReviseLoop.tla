----------------------------- MODULE ReviseLoop -----------------------------
(***************************************************************************)
(* The bounded draft-revise loop (agent1/revise.py): a reviewer asks for   *)
(* an edit, the pending draft is rejected, and a fresh proposal takes its  *)
(* place.  Rejection and proposal are two transactions of the gate, so     *)
(* other requests and verdicts come in between, and the process may die    *)
(* there.                                                                  *)
(*                                                                         *)
(* The gate is taken at the level of Authorization, which ActionGate       *)
(* implements: one atomic decision per pending proposal.  The text of a    *)
(* draft matters only in one way: a payload that carries a non-portable    *)
(* instruction is refused by the hash trigger (ActionGate's DbHash).       *)
(***************************************************************************)
EXTENDS Integers, FiniteSets

CONSTANTS
    Proposals,       \* proposal identifiers the database can generate
    Callers,         \* requests being served at a time
    MaxAutoReruns,   \* DEFAULT_MAX_AUTO_RERUNS
    NULL

ASSUME RerunsAssumption == MaxAutoReruns \in Nat
ASSUME NullAssumption   == NULL \notin Proposals

VARIABLES
    status,    \* action_proposal.status
    chain,     \* payload["revise_chain"]: root, parent, auto_reruns
    rejected,  \* proposals whose verdict row is the loop's 'revise'
    loop       \* what each caller's revise request is doing

vars == <<status, chain, rejected, loop>>

(* A proposal that is not a revision is its own root. *)
RootChain(p) == [root |-> p, parent |-> NULL, reruns |-> 0]

Idle == [pc |-> "idle", p |-> NULL, portable |-> FALSE]

Init ==
    /\ status = [p \in Proposals |-> "absent"]
    /\ chain = [p \in Proposals |-> RootChain(p)]
    /\ rejected = {}
    /\ loop = [c \in Callers |-> Idle]

(* A sweep proposes a new draft. *)
ProposeDraft(p) ==
    /\ status[p] = "absent"
    /\ status' = [status EXCEPT ![p] = "pending"]
    /\ UNCHANGED <<chain, rejected, loop>>

(* record_verdict: somebody approves or denies the draft meanwhile. *)
Decide(p, decision) ==
    /\ status[p] = "pending"
    /\ decision \in {"approved", "denied"}
    /\ status' = [status EXCEPT ![p] = decision]
    /\ UNCHANGED <<chain, rejected, loop>>

(* run_slot_b_revise_loop up to its first write, on a snapshot that may be *)
(* stale.  A draft that has used up its reruns, an unsafe instruction or a *)
(* draft that fails validation ends the request with nothing written.      *)
OffByOne(p) == chain[p].reruns <= MaxAutoReruns  \* mutant

WithinBound(p) == chain[p].reruns < MaxAutoReruns

Request(c, p, portable) ==
    /\ loop[c].pc = "idle"
    /\ status[p] # "absent"
    /\ WithinBound(p)
    /\ loop' = [loop EXCEPT ![c] = [pc |-> "reject", p |-> p, portable |-> portable]]
    /\ UNCHANGED <<status, chain, rejected>>

(* reject_and_supersede: a compare-and-set on the pending draft; GateError *)
(* when it was decided meanwhile.                                          *)
RejectAnything(p) == TRUE  \* mutant

Rejectable(p) == status[p] = "pending"

Reject(c) ==
    LET p == loop[c].p IN
    /\ loop[c].pc = "reject"
    /\ IF Rejectable(p)
       THEN /\ status' = [status EXCEPT ![p] = "denied"]
            /\ rejected' = rejected \union {p}
            /\ loop' = [loop EXCEPT ![c].pc = "propose"]
       ELSE /\ loop' = [loop EXCEPT ![c] = Idle]
            /\ UNCHANGED <<status, rejected>>
    /\ UNCHANGED chain

(* _superseding_payload: the chain keeps its root and counts the rerun. *)
ForgetsTheCount(p) == [root |-> chain[p].root, parent |-> p, reruns |-> 0]  \* mutant

Superseding(p) ==
    [root |-> chain[p].root, parent |-> p, reruns |-> chain[p].reruns + 1]

(* propose: a fresh pending proposal, or the hash trigger raises.          *)
Supersede(c, q) ==
    /\ loop[c].pc = "propose"
    /\ status[q] = "absent"
    /\ IF loop[c].portable
       THEN /\ status' = [status EXCEPT ![q] = "pending"]
            /\ chain' = [chain EXCEPT ![q] = Superseding(loop[c].p)]
       ELSE UNCHANGED <<status, chain>>
    /\ loop' = [loop EXCEPT ![c] = Idle]
    /\ UNCHANGED rejected

(* The process dies, or a database call raises. *)
Crash(c) ==
    /\ loop[c].pc # "idle"
    /\ loop' = [loop EXCEPT ![c] = Idle]
    /\ UNCHANGED <<status, chain, rejected>>

Next ==
    \/ \E p \in Proposals : ProposeDraft(p)
    \/ \E p \in Proposals, decision \in {"approved", "denied"} : Decide(p, decision)
    \/ \E c \in Callers, p \in Proposals, portable \in BOOLEAN : Request(c, p, portable)
    \/ \E c \in Callers : Reject(c) \/ Crash(c)
    \/ \E c \in Callers, q \in Proposals : Supersede(c, q)

Spec == Init /\ [][Next]_vars

-----------------------------------------------------------------------------
(* Properties.                                                             *)

TypeOK ==
    /\ status \in [Proposals -> {"absent", "pending", "approved", "denied"}]
    /\ chain \in [Proposals -> [root : Proposals, parent : Proposals \union {NULL},
                                reruns : 0..MaxAutoReruns]]
    /\ rejected \in SUBSET Proposals
    /\ loop \in [Callers -> [pc : {"idle", "reject", "propose"},
                             p : Proposals \union {NULL}, portable : BOOLEAN]]

Present == {p \in Proposals : status[p] # "absent"}

Live == {p \in Proposals : status[p] \in {"pending", "approved"}}

(* Two versions of one draft are never open or approved at the same time,  *)
(* so that no customer is sent both: concurrent revise requests, verdicts  *)
(* and crashes included (revise.py:165-183).                               *)
OneLivePerChain ==
    \A p, q \in Live : chain[p].root = chain[q].root => p = q

(* A revision descends from a draft this loop rejected, a draft has one    *)
(* revision at most, and a chain no more than the bound allows.            *)
ChainsAreBounded ==
    /\ \A p \in Present : chain[p].parent # NULL =>
          /\ chain[p].parent \in rejected
          /\ \A q \in Present : chain[q].parent = chain[p].parent => p = q
    /\ \A r \in Present :
          Cardinality({p \in Present : chain[p].root = r}) <= MaxAutoReruns + 1

-----------------------------------------------------------------------------
(* The inductive invariant.                                                *)

(* A request that has rejected its draft and not yet proposed its revision.*)
Proposing(c) == loop[c].pc = "propose"

(* A proposal whose chain may still grow or be sent.                       *)
Open(p) == p \in Live \/ \E c \in Callers : Proposing(c) /\ loop[c].p = p

SameChain(p, q) == chain[p].root = chain[q].root

(* An unused identifier has no chain, and a chain starts at a proposal.    *)
ChainsAreRooted ==
    /\ \A p \in Proposals : status[p] = "absent" => chain[p] = RootChain(p)
    /\ \A p \in Present : chain[p].root \in Present

(* What a request works on exists, may be revised once more, and after the *)
(* rejection it is denied and nobody else's.                               *)
RequestsAreSound ==
    /\ \A c \in Callers : loop[c].pc # "idle" => loop[c].p \in Present /\ WithinBound(loop[c].p)
    /\ \A c \in Callers : Proposing(c) => loop[c].p \in rejected
    /\ \A c, d \in Callers : Proposing(c) /\ Proposing(d) /\ loop[c].p = loop[d].p => c = d

RejectedIsDenied == \A p \in rejected : status[p] = "denied"

(* Only the last version of a chain is open.                               *)
OneOpenPerChain == \A p, q \in Present : Open(p) /\ Open(q) /\ SameChain(p, q) => p = q

OpenIsLast ==
    \A p, q \in Present : Open(p) /\ SameChain(p, q) => chain[q].reruns <= chain[p].reruns

RerunsDiffer ==
    \A p, q \in Present : SameChain(p, q) /\ chain[p].reruns = chain[q].reruns => p = q

ParentsComeBefore ==
    \A p \in Present : chain[p].parent # NULL =>
        /\ chain[p].parent \in rejected
        /\ SameChain(p, chain[p].parent)
        /\ chain[p].reruns = chain[chain[p].parent].reruns + 1

IInv ==
    /\ TypeOK
    /\ ChainsAreRooted
    /\ RequestsAreSound
    /\ RejectedIsDenied
    /\ OneOpenPerChain
    /\ OpenIsLast
    /\ RerunsDiffer
    /\ ParentsComeBefore
=============================================================================
