---------------------------- MODULE Authorization ----------------------------
(***************************************************************************)
(* What the action gate promises, with no database, hash, transaction or   *)
(* trigger in sight: a proposal is opened with one body; it is decided at  *)
(* most once, by a grant that fixes the body and its approver or by a      *)
(* refusal; only the body that was granted is ever performed.  ActionGate  *)
(* is shown to implement this module.                                      *)
(***************************************************************************)
EXTENDS Integers

CONSTANTS
    Proposals,    \* identifiers of the proposals that may be emitted
    Payloads,     \* action bodies
    Principals,   \* every principal of the tenant
    Humans,       \* the principals of kind 'human'
    NULL

VARIABLES
    decision,     \* proposal -> what has been decided about it
    performed     \* the <<proposal, body>> pairs that reached a target

vars == <<decision, performed>>

Undecided == [state |-> "none", proposer |-> NULL, tier |-> 0,
              payload |-> NULL, by |-> NULL]

Init ==
    /\ decision = [p \in Proposals |-> Undecided]
    /\ performed = {}

(* A principal asks for an action of the given autonomy tier. *)
Open(p, who, tier) ==
    /\ decision[p].state = "none"
    /\ decision' = [decision EXCEPT ![p] = [state |-> "open",
                        proposer |-> who, tier |-> tier,
                        payload |-> NULL, by |-> NULL]]
    /\ UNCHANGED performed

(* Somebody entitled to it fixes the body: from tier 2 on that is a human  *)
(* other than the proposer.                                                *)
Grant(p, x, who) ==
    /\ decision[p].state = "open"
    /\ decision[p].tier >= 2 => who \in Humans \ {decision[p].proposer}
    /\ decision' = [decision EXCEPT ![p] = [state |-> "granted",
                        proposer |-> @.proposer, tier |-> @.tier,
                        payload |-> x, by |-> who]]
    /\ UNCHANGED performed

Refuse(p, who) ==
    /\ decision[p].state = "open"
    /\ decision' = [decision EXCEPT ![p] = [state |-> "refused",
                        proposer |-> @.proposer, tier |-> @.tier,
                        payload |-> NULL, by |-> who]]
    /\ UNCHANGED performed

(* The world changes, by exactly the body that was granted. *)
Perform(p) ==
    /\ decision[p].state = "granted"
    /\ performed' = performed \union {<<p, decision[p].payload>>}
    /\ UNCHANGED decision

Next ==
    \/ \E p \in Proposals, who \in Principals, tier \in 1..3 : Open(p, who, tier)
    \/ \E p \in Proposals, x \in Payloads, who \in Principals : Grant(p, x, who)
    \/ \E p \in Proposals, who \in Principals : Refuse(p, who)
    \/ \E p \in Proposals : Perform(p)

Spec == Init /\ [][Next]_vars
=============================================================================
