---------------------------- MODULE MCActionGate ----------------------------
(* A small instance of ActionGate: two gates, one acting for an agent and  *)
(* one for a human, so that a proposer may also be an approver elsewhere.  *)
EXTENDS ActionGate, TLC

CONSTANTS p1, p2, x1, x2, x3, c1, agent, h1, h2, g1, g2, k1

MCContactOf == [x \in Payloads |-> IF x = x2 THEN NULL ELSE c1]

MCActions == {"recommend_next_best_action", "draft_customer_outreach"}

MCTier == [a \in MCActions |-> IF a = "draft_customer_outreach" THEN 2 ELSE 1]

MCAutoInternal == {"recommend_next_best_action"}

MCSymmetry == Permutations(Proposals)

MCActorOf == [g \in Gates |-> IF g = g1 THEN agent ELSE h1]
=============================================================================
