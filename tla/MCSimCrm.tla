------------------------------ MODULE MCSimCrm ------------------------------
(* Two keys of one account, the second of an internal recommendation;      *)
(* another account has an outbox row only.                                 *)
EXTENDS SimCrm, TLC

CONSTANTS k1, k2, a1, a2, w1, w2

MCAccountOf == [k \in Keys |-> a1]

MCSymmetry == Permutations(Workers)
=============================================================================
