---------------------------- MODULE MCReviseLoop ----------------------------
(* A small instance of ReviseLoop: up to four proposals, two requests.     *)
EXTENDS ReviseLoop, TLC

CONSTANTS p1, p2, p3, p4, c1, c2

MCSymmetry == Permutations(Proposals) \union Permutations(Callers)
=============================================================================
