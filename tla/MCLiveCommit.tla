---------------------------- MODULE MCLiveCommit ----------------------------
(* A small instance of LiveCommit: a Gmail key, a Salesforce key and two   *)
(* processes.                                                              *)
EXTENDS LiveCommit, TLC

CONSTANTS gk, sk, w1, w2

MCSymmetry == Permutations(Workers)
=============================================================================
