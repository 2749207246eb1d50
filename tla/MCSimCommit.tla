----------------------------- MODULE MCSimCommit -----------------------------
(* Small instances of SimCommit: one or two keys in the same files, two    *)
(* processes.                                                              *)
EXTENDS SimCommit, TLC

CONSTANTS k1, k2, w1, w2

MCSymmetry == Permutations(Keys) \union Permutations(Workers)
=============================================================================
