------------------------------- MODULE MCSweep -------------------------------
(* A book of an ordinary account, one whose tier forbids outreach but has  *)
(* an asset for it, and two ambiguous ones that share their candidates;    *)
(* and a book of a blocked, an ordinary, an unresolved and an unknown one. *)
EXTENDS Sweep, TLC

CONSTANTS green, red1, red2

Ordinary == [resolution |-> "exactly_one", candidates |-> {1}, complete |-> TRUE,
             contact |-> TRUE, forbidden |-> FALSE, blocker |-> FALSE, match |-> FALSE]

Shared == [Ordinary EXCEPT !.resolution = "ambiguous", !.candidates = {3, 4}]

MCBooks ==
    {<<Ordinary, [Ordinary EXCEPT !.forbidden = TRUE, !.match = TRUE], Shared, Shared>>,
     <<[Ordinary EXCEPT !.blocker = TRUE, !.match = TRUE], Ordinary,
       [Ordinary EXCEPT !.resolution = "none"], [Ordinary EXCEPT !.complete = FALSE]>>}

MCSymmetry == Permutations({red1, red2})
=============================================================================
