---------------------------- MODULE MCRecommend ----------------------------
(* Small instances of Recommend for TLC.                                   *)
EXTENDS Recommend, TLC

CONSTANTS r1, r2, r3, known, absent

Symmetry == Permutations(Requests)
=============================================================================
