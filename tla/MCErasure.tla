----------------------------- MODULE MCErasure -----------------------------
(* Small instances of Erasure for TLC.                                     *)
EXTENDS Erasure, TLC

CONSTANTS rec1, rec2, fb1, self1, job1

Symmetry == Permutations(Recommends)
=============================================================================
