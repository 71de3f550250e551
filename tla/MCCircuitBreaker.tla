-------------------------- MODULE MCCircuitBreaker --------------------------
(* Small instances of CircuitBreaker for TLC.                              *)
EXTENDS CircuitBreaker, TLC

CONSTANTS c1, c2, c3

Symmetry == Permutations(Callers)
=============================================================================
