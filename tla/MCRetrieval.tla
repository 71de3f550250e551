---------------------------- MODULE MCRetrieval ----------------------------
(* Small instances of Retrieval for TLC.                                   *)
EXTENDS Retrieval

CONSTANTS i1, i2, i3, a, b

(* The corpus as it was, and two newer editions: in another order with     *)
(* other lengths, and without the second title.                            *)
Pieces2(m, n) == (a :> m) @@ (b :> n)
Editions ==
    {[titles |-> <<a, b>>, pieces |-> Pieces2(2, 1)],
     [titles |-> <<b, a>>, pieces |-> Pieces2(1, 2)],
     [titles |-> <<a>>,    pieces |-> Pieces2(1, 1)]}

Symmetry == Permutations(Ingests)
=============================================================================
