----------------------------- MODULE MCJobQueue -----------------------------
(* Small instances of JobQueue for TLC.                                    *)
EXTENDS JobQueue, TLC

CONSTANTS m1, m2, m3, k1, k2, w1, w2

(* m1 and m2 are two sends of one job, m3 another message.                 *)
SharedKey == (m1 :> k1) @@ (m2 :> k1) @@ (m3 :> k2)
SharedKey2 == (m1 :> k1) @@ (m2 :> k1)
OneMessage == (m1 :> k1)
JobAndOther == (m1 :> k1) @@ (m3 :> k2)

Symmetry == Permutations(Workers)
=============================================================================
