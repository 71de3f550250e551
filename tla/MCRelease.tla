----------------------------- MODULE MCRelease -----------------------------
(* A small repository for Release: two changes that cost one golden query  *)
(* a rank each, one that disables the reranker and brings a copyleft       *)
(* package, one that adds a credential and removes it.                     *)
EXTENDS Release, TLC

CONSTANTS tidy, tune, strip, vendor

MCGolden ==
    [q \in {"q1", "q2", "q3", "q4", "canary"} |->
        [expected |-> IF q = "canary" THEN {} ELSE {"x"},
         adversarial |-> q = "canary"]]

(* 1, 1/log2(3), 1/log2(4) in 1/600.                                       *)
MCDiscount == <<600, 379, 300>>

(* Dense retrieval has the wanted title second, after two chunks of "a".   *)
MCDense == [S \in SUBSET Changes |->
    [q \in DOMAIN MCGolden |-> <<"a", "a", "x", "b", "x">>]]

MCHybrid == [S \in SUBSET Changes |->
    [q \in DOMAIN MCGolden |-> <<"a", "x", "b">>]]

MCReranked == [S \in SUBSET Changes |->
    IF strip \in S THEN MCHybrid[S]
    ELSE [q \in DOMAIN MCGolden |->
            CASE q = "q3" -> IF tidy \in S THEN <<"a", "b", "x">>
                                           ELSE <<"a", "x", "b">>
              [] q = "q4" -> IF tune \in S THEN <<"a", "b", "x">>
                                           ELSE <<"a", "x", "b">>
              [] OTHER    -> <<"x", "a", "b">>]]

MCBrings == [c \in Changes |->
    CASE c = tidy -> {"pylib"} [] c = strip -> {"gpl"} [] OTHER -> {}]
MCLicense == [p \in Packages |->
    IF p = "gpl" THEN {"MIT", "GPL"} ELSE {"MIT"}]
MCLabel == [p \in Packages |-> "none"]
MCCommits == [c \in Changes |-> IF c = vendor THEN 2 ELSE 1]
MCFaults == {<<"pip-audit", "silent">>, <<"pip-audit", "garbled">>,
             <<"pnpm", "absent">>, <<"pnpm", "silent">>,
             <<"pip-licenses", "silent">>,
             <<"gitleaks", "absent">>, <<"gitleaks", "garbled">>,
             <<"git", "no_files">>}
=============================================================================
