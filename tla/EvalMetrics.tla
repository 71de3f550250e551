---------------------------- MODULE EvalMetrics ----------------------------
(***************************************************************************)
(* The scores of the retrieval evaluation: anime_eval.metrics,             *)
(* runner.run_eval and the dense-only retriever it compares against.  A    *)
(* score is an integer number of 1/Unit, rounded down; the discount        *)
(* 1/log2(i+1) of rank i is the constant Discount[i].                      *)
(***************************************************************************)
EXTENDS Integers, Sequences, FiniteSets, FiniteSetsExt, SequencesExt

CONSTANTS
    Titles,
    Golden,       \* the golden set: query -> [expected, adversarial]
    Unit,         \* the score 1.0
    Discount      \* rank -> Unit / log2(rank + 1)

FinalK == 3

ASSUME EvalAssumption ==
    /\ IsFiniteSet(DOMAIN Golden)
    /\ \A q \in DOMAIN Golden :
          /\ Golden[q] \in [expected : SUBSET Titles, adversarial : BOOLEAN]
          /\ IsFiniteSet(Golden[q].expected)
    /\ Unit \in Nat
    /\ Discount \in [1..FinalK -> Nat \ {0}]

(* A sum of natural numbers, counted one by one.                           *)
Total(f) == Cardinality(UNION {{x} \X (1..f[x]) : x \in DOMAIN f})

HitRanks(got, expected, k) ==
    {i \in DOMAIN got : i <= k /\ got[i] \in expected}

SuccessAt(got, expected, k) ==
    IF HitRanks(got, expected, k) # {} THEN Unit ELSE 0

PrecisionAt(got, expected, k) ==
    (Unit * Cardinality(HitRanks(got, expected, k))) \div k

RecallAt(got, expected, k) ==
    IF expected = {} THEN 0
    ELSE (Unit * Cardinality(HitRanks(got, expected, k)))
            \div Cardinality(expected)

Mrr(got, expected) ==
    LET ranks == HitRanks(got, expected, Len(got))
    IN  IF ranks = {} THEN 0 ELSE Unit \div Min(ranks)

NdcgAt(got, expected, k) ==
    LET Gain(ranks) == Total([i \in ranks |-> Discount[i]])
    IN  IF expected = {} THEN 0
        ELSE (Unit * Gain(HitRanks(got, expected, k)))
                \div Gain({i \in 1..k : i <= Cardinality(expected)})

DistinctRatio(got) ==
    IF got = << >> THEN 0 ELSE (Unit * Cardinality(ToSet(got))) \div Len(got)

(* run_eval over what was retrieved for each query: the mean of each score *)
(* of _score_one over the queries that are not adversarial; no metrics at  *)
(* all when there is none.                                                 *)
Scored == {q \in DOMAIN Golden : ~Golden[q].adversarial}

Mean(score) == Total(score) \div Cardinality(Scored)

Aggregates(results) ==
    LET Wanted(q) == Golden[q].expected
        MeanAt(Score(_, _, _), k) ==
            Mean([q \in Scored |-> Score(results[q], Wanted(q), k)])
    IN  IF Scored = {} THEN << >>
        ELSE [success_1   |-> MeanAt(SuccessAt, 1),
              success_3   |-> MeanAt(SuccessAt, 3),
              precision_1 |-> MeanAt(PrecisionAt, 1),
              precision_3 |-> MeanAt(PrecisionAt, 3),
              recall_1    |-> MeanAt(RecallAt, 1),
              recall_3    |-> MeanAt(RecallAt, 3),
              ndcg_1      |-> MeanAt(NdcgAt, 1),
              ndcg_3      |-> MeanAt(NdcgAt, 3),
              mrr         |-> Mean([q \in Scored |-> Mrr(results[q], Wanted(q))]),
              distinct_ratio |->
                  Mean([q \in Scored |-> DistinctRatio(results[q])])]

(* NaiveRetriever.retrieve: the first FinalK titles of the dense ranking,  *)
(* each once.                                                              *)
NaiveRetrieve(matches) ==
    LET firsts == {i \in DOMAIN matches :
                      \A j \in 1..(i - 1) : matches[j] # matches[i]}
        Nth(n) == CHOOSE i \in firsts :
                      Cardinality({j \in firsts : j < i}) = n - 1
    IN  [n \in {k \in 1..FinalK : k <= Cardinality(firsts)} |-> matches[Nth(n)]]
=============================================================================
