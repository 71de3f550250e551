----------------------------- MODULE Retrieval -----------------------------
(***************************************************************************)
(* RetrievalPipeline.retrieve for one request, on the request's database   *)
(* session, while runs of ingest rewrite the corpus it reads: embed the    *)
(* query, the two legs, Reciprocal Rank Fusion, one chunk per title,       *)
(* rerank, the embeddings, MMR; then the history row that the route writes *)
(* on the same session.  Requests share nothing but the corpus, so one is  *)
(* enough.                                                                 *)
(*                                                                         *)
(* Which chunks a leg finds, and in which order the cross-encoder and MMR  *)
(* put them, is free: scores are data.  The fusion is the code's.          *)
(***************************************************************************)
EXTENDS Corpus, SequencesExt

CONSTANTS
    HybridK,   \* hybrid_k
    RerankK,   \* rerank_k
    FinalK,    \* final_k
    RrfK,      \* rrf_k
    One,       \* 1 as a whole number: every rank's denominator divides it
    Faults     \* what may go wrong: "embed", "dense", "sparse" (a leg times
               \* out or raises), "rollback" (the recovery hook raises),
               \* "rerank", "database" (a later statement raises)

ASSUME RetrievalAssumption ==
    /\ {HybridK, RerankK, FinalK, RrfK, One} \subseteq Nat \ {0}
    /\ \A n \in 1..HybridK : One % (RrfK + n) = 0
    /\ Faults \subseteq {"embed", "dense", "sparse", "rollback", "rerank", "database"}

VARIABLES
    pc,        \* what the request awaits
    session,   \* "usable", or "broken" until a rollback
    hits,      \* per leg: did it answer, and the chunks it found
    ranked,    \* candidates in their present order
    outcome,   \* what retrieve() returns or raises
    status,    \* HTTP status of the structured route, 0 while there is none
    hurt,      \* history: what has failed
    changed,   \* history: a re-index has been committed since the first search
    dropped    \* history: candidates dropped for want of an embedding

requestVars == <<pc, session, hits, ranked, outcome, status, hurt, changed, dropped>>
vars == <<corpusVars, requestVars>>

Legs == {"dense", "sparse"}
PCs == {"embed", "dense", "sparse", "rerank", "fetch", "book", "done"}
Outcomes == {"none", "candidates", "empty", "unavailable", "raised"}

TypeOK ==
    /\ CorpusTypeOK
    /\ pc \in PCs
    /\ session \in {"usable", "broken"}
    /\ DOMAIN hits = Legs
    /\ \A leg \in Legs : hits[leg] \in [ok : BOOLEAN, found : Seq(Chunks)]
    /\ ranked \in Seq(Chunks)
    /\ outcome \in Outcomes
    /\ status \in {0, 200, 500}
    /\ hurt \subseteq Faults
    /\ changed \in BOOLEAN
    /\ dropped \in Nat
    /\ (pc \in {"book", "done"} <=> outcome # "none")
    /\ (outcome = "candidates" => Len(ranked) \in 1..FinalK)
    /\ (outcome = "empty" => ranked = << >>)

Init ==
    /\ CorpusInit
    /\ pc = "embed"
    /\ session = "usable"
    /\ hits = [leg \in Legs |-> [ok |-> FALSE, found |-> << >>]]
    /\ ranked = << >>
    /\ outcome = "none"
    /\ status = 0
    /\ hurt = {}
    /\ changed = FALSE
    /\ dropped = 0

-----------------------------------------------------------------------------
Titled(s) == {s[n].title : n \in DOMAIN s}
Key(c) == <<c.title, c.index>>
Take(s, k) == SubSeq(s, 1, Min({Len(s), k}))

(* All orders of up to k members of a set of chunks.                       *)
Lists(rows, k) == {s \in BoundedSeq(rows, k) : IsInjective(s)}

(* A finite set's members, sorted by a strict order on it.                 *)
Sorted(S, order) ==
    [k \in 1..Cardinality(S) |->
        CHOOSE n \in S : Cardinality({m \in S : <<m, n>> \in order}) = k - 1]

(* The first member of each kind, in the order of the list.                *)
Ascending(S) == {mn \in S \X S : mn[1] < mn[2]}
FirstPer(s, Kind(_)) ==
    LET firsts == {n \in DOMAIN s : \A m \in 1..(n - 1) : Kind(s[m]) # Kind(s[n])}
        order == Sorted(firsts, Ascending(firsts))
    IN  [k \in DOMAIN order |-> s[order[k]]]

(* Reciprocal Rank Fusion: 1/(k + rank) for each place of c in a leg.      *)
Reciprocals(s, c) ==
    SumFunction([n \in {m \in DOMAIN s : Key(s[m]) = Key(c)} |-> One \div (RrfK + n)])

(* reciprocal_rank_fusion.  A chunk both legs found keeps the dense leg's  *)
(* text; the sort is stable.                                               *)
Fused(dense, sparse) ==
    LET entries == FirstPer(dense \o sparse, Key)
        Score(n) == Reciprocals(dense, entries[n]) + Reciprocals(sparse, entries[n])
        ByScore == {mn \in (DOMAIN entries) \X (DOMAIN entries) :
                       \/ Score(mn[1]) > Score(mn[2])
                       \/ Score(mn[1]) = Score(mn[2]) /\ mn[1] < mn[2]}
        order == Sorted(DOMAIN entries, ByScore)
    IN  Take([n \in DOMAIN entries |-> entries[order[n]]], HybridK)

\* Mutant of DedupByAnime: one chunk per key.
DedupByKey(s) == FirstPer(s, Key)

\* Mutant of DedupByAnime: the list is cut before it.
DedupAfterCut(s) == FirstPer(Take(s, RerankK), LAMBDA c : c.title)

(* _dedup_by_anime                                                         *)
DedupByAnime(s) == FirstPer(s, LAMBDA c : c.title)

(* What BgeReranker.score and mmr_select may make of candidates: every     *)
(* order of them, and every choice of final_k of them in every order.      *)
Scored(s) == {p \in Lists(ToSet(s), Len(s)) : Len(p) = Len(s)}
Diversified(rows) ==
    {p \in Lists(rows, FinalK) : Len(p) = Min({Cardinality(rows), FinalK})}

-----------------------------------------------------------------------------
Hurt(fault) == fault \in Faults /\ hurt' = hurt \cup {fault}

Return(what) ==
    /\ outcome' = what
    /\ IF what = "raised" THEN pc' = "done" /\ status' = 500
                          ELSE pc' = "book" /\ UNCHANGED status

Embed ==
    /\ pc = "embed"
    /\ pc' = "dense"
    /\ UNCHANGED <<corpusVars, session, hits, ranked, outcome, status, hurt, changed, dropped>>

EmbedFails ==
    /\ pc = "embed"
    /\ Hurt("embed")
    /\ Return("unavailable")
    /\ UNCHANGED <<corpusVars, session, hits, ranked, changed, dropped>>

(* The dense leg is over: the sparse leg is next.                          *)
AfterDense(h) ==
    /\ hits' = [hits EXCEPT !["dense"] = h]
    /\ pc' = "sparse"
    /\ changed' = FALSE
    /\ UNCHANGED <<ranked, outcome, status>>

(* Both are: fuse, or give up if neither answered.                         *)
AfterSparse(h) ==
    /\ hits' = [hits EXCEPT !["sparse"] = h]
    /\ IF ~hits["dense"].ok /\ ~h.ok
       THEN Return("unavailable") /\ UNCHANGED ranked
       ELSE /\ ranked' = DedupByAnime(Fused(hits["dense"].found, h.found))
            /\ IF ranked' = << >> THEN Return("empty")
               ELSE pc' = "rerank" /\ UNCHANGED <<outcome, status>>
    /\ UNCHANGED changed

AfterLeg(leg, h) == IF leg = "dense" THEN AfterDense(h) ELSE AfterSparse(h)

(* A vector search finds the nearest chunks, however far; a text search    *)
(* those that match.                                                       *)
LegAnswers(leg) ==
    /\ pc = leg
    /\ session = "usable"
    /\ \E found \in Lists(chunks, HybridK) :
          /\ leg = "dense" => \/ Len(found) = HybridK
                             \/ Len(found) = Cardinality(chunks)
          /\ AfterLeg(leg, [ok |-> TRUE, found |-> found])
    /\ UNCHANGED <<corpusVars, session, hurt, dropped>>

\* Mutant of Recover: no recovery hook.
RecoverNot(failures) ==
    /\ session' = "broken"
    /\ hurt' = failures

(* _recover_after_failed_leg: roll back, and never raise.                  *)
Recover(failures) ==
    \/ session' = "usable" /\ hurt' = failures
    \/ /\ "rollback" \in Faults
       /\ session' = "broken"
       /\ hurt' = failures \cup {"rollback"}

(* A timeout cancels the query and an error aborts the transaction: either *)
(* way the session is of no use until it is rolled back.                   *)
LegFails(leg) ==
    /\ pc = leg
    /\ leg \in Faults
    /\ Recover(hurt \cup {leg})
    /\ AfterLeg(leg, [ok |-> FALSE, found |-> << >>])
    /\ UNCHANGED <<corpusVars, dropped>>

(* PendingRollbackError                                                    *)
LegRefused(leg) ==
    /\ pc = leg
    /\ session = "broken"
    /\ Recover(hurt)
    /\ AfterLeg(leg, [ok |-> FALSE, found |-> << >>])
    /\ UNCHANGED <<corpusVars, dropped>>

Reranked ==
    /\ pc = "rerank"
    /\ \E s \in Scored(ranked) : ranked' = Take(s, RerankK)
    /\ pc' = "fetch"
    /\ UNCHANGED <<corpusVars, session, hits, outcome, status, hurt, changed, dropped>>

RerankFails ==
    /\ pc = "rerank"
    /\ Hurt("rerank")
    /\ ranked' = Take(ranked, RerankK)
    /\ pc' = "fetch"
    /\ UNCHANGED <<corpusVars, session, hits, outcome, status, changed, dropped>>

(* _fetch_embeddings, and MMR over the candidates that have one.           *)
Fetch ==
    /\ pc = "fetch"
    /\ session = "usable"
    /\ LET aligned == {c \in ToSet(ranked) : \E row \in chunks : Key(row) = Key(c)}
       IN  /\ ranked' \in Diversified(aligned)
           /\ dropped' = Len(ranked) - Cardinality(aligned)
    /\ Return(IF ranked' = << >> THEN "empty" ELSE "candidates")
    /\ UNCHANGED <<corpusVars, session, hits, hurt, changed>>

(* Nothing guards that read.                                               *)
FetchFails ==
    /\ pc = "fetch"
    /\ \/ session = "broken" /\ UNCHANGED hurt
       \/ Hurt("database")
    /\ Return("raised")
    /\ UNCHANGED <<corpusVars, session, hits, ranked, changed, dropped>>

(* The route writes the user, the history and the usage, and commits.      *)
Book ==
    /\ pc = "book"
    /\ pc' = "done"
    /\ \/ session = "usable" /\ status' = 200 /\ UNCHANGED hurt
       \/ session = "broken" /\ status' = 500 /\ UNCHANGED hurt
       \/ Hurt("database") /\ status' = 500
    /\ UNCHANGED <<corpusVars, session, hits, ranked, outcome, changed, dropped>>

Request ==
    \/ Embed \/ EmbedFails
    \/ \E leg \in Legs : LegAnswers(leg) \/ LegFails(leg) \/ LegRefused(leg)
    \/ Reranked \/ RerankFails
    \/ Fetch \/ FetchFails
    \/ Book

(* A run of ingest, seen by the request once it commits.                   *)
Reindex ==
    /\ CorpusNext
    /\ changed' = (changed \/ chunks' # chunks)
    /\ UNCHANGED <<pc, session, hits, ranked, outcome, status, hurt, dropped>>

Next == Request \/ Reindex

Spec == Init /\ [][Next]_vars

-----------------------------------------------------------------------------
(* "A failed leg degrades the request instead of turning it into a 500"    *)
(* (hybrid.py): the session the two legs, the embeddings and the history   *)
(* share survives the failure of either leg, so unless the rollback itself *)
(* or a later statement fails the request is a 200, and one leg that works *)
(* is enough for it not to fall back.                                      *)
LegFailureAbsorbed ==
    pc = "done" /\ hurt \cap {"rollback", "database"} = {} =>
        /\ status = 200
        /\ outcome = "unavailable" => "embed" \in hurt \/ Legs \subseteq hurt

(* No title appears twice among the candidates, although both legs find    *)
(* chunks of it and may see different editions of the corpus.              *)
DistinctTitles == Cardinality(Titled(ranked)) = Len(ranked)

(* Cutting to hybrid_k, rerank_k and final_k comes at the right places:    *)
(* unless a re-index came between, the request gets as many titles as it   *)
(* may have and the fused chunks offer.                                    *)
FullWhenQuiet ==
    (outcome \in {"candidates", "empty"} /\ ~changed) =>
        LET offered == Cardinality(Titled(Fused(hits["dense"].found, hits["sparse"].found)))
        IN  /\ Len(ranked) = Min({offered, RerankK, FinalK})
            /\ dropped = 0

(* pipeline.py of a candidate without an embedding: "shouldn't happen".    *)
NoneMissing == dropped = 0
=============================================================================
