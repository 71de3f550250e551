-------------------------- MODULE RetrievalProofs --------------------------
(***************************************************************************)
(* CorpusWhole and NeverEmptied, for any titles, files and number of runs  *)
(* of ingest; then what Retrieval inherits from Corpus, and                *)
(* LegFailureAbsorbed, DistinctTitles and FullWhenQuiet, for any corpus    *)
(* and any of the faults.                                                  *)
(*                                                                         *)
(* The corpus stays whole by the locks: the run that deletes and writes    *)
(* the chunks of a title has had its row in anime_titles since before it   *)
(* looked at them, so what it deletes is still all there is when it        *)
(* commits.                                                                *)
(***************************************************************************)
EXTENDS Retrieval, FiniteSetTheorems, TLAPS

(* A run past its upserts has the row of every title of its file; before,  *)
(* of those it has come to.  It has no other.                              *)
LocksHeld ==
    /\ \A i \in Ingests :
          /\ phase[i] = "upsert" =>
                /\ upserted[i] <= Len(file[i].titles)
                /\ \A n \in 1..upserted[i] : lock[file[i].titles[n]] = i
          /\ phase[i] \in {"insert", "commit"} =>
                \A t \in TitlesOf(i) : lock[t] = i
          /\ phase[i] = "idle" => upserted[i] = 0
    /\ \A t \in Titles, i \in Ingests : lock[t] = i => t \in TitlesOf(i)

(* What an open transaction has deleted is all there is of its titles, and *)
(* what it has inserted is all its file makes.                             *)
PendingWhole ==
    \A i \in Ingests :
        /\ phase[i] \in {"insert", "commit"} =>
              gone[i] = {c \in chunks : c.title \in TitlesOf(i)}
        /\ phase[i] = "commit" => added[i] = BuiltAll(i)

CorpusInv == CorpusTypeOK /\ LocksHeld /\ PendingWhole /\ CorpusWhole

-----------------------------------------------------------------------------
(* A file: a sequence of titles and a number of pieces of each.            *)
LEMMA FileFacts ==
    ASSUME file \in [Ingests -> Files], NEW i \in Ingests
    PROVE  /\ file[i] \in Files
           /\ file[i].titles \in Seq(Titles)
           /\ Len(file[i].titles) \in Nat
           /\ DOMAIN file[i].titles = 1..Len(file[i].titles)
           /\ file[i].pieces \in [Titles -> Nat \ {0}]
           /\ TitlesOf(i) \subseteq Titles
<1>1. file[i] \in Files
  OBVIOUS
<1>2. file[i] \in [titles : Seq(Titles), pieces : [Titles -> Nat \ {0}]]
  BY <1>1, CorpusAssumption
<1>3. file[i].titles \in Seq(Titles) /\ file[i].pieces \in [Titles -> Nat \ {0}]
  BY <1>2
<1>4. /\ Len(file[i].titles) \in Nat
      /\ DOMAIN file[i].titles = 1..Len(file[i].titles)
      /\ \A n \in 1..Len(file[i].titles) : file[i].titles[n] \in Titles
  BY <1>3
<1>5. TitlesOf(i) \subseteq Titles
  BY <1>4 DEF TitlesOf
<1>6. QED
  BY <1>1, <1>3, <1>4, <1>5

(* What chunk_anime makes of a title: chunks of that title, at least one.  *)
LEMMA BuiltFacts ==
    ASSUME file \in [Ingests -> Files], NEW i \in Ingests, NEW t \in Titles
    PROVE  /\ Built(i, t) \subseteq Chunks
           /\ \A c \in Built(i, t) : c.title = t
           /\ Built(i, t) # {}
<1>1. Pieces(i, t) \in Nat /\ Pieces(i, t) >= 1
  BY FileFacts DEF Pieces
<1>2. \A n \in 1..Pieces(i, t) : n - 1 \in Nat
  BY <1>1
<1>3. Built(i, t) \subseteq Chunks /\ \A c \in Built(i, t) : c.title = t
  BY <1>2 DEF Built, Chunks
<1>4. 1 \in 1..Pieces(i, t)
  BY <1>1
<1>5. [title |-> t, index |-> 1 - 1, from |-> i] \in Built(i, t)
  BY <1>4 DEF Built
<1>6. QED
  BY <1>3, <1>5

(* Of the chunks of a file, those of one of its titles are that title's.   *)
LEMMA BuiltAllFacts ==
    ASSUME file \in [Ingests -> Files], NEW i \in Ingests
    PROVE  /\ BuiltAll(i) \subseteq Chunks
           /\ \A c \in BuiltAll(i) : c.title \in TitlesOf(i)
           /\ \A t \in TitlesOf(i) : Of(BuiltAll(i), t) = Built(i, t)
<1>1. \A c \in BuiltAll(i) : \E t \in TitlesOf(i) : c \in Built(i, t)
  BY DEF BuiltAll
<1>2. \A c \in BuiltAll(i) : c \in Chunks /\ c.title \in TitlesOf(i)
  BY <1>1, BuiltFacts, FileFacts
<1>3. ASSUME NEW t \in TitlesOf(i) PROVE Of(BuiltAll(i), t) = Built(i, t)
  <2>1. ASSUME NEW c \in BuiltAll(i), c.title = t PROVE c \in Built(i, t)
    BY <1>1, <2>1, BuiltFacts, FileFacts
  <2>2. ASSUME NEW c \in Built(i, t) PROVE c \in BuiltAll(i) /\ c.title = t
    BY <2>2, BuiltFacts, FileFacts DEF BuiltAll
  <2>3. QED
    BY <2>1, <2>2 DEF Of
<1>4. QED
  BY <1>2, <1>3

-----------------------------------------------------------------------------
(* An empty database, and what one run has left, are whole.                *)
LEMMA InitCorpusInv == CorpusInit => CorpusInv
<1> SUFFICES ASSUME CorpusInit PROVE CorpusInv
  OBVIOUS
<1> PICK first \in Ingests \cup {Nobody} :
       LET loaded == IF first = Nobody THEN {} ELSE TitlesOf(first)
       IN  /\ names = [t \in Titles |-> IF t \in loaded THEN first ELSE Nobody]
           /\ chunks = IF first = Nobody THEN {} ELSE BuiltAll(first)
           /\ phase = [i \in Ingests |-> IF i = first THEN "done" ELSE "idle"]
  BY DEF CorpusInit
<1>1. /\ file \in [Ingests -> Files]
      /\ phase \in [Ingests -> Phases]
      /\ upserted \in [Ingests -> Nat]
      /\ lock \in [Titles -> Ingests \cup {Nobody}]
      /\ gone \in [Ingests -> SUBSET Chunks]
      /\ added \in [Ingests -> SUBSET Chunks]
      /\ names \in [Titles -> Ingests \cup {Nobody}]
  BY DEF CorpusInit, Phases
<1>2. /\ \A i \in Ingests : phase[i] \in {"idle", "done"} /\ upserted[i] = 0
      /\ \A t \in Titles : lock[t] = Nobody
  BY DEF CorpusInit
<1>3. LocksHeld /\ PendingWhole
  BY <1>2, CorpusAssumption DEF LocksHeld, PendingWhole
<1>4. CASE first = Nobody
  <2>1. chunks = {} /\ \A t \in Titles : names[t] = Nobody
    BY <1>4
  <2>2. CorpusTypeOK
    BY <1>1, <2>1 DEF CorpusTypeOK
  <2>3. CorpusWhole
    BY <2>1 DEF CorpusWhole, Of
  <2>4. QED
    BY <1>3, <2>2, <2>3 DEF CorpusInv
<1>5. CASE first # Nobody
  <2>1. /\ first \in Ingests
        /\ chunks = BuiltAll(first)
        /\ \A t \in Titles : names[t] = IF t \in TitlesOf(first) THEN first ELSE Nobody
    BY <1>5
  <2>2. \A c \in chunks : c \in Chunks
    BY <1>1, <2>1, BuiltAllFacts
  <2>3. CorpusTypeOK
    BY <1>1, <2>2 DEF CorpusTypeOK
  <2>4. ASSUME NEW t \in Titles
        PROVE  Of(chunks, t) = IF names[t] = Nobody THEN {} ELSE Built(names[t], t)
    <3>1. CASE t \in TitlesOf(first)
      BY <1>1, <1>5, <2>1, <3>1, BuiltAllFacts
    <3>2. CASE t \notin TitlesOf(first)
      <4>1. Of(chunks, t) = {}
        BY <1>1, <2>1, <3>2, BuiltAllFacts DEF Of
      <4>2. QED
        BY <2>1, <3>2, <4>1
    <3>3. QED
      BY <3>1, <3>2
  <2>5. QED
    BY <1>3, <2>3, <2>4 DEF CorpusInv, CorpusWhole
<1>6. QED
  BY <1>4, <1>5

-----------------------------------------------------------------------------
(* Every step keeps the types.                                             *)
LEMMA TypeStep == CorpusTypeOK /\ [CorpusNext]_corpusVars => CorpusTypeOK'
<1> SUFFICES ASSUME CorpusTypeOK, [CorpusNext]_corpusVars PROVE CorpusTypeOK'
  OBVIOUS
<1> USE DEF CorpusTypeOK, Phases, Enter, Release
<1>1. ASSUME NEW i \in Ingests, Start(i) PROVE CorpusTypeOK'
  BY <1>1 DEF Start, tables
<1>2. ASSUME NEW i \in Ingests, UpsertTitle(i) PROVE CorpusTypeOK'
  <2> DEFINE t == file[i].titles[upserted[i] + 1]
  <2>1. lock' = [lock EXCEPT ![t] = i] /\ upserted' = [upserted EXCEPT ![i] = @ + 1]
    BY <1>2 DEF UpsertTitle
  <2>2. lock' \in [Titles -> Ingests \cup {Nobody}]
    BY <2>1
  <2>3. upserted' \in [Ingests -> Nat]
    BY <2>1
  <2>4. UNCHANGED <<names, chunks, phase, file, gone, added>>
    BY <1>2 DEF UpsertTitle, tables
  <2>5. QED
    BY <2>2, <2>3, <2>4
<1>3. ASSUME NEW i \in Ingests, DeleteChunks(i) PROVE CorpusTypeOK'
  <2>1. {c \in chunks : c.title \in TitlesOf(i)} \in SUBSET Chunks
    OBVIOUS
  <2>2. QED
    BY <1>3, <2>1 DEF DeleteChunks, tables
<1>4. ASSUME NEW i \in Ingests, InsertChunks(i) PROVE CorpusTypeOK'
  BY <1>4, BuiltAllFacts DEF InsertChunks, tables
<1>5. ASSUME NEW i \in Ingests, CommitIngest(i) PROVE CorpusTypeOK'
  BY <1>5 DEF CommitIngest
<1>6. ASSUME NEW i \in Ingests, IngestFails(i) PROVE CorpusTypeOK'
  BY <1>6 DEF IngestFails, tables
<1>7. CASE UNCHANGED corpusVars
  BY <1>7 DEF corpusVars, tables, transaction
<1>8. QED
  BY <1>1, <1>2, <1>3, <1>4, <1>5, <1>6, <1>7 DEF CorpusNext, Ingest

(* A file is never another file, so what it makes is always the same.      *)
LEMMA FileFixed ==
    ASSUME [CorpusNext]_corpusVars
    PROVE  /\ file' = file
           /\ \A i \in Ingests : TitlesOf(i)' = TitlesOf(i) /\ BuiltAll(i)' = BuiltAll(i)
           /\ \A i \in Ingests, t \in Titles : Built(i, t)' = Built(i, t)
<1>1. file' = file
  BY DEF CorpusNext, Ingest, Start, UpsertTitle, DeleteChunks, InsertChunks,
         CommitIngest, IngestFails, corpusVars, transaction
<1>2. QED
  BY <1>1 DEF TitlesOf, BuiltAll, Built, Pieces

-----------------------------------------------------------------------------
(* Each step of a run keeps the locks.                                     *)
LEMMA LocksStep ==
    CorpusTypeOK /\ LocksHeld /\ [CorpusNext]_corpusVars => LocksHeld'
<1> SUFFICES ASSUME CorpusTypeOK, LocksHeld, [CorpusNext]_corpusVars
             PROVE  LocksHeld'
  OBVIOUS
<1>0. /\ \A i \in Ingests : TitlesOf(i)' = TitlesOf(i)
      /\ file' = file
      /\ \A i \in Ingests :
            Len(file[i].titles) \in Nat /\ upserted[i] \in Nat /\ i # Nobody
      /\ phase \in [Ingests -> Phases] /\ upserted \in [Ingests -> Nat]
      /\ lock \in [Titles -> Ingests \cup {Nobody}]
  BY FileFixed, FileFacts, CorpusAssumption DEF CorpusTypeOK
<1>1. ASSUME NEW r \in Ingests, Start(r) PROVE LocksHeld'
  <2>1. phase' = [phase EXCEPT ![r] = "upsert"] /\ phase[r] = "idle" /\ UNCHANGED <<upserted, lock>>
    BY <1>1 DEF Start, Enter
  <2>2. upserted[r] = 0
    BY <2>1 DEF LocksHeld
  <2>3. QED
    BY <1>0, <2>1, <2>2 DEF LocksHeld
<1>2. ASSUME NEW r \in Ingests, UpsertTitle(r) PROVE LocksHeld'
  <2> DEFINE t == file[r].titles[upserted[r] + 1]
  <2>1. /\ lock' = [lock EXCEPT ![t] = r] /\ lock[t] \in {Nobody, r}
        /\ upserted' = [upserted EXCEPT ![r] = @ + 1]
        /\ phase[r] = "upsert" /\ upserted[r] < Len(file[r].titles)
        /\ phase' = phase
    BY <1>2 DEF UpsertTitle
  <2>2. upserted[r] + 1 \in DOMAIN file[r].titles
    BY <1>0, <2>1, FileFacts DEF CorpusTypeOK
  <2>3. t \in TitlesOf(r) /\ t \in Titles
    BY <2>2, FileFacts DEF TitlesOf, CorpusTypeOK
  <2>4. lock'[t] = r /\ \A u \in Titles : u # t => lock'[u] = lock[u]
    BY <1>0, <2>1, <2>3
  <2>5. \A u \in Titles, i \in Ingests : lock[u] = i => lock'[u] = i
    BY <1>0, <2>1, <2>4
  <2>6. ASSUME NEW i \in Ingests, phase[i] = "upsert"
        PROVE  /\ upserted'[i] <= Len(file[i].titles)
               /\ \A n \in 1..upserted'[i] : lock'[file[i].titles[n]] = i
    <3>1. /\ upserted[i] <= Len(file[i].titles)
          /\ \A n \in 1..upserted[i] : lock[file[i].titles[n]] = i
      BY <2>6 DEF LocksHeld
    <3>2. \A n \in 1..Len(file[i].titles) : file[i].titles[n] \in Titles
      BY FileFacts DEF CorpusTypeOK
    <3>3. \A n \in 1..upserted[i] : lock'[file[i].titles[n]] = i
      <4> SUFFICES ASSUME NEW n \in 1..upserted[i] PROVE lock'[file[i].titles[n]] = i
        OBVIOUS
      <4>1. n \in 1..Len(file[i].titles)
        BY <1>0, <3>1
      <4>2. QED
        BY <2>5, <3>1, <3>2, <4>1
    <3>4. CASE i = r
      <4>1. upserted'[i] = upserted[i] + 1
        BY <1>0, <2>1, <3>4
      <4>2. \A n \in 1..upserted'[i] : n \in 1..upserted[i] \/ n = upserted[i] + 1
        BY <1>0, <4>1
      <4>3. lock'[file[i].titles[upserted[i] + 1]] = i
        BY <2>4, <3>4
      <4>4. \A n \in 1..upserted'[i] : lock'[file[i].titles[n]] = i
        BY <3>3, <4>2, <4>3
      <4>5. upserted'[i] <= Len(file[i].titles)
        BY <1>0, <2>1, <3>4, <4>1
      <4>6. QED
        BY <4>4, <4>5
    <3>5. CASE i # r
      <4>1. upserted'[i] = upserted[i]
        BY <1>0, <2>1, <3>5
      <4>2. QED
        BY <3>1, <3>3, <4>1
    <3>6. QED
      BY <3>4, <3>5
  <2>7. ASSUME NEW i \in Ingests, phase[i] \in {"insert", "commit"}, NEW u \in TitlesOf(i)
        PROVE  lock'[u] = i
    BY <2>5, <2>7, FileFacts DEF LocksHeld, CorpusTypeOK
  <2>8. ASSUME NEW i \in Ingests, phase[i] = "idle" PROVE upserted'[i] = 0
    BY <1>0, <2>1, <2>8 DEF LocksHeld
  <2>9. ASSUME NEW u \in Titles, NEW i \in Ingests, lock'[u] = i PROVE u \in TitlesOf(i)
    BY <2>3, <2>4, <2>9 DEF LocksHeld
  <2>10. QED
    BY <1>0, <2>1, <2>6, <2>7, <2>8, <2>9 DEF LocksHeld
<1>3. ASSUME NEW r \in Ingests, DeleteChunks(r) PROVE LocksHeld'
  <2>1. /\ phase' = [phase EXCEPT ![r] = "insert"] /\ phase[r] = "upsert"
        /\ upserted[r] = Len(file[r].titles) /\ UNCHANGED <<upserted, lock>>
    BY <1>3 DEF DeleteChunks, Enter
  <2>2. \A n \in 1..Len(file[r].titles) : lock[file[r].titles[n]] = r
    BY <2>1 DEF LocksHeld
  <2>3. \A u \in TitlesOf(r) : lock[u] = r
    BY <2>2, FileFacts DEF TitlesOf, CorpusTypeOK
  <2>4. QED
    BY <1>0, <2>1, <2>3 DEF LocksHeld
<1>4. ASSUME NEW r \in Ingests, InsertChunks(r) PROVE LocksHeld'
  <2>1. /\ phase' = [phase EXCEPT ![r] = "commit"] /\ phase[r] = "insert"
        /\ UNCHANGED <<upserted, lock>>
    BY <1>4 DEF InsertChunks, Enter
  <2>2. QED
    BY <1>0, <2>1 DEF LocksHeld
<1>5. ASSUME NEW r \in Ingests, NEW over \in {"done", "idle"},
             phase' = [phase EXCEPT ![r] = over],
             upserted' = [upserted EXCEPT ![r] = 0],
             Release(r)
      PROVE  LocksHeld'
  <2>1. \A u \in Titles : lock'[u] = IF lock[u] = r THEN Nobody ELSE lock[u]
    BY <1>5 DEF Release
  <2>2. \A u \in Titles, i \in Ingests : i # r => (lock'[u] = i <=> lock[u] = i)
    BY <1>0, <2>1
  <2>3. \A u \in Titles : lock'[u] # r
    BY <1>0, <2>1
  <2>4. /\ phase'[r] = over /\ upserted'[r] = 0
        /\ \A i \in Ingests : i # r => phase'[i] = phase[i] /\ upserted'[i] = upserted[i]
    BY <1>0, <1>5
  <2>5. ASSUME NEW i \in Ingests, i # r, phase[i] = "upsert"
        PROVE  /\ upserted[i] <= Len(file[i].titles)
               /\ \A n \in 1..upserted[i] : lock'[file[i].titles[n]] = i
    <3>1. /\ upserted[i] <= Len(file[i].titles)
          /\ \A n \in 1..upserted[i] : lock[file[i].titles[n]] = i
      BY <2>5 DEF LocksHeld
    <3>2. \A n \in 1..upserted[i] : file[i].titles[n] \in Titles
      BY <1>0, <3>1, FileFacts DEF CorpusTypeOK
    <3>3. QED
      BY <2>2, <2>5, <3>1, <3>2
  <2>6. ASSUME NEW i \in Ingests, i # r, phase[i] \in {"insert", "commit"}, NEW u \in TitlesOf(i)
        PROVE  lock'[u] = i
    BY <2>2, <2>6, FileFacts DEF LocksHeld, CorpusTypeOK
  <2>7. ASSUME NEW u \in Titles, NEW i \in Ingests, lock'[u] = i PROVE u \in TitlesOf(i)
    BY <2>2, <2>3, <2>7 DEF LocksHeld
  <2>8. \A i \in Ingests : i # r /\ phase[i] = "idle" => upserted[i] = 0
    BY DEF LocksHeld
  <2>9. QED
    BY <1>0, <2>4, <2>5, <2>6, <2>7, <2>8 DEF LocksHeld
<1>6. ASSUME NEW r \in Ingests, CommitIngest(r) PROVE LocksHeld'
  BY <1>5, <1>6 DEF CommitIngest, Enter
<1>7. ASSUME NEW r \in Ingests, IngestFails(r) PROVE LocksHeld'
  BY <1>5, <1>7 DEF IngestFails, Enter
<1>8. CASE UNCHANGED corpusVars
  BY <1>0, <1>8 DEF LocksHeld, corpusVars, transaction
<1>9. QED
  BY <1>1, <1>2, <1>3, <1>4, <1>6, <1>7, <1>8 DEF CorpusNext, Ingest

-----------------------------------------------------------------------------
(* Two runs about to write have no title in common.                        *)
LEMMA Disjoint ==
    ASSUME CorpusTypeOK, LocksHeld,
           NEW i \in Ingests, NEW j \in Ingests, i # j,
           phase[i] \in {"insert", "commit"}, phase[j] \in {"insert", "commit"}
    PROVE  TitlesOf(i) \cap TitlesOf(j) = {}
  BY DEF LocksHeld

(* A commit replaces the chunks of its titles by what its file makes of    *)
(* them, takes their rows, and touches no other title.                     *)
LEMMA CommitReplaces ==
    ASSUME CorpusInv, NEW r \in Ingests, CommitIngest(r)
    PROVE  /\ \A t \in TitlesOf(r) : Of(chunks', t) = Built(r, t) /\ names'[t] = r
           /\ \A t \in Titles \ TitlesOf(r) :
                 Of(chunks', t) = Of(chunks, t) /\ names'[t] = names[t]
           /\ \A t \in TitlesOf(r) : lock[t] = r
<1> USE DEF CorpusInv
<1>1. /\ chunks' = (chunks \ gone[r]) \cup added[r]
      /\ \A t \in Titles : names'[t] = IF lock[t] = r THEN r ELSE names[t]
      /\ phase[r] = "commit"
  BY DEF CommitIngest
<1>2. /\ gone[r] = {c \in chunks : c.title \in TitlesOf(r)}
      /\ added[r] = BuiltAll(r)
  BY <1>1 DEF PendingWhole
<1>3. file \in [Ingests -> Files]
  BY DEF CorpusTypeOK
<1>4. \A t \in Titles : lock[t] = r <=> t \in TitlesOf(r)
  BY <1>1, <1>3, FileFacts DEF LocksHeld
<1>5. ASSUME NEW t \in TitlesOf(r)
      PROVE  Of(chunks', t) = Built(r, t) /\ names'[t] = r
  <2>1. Of(chunks \ gone[r], t) = {}
    BY <1>2 DEF Of
  <2>2. Of(chunks', t) = Of(BuiltAll(r), t)
    BY <1>1, <1>2, <2>1 DEF Of
  <2>3. QED
    BY <1>1, <1>3, <1>4, <2>2, BuiltAllFacts, FileFacts
<1>6. ASSUME NEW t \in Titles \ TitlesOf(r)
      PROVE  Of(chunks', t) = Of(chunks, t) /\ names'[t] = names[t]
  <2>1. Of(BuiltAll(r), t) = {}
    BY <1>3, BuiltAllFacts DEF Of
  <2>2. Of(chunks', t) = Of(chunks, t)
    BY <1>1, <1>2, <2>1 DEF Of
  <2>3. QED
    BY <1>1, <1>4, <2>2
<1>7. QED
  BY <1>3, <1>4, <1>5, <1>6, FileFacts

(* The committed tables change with a commit only.                         *)
LEMMA OnlyCommits ==
    ASSUME [CorpusNext]_corpusVars
    PROVE  (\E r \in Ingests : CommitIngest(r)) \/ (names' = names /\ chunks' = chunks)
  BY DEF CorpusNext, Ingest, Start, UpsertTitle, DeleteChunks, InsertChunks,
         IngestFails, corpusVars, tables

(* A commit gives each of its titles the pieces and the row of one run.    *)
LEMMA WholeStep == CorpusInv /\ [CorpusNext]_corpusVars => CorpusWhole'
<1> SUFFICES ASSUME CorpusInv, [CorpusNext]_corpusVars PROVE CorpusWhole'
  OBVIOUS
<1>1. file' = file
  BY FileFixed
<1>2. CASE names' = names /\ chunks' = chunks
  BY <1>1, <1>2 DEF CorpusInv, CorpusWhole, Of, Built, Pieces
<1>3. ASSUME NEW r \in Ingests, CommitIngest(r) PROVE CorpusWhole'
  <2>1. ASSUME NEW t \in Titles
        PROVE  Of(chunks', t) = IF names'[t] = Nobody THEN {} ELSE Built(names'[t], t)
    <3>1. CASE t \in TitlesOf(r)
      BY <1>3, <3>1, CommitReplaces, CorpusAssumption
    <3>2. CASE t \notin TitlesOf(r)
      BY <1>3, <3>2, CommitReplaces DEF CorpusInv, CorpusWhole
    <3>3. QED
      BY <3>1, <3>2
  <2>2. QED
    BY <1>1, <2>1 DEF CorpusWhole, Of, Built, Pieces
<1>4. QED
  BY <1>2, <1>3, OnlyCommits

(* A commit cannot change the chunks another run has marked for deletion:  *)
(* it would need the same locks.                                           *)
LEMMA PendingStep == CorpusInv /\ [CorpusNext]_corpusVars => PendingWhole'
<1> SUFFICES ASSUME CorpusInv, [CorpusNext]_corpusVars PROVE PendingWhole'
  OBVIOUS
<1>0. /\ \A i \in Ingests : TitlesOf(i)' = TitlesOf(i) /\ BuiltAll(i)' = BuiltAll(i)
      /\ phase \in [Ingests -> Phases]
      /\ gone \in [Ingests -> SUBSET Chunks] /\ added \in [Ingests -> SUBSET Chunks]
      /\ \A i \in Ingests : phase[i] \in {"insert", "commit"} =>
            gone[i] = {c \in chunks : c.title \in TitlesOf(i)}
      /\ \A i \in Ingests : phase[i] = "commit" => added[i] = BuiltAll(i)
  BY FileFixed DEF CorpusInv, CorpusTypeOK, PendingWhole
<1>1. ASSUME NEW r \in Ingests, Start(r) PROVE PendingWhole'
  BY <1>0, <1>1 DEF PendingWhole, Start, Enter, tables
<1>2. ASSUME NEW r \in Ingests, UpsertTitle(r) PROVE PendingWhole'
  BY <1>0, <1>2 DEF PendingWhole, UpsertTitle, tables
<1>3. ASSUME NEW r \in Ingests, DeleteChunks(r) PROVE PendingWhole'
  BY <1>0, <1>3 DEF PendingWhole, DeleteChunks, Enter, tables
<1>4. ASSUME NEW r \in Ingests, InsertChunks(r) PROVE PendingWhole'
  BY <1>0, <1>4 DEF PendingWhole, InsertChunks, Enter, tables
<1>5. ASSUME NEW r \in Ingests, CommitIngest(r) PROVE PendingWhole'
  <2>1. /\ phase' = [phase EXCEPT ![r] = "done"] /\ phase[r] = "commit"
        /\ chunks' = (chunks \ gone[r]) \cup added[r]
        /\ \A i \in Ingests : i # r => gone'[i] = gone[i] /\ added'[i] = added[i]
    BY <1>0, <1>5 DEF CommitIngest, Enter
  <2>2. /\ phase'[r] = "done"
        /\ \A i \in Ingests : i # r => phase'[i] = phase[i]
    BY <1>0, <2>1
  <2>3. ASSUME NEW i \in Ingests, i # r, phase[i] \in {"insert", "commit"}
        PROVE  gone[i] = {c \in chunks' : c.title \in TitlesOf(i)}
    <3>1. TitlesOf(i) \cap TitlesOf(r) = {}
      BY <2>1, <2>3, Disjoint DEF CorpusInv
    <3>2. \A c \in gone[r] \cup added[r] : c.title \in TitlesOf(r)
      BY <1>0, <2>1, BuiltAllFacts DEF CorpusInv, CorpusTypeOK
    <3>3. QED
      BY <1>0, <2>1, <2>3, <3>1, <3>2
  <2>4. QED
    BY <1>0, <2>1, <2>2, <2>3 DEF PendingWhole
<1>6. ASSUME NEW r \in Ingests, IngestFails(r) PROVE PendingWhole'
  BY <1>0, <1>6 DEF PendingWhole, IngestFails, Enter, tables
<1>7. CASE UNCHANGED corpusVars
  BY <1>0, <1>7 DEF PendingWhole, corpusVars, tables, transaction
<1>8. QED
  BY <1>1, <1>2, <1>3, <1>4, <1>5, <1>6, <1>7 DEF CorpusNext, Ingest

(* The invariant is inductive.                                             *)
LEMMA InvStep == CorpusInv /\ [CorpusNext]_corpusVars => CorpusInv'
  BY TypeStep, LocksStep, PendingStep, WholeStep DEF CorpusInv

(* The corpus keeps its invariant, for any number of overlapping runs.     *)
THEOREM InvCorrect == CorpusSpec => []CorpusInv
  BY InitCorpusInv, InvStep, PTL DEF CorpusSpec

(* A title's chunks are exactly the pieces of the one run whose row it     *)
(* has, however the runs of ingest overlap, fail and are repeated.         *)
THEOREM WholeCorrect == CorpusSpec => []CorpusWhole
<1>1. CorpusInv => CorpusWhole
  BY DEF CorpusInv
<1>2. QED
  BY <1>1, InvCorrect, PTL

(* A commit leaves each of its titles at least the one piece of any text.  *)
LEMMA NeverEmptiedStep ==
    ASSUME CorpusInv, [CorpusNext]_corpusVars
    PROVE  \A t \in Titles : Of(chunks, t) # {} => Of(chunks', t) # {}
<1>1. CASE chunks' = chunks
  BY <1>1
<1>2. ASSUME NEW r \in Ingests, CommitIngest(r)
      PROVE  \A t \in Titles : Of(chunks, t) # {} => Of(chunks', t) # {}
  <2>1. file \in [Ingests -> Files]
    BY DEF CorpusInv, CorpusTypeOK
  <2>2. \A t \in Titles : Built(r, t) # {}
    BY <2>1, BuiltFacts
  <2>3. QED
    BY <1>2, <2>2, CommitReplaces
<1>3. QED
  BY <1>1, <1>2, OnlyCommits

(* No step of any run takes from the readers a title that has chunks.      *)
THEOREM EmptiedNever == CorpusSpec => NeverEmptied
<1>1. CorpusInv /\ [CorpusNext]_corpusVars =>
         [\A t \in Titles : Of(chunks, t) # {} => Of(chunks', t) # {}]_corpusVars
  BY NeverEmptiedStep
<1>2. QED
  BY <1>1, InvCorrect, PTL DEF CorpusSpec, NeverEmptied

-----------------------------------------------------------------------------
(* The request never writes the corpus: Retrieval's corpus is Corpus's.    *)
LEMMA CorpusSteps == [Next]_vars => [CorpusNext]_corpusVars
<1> SUFFICES ASSUME [Next]_vars PROVE [CorpusNext]_corpusVars
  OBVIOUS
<1>1. CASE Request
  BY <1>1 DEF Request, Embed, EmbedFails, LegAnswers, LegFails, LegRefused, Reranked,
              RerankFails, Fetch, FetchFails, Book
<1>2. CASE Reindex
  BY <1>2 DEF Reindex
<1>3. CASE UNCHANGED vars
  BY <1>3 DEF vars
<1>4. QED
  BY <1>1, <1>2, <1>3 DEF Next

(* Retrieval implements Corpus.                                            *)
THEOREM ImplementsCorpus == Spec => CorpusSpec
<1>1. Init => CorpusInit
  BY DEF Init
<1>2. QED
  BY <1>1, CorpusSteps, PTL DEF Spec, CorpusSpec

(* The corpus a request reads is whole at each of its statements.          *)
THEOREM CorpusStaysWhole == Spec => []CorpusWhole
  BY ImplementsCorpus, WholeCorrect, PTL

(* No title disappears under the request's eyes.                           *)
THEOREM TitlesStay == Spec => NeverEmptied
  BY ImplementsCorpus, EmptiedNever, PTL

-----------------------------------------------------------------------------
(* The session is broken only if a rollback has failed; a leg that is over *)
(* without an answer has failed, or was refused by a broken session; and   *)
(* what the request has come to can be told from what failed.              *)
Excused == hurt \cap {"rollback", "database"} # {}

SessionInv ==
    /\ DOMAIN hits = Legs
    /\ session = "broken" => "rollback" \in hurt
    /\ pc = "sparse" /\ ~hits["dense"].ok => "dense" \in hurt \/ "rollback" \in hurt
    /\ outcome = "unavailable" =>
          "embed" \in hurt \/ Legs \subseteq hurt \/ "rollback" \in hurt
    /\ status \in {0, 200} \/ Excused
    /\ pc = "done" => status \in {200, 500}
    /\ pc \notin {"book", "done"} => outcome = "none"

(* A request begins with a usable session and nothing to answer for.       *)
LEMMA InitSession == Init => SessionInv
  BY DEF Init, SessionInv, Legs

(* Each step accounts for what it breaks.                                  *)
LEMMA SessionStep == SessionInv /\ [Next]_vars => SessionInv'
<1> SUFFICES ASSUME SessionInv, [Next]_vars PROVE SessionInv'
  OBVIOUS
<1> USE DEF SessionInv, Excused, Legs
<1>1. CASE Embed
  BY <1>1 DEF Embed
<1>2. CASE EmbedFails
  BY <1>2 DEF EmbedFails, Hurt, Return
<1>3. ASSUME NEW leg \in Legs, LegAnswers(leg) PROVE SessionInv'
  <2>1. PICK found : AfterLeg(leg, [ok |-> TRUE, found |-> found])
    BY <1>3 DEF LegAnswers
  <2>2. pc = leg /\ UNCHANGED <<session, hurt>>
    BY <1>3 DEF LegAnswers
  <2>3. CASE leg = "dense"
    BY <2>1, <2>2, <2>3 DEF AfterLeg, AfterDense
  <2>4. CASE leg = "sparse"
    BY <2>1, <2>2, <2>4 DEF AfterLeg, AfterSparse, Return
  <2>5. QED
    BY <2>3, <2>4
<1>4. ASSUME NEW leg \in Legs, NEW failures,
             pc = leg,
             failures = hurt \/ failures = hurt \cup {leg},
             leg \in failures \/ session = "broken",
             Recover(failures),
             AfterLeg(leg, [ok |-> FALSE, found |-> << >>])
      PROVE  SessionInv'
  <2>1. /\ failures \subseteq hurt'
        /\ hurt \subseteq hurt'
        /\ session' = "broken" => "rollback" \in hurt'
        /\ leg \in hurt' \/ "rollback" \in hurt'
    BY <1>4 DEF Recover
  <2>2. CASE leg = "dense"
    BY <1>4, <2>1, <2>2 DEF AfterLeg, AfterDense
  <2>3. CASE leg = "sparse"
    BY <1>4, <2>1, <2>3 DEF AfterLeg, AfterSparse, Return
  <2>4. QED
    BY <2>2, <2>3
<1>5. ASSUME NEW leg \in Legs, LegFails(leg) PROVE SessionInv'
  BY <1>4, <1>5 DEF LegFails
<1>6. ASSUME NEW leg \in Legs, LegRefused(leg) PROVE SessionInv'
  BY <1>4, <1>6 DEF LegRefused
<1>7. CASE Reranked \/ RerankFails
  BY <1>7 DEF Reranked, RerankFails, Hurt
<1>8. CASE Fetch
  BY <1>8 DEF Fetch, Return
<1>9. CASE FetchFails
  BY <1>9 DEF FetchFails, Return, Hurt
<1>10. CASE Book
  BY <1>10 DEF Book, Hurt
<1>11. CASE Reindex
  BY <1>11 DEF Reindex
<1>12. CASE UNCHANGED vars
  BY <1>12 DEF vars, requestVars
<1>13. QED
  BY <1>1, <1>2, <1>3, <1>5, <1>6, <1>7, <1>8, <1>9, <1>10, <1>11, <1>12 DEF Next, Request

(* One failed leg costs the request no more than that leg's hits, as long  *)
(* as the rollback after it and the statements after that work.            *)
THEOREM LegFailuresAbsorbed == Spec => []LegFailureAbsorbed
<1>1. SessionInv => LegFailureAbsorbed
  BY DEF SessionInv, LegFailureAbsorbed, Excused
<1>2. QED
  BY <1>1, InitSession, SessionStep, PTL DEF Spec

-----------------------------------------------------------------------------
(* A set of naturals has a least member; what is shown by induction below  *)
(* is shown of the least counterexample.                                   *)
LEMMA LeastNat ==
  ASSUME NEW T \in SUBSET Nat, T # {}
  PROVE  \E n \in T : \A m \in T : n <= m
<1>1. PICK n \in T : \A m \in T : ~(<<m, n>> \in OpToRel(<, Nat))
  BY NatLessThanWellFounded, WFMin
<1>2. \A m \in T : <<m, n>> \in OpToRel(<, Nat) <=> m < n
  BY DEF OpToRel
<1>3. \A m \in T : m \in Nat /\ n \in Nat /\ ~(m < n)
  BY <1>1, <1>2
<1>4. \A m \in T : n <= m
  BY <1>3
<1>5. QED
  BY <1>4

(* SumFunction adds f[Pick(s)] to the sum over the rest of s.  That such a *)
(* function of the subsets exists for a finite domain has to be shown: it  *)
(* is built up to one cardinality after another.                           *)
Pick(s) == CHOOSE x \in s : TRUE

IsSum(g, f) ==
    g = [s \in SUBSET DOMAIN f |-> IF s = {} THEN 0 ELSE f[Pick(s)] + g[s \ {Pick(s)}]]

(* Such a function exists for every finite domain.                         *)
LEMMA SumExists ==
  ASSUME NEW f, IsFiniteSet(DOMAIN f)
  PROVE  \E g : IsSum(g, f)
<1> DEFINE S == DOMAIN f
           Value(g, s) == IF s = {} THEN 0 ELSE f[Pick(s)] + g[s \ {Pick(s)}]
           Upto(g, n) == \A s \in SUBSET S : Cardinality(s) <= n => g[s] = Value(g, s)
           T == {n \in Nat : ~ \E g : DOMAIN g = SUBSET S /\ Upto(g, n)}
<1>1. \A s \in SUBSET S : IsFiniteSet(s) /\ Cardinality(s) \in 0..Cardinality(S)
  BY FS_Subset, FS_CardinalityType
<1>2. \A s \in SUBSET S : s # {} =>
         /\ Pick(s) \in s
         /\ s \ {Pick(s)} \in SUBSET S
         /\ Cardinality(s \ {Pick(s)}) = Cardinality(s) - 1
  <2> TAKE s \in SUBSET S
  <2> HAVE s # {}
  <2>1. Pick(s) \in s
    BY DEF Pick
  <2>2. Cardinality(s \ {Pick(s)}) = Cardinality(s) - 1
    BY <1>1, <2>1, FS_RemoveElement
  <2>3. QED
    BY <2>1, <2>2
<1>3. T = {}
  <2> SUFFICES ASSUME T # {} PROVE FALSE
    OBVIOUS
  <2>1. T \in SUBSET Nat
    OBVIOUS
  <2>2. PICK n \in T : \A m \in T : n <= m
    <3> HIDE DEF T
    <3> QED
      BY <2>1, LeastNat
  <2>3. n \in Nat /\ ~ \E g : DOMAIN g = SUBSET S /\ Upto(g, n)
    OBVIOUS
  <2>4. CASE n = 0
    <3> DEFINE g == [s \in SUBSET S |-> 0]
    <3>1. \A s \in SUBSET S : Cardinality(s) <= n => s = {}
      BY <1>1, <2>4, FS_EmptySet
    <3>2. DOMAIN g = SUBSET S /\ Upto(g, n)
      BY <3>1
    <3>3. QED
      <4> HIDE DEF g, Upto
      <4> QED
        BY <2>3, <3>2
  <2>5. CASE n > 0
    <3>1. n - 1 \in Nat /\ n - 1 \notin T
      <4> HIDE DEF T
      <4> QED
        BY <2>2, <2>3, <2>5
    <3>2. PICK g : DOMAIN g = SUBSET S /\ Upto(g, n - 1)
      BY <3>1
    <3> DEFINE h == [s \in SUBSET S |-> Value(g, s)]
    <3>3. DOMAIN h = SUBSET S
      OBVIOUS
    <3>4. ASSUME NEW s \in SUBSET S, Cardinality(s) <= n PROVE h[s] = Value(h, s)
      <4>1. CASE s = {}
        BY <4>1
      <4>2. CASE s # {}
        <5> DEFINE t == s \ {Pick(s)}
        <5>1. t \in SUBSET S /\ Cardinality(t) <= n - 1
          <6>1. Cardinality(s) \in Nat /\ n \in Nat
            BY <1>1, <2>3
          <6>2. t \in SUBSET S /\ Cardinality(t) = Cardinality(s) - 1
            BY <1>2, <4>2
          <6>3. QED
            BY <3>4, <6>1, <6>2
        <5>2. g[t] = h[t]
          BY <3>2, <5>1
        <5>3. h[s] = f[Pick(s)] + g[t]
          BY <4>2
        <5>4. Value(h, s) = f[Pick(s)] + h[t]
          BY <4>2
        <5>5. QED
          <6> HIDE DEF h, t
          <6> QED
            BY <5>2, <5>3, <5>4
      <4>3. QED
        BY <4>1, <4>2
    <3>5. QED
      <4> HIDE DEF h, Value
      <4> QED
        BY <2>3, <3>3, <3>4
  <2>6. QED
    BY <2>3, <2>4, <2>5
<1>4. Cardinality(S) \in Nat
  BY FS_CardinalityType
<1>5. PICK g : DOMAIN g = SUBSET S /\ Upto(g, Cardinality(S))
  BY <1>3, <1>4
<1>6. \A s \in SUBSET S : g[s] = Value(g, s)
  <2>1. \A s \in SUBSET S : Cardinality(s) <= Cardinality(S)
    BY <1>1, <1>4
  <2>2. QED
    <3> HIDE DEF Value
    <3> QED
      BY <1>5, <2>1
<1>7. IsSum([s \in SUBSET S |-> g[s]], f)
  <2> DEFINE h == [s \in SUBSET S |-> g[s]]
  <2>1. \A s \in SUBSET S : h[s] = IF s = {} THEN 0 ELSE f[Pick(s)] + h[s \ {Pick(s)}]
    BY <1>6, <1>2
  <2>2. QED
    BY <2>1 DEF IsSum
<1>8. QED
  BY <1>7

(* A sum of finitely many integers is an integer.                          *)
LEMMA SumInt ==
  ASSUME NEW f, IsFiniteSet(DOMAIN f), \A x \in DOMAIN f : f[x] \in Int
  PROVE  SumFunction(f) \in Int
<1> DEFINE S == DOMAIN f
           g == CHOOSE g : IsSum(g, f)
           T == {n \in Nat : \E s \in SUBSET S : Cardinality(s) = n /\ g[s] \notin Int}
<1>1. SumFunction(f) = g[S]
  BY DEF SumFunction, SumFunctionOnSet, FoldFunctionOnSet, MapThenFoldSet, IsSum, Pick
<1>2. IsSum(g, f)
  BY SumExists
<1> HIDE DEF g
<1>3. \A s \in SUBSET S : g[s] = IF s = {} THEN 0 ELSE f[Pick(s)] + g[s \ {Pick(s)}]
  BY <1>2 DEF IsSum
<1>4. \A s \in SUBSET S : IsFiniteSet(s) /\ Cardinality(s) \in Nat
  BY FS_Subset, FS_CardinalityType
<1>5. T = {}
  <2> SUFFICES ASSUME T # {} PROVE FALSE
    OBVIOUS
  <2>1. PICK n \in T : \A m \in T : n <= m
    <3>1. T \in SUBSET Nat
      OBVIOUS
    <3> HIDE DEF T
    <3> QED
      BY <3>1, LeastNat
  <2>2. PICK s \in SUBSET S : Cardinality(s) = n /\ g[s] \notin Int
    OBVIOUS
  <2>3. s # {}
    <3>1. s = {} => g[s] = 0
      BY <1>3
    <3>2. QED
      BY <2>2, <3>1
  <2> DEFINE t == s \ {Pick(s)}
  <2>4. Pick(s) \in s
    BY <2>3 DEF Pick
  <2>5. t \in SUBSET S /\ Cardinality(t) = n - 1 /\ Cardinality(t) \in Nat
    BY <1>4, <2>2, <2>4, FS_RemoveElement
  <2>6. g[t] \in Int
    <3> HIDE DEF t
    <3> QED
      BY <2>1, <2>5
  <2>7. QED
    BY <1>3, <2>2, <2>3, <2>4, <2>6
<1>6. QED
  BY <1>1, <1>4, <1>5

(* Sorted puts each member of a finite set in one place: an order by ranks *)
(* is one of all members, as the rank in a strict total order tells them   *)
(* apart and leaves no place empty.                                        *)
LEMMA SortedBijective ==
  ASSUME NEW S, IsFiniteSet(S), NEW order,
         \A n \in S : <<n, n>> \notin order,
         \A l, m, n \in S : <<l, m>> \in order /\ <<m, n>> \in order => <<l, n>> \in order,
         \A m, n \in S : m = n \/ <<m, n>> \in order \/ <<n, m>> \in order
  PROVE  /\ Cardinality(S) \in Nat
         /\ Sorted(S, order) \in Bijection(1..Cardinality(S), S)
<1> DEFINE N == Cardinality(S)
           Below(n) == {m \in S : <<m, n>> \in order}
           rank == [n \in S |-> Cardinality(Below(n)) + 1]
           sorted == Sorted(S, order)
<1>1. N \in Nat
  BY FS_CardinalityType
<1>2. ASSUME NEW n \in S
      PROVE  IsFiniteSet(Below(n)) /\ Cardinality(Below(n)) \in 0..(N - 1)
  <2>1. Below(n) \in SUBSET S /\ n \notin Below(n)
    OBVIOUS
  <2>2. /\ IsFiniteSet(Below(n))
        /\ Cardinality(Below(n)) <= N
        /\ Cardinality(S) = Cardinality(Below(n)) => S = Below(n)
    <3> HIDE DEF Below
    <3> QED
      BY <2>1, FS_Subset
  <2>3. Cardinality(Below(n)) \in Nat
    BY <2>2, FS_CardinalityType
  <2>4. QED
    BY <1>1, <2>1, <2>2, <2>3
<1>3. ASSUME NEW m \in S, NEW n \in S, <<m, n>> \in order PROVE rank[m] < rank[n]
  <2>1. /\ Below(m) \in SUBSET Below(n)
        /\ m \in Below(n) /\ m \notin Below(m)
    BY <1>3
  <2>2. IsFiniteSet(Below(n)) /\ Cardinality(Below(n)) \in Nat /\ Cardinality(Below(m)) \in Nat
    BY <1>1, <1>2
  <2>3. /\ Cardinality(Below(m)) <= Cardinality(Below(n))
        /\ Cardinality(Below(n)) = Cardinality(Below(m)) => Below(n) = Below(m)
    <3> HIDE DEF Below
    <3> QED
      BY <2>1, <2>2, FS_Subset
  <2>4. Cardinality(Below(m)) < Cardinality(Below(n))
    BY <2>1, <2>2, <2>3
  <2>5. QED
    BY <2>2, <2>4
<1>4. rank \in [S -> 1..N]
  <2>1. ASSUME NEW n \in S PROVE Cardinality(Below(n)) + 1 \in 1..N
    <3> HIDE DEF Below, N
    <3> QED
      BY <1>1, <1>2
  <2>2. QED
    <3> HIDE DEF Below, N
    <3> QED
      BY <2>1
<1>5. rank \in Injection(S, 1..N)
  <2>1. ASSUME NEW m \in S, NEW n \in S, rank[m] = rank[n] PROVE m = n
    <3>1. rank[m] \in Int /\ rank[n] \in Int
      BY <1>1, <1>4
    <3>2. QED
      <4> HIDE DEF rank
      <4>1. CASE <<m, n>> \in order
        BY <2>1, <3>1, <1>3, <4>1
      <4>2. CASE <<n, m>> \in order
        BY <2>1, <3>1, <1>3, <4>2
      <4>3. QED
        BY <4>1, <4>2
  <2>2. QED
    <3> HIDE DEF rank
    <3> QED
      BY <1>4, <2>1 DEF Injection, IsInjective
<1>6. rank \in Surjection(S, 1..N)
  <2>1. IsFiniteSet(1..N) /\ Cardinality(1..N) = N
    BY <1>1, FS_Interval
  <2>2. QED
    <3> HIDE DEF rank
    <3> QED
      BY <1>5, <2>1, FS_Injection
<1>7. ASSUME NEW k \in 1..N PROVE sorted[k] \in S /\ rank[sorted[k]] = k
  <2>1. PICK n \in S : rank[n] = k
    <3> HIDE DEF rank
    <3> QED
      BY <1>6 DEF Surjection
  <2>2. Cardinality(Below(n)) = k - 1
    <3> HIDE DEF Below, N
    <3> QED
      BY <1>1, <1>2, <2>1
  <2>3. sorted[k] = CHOOSE m \in S : Cardinality(Below(m)) = k - 1
    BY DEF Sorted
  <2>4. sorted[k] \in S /\ Cardinality(Below(sorted[k])) = k - 1
    <3> HIDE DEF Below, sorted
    <3> QED
      BY <2>2, <2>3
  <2>5. QED
    <3> HIDE DEF sorted
    <3> QED
      BY <1>1, <2>4
<1>8. sorted \in [1..N -> S]
  <2>1. sorted = [k \in 1..N |-> CHOOSE n \in S : Cardinality(Below(n)) = k - 1]
    BY DEF Sorted
  <2>2. \A k \in 1..N : sorted[k] \in S
    BY <1>7
  <2>3. QED
    <3> HIDE DEF Below, N, sorted
    <3> QED
      BY <2>1, <2>2
<1>9. IsInjective(sorted)
  <2> HIDE DEF sorted, rank
  <2> QED
    BY <1>7, <1>8 DEF IsInjective
<1>10. \A n \in S : \E k \in 1..N : sorted[k] = n
  <2> HIDE DEF sorted, rank
  <2> QED
    BY <1>4, <1>5, <1>7 DEF Injection, IsInjective
<1>11. sorted \in Bijection(1..N, S)
  <2> HIDE DEF sorted, N
  <2> QED
    BY <1>1, <1>8, <1>9, <1>10 DEF Bijection, Injection, Surjection
<1>12. QED
  BY <1>1, <1>11

(* The first members of each kind, by position: sorted upwards they are in *)
(* the order of the list, no kind is among them twice and none is missing. *)
Firsts(L, kind) == {n \in 1..L : \A m \in 1..(n - 1) : kind[m] # kind[n]}

(* There are finitely many, sorting puts each in one place, and they stand *)
(* for every kind there is.                                                *)
LEMMA FirstsRight ==
  ASSUME NEW L \in Nat, NEW kind
  PROVE  LET firsts == Firsts(L, kind)
         IN  /\ Cardinality(firsts) \in Nat
             /\ Sorted(firsts, Ascending(firsts)) \in Bijection(1..Cardinality(firsts), firsts)
             /\ \A m, n \in firsts : kind[m] = kind[n] => m = n
             /\ \A n \in 1..L : \E m \in firsts : kind[m] = kind[n]
<1> DEFINE firsts == Firsts(L, kind)
<1> USE DEF Firsts
<1>1. IsFiniteSet(firsts)
  <2>1. firsts \in SUBSET (1..L) /\ IsFiniteSet(1..L)
    BY FS_Interval
  <2>2. QED
    BY <2>1, FS_Subset
<1>2. /\ Cardinality(firsts) \in Nat
      /\ Sorted(firsts, Ascending(firsts)) \in Bijection(1..Cardinality(firsts), firsts)
  <2> DEFINE order == Ascending(firsts)
  <2>1. /\ firsts \subseteq Int
        /\ \A m, n \in firsts : <<m, n>> \in order <=> m < n
    BY DEF Ascending
  <2>2. /\ \A n \in firsts : <<n, n>> \notin order
        /\ \A l, m, n \in firsts : <<l, m>> \in order /\ <<m, n>> \in order => <<l, n>> \in order
        /\ \A m, n \in firsts : m = n \/ <<m, n>> \in order \/ <<n, m>> \in order
    <3> HIDE DEF order
    <3> QED
      BY <2>1
  <2> HIDE DEF order
  <2>3. /\ Cardinality(firsts) \in Nat
        /\ Sorted(firsts, order) \in Bijection(1..Cardinality(firsts), firsts)
    BY <1>1, <2>2, SortedBijective
  <2>4. QED
    BY <2>3 DEF order
<1>3. ASSUME NEW m \in firsts, NEW n \in firsts, kind[m] = kind[n] PROVE m = n
  <2>1. m \in 1..L /\ n \in 1..L
    OBVIOUS
  <2>2. ~(m < n) /\ ~(n < m)
    BY <1>3, <2>1
  <2>3. QED
    BY <2>1, <2>2
<1>4. ASSUME NEW n \in 1..L PROVE \E m \in firsts : kind[m] = kind[n]
  <2> DEFINE T == {m \in 1..L : kind[m] = kind[n]}
  <2>1. T \subseteq Nat /\ T # {}
    OBVIOUS
  <2>2. PICK m \in T : \A l \in T : m <= l
    <3> HIDE DEF T
    <3> QED
      BY <2>1, LeastNat
  <2>3. \A l \in T : ~(l < m)
    BY <2>1, <2>2
  <2>4. \A l \in 1..(m - 1) : l \in 1..L /\ l < m
    OBVIOUS
  <2>5. QED
    BY <2>3, <2>4
<1>5. QED
  BY <1>2, <1>3, <1>4

(* The places FirstPer takes, one after another.                           *)
Places(L, kind) == Sorted(Firsts(L, kind), Ascending(Firsts(L, kind)))

(* They are places of the list, no two of a kind, and every kind has one.  *)
LEMMA PlacesRight ==
  ASSUME NEW L \in Nat, NEW kind
  PROVE  /\ Places(L, kind) \in Seq(1..L)
         /\ \A j, k \in DOMAIN Places(L, kind) :
               kind[Places(L, kind)[j]] = kind[Places(L, kind)[k]] => j = k
         /\ \A n \in 1..L : \E k \in DOMAIN Places(L, kind) :
               kind[Places(L, kind)[k]] = kind[n]
<1> DEFINE firsts == Firsts(L, kind)
           order == Sorted(firsts, Ascending(firsts))
           M == Cardinality(firsts)
<1>1. firsts \subseteq 1..L
  BY DEF Firsts
<1> HIDE DEF firsts
<1>2. /\ M \in Nat
      /\ order \in Bijection(1..M, firsts)
      /\ \A m, n \in firsts : kind[m] = kind[n] => m = n
      /\ \A n \in 1..L : \E m \in firsts : kind[m] = kind[n]
  BY FirstsRight DEF firsts
<1> HIDE DEF order, M
<1>3. /\ order \in [1..M -> firsts]
      /\ \A m, n \in 1..M : order[m] = order[n] => m = n
      /\ \A n \in firsts : \E k \in 1..M : order[k] = n
  BY <1>2 DEF Bijection, Injection, Surjection, IsInjective
<1>4. order \in Seq(1..L) /\ DOMAIN order = 1..M
  <2>1. order \in [1..M -> 1..L]
    BY <1>1, <1>3
  <2>2. QED
    BY <1>2, <2>1
<1>5. \A j, k \in 1..M : kind[order[j]] = kind[order[k]] => j = k
  BY <1>2, <1>3
<1>6. \A n \in 1..L : \E k \in 1..M : kind[order[k]] = kind[n]
  BY <1>2, <1>3
<1>7. QED
  BY <1>2, <1>4, <1>5, <1>6 DEF order, firsts, Places

(* _dedup_by_anime makes of any list one of its members in which no title  *)
(* appears twice and none is missing.                                      *)
OneEach(s) == \A m, n \in DOMAIN s : s[m].title = s[n].title => m = n

(* _dedup_by_anime keeps one chunk of each title and loses no title.       *)
LEMMA DedupRight ==
  ASSUME NEW s, NEW L \in Nat, DOMAIN s = 1..L
  PROVE  /\ DedupByAnime(s) \in Seq(ToSet(s))
         /\ OneEach(DedupByAnime(s))
         /\ Titled(DedupByAnime(s)) = Titled(s)
<1> DEFINE kind == [n \in 1..L |-> s[n].title]
           firsts == {n \in 1..L : \A m \in 1..(n - 1) : s[m].title # s[n].title}
           order == Sorted(firsts, Ascending(firsts))
           d == DedupByAnime(s)
<1>1. firsts = Firsts(L, kind)
  <2>1. ASSUME NEW n \in 1..L, NEW m \in 1..(n - 1)
        PROVE  (s[m].title # s[n].title) = (kind[m] # kind[n])
    OBVIOUS
  <2>2. QED
    <3> HIDE DEF kind
    <3> QED
      BY <2>1 DEF Firsts
<1>2. /\ order \in Seq(1..L)
      /\ \A j, k \in DOMAIN order : kind[order[j]] = kind[order[k]] => j = k
      /\ \A n \in 1..L : \E k \in DOMAIN order : kind[order[k]] = kind[n]
  <2>1. order = Places(L, kind)
    BY <1>1 DEF Places
  <2> HIDE DEF kind, order
  <2> DEFINE places == Places(L, kind)
  <2>2. /\ places \in Seq(1..L)
        /\ \A j, k \in DOMAIN places : kind[places[j]] = kind[places[k]] => j = k
        /\ \A n \in 1..L : \E k \in DOMAIN places : kind[places[k]] = kind[n]
    BY PlacesRight
  <2> HIDE DEF places
  <2>3. order = places
    BY <2>1 DEF places
  <2>4. QED
    BY <2>2, <2>3
<1>3. d = [k \in DOMAIN order |-> s[order[k]]]
  BY DEF DedupByAnime, FirstPer
<1>4. \A n \in 1..L : kind[n] = s[n].title
  OBVIOUS
<1> HIDE DEF kind, firsts, order, d
<1> DEFINE M == Len(order)
<1>5. M \in Nat /\ DOMAIN order = 1..M /\ \A k \in 1..M : order[k] \in 1..L
  <2>1. order \in Seq(1..L)
    BY <1>2
  <2>2. QED
    BY <2>1
<1> HIDE DEF M
<1>6. d \in [1..M -> ToSet(s)] /\ DOMAIN d = 1..M
  BY <1>3, <1>5 DEF ToSet
<1>7. \A k \in 1..M : order[k] \in 1..L /\ d[k].title = kind[order[k]]
  BY <1>3, <1>4, <1>5
<1>8. d \in Seq(ToSet(s))
  BY <1>5, <1>6
<1>9. OneEach(d)
  <2> SUFFICES ASSUME NEW j \in 1..M, NEW k \in 1..M, d[j].title = d[k].title
               PROVE  j = k
    BY <1>6 DEF OneEach
  <2>1. kind[order[j]] = kind[order[k]]
    BY <1>7
  <2>2. QED
    BY <1>2, <1>5, <2>1
<1>10. Titled(d) = Titled(s)
  <2>1. /\ Titled(s) = {kind[n] : n \in 1..L}
        /\ Titled(d) = {d[k].title : k \in 1..M}
    BY <1>4, <1>6 DEF Titled
  <2>2. ASSUME NEW n \in 1..L PROVE \E k \in 1..M : d[k].title = kind[n]
    <3>1. PICK k \in 1..M : kind[order[k]] = kind[n]
      BY <1>2, <1>5
    <3>2. QED
      BY <1>7, <3>1
  <2>3. ASSUME NEW k \in 1..M PROVE \E n \in 1..L : d[k].title = kind[n]
    BY <1>7
  <2>4. Titled(s) \subseteq Titled(d)
    BY <2>1, <2>2
  <2>5. Titled(d) \subseteq Titled(s)
    BY <2>1, <2>3
  <2>6. QED
    BY <2>4, <2>5
<1>11. QED
  BY <1>8, <1>9, <1>10 DEF d

-----------------------------------------------------------------------------
(* Min of two and of three integers, and a list cut to a length.           *)
LEMMA MinOfTwo ==
  ASSUME NEW a \in Int, NEW b \in Int
  PROVE  Min({a, b}) = IF a <= b THEN a ELSE b
<1> DEFINE m == IF a <= b THEN a ELSE b
<1>1. m \in {a, b} /\ \A y \in {a, b} : m <= y
  OBVIOUS
<1>2. \A x \in {a, b} : (\A y \in {a, b} : x <= y) => x = m
  OBVIOUS
<1> HIDE DEF m
<1>3. Min({a, b}) = m
  BY <1>1, <1>2 DEF Min
<1>4. QED
  BY <1>3 DEF m

(* The least of three is the least of one and the lesser of the others.    *)
LEMMA MinOfThree ==
  ASSUME NEW a \in Int, NEW b \in Int, NEW c \in Int
  PROVE  Min({a, b, c}) = Min({Min({a, b}), c})
<1> DEFINE m == Min({Min({a, b}), c})
<1>1. m \in {a, b, c} /\ \A y \in {a, b, c} : m <= y
  BY MinOfTwo
<1>2. \A x \in {a, b, c} : (\A y \in {a, b, c} : x <= y) => x = m
  BY <1>1
<1> HIDE DEF m
<1>3. Min({a, b, c}) = m
  BY <1>1, <1>2 DEF Min
<1>4. QED
  BY <1>3 DEF m

(* A cut list is the beginning of the list, as long as it may be.          *)
LEMMA TakeRight ==
  ASSUME NEW X, NEW s \in Seq(X), NEW k \in Nat
  PROVE  /\ Take(s, k) \in Seq(X)
         /\ Len(Take(s, k)) = Min({Len(s), k})
         /\ Len(Take(s, k)) \in 0..Len(s)
         /\ \A n \in DOMAIN Take(s, k) : n \in DOMAIN s /\ Take(s, k)[n] = s[n]
<1> DEFINE l == Min({Len(s), k})
<1>1. l \in 0..Len(s)
  BY MinOfTwo
<1>2. Take(s, k) = SubSeq(s, 1, l)
  BY DEF Take
<1> HIDE DEF l
<1>3. \A n \in 1..l : n \in 1..Len(s) /\ s[n] \in X
  BY <1>1
<1>4. SubSeq(s, 1, l) = [n \in 1..l |-> s[n]]
  BY <1>1
<1>5. /\ Take(s, k) \in [1..l -> X]
      /\ \A n \in 1..l : Take(s, k)[n] = s[n]
  BY <1>2, <1>3, <1>4
<1>6. /\ Take(s, k) \in Seq(X) /\ Len(Take(s, k)) = l
      /\ DOMAIN Take(s, k) = 1..l /\ DOMAIN s = 1..Len(s)
  BY <1>1, <1>5
<1>7. QED
  BY <1>1, <1>3, <1>5, <1>6 DEF l

-----------------------------------------------------------------------------
(* The score of a chunk is a number, so the fusion's sort is a total order *)
(* and reciprocal_rank_fusion returns a list of what the legs found.       *)
LEMMA ReciprocalsInt ==
  ASSUME NEW s, NEW L \in Nat, DOMAIN s = 1..L, NEW c
  PROVE  Reciprocals(s, c) \in Int
<1> DEFINE D == {m \in DOMAIN s : Key(s[m]) = Key(c)}
           f == [n \in D |-> One \div (RrfK + n)]
<1>1. D \in SUBSET (1..L) /\ IsFiniteSet(1..L)
  BY FS_Interval
<1>2. IsFiniteSet(D)
  <2> HIDE DEF D
  <2> QED
    BY <1>1, FS_Subset
<1>3. \A n \in D : One \div (RrfK + n) \in Int
  <2> HIDE DEF D
  <2>1. \A n \in D : n \in Nat /\ n > 0
    BY <1>1
  <2>2. One \in Nat /\ RrfK \in Nat
    BY RetrievalAssumption
  <2>3. QED
    BY <2>1, <2>2
<1>4. DOMAIN f = D /\ \A n \in DOMAIN f : f[n] \in Int
  <2> HIDE DEF D
  <2> QED
    BY <1>3
<1>5. SumFunction(f) \in Int
  <2> HIDE DEF f, D
  <2> QED
    BY <1>2, <1>4, SumInt
<1>6. QED
  BY <1>5 DEF Reciprocals

(* The fusion of two lists has members of both and no others.              *)
LEMMA FusedRight ==
  ASSUME NEW X, NEW dense \in Seq(X), NEW sparse \in Seq(X)
  PROVE  Fused(dense, sparse) \in Seq(X)
<1> DEFINE s == dense \o sparse
           L == Len(s)
           kind == [n \in 1..L |-> Key(s[n])]
           firsts == {n \in DOMAIN s : \A m \in 1..(n - 1) : Key(s[m]) # Key(s[n])}
           places == Sorted(firsts, Ascending(firsts))
           entries == FirstPer(s, Key)
<1>1. s \in Seq(X) /\ L \in Nat /\ DOMAIN s = 1..L
  OBVIOUS
<1> HIDE DEF s, L
<1>2. firsts = Firsts(L, kind)
  <2>1. ASSUME NEW n \in 1..L, NEW m \in 1..(n - 1)
        PROVE  (Key(s[m]) # Key(s[n])) = (kind[m] # kind[n])
    BY <1>1
  <2>2. QED
    <3> HIDE DEF kind
    <3> QED
      BY <1>1, <2>1 DEF Firsts
<1>3. places \in Seq(1..L)
  <2>1. places = Places(L, kind)
    BY <1>2 DEF Places
  <2> HIDE DEF kind, places
  <2>2. QED
    BY <1>1, <2>1, PlacesRight
<1>4. entries = [k \in DOMAIN places |-> s[places[k]]]
  BY DEF FirstPer
<1> HIDE DEF places
<1>5. entries \in Seq(X)
  <2>1. entries \in [1..Len(places) -> X]
    <3>1. DOMAIN places = 1..Len(places) /\ \A k \in DOMAIN places : places[k] \in 1..L
      BY <1>1, <1>3
    <3>2. QED
      BY <1>1, <1>4, <3>1
  <2>2. Len(places) \in Nat
    BY <1>3
  <2>3. QED
    BY <2>1, <2>2
<1> DEFINE M == Len(entries)
<1>6. M \in Nat /\ DOMAIN entries = 1..M /\ \A n \in 1..M : entries[n] \in X
  <2> HIDE DEF entries
  <2> QED
    BY <1>5
<1> DEFINE Score(n) == Reciprocals(dense, entries[n]) + Reciprocals(sparse, entries[n])
<1>7. \A n : Score(n) \in Int
  <2>1. ASSUME NEW c PROVE Reciprocals(dense, c) \in Int /\ Reciprocals(sparse, c) \in Int
    BY ReciprocalsInt
  <2>2. QED
    <3> HIDE DEF entries
    <3> QED
      BY <2>1
<1> DEFINE ByScore == {mn \in (DOMAIN entries) \X (DOMAIN entries) :
                          \/ Score(mn[1]) > Score(mn[2])
                          \/ Score(mn[1]) = Score(mn[2]) /\ mn[1] < mn[2]}
           order == Sorted(DOMAIN entries, ByScore)
<1>8. Fused(dense, sparse) = Take([n \in DOMAIN entries |-> entries[order[n]]], HybridK)
  BY DEF Fused, s
<1> HIDE DEF entries, M, Score
<1>9. \A m, n \in 1..M : <<m, n>> \in ByScore <=>
          (Score(m) > Score(n) \/ (Score(m) = Score(n) /\ m < n))
  <2> TAKE m, n \in 1..M
  <2>1. /\ <<m, n>> \in (DOMAIN entries) \X (DOMAIN entries)
        /\ <<m, n>>[1] = m /\ <<m, n>>[2] = n
    BY <1>6
  <2>2. Score(<<m, n>>[1]) = Score(m) /\ Score(<<m, n>>[2]) = Score(n)
    BY <2>1
  <2>3. <<m, n>> \in ByScore <=>
           \/ Score(<<m, n>>[1]) > Score(<<m, n>>[2])
           \/ Score(<<m, n>>[1]) = Score(<<m, n>>[2]) /\ <<m, n>>[1] < <<m, n>>[2]
    BY <2>1, Zenon
  <2> HIDE DEF ByScore
  <2>4. QED
    BY <2>1, <2>2, <2>3
<1> HIDE DEF ByScore
<1>10. /\ \A n \in 1..M : <<n, n>> \notin ByScore
       /\ \A l, m, n \in 1..M : <<l, m>> \in ByScore /\ <<m, n>> \in ByScore => <<l, n>> \in ByScore
       /\ \A m, n \in 1..M : m = n \/ <<m, n>> \in ByScore \/ <<n, m>> \in ByScore
  <2> DEFINE score == [n \in 1..M |-> Score(n)]
  <2>1. \A n \in 1..M : score[n] = Score(n) /\ score[n] \in Int
    BY <1>7
  <2>2. \A m, n \in 1..M : <<m, n>> \in ByScore <=>
            (score[m] > score[n] \/ (score[m] = score[n] /\ m < n))
    BY <1>9, <2>1
  <2> HIDE DEF score
  <2>3. \A n \in 1..M : <<n, n>> \notin ByScore
    BY <1>6, <2>1, <2>2
  <2>4. ASSUME NEW l \in 1..M, NEW m \in 1..M, NEW n \in 1..M,
               <<l, m>> \in ByScore, <<m, n>> \in ByScore
        PROVE  <<l, n>> \in ByScore
    <3>1. l \in Int /\ m \in Int /\ n \in Int
      BY <1>6
    <3>2. score[l] \in Int /\ score[m] \in Int /\ score[n] \in Int
      BY <2>1
    <3>3. QED
      BY <2>2, <2>4, <3>1, <3>2
  <2>5. ASSUME NEW m \in 1..M, NEW n \in 1..M
        PROVE  m = n \/ <<m, n>> \in ByScore \/ <<n, m>> \in ByScore
    <3>1. m \in Int /\ n \in Int /\ score[m] \in Int /\ score[n] \in Int
      BY <1>6, <2>1
    <3>2. /\ <<m, n>> \in ByScore <=> (score[m] > score[n] \/ (score[m] = score[n] /\ m < n))
          /\ <<n, m>> \in ByScore <=> (score[n] > score[m] \/ (score[n] = score[m] /\ n < m))
      BY <2>2
    <3>3. QED
      BY <3>1, <3>2
  <2>6. QED
    BY <2>3, <2>4, <2>5
<1>11. order \in [1..M -> 1..M]
  <2>1. IsFiniteSet(1..M) /\ Cardinality(1..M) = M
    BY <1>6, FS_Interval
  <2>2. Sorted(1..M, ByScore) \in Bijection(1..M, 1..M)
    BY <1>10, <2>1, SortedBijective
  <2>3. QED
    BY <1>6, <2>2 DEF Bijection, Injection
<1> HIDE DEF order
<1>12. [n \in DOMAIN entries |-> entries[order[n]]] \in Seq(X)
  <2>1. [n \in DOMAIN entries |-> entries[order[n]]] \in [1..M -> X]
    BY <1>6, <1>11
  <2>2. QED
    BY <1>6, <2>1
<1>13. HybridK \in Nat
  BY RetrievalAssumption
<1>14. QED
  BY <1>8, <1>12, <1>13, TakeRight

-----------------------------------------------------------------------------
(* A list of members of another in which each title appears once.          *)
LEMMA OneEachWithin ==
  ASSUME NEW X, NEW s \in Seq(X), OneEach(s),
         NEW p \in Seq(ToSet(s)), IsInjective(p)
  PROVE  p \in Seq(X) /\ OneEach(p)
<1>1. \A n \in DOMAIN p : \E m \in DOMAIN s : p[n] = s[m]
  BY DEF ToSet
<1>2. \A n \in DOMAIN p : p[n] \in X
  BY <1>1
<1>3. p \in Seq(X)
  BY <1>2
<1>4. OneEach(p)
  <2> SUFFICES ASSUME NEW i \in DOMAIN p, NEW j \in DOMAIN p, p[i].title = p[j].title
               PROVE  i = j
    BY DEF OneEach
  <2>1. PICK k \in DOMAIN s : p[i] = s[k]
    BY <1>1
  <2>2. PICK l \in DOMAIN s : p[j] = s[l]
    BY <1>1
  <2>3. p[i] = p[j]
    BY <2>1, <2>2 DEF OneEach
  <2>4. QED
    BY <2>3 DEF IsInjective
<1>5. QED
  BY <1>3, <1>4

(* As many titles, and as many chunks, as the list is long.                *)
LEMMA CountedByLength ==
  ASSUME NEW X, NEW s \in Seq(X), OneEach(s)
  PROVE  /\ Cardinality(Titled(s)) = Len(s)
         /\ IsFiniteSet(ToSet(s)) /\ Cardinality(ToSet(s)) = Len(s)
<1> DEFINE L == Len(s)
           titles == [n \in 1..L |-> s[n].title]
<1>1. L \in Nat /\ DOMAIN s = 1..L
  OBVIOUS
<1> HIDE DEF L
<1>2. IsFiniteSet(1..L) /\ Cardinality(1..L) = L
  BY <1>1, FS_Interval
<1>3. titles \in Bijection(1..L, Titled(s))
  BY <1>1 DEF Titled, OneEach, Bijection, Injection, Surjection, IsInjective
<1>4. s \in Bijection(1..L, ToSet(s))
  BY <1>1 DEF ToSet, OneEach, Bijection, Injection, Surjection, IsInjective
<1>5. Cardinality(Titled(s)) = L
  <2> HIDE DEF titles
  <2> QED
    BY <1>2, <1>3, FS_Bijection DEF ExistsBijection
<1>6. IsFiniteSet(ToSet(s)) /\ Cardinality(ToSet(s)) = L
  BY <1>2, <1>4, FS_Bijection DEF ExistsBijection
<1>7. QED
  BY <1>5, <1>6 DEF L

(* What a search may find is a list of rows, none of them twice.           *)
LEMMA ListsRight ==
  ASSUME NEW rows, NEW k \in Nat, NEW s \in Lists(rows, k)
  PROVE  s \in Seq(rows) /\ IsInjective(s)
<1>1. PICK m \in 0..k : s \in [1..m -> rows]
  BY DEF Lists, BoundedSeq, SeqOf
<1>2. QED
  BY <1>1 DEF Lists

(* What the reranker makes of the candidates.                              *)
LEMMA ScoredRight ==
  ASSUME NEW X, NEW s \in Seq(X), OneEach(s), NEW p \in Scored(s)
  PROVE  p \in Seq(X) /\ OneEach(p) /\ Len(p) = Len(s) /\ ToSet(p) \subseteq ToSet(s)
<1>1. p \in Lists(ToSet(s), Len(s)) /\ Len(p) = Len(s) /\ Len(s) \in Nat
  BY DEF Scored
<1>2. p \in Seq(ToSet(s)) /\ IsInjective(p)
  BY <1>1, ListsRight
<1>3. ToSet(p) \subseteq ToSet(s)
  <2>1. \A n \in DOMAIN p : p[n] \in ToSet(s)
    BY <1>2
  <2>2. ToSet(p) = {p[n] : n \in DOMAIN p}
    BY DEF ToSet
  <2>3. QED
    BY <2>1, <2>2
<1>4. QED
  BY <1>1, <1>2, <1>3, OneEachWithin

(* A cut list is the longer list's beginning.                              *)
LEMMA TakeOneEach ==
  ASSUME NEW X, NEW s \in Seq(X), OneEach(s), NEW k \in Nat
  PROVE  /\ Take(s, k) \in Seq(X) /\ OneEach(Take(s, k))
         /\ Len(Take(s, k)) = Min({Len(s), k})
         /\ ToSet(Take(s, k)) \subseteq ToSet(s)
BY TakeRight DEF OneEach, ToSet

(* And MMR, of the candidates that have an embedding.                      *)
LEMMA DiversifiedRight ==
  ASSUME NEW X, NEW s \in Seq(X), OneEach(s),
         NEW rows \in SUBSET ToSet(s), NEW p \in Diversified(rows)
  PROVE  /\ p \in Seq(X) /\ OneEach(p)
         /\ Cardinality(rows) \in 0..Len(s)
         /\ Len(p) = Min({Cardinality(rows), FinalK})
<1>1. FinalK \in Nat
  BY RetrievalAssumption
<1>2. p \in Lists(rows, FinalK) /\ Len(p) = Min({Cardinality(rows), FinalK})
  BY DEF Diversified
<1>3. p \in Seq(rows) /\ IsInjective(p)
  BY <1>1, <1>2, ListsRight
<1>4. p \in Seq(ToSet(s))
  BY <1>3
<1>5. IsFiniteSet(ToSet(s)) /\ Cardinality(ToSet(s)) = Len(s)
  BY CountedByLength
<1>6. Cardinality(rows) \in 0..Len(s)
  BY <1>5, FS_Subset, FS_CardinalityType
<1>7. QED
  BY <1>2, <1>3, <1>4, <1>6, OneEachWithin

-----------------------------------------------------------------------------
(* What the candidates are at each await: no title twice from the dedup    *)
(* on; as long as no re-index has come between, all still in the corpus;   *)
(* as many as there are titles among the fused chunks, until they are cut. *)
Offered == Cardinality(Titled(Fused(hits["dense"].found, hits["sparse"].found)))

FullIfQuiet ==
    (outcome \in {"candidates", "empty"} /\ ~changed) =>
        Len(ranked) = Min({Offered, RerankK, FinalK}) /\ dropped = 0

ListsInv ==
    /\ OneEach(ranked)
    /\ (pc \notin {"book", "done"} => dropped = 0)
    /\ (pc \in {"embed", "dense", "sparse"} => ranked = << >>)
    /\ ((pc = "sparse" /\ ~changed) => ToSet(hits["dense"].found) \subseteq chunks)
    /\ ((pc \in {"rerank", "fetch"} /\ ~changed) => ToSet(ranked) \subseteq chunks)
    /\ (pc = "rerank" => Len(ranked) = Offered)
    /\ (pc = "fetch" => Len(ranked) = Min({Offered, RerankK}))
    /\ FullIfQuiet

CandidatesInv == TypeOK /\ ListsInv

(* A request begins with no candidates.                                    *)
LEMMA InitCandidates == Init => CandidatesInv
<1> SUFFICES ASSUME Init PROVE CandidatesInv
  OBVIOUS
<1>1. CorpusTypeOK
  BY InitCorpusInv DEF Init, CorpusInv
<1>2. << >> \in Seq(Chunks) /\ OneEach(<< >>)
  BY DEF OneEach
<1>3. DOMAIN hits = Legs /\ \A leg \in Legs : hits[leg] \in [ok : BOOLEAN, found : Seq(Chunks)]
  <2>1. [ok |-> FALSE, found |-> << >>] \in [ok : BOOLEAN, found : Seq(Chunks)]
    BY <1>2
  <2>2. QED
    BY <2>1 DEF Init
<1>4. /\ pc = "embed" /\ session = "usable" /\ outcome = "none" /\ status = 0
      /\ ranked = << >> /\ hurt = {} /\ changed = FALSE /\ dropped = 0
  BY DEF Init
<1>5. TypeOK
  BY <1>1, <1>2, <1>3, <1>4 DEF TypeOK, PCs, Outcomes
<1>6. ListsInv
  BY <1>2 DEF Init, ListsInv, FullIfQuiet
<1>7. QED
  BY <1>5, <1>6 DEF CandidatesInv

(* The steps that leave the hits, the candidates and what they are         *)
(* compared with as they are.                                              *)
LEMMA ListsKept ==
  ASSUME ListsInv,
         UNCHANGED <<hits, ranked, dropped>>,
         ~changed' => (~changed /\ chunks' = chunks),
         pc' = pc \/ (pc = "embed" /\ pc' = "dense") \/ pc' \in {"book", "done"},
         outcome' = outcome \/ outcome' \in {"unavailable", "raised"}
  PROVE  ListsInv'
<1>1. Offered' = Offered
  BY DEF Offered
<1>2. FullIfQuiet'
  BY <1>1 DEF ListsInv, FullIfQuiet
<1>3. OneEach(ranked)'
  BY DEF ListsInv, OneEach
<1>4. QED
  BY <1>1, <1>2, <1>3 DEF ListsInv

(* A list in another set: Seq is told from the members of the list.        *)
LEMMA SeqWithin ==
  ASSUME NEW X, NEW Y, NEW s \in Seq(X), ToSet(s) \subseteq Y
  PROVE  s \in Seq(Y)
<1>1. \A n \in DOMAIN s : s[n] \in Y
  BY DEF ToSet
<1>2. QED
  BY <1>1

(* Both legs' hits fused, one chunk for each title: chunks of the legs, as *)
(* many as they have titles left after the cut to hybrid_k.                *)
LEMMA DedupFused ==
  ASSUME NEW X, NEW dense \in Seq(X), NEW sparse \in Seq(X)
  PROVE  LET s == DedupByAnime(Fused(dense, sparse))
         IN  /\ s \in Seq(X) /\ OneEach(s) /\ ToSet(s) \subseteq X
             /\ Len(s) = Cardinality(Titled(Fused(dense, sparse)))
<1> DEFINE f == Fused(dense, sparse)
           s == DedupByAnime(f)
<1>1. f \in Seq(X)
  BY FusedRight
<1> HIDE DEF f
<1>2. Len(f) \in Nat /\ DOMAIN f = 1..Len(f) /\ \A n \in DOMAIN f : f[n] \in X
  BY <1>1
<1>3. s \in Seq(ToSet(f)) /\ OneEach(s) /\ Titled(s) = Titled(f)
  BY <1>2, DedupRight
<1> HIDE DEF s
<1>4. \A n \in DOMAIN s : s[n] \in X
  <2>1. ToSet(f) \subseteq X
    BY <1>2 DEF ToSet
  <2>2. QED
    BY <1>3, <2>1
<1>5. s \in Seq(X) /\ ToSet(s) \subseteq X
  BY <1>3, <1>4 DEF ToSet
<1>6. Cardinality(Titled(s)) = Len(s)
  BY <1>3, <1>5, CountedByLength
<1>7. QED
  BY <1>3, <1>5, <1>6 DEF f, s

(* After the sparse leg: what the request has come to.                     *)
LEMMA AfterSparseRight ==
  ASSUME CandidatesInv, pc = "sparse",
         NEW h \in [ok : BOOLEAN, found : Seq(Chunks)], ToSet(h.found) \subseteq chunks,
         AfterSparse(h), UNCHANGED <<chunks, dropped>>
  PROVE  ranked' \in Seq(Chunks) /\ ListsInv'
<1> DEFINE dense == hits["dense"].found
           sparse == h.found
           s == DedupByAnime(Fused(dense, sparse))
<1>1. /\ dense \in Seq(Chunks) /\ sparse \in Seq(Chunks)
      /\ ranked = << >> /\ dropped = 0 /\ outcome = "none"
      /\ (~changed => ToSet(dense) \subseteq chunks)
  BY DEF CandidatesInv, TypeOK, ListsInv, Legs
<1>2. /\ hits'["dense"].found = dense /\ hits'["sparse"].found = sparse
      /\ changed' = changed
  BY DEF AfterSparse, CandidatesInv, TypeOK, Legs
<1>3. Offered' = Cardinality(Titled(Fused(dense, sparse)))
  BY <1>2 DEF Offered
<1>4. s \in Seq(Chunks) /\ OneEach(s) /\ Len(s) = Offered'
  BY <1>1, <1>3, DedupFused
<1>5. ~changed => ToSet(s) \subseteq chunks
  <2> SUFFICES ASSUME ~changed PROVE ToSet(s) \subseteq chunks
    OBVIOUS
  <2>1. dense \in Seq(chunks) /\ sparse \in Seq(chunks)
    BY <1>1, SeqWithin
  <2>2. QED
    <3> HIDE DEF dense, sparse
    <3> QED
      BY <2>1, DedupFused
<1> HIDE DEF s, dense, sparse
<1>6. OneEach(<< >>) /\ << >> \in Seq(Chunks)
  BY DEF OneEach
<1>7. CASE ~hits["dense"].ok /\ ~h.ok
  <2>1. pc' = "book" /\ outcome' = "unavailable" /\ ranked' = << >>
    BY <1>1, <1>7 DEF AfterSparse, Return
  <2>2. QED
    BY <1>1, <1>6, <2>1 DEF ListsInv, FullIfQuiet
<1>8. CASE ~(~hits["dense"].ok /\ ~h.ok) /\ s # << >>
  <2>1. pc' = "rerank" /\ outcome' = "none" /\ ranked' = s
    BY <1>1, <1>8 DEF AfterSparse, s, dense, sparse
  <2>2. QED
    BY <1>1, <1>2, <1>4, <1>5, <2>1 DEF ListsInv, FullIfQuiet
<1>9. CASE ~(~hits["dense"].ok /\ ~h.ok) /\ s = << >>
  <2>1. pc' = "book" /\ outcome' = "empty" /\ ranked' = << >>
    BY <1>1, <1>9 DEF AfterSparse, Return, s, dense, sparse
  <2>2. Offered' = 0
    BY <1>4, <1>9
  <2>3. Min({0, RerankK, FinalK}) = 0
    <3>1. 0 \in Int /\ RerankK \in Nat /\ FinalK \in Nat
      BY RetrievalAssumption
    <3>2. Min({0, RerankK}) = 0 /\ Min({0, FinalK}) = 0
      BY <3>1, MinOfTwo
    <3>3. QED
      BY <3>1, <3>2, MinOfThree
  <2>4. Len(ranked') = 0
    BY <2>1
  <2>5. QED
    BY <1>1, <1>6, <2>1, <2>2, <2>3, <2>4 DEF ListsInv, FullIfQuiet
<1>10. QED
  BY <1>7, <1>8, <1>9

(* A leg is over: with chunks the corpus has, or with none.                *)
LEMMA AfterLegRight ==
  ASSUME CandidatesInv, CorpusTypeOK', NEW leg \in Legs, pc = leg,
         NEW h \in [ok : BOOLEAN, found : Seq(Chunks)], ToSet(h.found) \subseteq chunks,
         AfterLeg(leg, h), UNCHANGED <<chunks, dropped>>,
         session' \in {"usable", "broken"}, hurt' \subseteq Faults
  PROVE  CandidatesInv'
<1>1. /\ DOMAIN hits' = Legs
      /\ \A l \in Legs : hits'[l] \in [ok : BOOLEAN, found : Seq(Chunks)]
      /\ hits'[leg] = h
  BY DEF AfterLeg, AfterDense, AfterSparse, CandidatesInv, TypeOK, Legs
<1>2. CASE leg = "dense"
  <2>1. /\ pc = "dense" /\ pc' = "sparse" /\ changed' = FALSE
        /\ UNCHANGED <<ranked, outcome, status, dropped>>
    BY <1>2 DEF AfterLeg, AfterDense
  <2>2. ranked = << >> /\ dropped = 0 /\ outcome = "none"
    BY <2>1 DEF CandidatesInv, TypeOK, ListsInv
  <2>3. TypeOK'
    BY <1>1, <2>1, <2>2 DEF CandidatesInv, TypeOK, PCs, Outcomes
  <2>4. OneEach(ranked)'
    BY <2>1 DEF CandidatesInv, ListsInv
  <2>5. ListsInv'
    BY <1>1, <1>2, <2>1, <2>2, <2>4 DEF ListsInv, FullIfQuiet
  <2>6. QED
    BY <2>3, <2>5 DEF CandidatesInv
<1>3. CASE leg = "sparse"
  <2>1. AfterSparse(h) /\ pc = "sparse"
    BY <1>3 DEF AfterLeg
  <2>2. ranked' \in Seq(Chunks) /\ ListsInv'
    BY <2>1, AfterSparseRight
  <2>3. /\ pc' \in PCs /\ outcome' \in Outcomes /\ status' \in {0, 200, 500}
        /\ changed' \in BOOLEAN
        /\ (pc' \in {"book", "done"} <=> outcome' # "none")
        /\ outcome' # "candidates"
        /\ (outcome' = "empty" => ranked' = << >>)
    BY <2>1 DEF AfterSparse, Return, CandidatesInv, TypeOK, PCs, Outcomes
  <2>4. TypeOK'
    BY <1>1, <2>2, <2>3 DEF CandidatesInv, TypeOK
  <2>5. QED
    BY <2>2, <2>4 DEF CandidatesInv
<1>4. QED
  BY <1>2, <1>3 DEF Legs

(* The cut to rerank_k, of the candidates in any order.                    *)
LEMMA RerankRight ==
  ASSUME CandidatesInv, Reranked \/ RerankFails, CorpusTypeOK'
  PROVE  CandidatesInv'
<1>1. /\ pc = "rerank" /\ pc' = "fetch"
      /\ UNCHANGED <<chunks, session, hits, outcome, status, changed, dropped>>
      /\ hurt' \subseteq Faults
  BY DEF Reranked, RerankFails, Hurt, CandidatesInv, TypeOK, corpusVars, tables
<1>2. ranked \in Seq(Chunks) /\ OneEach(ranked) /\ dropped = 0 /\ outcome = "none"
  BY <1>1 DEF CandidatesInv, TypeOK, ListsInv
<1>3. RerankK \in Nat
  BY RetrievalAssumption
<1>4. PICK s : /\ s \in Seq(Chunks) /\ OneEach(s) /\ Len(s) = Len(ranked)
               /\ ToSet(s) \subseteq ToSet(ranked)
               /\ ranked' = Take(s, RerankK)
  <2>1. CASE Reranked
    BY <1>2, <2>1, ScoredRight DEF Reranked
  <2>2. CASE RerankFails
    BY <1>2, <2>2 DEF RerankFails
  <2>3. QED
    BY <2>1, <2>2
<1>5. /\ ranked' \in Seq(Chunks) /\ OneEach(ranked')
      /\ Len(ranked') = Min({Len(ranked), RerankK})
      /\ ToSet(ranked') \subseteq ToSet(ranked)
  BY <1>3, <1>4, TakeOneEach
<1>6. Offered' = Offered
  BY <1>1 DEF Offered
<1>7. TypeOK'
  BY <1>1, <1>2, <1>5 DEF CandidatesInv, TypeOK, PCs
<1>8. ListsInv'
  BY <1>1, <1>2, <1>5, <1>6 DEF CandidatesInv, ListsInv, FullIfQuiet
<1>9. QED
  BY <1>7, <1>8 DEF CandidatesInv

(* MMR over the candidates that still have an embedding: all of them, as   *)
(* long as no re-index has come between.                                   *)
LEMMA FetchRight ==
  ASSUME CandidatesInv, Fetch, CorpusTypeOK'
  PROVE  CandidatesInv'
<1> DEFINE aligned == {c \in ToSet(ranked) : \E row \in chunks : Key(row) = Key(c)}
<1>1. /\ pc = "fetch" /\ pc' = "book"
      /\ ranked' \in Diversified(aligned)
      /\ dropped' = Len(ranked) - Cardinality(aligned)
      /\ outcome' = IF ranked' = << >> THEN "empty" ELSE "candidates"
      /\ UNCHANGED <<chunks, session, hits, status, changed, hurt>>
  BY DEF Fetch, Return, corpusVars, tables
<1>2. ranked \in Seq(Chunks) /\ OneEach(ranked) /\ Len(ranked) \in Nat
  BY DEF CandidatesInv, TypeOK, ListsInv
<1>3. aligned \in SUBSET ToSet(ranked)
  OBVIOUS
<1>4. ~changed => aligned = ToSet(ranked)
  BY <1>1 DEF CandidatesInv, ListsInv
<1> HIDE DEF aligned
<1>5. /\ ranked' \in Seq(Chunks) /\ OneEach(ranked')
      /\ Cardinality(aligned) \in 0..Len(ranked)
      /\ Len(ranked') = Min({Cardinality(aligned), FinalK})
  BY <1>1, <1>2, <1>3, DiversifiedRight
<1>6. FinalK \in Nat \ {0} /\ RerankK \in Nat
  BY RetrievalAssumption
<1>7. Len(ranked') \in 0..FinalK
  BY <1>5, <1>6, MinOfTwo
<1>8. dropped' \in Nat
  BY <1>1, <1>2, <1>5
<1>9. TypeOK'
  <2>1. ranked' # << >> => Len(ranked') # 0
    BY <1>5
  <2>2. QED
    BY <1>1, <1>5, <1>7, <1>8, <2>1 DEF CandidatesInv, TypeOK, PCs, Outcomes
<1>10. ASSUME ~changed PROVE Len(ranked') = Min({Offered, RerankK, FinalK}) /\ dropped' = 0
  <2>1. Cardinality(aligned) = Len(ranked)
    BY <1>2, <1>4, <1>10, CountedByLength
  <2>2. Len(ranked) = Min({Offered, RerankK})
    BY <1>1 DEF CandidatesInv, ListsInv
  <2>3. Offered \in Int
    <3>1. hits["dense"].found \in Seq(Chunks) /\ hits["sparse"].found \in Seq(Chunks)
      BY DEF CandidatesInv, TypeOK, Legs
    <3>2. Offered = Len(DedupByAnime(Fused(hits["dense"].found, hits["sparse"].found)))
      BY <3>1, DedupFused DEF Offered
    <3>3. QED
      BY <3>1, <3>2, DedupFused
  <2>4. QED
    BY <1>1, <1>2, <1>5, <1>6, <2>1, <2>2, <2>3, MinOfThree
<1>11. Offered' = Offered
  BY <1>1 DEF Offered
<1>12. ListsInv'
  <2>1. FullIfQuiet'
    BY <1>1, <1>10, <1>11 DEF FullIfQuiet
  <2>2. QED
    BY <1>1, <1>5, <2>1 DEF ListsInv
<1>13. QED
  BY <1>9, <1>12 DEF CandidatesInv

(* Each step keeps the candidates what they should be.                     *)
LEMMA CandidatesStep == CandidatesInv /\ [Next]_vars => CandidatesInv'
<1> SUFFICES ASSUME CandidatesInv, [Next]_vars PROVE CandidatesInv'
  OBVIOUS
<1>1. CorpusTypeOK'
  BY CorpusSteps, TypeStep DEF CandidatesInv, TypeOK
<1>2. CASE Embed
  <2>1. TypeOK'
    BY <1>1, <1>2 DEF Embed, CandidatesInv, TypeOK, PCs, corpusVars, tables
  <2>2. ListsInv'
    BY <1>2, ListsKept DEF Embed, CandidatesInv, corpusVars, tables
  <2>3. QED
    BY <2>1, <2>2 DEF CandidatesInv
<1>3. CASE EmbedFails
  <2>1. TypeOK'
    BY <1>1, <1>3 DEF EmbedFails, Return, Hurt, CandidatesInv, TypeOK, PCs, Outcomes,
                      corpusVars, tables
  <2>2. ListsInv'
    BY <1>3, ListsKept DEF EmbedFails, Return, CandidatesInv, corpusVars, tables
  <2>3. QED
    BY <2>1, <2>2 DEF CandidatesInv
<1>4. ASSUME NEW leg \in Legs, LegAnswers(leg) PROVE CandidatesInv'
  <2>1. PICK found \in Lists(chunks, HybridK) :
             AfterLeg(leg, [ok |-> TRUE, found |-> found])
    BY <1>4 DEF LegAnswers
  <2>2. found \in Seq(chunks)
    BY <2>1, ListsRight, RetrievalAssumption
  <2>3. found \in Seq(Chunks) /\ ToSet(found) \subseteq chunks
    BY <2>2 DEF CandidatesInv, TypeOK, CorpusTypeOK, ToSet
  <2> DEFINE h == [ok |-> TRUE, found |-> found]
  <2>4. /\ pc = leg /\ UNCHANGED <<chunks, dropped, session, hurt>>
        /\ session' \in {"usable", "broken"} /\ hurt' \subseteq Faults
    BY <1>4 DEF LegAnswers, CandidatesInv, TypeOK, corpusVars, tables
  <2>5. h \in [ok : BOOLEAN, found : Seq(Chunks)] /\ ToSet(h.found) \subseteq chunks
    BY <2>3
  <2>6. AfterLeg(leg, h)
    BY <2>1
  <2> HIDE DEF h
  <2>7. QED
    BY <1>1, <2>4, <2>5, <2>6, AfterLegRight
<1>5. ASSUME NEW leg \in Legs, LegFails(leg) \/ LegRefused(leg) PROVE CandidatesInv'
  <2> DEFINE h == [ok |-> FALSE, found |-> << >>]
  <2>1. /\ pc = leg /\ AfterLeg(leg, h) /\ UNCHANGED <<chunks, dropped>>
    BY <1>5 DEF LegFails, LegRefused, corpusVars, tables
  <2>2. session' \in {"usable", "broken"} /\ hurt' \subseteq Faults
    BY <1>5 DEF LegFails, LegRefused, Recover, CandidatesInv, TypeOK
  <2>3. h \in [ok : BOOLEAN, found : Seq(Chunks)] /\ ToSet(h.found) \subseteq chunks
    BY DEF ToSet
  <2> HIDE DEF h
  <2>4. QED
    BY <1>1, <2>1, <2>2, <2>3, AfterLegRight
<1>6. CASE Reranked \/ RerankFails
  BY <1>1, <1>6, RerankRight
<1>7. CASE Fetch
  BY <1>1, <1>7, FetchRight
<1>8. CASE FetchFails
  <2>1. TypeOK'
    BY <1>1, <1>8 DEF FetchFails, Return, Hurt, CandidatesInv, TypeOK, PCs, Outcomes,
                      corpusVars, tables
  <2>2. ListsInv'
    BY <1>8, ListsKept DEF FetchFails, Return, CandidatesInv, corpusVars, tables
  <2>3. QED
    BY <2>1, <2>2 DEF CandidatesInv
<1>9. CASE Book
  <2>1. status' \in {0, 200, 500} /\ hurt' \subseteq Faults
    BY <1>9 DEF Book, Hurt, CandidatesInv, TypeOK
  <2>2. TypeOK'
    BY <1>1, <1>9, <2>1 DEF Book, CandidatesInv, TypeOK, PCs, corpusVars, tables
  <2>3. ListsInv'
    BY <1>9, ListsKept DEF Book, CandidatesInv, corpusVars, tables
  <2>4. QED
    BY <2>2, <2>3 DEF CandidatesInv
<1>10. CASE Reindex
  <2>1. TypeOK'
    BY <1>1, <1>10 DEF Reindex, CandidatesInv, TypeOK
  <2>2. ListsInv'
    BY <1>10, ListsKept DEF Reindex, CandidatesInv
  <2>3. QED
    BY <2>1, <2>2 DEF CandidatesInv
<1>11. CASE UNCHANGED vars
  <2>1. TypeOK'
    BY <1>1, <1>11 DEF vars, requestVars, CandidatesInv, TypeOK
  <2>2. ListsInv'
    BY <1>11, ListsKept DEF vars, requestVars, corpusVars, tables, CandidatesInv
  <2>3. QED
    BY <2>1, <2>2 DEF CandidatesInv
<1>12. QED
  BY <1>2, <1>3, <1>4, <1>5, <1>6, <1>7, <1>8, <1>9, <1>10, <1>11 DEF Next, Request

(* Every reachable state has the invariant.                                *)
LEMMA CandidatesCorrect == Spec => []CandidatesInv
  BY InitCandidates, CandidatesStep, PTL DEF Spec

(* Every variable of the request has its type, and what it has come to     *)
(* fits its candidates: some, at most final_k, or none.                    *)
THEOREM RequestTyped == Spec => []TypeOK
<1>1. CandidatesInv => TypeOK
  BY DEF CandidatesInv
<1>2. QED
  BY <1>1, CandidatesCorrect, PTL

(* No title is offered twice, whatever the legs find, in whatever order    *)
(* the reranker and MMR put it, and although a re-index may replace the    *)
(* corpus between any two of the request's statements.                     *)
THEOREM TitlesDistinct == Spec => []DistinctTitles
<1>1. CandidatesInv => DistinctTitles
  <2> SUFFICES ASSUME CandidatesInv PROVE DistinctTitles
    OBVIOUS
  <2>1. ranked \in Seq(Chunks) /\ OneEach(ranked)
    BY DEF CandidatesInv, TypeOK, ListsInv
  <2>2. QED
    BY <2>1, CountedByLength DEF DistinctTitles
<1>2. QED
  BY <1>1, CandidatesCorrect, PTL

(* Without a re-index in between, the request gets as many titles as the   *)
(* fused chunks have, up to rerank_k and final_k: no cut takes more than   *)
(* it should, and no candidate is dropped for want of an embedding.        *)
THEOREM FullAnswers == Spec => []FullWhenQuiet
<1>1. CandidatesInv => FullWhenQuiet
  BY DEF CandidatesInv, ListsInv, FullIfQuiet, FullWhenQuiet, Offered
<1>2. QED
  BY <1>1, CandidatesCorrect, PTL
=============================================================================
