------------------------------- MODULE Corpus -------------------------------
(***************************************************************************)
(* The indexed corpus (anime_titles and anime_chunks) under concurrent     *)
(* runs of anime_ingestion.ingest: the CLI's and the worker's, one         *)
(* transaction each.  Postgres is read committed: a statement sees what    *)
(* was committed when it began, an upsert of a title waits for the         *)
(* transaction that wrote it last, and nothing makes the pair              *)
(* (mal_id, chunk_index) unique.                                           *)
(*                                                                         *)
(* A chunk is its title, its index and the run that wrote it: its text and *)
(* its embedding are that run's.                                           *)
(***************************************************************************)
EXTENDS Naturals, Sequences, FiniteSets

CONSTANTS
    Titles,    \* mal_ids
    Ingests,   \* runs of ingest
    Files,     \* CSVs: the titles in order, and how many pieces
               \* chunk_anime cuts each title into
    Nobody     \* no run

(* Of the data: no file lists a mal_id twice.  load_anime would keep both  *)
(* rows (loader.py:19-46), and the title's chunks would be there twice.    *)
ASSUME CorpusAssumption ==
    /\ Files \subseteq [titles : Seq(Titles), pieces : [Titles -> Nat \ {0}]]
    /\ \A f \in Files : \A m, n \in DOMAIN f.titles :
          f.titles[m] = f.titles[n] => m = n
    /\ Nobody \notin Ingests

VARIABLES
    names,     \* committed anime_titles: the run that wrote each row
    chunks,    \* committed anime_chunks
    phase,     \* per run: what it awaits
    file,      \* per run: its CSV
    upserted,  \* per run: how many titles it has upserted
    lock,      \* per title: the open transaction that wrote its row
    gone,      \* per run: the chunks its open transaction deleted
    added      \* per run: the chunks its open transaction inserted

tables == <<names, chunks>>
transaction == <<phase, file, upserted, lock, gone, added>>
corpusVars == <<tables, transaction>>

Phases == {"idle", "upsert", "insert", "commit", "done"}
Chunks == [title : Titles, index : Nat, from : Ingests]

CorpusTypeOK ==
    /\ names \in [Titles -> Ingests \cup {Nobody}]
    /\ chunks \subseteq Chunks
    /\ phase \in [Ingests -> Phases]
    /\ file \in [Ingests -> Files]
    /\ upserted \in [Ingests -> Nat]
    /\ lock \in [Titles -> Ingests \cup {Nobody}]
    /\ gone \in [Ingests -> SUBSET Chunks]
    /\ added \in [Ingests -> SUBSET Chunks]

TitlesOf(i) == {file[i].titles[n] : n \in DOMAIN file[i].titles}
Pieces(i, t) == file[i].pieces[t]

(* The chunks run i makes of title t, and of its whole file.               *)
Built(i, t) == {[title |-> t, index |-> n - 1, from |-> i] : n \in 1..Pieces(i, t)}
BuiltAll(i) == UNION {Built(i, t) : t \in TitlesOf(i)}
Of(rows, t) == {c \in rows : c.title = t}

(* Before: an empty database, or what one run has left.                    *)
CorpusInit ==
    /\ file \in [Ingests -> Files]
    /\ \E first \in Ingests \cup {Nobody} :
          LET loaded == IF first = Nobody THEN {} ELSE TitlesOf(first)
          IN  /\ names = [t \in Titles |-> IF t \in loaded THEN first ELSE Nobody]
              /\ chunks = IF first = Nobody THEN {} ELSE BuiltAll(first)
              /\ phase = [i \in Ingests |-> IF i = first THEN "done" ELSE "idle"]
    /\ upserted = [i \in Ingests |-> 0]
    /\ lock = [t \in Titles |-> Nobody]
    /\ gone = [i \in Ingests |-> {}]
    /\ added = [i \in Ingests |-> {}]

-----------------------------------------------------------------------------
Enter(i, at) == phase' = [phase EXCEPT ![i] = at]
Release(i) == lock' = [t \in Titles |-> IF lock[t] = i THEN Nobody ELSE lock[t]]

(* ingest up to its first statement: read, cut and embed the file.         *)
Start(i) ==
    /\ phase[i] = "idle"
    /\ Enter(i, "upsert")
    /\ UNCHANGED <<tables, file, upserted, lock, gone, added>>

UpsertTitle(i) ==
    /\ phase[i] = "upsert"
    /\ upserted[i] < Len(file[i].titles)
    /\ LET t == file[i].titles[upserted[i] + 1]
       IN  /\ lock[t] \in {Nobody, i}
           /\ lock' = [lock EXCEPT ![t] = i]
    /\ upserted' = [upserted EXCEPT ![i] = @ + 1]
    /\ UNCHANGED <<tables, phase, file, gone, added>>

\* Mutant of DeleteChunks: only the indexes written again are deleted.
DeleteChunksByKey(i) ==
    /\ phase[i] = "upsert"
    /\ upserted[i] = Len(file[i].titles)
    /\ gone' = [gone EXCEPT ![i] =
          {c \in chunks : \E b \in BuiltAll(i) : b.title = c.title /\ b.index = c.index}]
    /\ Enter(i, "insert")
    /\ UNCHANGED <<tables, file, upserted, lock, added>>

\* Mutant of DeleteChunks: the deletion is committed on its own.
DeleteChunksCommitting(i) ==
    /\ phase[i] = "upsert"
    /\ upserted[i] = Len(file[i].titles)
    /\ chunks' = {c \in chunks : c.title \notin TitlesOf(i)}
    /\ Enter(i, "insert")
    /\ UNCHANGED <<names, file, upserted, lock, gone, added>>

(* One DELETE after all the upserts.  No two open transactions delete the  *)
(* same chunk: each has the lock of the chunk's title.                     *)
DeleteChunks(i) ==
    /\ phase[i] = "upsert"
    /\ upserted[i] = Len(file[i].titles)
    /\ gone' = [gone EXCEPT ![i] = {c \in chunks : c.title \in TitlesOf(i)}]
    /\ Enter(i, "insert")
    /\ UNCHANGED <<tables, file, upserted, lock, added>>

(* The INSERTs, which nobody sees or waits for before the commit.          *)
InsertChunks(i) ==
    /\ phase[i] = "insert"
    /\ added' = [added EXCEPT ![i] = BuiltAll(i)]
    /\ Enter(i, "commit")
    /\ UNCHANGED <<tables, file, upserted, lock, gone>>

(* session_scope commits.                                                  *)
CommitIngest(i) ==
    /\ phase[i] = "commit"
    /\ names' = [t \in Titles |-> IF lock[t] = i THEN i ELSE names[t]]
    /\ chunks' = (chunks \ gone[i]) \cup added[i]
    /\ Release(i)
    /\ gone' = [gone EXCEPT ![i] = {}]
    /\ added' = [added EXCEPT ![i] = {}]
    /\ upserted' = [upserted EXCEPT ![i] = 0]
    /\ Enter(i, "done")
    /\ UNCHANGED file

(* Anything raises, the connection goes, or Postgres breaks a deadlock:    *)
(* session_scope rolls back, and the job or its operator tries again.      *)
IngestFails(i) ==
    /\ phase[i] \in {"upsert", "insert", "commit"}
    /\ Release(i)
    /\ gone' = [gone EXCEPT ![i] = {}]
    /\ added' = [added EXCEPT ![i] = {}]
    /\ upserted' = [upserted EXCEPT ![i] = 0]
    /\ Enter(i, "idle")
    /\ UNCHANGED <<tables, file>>

Ingest(i) ==
    \/ Start(i) \/ UpsertTitle(i) \/ DeleteChunks(i) \/ InsertChunks(i)
    \/ CommitIngest(i) \/ IngestFails(i)

CorpusNext == \E i \in Ingests : Ingest(i)

CorpusSpec == CorpusInit /\ [][CorpusNext]_corpusVars

-----------------------------------------------------------------------------
(* A title's chunks are exactly the pieces of one run, the run whose row   *)
(* anime_titles has: no run leaves a piece of an older text, doubles an    *)
(* index or mixes with a run at the same time ("Idempotent", indexer.py).  *)
CorpusWhole ==
    \A t \in Titles :
        Of(chunks, t) = IF names[t] = Nobody THEN {} ELSE Built(names[t], t)

(* Re-indexing never takes a title from the readers, not even while it     *)
(* runs: a title with chunks has chunks after every step.                  *)
NeverEmptied ==
    [][\A t \in Titles : Of(chunks, t) # {} => Of(chunks', t) # {}]_corpusVars
=============================================================================
