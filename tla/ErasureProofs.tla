---------------------------- MODULE ErasureProofs ----------------------------
(***************************************************************************)
(* The safety properties of Erasure, for any sets of requests and of       *)
(* erasers.                                                                *)
(***************************************************************************)
EXTENDS Erasure, TLAPS

(***************************************************************************)
(* None of the properties is inductive: what makes them true is who holds  *)
(* which lock.  A writer holds the users row from its upsert to its end,   *)
(* and nobody else holds it meanwhile; so there is one such writer at a    *)
(* time, and none while an eraser has deleted the row.                     *)
(***************************************************************************)
LocksOK ==
    /\ \A w \in Writers :
          /\ pc[w] \in {"ensured", "inserted", "commit"} <=> userLock = w
          /\ usageLock = w => pc[w] = "commit"
    /\ \A e \in Erasers :
          /\ userLock = e => pc[e] = "commit"
          /\ usageLock = e => pc[e] \in {"users", "commit"}

(* A writer writes a row that is not there.                                *)
RowsOK == \A w \in Writers : pc[w] # "idle" => rows[w] = "absent"

Claimed(e) == (deleted[e] \cup nulled[e]) \cap Writers

(* The rows an eraser's transaction has touched are still committed as the *)
(* user's, and no other eraser has touched them.                           *)
ClaimsOK ==
    \A e \in Erasers : \A w \in Claimed(e) :
        /\ rows[w] = "owned"
        /\ \A f \in Erasers \ {e} : w \notin Claimed(f)

(* An eraser that has deleted the users row holds it to its end and has    *)
(* claimed every row that is the user's; one that found no users row has   *)
(* claimed none.                                                           *)
UserGone(e) ==
    /\ "users" \in deleted[e] =>
          /\ pc[e] = "commit" /\ userLock = e /\ "usage_daily" \in deleted[e]
          /\ \A w \in Writers : rows[w] = "owned" => w \in Claimed(e)
    /\ "users" \notin deleted[e] =>
          /\ nulled[e] = {}
          /\ pc[e] = "commit" => Claimed(e) = {}

(* No request runs beside a quiet erasure, so that the users row stays     *)
(* deleted.                                                                *)
QuietOK(e) ==
    quiet[e] => /\ \A w \in Writers : ~Writing(w)
                /\ pc[e] = "commit" => ~users \/ "users" \in deleted[e]
                /\ pc[e] = "done" => ~users

(* Without a race there is no request beside any erasure, and an eraser    *)
(* that has been through a table has claimed all its rows, which leaves it *)
(* none to null.                                                           *)
RaceOK(e) ==
    ~raced =>
        /\ Erasing(e) => \A w \in Writers : ~Writing(w)
        /\ pc[e] \in {"query_history", "usage_daily", "users", "commit"} =>
              \A w \in Feedbacks : rows[w] = "owned" => w \in deleted[e]
        /\ pc[e] \in {"usage_daily", "users", "commit"} =>
              \A w \in Recommends : rows[w] = "owned" => w \in deleted[e]
        /\ nulled[e] = {}

NoOrphanYet == ~raced => \A w \in Writers : rows[w] # "orphan"

ErasureInv ==
    /\ TypeOK /\ LocksOK /\ RowsOK /\ ClaimsOK /\ LinkedToUser /\ NoOrphanYet
    /\ \A e \in Erasers : UserGone(e) /\ QuietOK(e) /\ RaceOK(e)

-----------------------------------------------------------------------------
(* Writers and erasers are transactions of two kinds, none of them Nobody. *)
LEMMA Sides ==
    /\ \A w \in Writers : w \in Transactions /\ w # Nobody /\ w \notin Erasers
    /\ \A e \in Erasers : e \in Transactions /\ e # Nobody /\ e \notin Writers
    /\ \A w \in Writers : w # "users" /\ w # "usage_daily"
    /\ \A w \in Writers : w \in Recommends <=> w \notin Feedbacks
  BY ErasureAssumption DEF Writers, Erasers, Transactions

(* Ending a transaction frees its locks and no other's.                    *)
LEMMA UnlockFacts ==
    ASSUME NEW t \in Transactions, t # Nobody, Unlock(t)
    PROVE  /\ userLock' # t /\ usageLock' # t
           /\ \A s \in Transactions : s # t /\ s # Nobody =>
                /\ userLock' = s <=> userLock = s
                /\ usageLock' = s <=> usageLock = s
  BY DEF Unlock, Released

(* Each step keeps the locks with who must hold them.                      *)
LEMMA LocksStep ==
    ASSUME TypeOK, LocksOK, Next
    PROVE  LocksOK'
<1> USE Sides
<1>1. CASE TokenExpires
  BY <1>1 DEF TokenExpires, LocksOK, locks
<1>2. ASSUME NEW w \in Writers, Arrive(w) \/ AddRow(w) PROVE LocksOK'
  BY <1>2 DEF Arrive, AddRow, Go, LocksOK, TypeOK, locks
<1>3. ASSUME NEW w \in Writers, EnsureUser(w) PROVE LocksOK'
  BY <1>3 DEF EnsureUser, Free, Go, LocksOK, TypeOK
<1>4. ASSUME NEW w \in Writers, RecordUsage(w) PROVE LocksOK'
  BY <1>4 DEF RecordUsage, Free, Go, LocksOK, TypeOK
<1>5. ASSUME NEW w \in Writers, WriterCommits(w) \/ WriterFails(w) PROVE LocksOK'
  <2>1. Unlock(w) /\ Go(w, "idle")
    BY <1>5 DEF WriterCommits, WriterFails
  <2>2. QED
    BY <2>1, UnlockFacts DEF Go, LocksOK, TypeOK
<1>6. ASSUME NEW e \in Erasers, Request(e) \/ ClerkDeletes(e) \/ ClerkFails(e)
      PROVE  LocksOK'
  BY <1>6 DEF Request, ClerkDeletes, ClerkFails, Erasing, Go, LocksOK, TypeOK, locks
<1>7. ASSUME NEW e \in Erasers, DeleteFeedback(e) \/ DeleteHistory(e) PROVE LocksOK'
  BY <1>7 DEF DeleteFeedback, DeleteHistory, Delete, Go, LocksOK, TypeOK, locks
<1>8. ASSUME NEW e \in Erasers, DeleteUsage(e) PROVE LocksOK'
  BY <1>8 DEF DeleteUsage, Free, Go, LocksOK, TypeOK
<1>9. ASSUME NEW e \in Erasers, DeleteUsers(e) PROVE LocksOK'
  BY <1>9 DEF DeleteUsers, Free, Go, LocksOK, TypeOK
<1>10. ASSUME NEW e \in Erasers, EraserCommits(e) \/ EraserFails(e) PROVE LocksOK'
  <2>1. Unlock(e) /\ (Go(e, "done") \/ Go(e, "failed"))
    BY <1>10 DEF EraserCommits, EraserFails
  <2>2. QED
    BY <2>1, UnlockFacts DEF Go, LocksOK, TypeOK
<1>11. QED
  BY <1>1, <1>2, <1>3, <1>4, <1>5, <1>6, <1>7, <1>8, <1>9, <1>10
     DEF Next, WriterStep, EraserStep

(* A transaction that goes anywhere goes to a place of its kind.           *)
LEMMA GoType ==
    ASSUME TypeOK, NEW t \in Transactions, NEW at, Go(t, at),
           t \in Writers => at \in WriterPCs,
           t \in Erasers => at \in EraserPCs
    PROVE  /\ pc' \in [Transactions -> WriterPCs \cup EraserPCs]
           /\ \A w \in Writers : pc'[w] \in WriterPCs
           /\ \A e \in Erasers : pc'[e] \in EraserPCs
<1>1. at \in WriterPCs \cup EraserPCs
  BY DEF Transactions
<1>2. pc' = [pc EXCEPT ![t] = at] /\ pc \in [Transactions -> WriterPCs \cup EraserPCs]
  BY DEF Go, TypeOK
<1>3. \A s \in Transactions : pc'[s] = IF s = t THEN at ELSE pc[s]
  BY <1>2
<1>4. QED
  BY <1>1, <1>2, <1>3, Sides DEF TypeOK

(* Every step keeps the types.                                             *)
LEMMA TypeStep ==
    ASSUME TypeOK, LocksOK, LocksOK', Next
    PROVE  TypeOK'
<1> USE Sides
<1> DEFINE Rows == /\ users' \in BOOLEAN /\ usage' \in BOOLEAN /\ audit' \in BOOLEAN
                   /\ rows' \in [Writers -> {"absent", "owned", "orphan"}]
           Places == /\ pc' \in [Transactions -> WriterPCs \cup EraserPCs]
                     /\ \A w \in Writers : pc'[w] \in WriterPCs
                     /\ \A e \in Erasers : pc'[e] \in EraserPCs
           Locks == /\ userLock' \in Transactions \cup {Nobody}
                    /\ usageLock' \in Transactions \cup {Nobody}
           Pending == /\ deleted' \in [Erasers -> SUBSET (Writers \cup {"users", "usage_daily"})]
                      /\ nulled' \in [Erasers -> SUBSET Writers]
           Past == /\ clerk' \in {"active", "deleted"} /\ token' \in BOOLEAN
                   /\ quiet' \in [Erasers -> BOOLEAN] /\ raced' \in BOOLEAN
<1>1. /\ UNCHANGED database => Rows
      /\ UNCHANGED locks => Locks
      /\ UNCHANGED pending => Pending
      /\ UNCHANGED <<clerk, token, history>> => Past
  BY DEF TypeOK, database, locks, pending, history
<1>2. Rows /\ Places /\ Locks /\ Pending /\ Past => TypeOK'
  <2>1. ASSUME Locks, NEW t \in {userLock', usageLock'} \ {Nobody}
        PROVE  pc'[t] \in {"ensured", "inserted", "commit", "users"}
    <3>1. t \in Transactions
      BY <2>1
    <3>2. QED
      BY <3>1 DEF LocksOK, Transactions
  <2>2. QED
    BY <2>1 DEF TypeOK
<1>3. CASE TokenExpires
  <2>1. Past /\ Places
    BY <1>3 DEF TokenExpires, TypeOK, history
  <2>2. QED
    BY <1>1, <1>2, <1>3, <2>1 DEF TokenExpires
<1>4. ASSUME NEW w \in Writers, WriterStep(w) PROVE TypeOK'
  <2>1. Places
    BY <1>4, GoType DEF WriterStep, Arrive, EnsureUser, AddRow, RecordUsage,
                        WriterCommits, WriterFails, WriterPCs
  <2>2. Rows
    <3>1. CASE WriterCommits(w)
      BY <3>1 DEF WriterCommits, TypeOK
    <3>2. CASE ~WriterCommits(w)
      BY <1>1, <1>4, <3>2 DEF WriterStep, Arrive, EnsureUser, AddRow, RecordUsage,
                              WriterFails
    <3>3. QED
      BY <3>1, <3>2
  <2>3. Locks
    BY <1>4 DEF WriterStep, Arrive, EnsureUser, AddRow, RecordUsage, WriterCommits,
                WriterFails, Unlock, Released, TypeOK, locks
  <2>4. Pending
    BY <1>1, <1>4 DEF WriterStep, Arrive, EnsureUser, AddRow, RecordUsage,
                      WriterCommits, WriterFails
  <2>5. Past
    <3>1. CASE Arrive(w)
      BY <3>1 DEF Arrive, TypeOK
    <3>2. CASE ~Arrive(w)
      BY <1>1, <1>4, <3>2 DEF WriterStep, EnsureUser, AddRow, RecordUsage,
                              WriterCommits, WriterFails
    <3>3. QED
      BY <3>1, <3>2
  <2>6. QED
    BY <1>2, <2>1, <2>2, <2>3, <2>4, <2>5
<1>5. ASSUME NEW e \in Erasers, EraserStep(e) PROVE TypeOK'
  <2>1. Places
    BY <1>5, GoType DEF EraserStep, Request, ClerkDeletes, ClerkFails,
         DeleteFeedback, DeleteHistory, Delete, DeleteUsage, DeleteUsers,
         EraserCommits, EraserFails, EraserPCs
  <2>2. Rows
    <3>1. CASE EraserCommits(e)
      BY <3>1 DEF EraserCommits, TypeOK
    <3>2. CASE ~EraserCommits(e)
      BY <1>1, <1>5, <3>2 DEF EraserStep, Request, ClerkDeletes, ClerkFails,
         DeleteFeedback, DeleteHistory, Delete, DeleteUsage, DeleteUsers, EraserFails
    <3>3. QED
      BY <3>1, <3>2
  <2>3. Locks
    BY <1>5 DEF EraserStep, Request, ClerkDeletes, ClerkFails,
         DeleteFeedback, DeleteHistory, Delete, DeleteUsage, DeleteUsers,
         EraserCommits, EraserFails, Unlock, Released, TypeOK, locks
  <2>4. Pending
    <3>1. CASE DeleteFeedback(e) \/ DeleteHistory(e)
      BY <3>1 DEF DeleteFeedback, DeleteHistory, Delete, TypeOK, Writers
    <3>2. CASE DeleteUsage(e)
      BY <3>2 DEF DeleteUsage, TypeOK
    <3>3. CASE DeleteUsers(e)
      BY <3>3 DEF DeleteUsers, Missed, TypeOK, pending
    <3>4. CASE EraserCommits(e) \/ EraserFails(e)
      BY <3>4 DEF EraserCommits, EraserFails, TypeOK
    <3>5. CASE Request(e) \/ ClerkDeletes(e) \/ ClerkFails(e)
      BY <1>1, <3>5 DEF Request, ClerkDeletes, ClerkFails
    <3>6. QED
      BY <1>5, <3>1, <3>2, <3>3, <3>4, <3>5 DEF EraserStep
  <2>5. Past
    <3>1. CASE Request(e)
      BY <3>1 DEF Request, TypeOK
    <3>2. CASE ClerkDeletes(e) \/ ClerkFails(e)
      BY <3>2 DEF ClerkDeletes, ClerkFails, TypeOK, history
    <3>3. CASE ~Request(e) /\ ~ClerkDeletes(e) /\ ~ClerkFails(e)
      BY <1>1, <1>5, <3>3 DEF EraserStep, DeleteFeedback, DeleteHistory, Delete,
         DeleteUsage, DeleteUsers, EraserCommits, EraserFails
    <3>4. QED
      BY <3>1, <3>2, <3>3
  <2>6. QED
    BY <1>2, <2>1, <2>2, <2>3, <2>4, <2>5
<1>6. QED
  BY <1>3, <1>4, <1>5 DEF Next

-----------------------------------------------------------------------------
(* A writer that writes is not beside a row of its own.                    *)
LEMMA RowsStep ==
    ASSUME TypeOK, RowsOK, ClaimsOK, Next
    PROVE  RowsOK'
<1> USE Sides
<1>1. CASE TokenExpires
  BY <1>1 DEF TokenExpires, RowsOK, database
<1>2. ASSUME NEW w \in Writers, WriterStep(w) PROVE RowsOK'
  BY <1>2 DEF WriterStep, Arrive, EnsureUser, AddRow, RecordUsage, WriterCommits,
              WriterFails, Writing, Go, RowsOK, TypeOK, database
<1>3. ASSUME NEW e \in Erasers, EraserStep(e) PROVE RowsOK'
  <2>1. \A w \in Writers : pc'[w] = pc[w]
    BY <1>3 DEF EraserStep, Request, ClerkDeletes, ClerkFails, DeleteFeedback,
                DeleteHistory, Delete, DeleteUsage, DeleteUsers, EraserCommits,
                EraserFails, Go, TypeOK
  <2>2. CASE EraserCommits(e)
    <3>1. \A w \in Writers : rows[w] = "absent" => rows'[w] = "absent"
      BY <2>2 DEF EraserCommits, ClaimsOK, Claimed, TypeOK
    <3>2. QED
      BY <2>1, <3>1 DEF RowsOK
  <2>3. CASE ~EraserCommits(e)
    BY <1>3, <2>1, <2>3
       DEF EraserStep, Request, ClerkDeletes, ClerkFails, DeleteFeedback,
           DeleteHistory, Delete, DeleteUsage, DeleteUsers, EraserFails, RowsOK,
           database
  <2>4. QED
    BY <2>2, <2>3
<1>4. QED
  BY <1>1, <1>2, <1>3 DEF Next

(* What a writer's step changes that matters to the erasers: its row is    *)
(* committed or nothing is, and then it holds the users row.               *)
LEMMA WriterEffects ==
    ASSUME TypeOK, LocksOK, RowsOK, NEW w \in Writers, WriterStep(w)
    PROVE  /\ UNCHANGED pending
           /\ \A t \in Transactions : t # w => pc'[t] = pc[t]
           /\ \/ UNCHANGED <<users, rows, usage>>
              \/ /\ WriterCommits(w) /\ userLock = w /\ Writing(w)
                 /\ rows[w] = "absent" /\ users'
                 /\ rows' = [rows EXCEPT ![w] = "owned"]
           /\ \A e \in Erasers : userLock = e => userLock' = e
<1> USE Sides
<1>1. UNCHANGED pending
  BY DEF WriterStep, Arrive, EnsureUser, AddRow, RecordUsage, WriterCommits,
         WriterFails
<1>2. \A t \in Transactions : t # w => pc'[t] = pc[t]
  BY DEF WriterStep, Arrive, EnsureUser, AddRow, RecordUsage, WriterCommits,
         WriterFails, Go, TypeOK
<1>3. WriterCommits(w) \/ UNCHANGED <<users, rows, usage>>
  BY DEF WriterStep, Arrive, EnsureUser, AddRow, RecordUsage, WriterFails, database
<1>4. WriterCommits(w) => /\ userLock = w /\ Writing(w)
                          /\ rows[w] = "absent" /\ users'
                          /\ rows' = [rows EXCEPT ![w] = "owned"]
  BY DEF WriterCommits, LocksOK, RowsOK, Writing
<1>5. ASSUME NEW e \in Erasers, userLock = e PROVE userLock' = e
  BY <1>5 DEF WriterStep, Arrive, EnsureUser, AddRow, RecordUsage, WriterCommits,
              WriterFails, Free, Unlock, Released, locks
<1>6. QED
  BY <1>1, <1>2, <1>3, <1>4, <1>5

(* What an eraser's step leaves as it was: every other eraser's place and  *)
(* claims, and the writers' places; and unless it commits, the database.   *)
LEMMA EraserEffects ==
    ASSUME TypeOK, NEW e \in Erasers, EraserStep(e)
    PROVE  /\ \A t \in Transactions : t # e => pc'[t] = pc[t]
           /\ \A f \in Erasers : f # e =>
                deleted'[f] = deleted[f] /\ nulled'[f] = nulled[f]
           /\ EraserCommits(e) \/ UNCHANGED <<users, rows, usage>>
           /\ \A f \in Erasers : f # e /\ userLock = f => userLock' = f
<1> USE Sides
<1>1. \A t \in Transactions : t # e => pc'[t] = pc[t]
  BY DEF EraserStep, Request, ClerkDeletes, ClerkFails, DeleteFeedback,
         DeleteHistory, Delete, DeleteUsage, DeleteUsers, EraserCommits,
         EraserFails, Go, TypeOK
<1>2. ASSUME NEW f \in Erasers, f # e
      PROVE  deleted'[f] = deleted[f] /\ nulled'[f] = nulled[f]
  BY <1>2 DEF EraserStep, Request, ClerkDeletes, ClerkFails, DeleteFeedback,
         DeleteHistory, Delete, DeleteUsage, DeleteUsers, EraserCommits,
         EraserFails, TypeOK, pending
<1>3. EraserCommits(e) \/ UNCHANGED <<users, rows, usage>>
  BY DEF EraserStep, Request, ClerkDeletes, ClerkFails, DeleteFeedback,
         DeleteHistory, Delete, DeleteUsage, DeleteUsers, EraserFails, database
<1>4. ASSUME NEW f \in Erasers, f # e, userLock = f PROVE userLock' = f
  BY <1>4 DEF EraserStep, Request, ClerkDeletes, ClerkFails, DeleteFeedback,
         DeleteHistory, Delete, DeleteUsage, DeleteUsers, EraserCommits,
         EraserFails, Free, Unlock, Released, locks
<1>5. QED
  BY <1>1, <1>2, <1>3, <1>4

(* What an eraser's step does to its own claims: none, more of the user's  *)
(* rows that no other has claimed, or all of them gone.                    *)
LEMMA OwnClaims ==
    ASSUME ErasureInv, NEW e \in Erasers, EraserStep(e)
    PROVE  \/ Claimed(e)' = {}
           \/ \A w \in Claimed(e)' \ Claimed(e) :
                 rows[w] = "owned" /\ \A f \in Erasers \ {e} : w \notin Claimed(f)
<1> USE Sides
<1> TypeOK /\ ErasureInv
  BY DEF ErasureInv
<1>1. CASE EraserCommits(e) \/ EraserFails(e)
  BY <1>1 DEF EraserCommits, EraserFails, Claimed, TypeOK
<1>2. CASE DeleteFeedback(e)
  BY <1>2 DEF DeleteFeedback, Delete, Claimed, TypeOK
<1>3. CASE DeleteHistory(e)
  BY <1>3 DEF DeleteHistory, Delete, Claimed, TypeOK
<1>4. CASE DeleteUsage(e)
  BY <1>4 DEF DeleteUsage, Claimed, TypeOK
<1>5. CASE DeleteUsers(e) /\ users
  <2>1. \A f \in Erasers \ {e} : nulled[f] = {}
    BY <1>5 DEF DeleteUsers, Free, ErasureInv, UserGone
  <2>2. \A w \in Claimed(e)' \ Claimed(e) : w \in Missed(e)
    BY <1>5 DEF DeleteUsers, Claimed, TypeOK
  <2>3. \A f \in Erasers \ {e} : Missed(e) \cap deleted[f] = {}
    BY <1>5 DEF DeleteUsers
  <2>4. QED
    BY <2>1, <2>2, <2>3 DEF Missed, Claimed
<1>6. CASE DeleteUsers(e) /\ ~users
  BY <1>6 DEF DeleteUsers, Claimed, pending
<1>7. CASE Request(e) \/ ClerkDeletes(e) \/ ClerkFails(e)
  BY <1>7 DEF Request, ClerkDeletes, ClerkFails, Claimed, pending
<1>8. QED
  BY <1>1, <1>2, <1>3, <1>4, <1>5, <1>6, <1>7 DEF EraserStep

(* An eraser's commit takes every row of the user, with the users row and  *)
(* the usage row, or it takes no row at all.                               *)
LEMMA CommitEffects ==
    ASSUME ErasureInv, NEW e \in Erasers, EraserCommits(e)
    PROVE  /\ "users" \in deleted[e] =>
                ~users' /\ ~usage' /\ \A w \in Writers : rows'[w] # "owned"
           /\ "users" \notin deleted[e] => UNCHANGED <<users, rows>>
           /\ (users' => users) /\ (usage' => usage)
           /\ \A w \in Writers : rows'[w] = "owned" => rows[w] = "owned"
           /\ \A w \in Writers \ Claimed(e) : rows'[w] = rows[w]
           /\ \A w \in Writers : rows'[w] = "orphan" => rows[w] = "orphan" \/ w \in nulled[e]
           /\ Claimed(e)' = {} /\ deleted'[e] = {} /\ nulled'[e] = {}
           /\ pc[e] = "commit" /\ pc'[e] = "done"
<1> USE Sides
<1> TypeOK /\ UserGone(e)
  BY DEF ErasureInv
<1>1. /\ pc[e] = "commit" /\ pc'[e] = "done"
      /\ users' = (users /\ "users" \notin deleted[e])
      /\ usage' = (usage /\ "usage_daily" \notin deleted[e])
      /\ deleted'[e] = {} /\ nulled'[e] = {}
  BY DEF EraserCommits, Go, TypeOK
<1>2. \A w \in Writers : rows'[w] = IF w \in deleted[e] THEN "absent"
                                   ELSE IF w \in nulled[e] THEN "orphan" ELSE rows[w]
  BY DEF EraserCommits
<1>3. Claimed(e)' = {}
  BY <1>1 DEF Claimed
<1>4. ASSUME "users" \in deleted[e]
      PROVE  ~users' /\ ~usage' /\ \A w \in Writers : rows'[w] # "owned"
  BY <1>1, <1>2, <1>4 DEF UserGone, Claimed
<1>5. ASSUME "users" \notin deleted[e] PROVE UNCHANGED <<users, rows>>
  <2>1. Claimed(e) = {}
    BY <1>1, <1>5 DEF UserGone
  <2>2. \A w \in Writers : rows'[w] = rows[w]
    BY <1>2, <2>1 DEF Claimed
  <2>3. rows' = [w \in Writers |-> rows'[w]]
    BY DEF EraserCommits
  <2>4. rows = [w \in Writers |-> rows[w]]
    BY DEF TypeOK
  <2>5. rows' = rows
    BY <2>2, <2>3, <2>4
  <2>6. users' = users
    BY <1>1, <1>5 DEF TypeOK
  <2>7. QED
    BY <2>5, <2>6
<1>6. \A w \in Writers \ Claimed(e) : rows'[w] = rows[w]
  BY <1>2 DEF Claimed
<1>7. /\ \A w \in Writers : rows'[w] = "owned" => rows[w] = "owned"
      /\ \A w \in Writers : rows'[w] = "orphan" => rows[w] = "orphan" \/ w \in nulled[e]
  BY <1>2
<1>8. QED
  BY <1>1, <1>3, <1>4, <1>5, <1>6, <1>7

(* Claims stay good: no row is taken from under the eraser that has it.    *)
LEMMA ClaimsStep ==
    ASSUME ErasureInv, Next
    PROVE  ClaimsOK'
<1> USE Sides
<1> TypeOK /\ LocksOK /\ RowsOK /\ ClaimsOK
  BY DEF ErasureInv
<1>1. CASE TokenExpires
  BY <1>1 DEF TokenExpires, ClaimsOK, Claimed, database, pending
<1>2. ASSUME NEW w \in Writers, WriterStep(w) PROVE ClaimsOK'
  <2>1. \A e \in Erasers : Claimed(e)' = Claimed(e)
    BY <1>2, WriterEffects DEF Claimed, pending
  <2>2. \A v \in Writers : rows[v] = "owned" => rows'[v] = "owned"
    BY <1>2, WriterEffects DEF TypeOK
  <2>3. \A e \in Erasers : Claimed(e) \subseteq Writers
    BY DEF Claimed
  <2>4. QED
    BY <2>1, <2>2, <2>3 DEF ClaimsOK
<1>3. ASSUME NEW e \in Erasers, EraserStep(e) PROVE ClaimsOK'
  <2>1. \A f \in Erasers : f # e => Claimed(f)' = Claimed(f)
    BY <1>3, EraserEffects DEF Claimed
  <2>2. \A f \in Erasers : Claimed(f) \subseteq Writers
    BY DEF Claimed
  <2>3. CASE EraserCommits(e)
    <3>1. \A f \in Erasers \ {e} : \A w \in Claimed(f) : rows'[w] = "owned"
      BY <2>2, <2>3, CommitEffects DEF ClaimsOK
    <3>2. Claimed(e)' = {}
      BY <2>3, CommitEffects
    <3>3. QED
      BY <2>1, <3>1, <3>2 DEF ClaimsOK
  <2>4. CASE ~EraserCommits(e)
    <3>1. UNCHANGED rows
      BY <1>3, <2>4, EraserEffects
    <3>2. \/ Claimed(e)' = {}
          \/ \A w \in Claimed(e)' :
                rows[w] = "owned" /\ \A f \in Erasers \ {e} : w \notin Claimed(f)
      BY <1>3, OwnClaims DEF ClaimsOK
    <3>3. QED
      BY <2>1, <3>1, <3>2 DEF ClaimsOK
  <2>5. QED
    BY <2>3, <2>4
<1>4. QED
  BY <1>1, <1>2, <1>3 DEF Next

(* What is linked to the user is linked to a users row.                    *)
LEMMA LinkedStep ==
    ASSUME ErasureInv, Next
    PROVE  LinkedToUser'
<1> USE Sides
<1> TypeOK /\ LocksOK /\ RowsOK /\ LinkedToUser
  BY DEF ErasureInv
<1>1. CASE TokenExpires
  BY <1>1 DEF TokenExpires, LinkedToUser, database
<1>2. ASSUME NEW w \in Writers, WriterStep(w) PROVE LinkedToUser'
  BY <1>2, WriterEffects DEF LinkedToUser
<1>3. ASSUME NEW e \in Erasers, EraserStep(e) PROVE LinkedToUser'
  <2>1. CASE EraserCommits(e)
    BY <2>1, CommitEffects DEF LinkedToUser
  <2>2. CASE ~EraserCommits(e)
    BY <1>3, <2>2, EraserEffects DEF LinkedToUser
  <2>3. QED
    BY <2>1, <2>2
<1>4. QED
  BY <1>1, <1>2, <1>3 DEF Next

(* The eraser that has deleted the users row has claimed all there is.     *)
LEMMA UserGoneStep ==
    ASSUME ErasureInv, Next, NEW f \in Erasers
    PROVE  UserGone(f)'
<1> USE Sides
<1> TypeOK /\ LocksOK /\ RowsOK /\ ClaimsOK /\ LinkedToUser /\ UserGone(f)
  BY DEF ErasureInv
<1>1. CASE TokenExpires
  BY <1>1 DEF TokenExpires, UserGone, Claimed, database, pending, locks
<1>2. ASSUME NEW w \in Writers, WriterStep(w) PROVE UserGone(f)'
  <2>1. /\ deleted'[f] = deleted[f] /\ nulled'[f] = nulled[f] /\ pc'[f] = pc[f]
        /\ Claimed(f)' = Claimed(f)
        /\ userLock = f => userLock' = f
    BY <1>2, WriterEffects DEF pending, Claimed
  <2>2. "users" \in deleted[f] => UNCHANGED rows
    BY <1>2, WriterEffects DEF UserGone
  <2>3. QED
    BY <2>1, <2>2 DEF UserGone
<1>3. ASSUME NEW e \in Erasers, EraserStep(e), e # f PROVE UserGone(f)'
  <2>1. /\ deleted'[f] = deleted[f] /\ nulled'[f] = nulled[f] /\ pc'[f] = pc[f]
        /\ Claimed(f)' = Claimed(f)
        /\ userLock = f => userLock' = f
    BY <1>3, EraserEffects DEF Claimed
  <2>2. \A w \in Writers : rows'[w] = "owned" => rows[w] = "owned"
    BY <1>3, EraserEffects, CommitEffects
  <2>3. QED
    BY <2>1, <2>2 DEF UserGone
<1>4. CASE EraserCommits(f)
  BY <1>4, CommitEffects DEF UserGone
<1>5. CASE EraserFails(f)
  BY <1>5 DEF EraserFails, UserGone, Claimed, Go, TypeOK
<1>6. CASE DeleteUsers(f)
  <2>1. /\ pc[f] = "users" /\ "users" \notin deleted[f] /\ nulled[f] = {}
        /\ pc'[f] = "commit" /\ UNCHANGED database
    BY <1>6 DEF DeleteUsers, UserGone, Go, TypeOK
  <2>2. CASE users
    <3>1. /\ deleted'[f] = deleted[f] \cup {"users", "usage_daily"}
          /\ nulled'[f] = Missed(f) /\ userLock' = f
      BY <1>6, <2>2 DEF DeleteUsers, TypeOK
    <3>2. \A w \in Writers : rows[w] = "owned" => w \in Claimed(f)'
      BY <3>1 DEF Missed, Claimed
    <3>3. QED
      BY <2>1, <3>1, <3>2 DEF UserGone, database
  <2>3. CASE ~users
    <3>1. UNCHANGED pending /\ Claimed(f)' = Claimed(f)
      BY <1>6, <2>3 DEF DeleteUsers, pending, Claimed
    <3>2. Claimed(f) = {}
      BY <2>3 DEF LinkedToUser, ClaimsOK, Claimed
    <3>3. QED
      BY <2>1, <3>1, <3>2 DEF UserGone, pending
  <2>4. QED
    BY <2>2, <2>3
<1>7. CASE \/ Request(f) \/ ClerkDeletes(f) \/ ClerkFails(f)
           \/ DeleteFeedback(f) \/ DeleteHistory(f) \/ DeleteUsage(f)
  <2>1. /\ "users" \notin deleted[f] /\ nulled[f] = {} /\ pc'[f] # "commit"
        /\ "users" \notin deleted'[f] /\ nulled'[f] = nulled[f]
    BY <1>7 DEF Request, ClerkDeletes, ClerkFails, DeleteFeedback, DeleteHistory,
         Delete, DeleteUsage, Erasing, UserGone, Go, TypeOK, pending, Writers
  <2>2. QED
    BY <2>1 DEF UserGone
<1>8. QED
  BY <1>1, <1>2, <1>3, <1>4, <1>5, <1>6, <1>7 DEF Next, EraserStep

(* The users row stays deleted behind a quiet erasure.                     *)
LEMMA QuietStep ==
    ASSUME ErasureInv, Next, NEW f \in Erasers
    PROVE  QuietOK(f)'
<1> USE Sides
<1> TypeOK /\ LocksOK /\ RowsOK /\ ClaimsOK /\ LinkedToUser /\ UserGone(f) /\ QuietOK(f)
  BY DEF ErasureInv
<1>1. CASE TokenExpires
  BY <1>1 DEF TokenExpires, QuietOK, Writing, database, pending, history
<1>2. ASSUME NEW w \in Writers, WriterStep(w) PROVE QuietOK(f)'
  <2>1. CASE Arrive(w)
    BY <2>1 DEF Arrive, QuietOK
  <2>2. CASE ~Arrive(w)
    <3>1. Writing(w) /\ quiet'[f] = quiet[f]
      BY <1>2, <2>2 DEF WriterStep, EnsureUser, AddRow, RecordUsage, WriterCommits,
                        WriterFails, Writing, history
    <3>2. QED
      BY <3>1 DEF QuietOK
  <2>3. QED
    BY <2>1, <2>2
<1>3. ASSUME NEW e \in Erasers, EraserStep(e)
      PROVE  /\ \A w \in Writers : Writing(w)' = Writing(w)
             /\ users' => users
             /\ e # f => /\ quiet'[f] = quiet[f] /\ pc'[f] = pc[f]
                         /\ deleted'[f] = deleted[f]
  <2>1. \A w \in Writers : Writing(w)' = Writing(w)
    BY <1>3, EraserEffects DEF Writing
  <2>2. users' => users
    BY <1>3, EraserEffects, CommitEffects
  <2>3. e # f => quiet'[f] = quiet[f]
    BY <1>3 DEF EraserStep, Request, ClerkDeletes, ClerkFails, DeleteFeedback,
         DeleteHistory, Delete, DeleteUsage, DeleteUsers, EraserCommits,
         EraserFails, history, TypeOK
  <2>4. QED
    BY <1>3, <2>1, <2>2, <2>3, EraserEffects
<1>4. ASSUME NEW e \in Erasers, EraserStep(e), e # f PROVE QuietOK(f)'
  BY <1>3, <1>4 DEF QuietOK
<1>5. CASE Request(f)
  <2>1. /\ quiet'[f] = (\A w \in Writers : ~Writing(w))
        /\ pc'[f] \in {"clerk", "feedback"}
    BY <1>5 DEF Request, Go, TypeOK
  <2>2. EraserStep(f)
    BY <1>5 DEF EraserStep
  <2>3. QED
    BY <1>3, <2>1, <2>2 DEF QuietOK
<1>6. CASE EraserCommits(f)
  <2>1. /\ quiet'[f] = quiet[f] /\ pc'[f] = "done"
        /\ pc[f] = "commit"
        /\ users' = (users /\ "users" \notin deleted[f])
    BY <1>6 DEF EraserCommits, history, Go, TypeOK
  <2>2. EraserStep(f)
    BY <1>6 DEF EraserStep
  <2>3. QED
    BY <1>3, <2>1, <2>2 DEF QuietOK
<1>7. CASE DeleteUsers(f)
  <2>1. /\ quiet'[f] = quiet[f] /\ pc'[f] = "commit" /\ UNCHANGED users
        /\ ~users \/ "users" \in deleted'[f]
    BY <1>7 DEF DeleteUsers, history, database, Go, TypeOK
  <2>2. EraserStep(f)
    BY <1>7 DEF EraserStep
  <2>3. QED
    BY <1>3, <2>1, <2>2 DEF QuietOK
<1>8. CASE \/ ClerkDeletes(f) \/ ClerkFails(f) \/ EraserFails(f)
           \/ DeleteFeedback(f) \/ DeleteHistory(f) \/ DeleteUsage(f)
  <2>1. quiet'[f] = quiet[f] /\ pc'[f] \notin {"commit", "done"}
    BY <1>8 DEF ClerkDeletes, ClerkFails, EraserFails, DeleteFeedback,
         DeleteHistory, Delete, DeleteUsage, history, Go, TypeOK
  <2>2. EraserStep(f)
    BY <1>8 DEF EraserStep
  <2>3. QED
    BY <1>3, <2>1, <2>2 DEF QuietOK
<1>9. QED
  BY <1>1, <1>2, <1>4, <1>5, <1>6, <1>7, <1>8 DEF Next, EraserStep

(* Without a race an eraser that has been through a table has all of it.   *)
LEMMA RaceStep ==
    ASSUME ErasureInv, Next, NEW f \in Erasers
    PROVE  RaceOK(f)'
<1> USE Sides
<1> TypeOK /\ LocksOK /\ RowsOK /\ RaceOK(f)
  BY DEF ErasureInv
<1>1. CASE TokenExpires
  BY <1>1 DEF TokenExpires, RaceOK, Erasing, Writing, database, pending, history
<1>2. ASSUME NEW w \in Writers, WriterStep(w) PROVE RaceOK(f)'
  <2>1. /\ pc'[f] = pc[f] /\ deleted'[f] = deleted[f] /\ nulled'[f] = nulled[f]
        /\ Erasing(f)' = Erasing(f)
    BY <1>2, WriterEffects DEF pending, Erasing
  <2>2. ~raced' => ~raced /\ ~Erasing(f)
    <3>1. CASE Arrive(w)
      BY <3>1 DEF Arrive
    <3>2. CASE ~Arrive(w)
      <4>1. Writing(w) /\ raced' = raced
        BY <1>2, <3>2 DEF WriterStep, EnsureUser, AddRow, RecordUsage,
                          WriterCommits, WriterFails, Writing, history
      <4>2. QED
        BY <4>1 DEF RaceOK
    <3>3. QED
      BY <3>1, <3>2
  <2>3. QED
    BY <2>1, <2>2 DEF RaceOK, Erasing
<1>3. ASSUME NEW e \in Erasers, EraserStep(e)
      PROVE  /\ \A w \in Writers : Writing(w)' = Writing(w)
             /\ \A w \in Writers : rows'[w] = "owned" => rows[w] = "owned"
             /\ ~raced' => ~raced
  <2>1. \A w \in Writers : Writing(w)' = Writing(w)
    BY <1>3, EraserEffects DEF Writing
  <2>2. \A w \in Writers : rows'[w] = "owned" => rows[w] = "owned"
    BY <1>3, EraserEffects, CommitEffects
  <2>3. ~raced' => ~raced
    BY <1>3 DEF EraserStep, Request, ClerkDeletes, ClerkFails, DeleteFeedback,
         DeleteHistory, Delete, DeleteUsage, DeleteUsers, EraserCommits,
         EraserFails, history
  <2>4. QED
    BY <2>1, <2>2, <2>3
<1>4. ASSUME NEW e \in Erasers, EraserStep(e), e # f PROVE RaceOK(f)'
  <2>1. /\ pc'[f] = pc[f] /\ deleted'[f] = deleted[f] /\ nulled'[f] = nulled[f]
        /\ Erasing(f)' = Erasing(f)
    BY <1>4, EraserEffects DEF Erasing
  <2>2. \A w \in Writers : w \in Feedbacks \/ w \in Recommends
    BY DEF Writers
  <2>3. QED
    BY <1>3, <1>4, <2>1, <2>2 DEF RaceOK, Writers
<1>5. CASE Request(f)
  <2>1. /\ pc'[f] \in {"clerk", "feedback"} /\ nulled'[f] = nulled[f]
        /\ ~raced' => ~raced
        /\ ~raced' => \A w \in Writers : ~Writing(w)
    BY <1>5 DEF Request, Go, TypeOK, pending
  <2>2. \A w \in Writers : Writing(w)' = Writing(w)
    BY <1>3, <1>5 DEF EraserStep
  <2>3. QED
    BY <2>1, <2>2 DEF RaceOK
<1>6. ASSUME EraserStep(f), Erasing(f), raced' = raced
      PROVE  ~raced' => ~raced /\ \A w \in Writers : ~Writing(w)'
  BY <1>3, <1>6 DEF RaceOK
<1>7. CASE DeleteFeedback(f)
  <2>1. /\ pc'[f] = "query_history" /\ Erasing(f) /\ raced' = raced
        /\ UNCHANGED rows /\ nulled'[f] = nulled[f]
        /\ \A w \in Feedbacks : rows[w] = "owned" => w \in deleted'[f]
    BY <1>7 DEF DeleteFeedback, Delete, Erasing, Go, TypeOK, database, history
  <2>2. QED
    BY <1>6, <1>7, <2>1 DEF EraserStep, RaceOK
<1>8. CASE DeleteHistory(f)
  <2>1. /\ pc[f] = "query_history" /\ pc'[f] = "usage_daily" /\ Erasing(f)
        /\ raced' = raced /\ UNCHANGED rows /\ nulled'[f] = nulled[f]
        /\ deleted[f] \subseteq deleted'[f]
        /\ \A w \in Recommends : rows[w] = "owned" => w \in deleted'[f]
    BY <1>8 DEF DeleteHistory, Delete, Erasing, Go, TypeOK, database, history
  <2>2. QED
    BY <1>6, <1>8, <2>1 DEF EraserStep, RaceOK
<1>9. CASE DeleteUsage(f)
  <2>1. /\ pc[f] = "usage_daily" /\ pc'[f] = "users" /\ Erasing(f)
        /\ raced' = raced /\ UNCHANGED rows /\ nulled'[f] = nulled[f]
        /\ deleted[f] \subseteq deleted'[f]
    BY <1>9 DEF DeleteUsage, Erasing, Go, TypeOK, database, history
  <2>2. QED
    BY <1>6, <1>9, <2>1 DEF EraserStep, RaceOK
<1>10. CASE DeleteUsers(f)
  <2>1. /\ pc[f] = "users" /\ pc'[f] = "commit" /\ Erasing(f)
        /\ raced' = raced /\ UNCHANGED rows
        /\ deleted[f] \subseteq deleted'[f]
        /\ nulled'[f] = nulled[f] \/ nulled'[f] = Missed(f)
    BY <1>10 DEF DeleteUsers, Erasing, Go, TypeOK, database, history, pending
  <2>2. ~raced => Missed(f) = {}
    BY <2>1 DEF RaceOK, Missed, Writers
  <2>3. QED
    BY <1>6, <1>10, <2>1, <2>2 DEF EraserStep, RaceOK
<1>11. CASE EraserCommits(f) \/ EraserFails(f)
  <2>1. /\ pc'[f] \in {"done", "failed"} /\ nulled'[f] = {}
        /\ ~Erasing(f)'
    BY <1>11 DEF EraserCommits, EraserFails, Erasing, Go, TypeOK
  <2>2. QED
    BY <2>1 DEF RaceOK
<1>12. CASE ClerkDeletes(f) \/ ClerkFails(f)
  <2>1. /\ pc'[f] \in {"feedback", "failed"} /\ nulled'[f] = nulled[f]
        /\ Erasing(f) /\ raced' = raced
    BY <1>12 DEF ClerkDeletes, ClerkFails, Erasing, Go, TypeOK, pending, history
  <2>2. QED
    BY <1>6, <1>12, <2>1 DEF EraserStep, RaceOK
<1>13. QED
  BY <1>1, <1>2, <1>4, <1>5, <1>7, <1>8, <1>9, <1>10, <1>11, <1>12
     DEF Next, EraserStep

(* Without a race nothing is unlinked.                                     *)
LEMMA OrphanStep ==
    ASSUME ErasureInv, Next
    PROVE  NoOrphanYet'
<1> USE Sides
<1> TypeOK /\ LocksOK /\ RowsOK /\ NoOrphanYet
  BY DEF ErasureInv
<1>1. CASE TokenExpires
  BY <1>1 DEF TokenExpires, NoOrphanYet, database, history
<1>2. ASSUME NEW w \in Writers, WriterStep(w) PROVE NoOrphanYet'
  <2>1. \A v \in Writers : rows'[v] = "orphan" => rows[v] = "orphan"
    BY <1>2, WriterEffects DEF TypeOK
  <2>2. ~raced' => ~raced
    BY <1>2 DEF WriterStep, Arrive, EnsureUser, AddRow, RecordUsage,
                WriterCommits, WriterFails, history
  <2>3. QED
    BY <2>1, <2>2 DEF NoOrphanYet
<1>3. ASSUME NEW e \in Erasers, EraserStep(e) PROVE NoOrphanYet'
  <2>1. CASE EraserCommits(e)
    <3>1. raced' = raced
      BY <2>1 DEF EraserCommits, history
    <3>2. ~raced => nulled[e] = {}
      BY DEF ErasureInv, RaceOK
    <3>3. \A w \in Writers : rows'[w] = "orphan" => rows[w] = "orphan" \/ w \in nulled[e]
      BY <2>1, CommitEffects
    <3>4. QED
      BY <3>1, <3>2, <3>3 DEF NoOrphanYet
  <2>2. CASE ~EraserCommits(e)
    <3>1. UNCHANGED rows
      BY <1>3, <2>2, EraserEffects
    <3>2. ~raced' => ~raced
      BY <1>3 DEF EraserStep, Request, ClerkDeletes, ClerkFails, DeleteFeedback,
         DeleteHistory, Delete, DeleteUsage, DeleteUsers, EraserCommits,
         EraserFails, history
    <3>3. QED
      BY <3>1, <3>2 DEF NoOrphanYet
  <2>3. QED
    BY <2>1, <2>2
<1>4. QED
  BY <1>1, <1>2, <1>3 DEF Next

-----------------------------------------------------------------------------
(* Each step keeps the invariant.                                          *)
LEMMA ErasureStep == ErasureInv /\ [Next]_vars => ErasureInv'
<1> SUFFICES ASSUME ErasureInv, [Next]_vars PROVE ErasureInv'
  OBVIOUS
<1>1. CASE UNCHANGED vars
  BY <1>1 DEF vars, database, locks, pending, history, ErasureInv, TypeOK, LocksOK,
     RowsOK, ClaimsOK, Claimed, LinkedToUser, NoOrphanYet, UserGone, QuietOK,
     RaceOK, Writing, Erasing
<1>2. CASE Next
  <2>1. LocksOK'
    BY <1>2, LocksStep DEF ErasureInv
  <2>2. TypeOK' /\ RowsOK'
    BY <1>2, <2>1, TypeStep, RowsStep DEF ErasureInv
  <2>3. ClaimsOK' /\ LinkedToUser' /\ NoOrphanYet'
    BY <1>2, ClaimsStep, LinkedStep, OrphanStep
  <2>4. \A e \in Erasers : UserGone(e)' /\ QuietOK(e)' /\ RaceOK(e)'
    BY <1>2, UserGoneStep, QuietStep, RaceStep
  <2>5. QED
    BY <2>1, <2>2, <2>3, <2>4 DEF ErasureInv
<1>3. QED
  BY <1>1, <1>2

(* The invariant holds of every behaviour.                                 *)
LEMMA ErasureCorrect == Spec => []ErasureInv
<1>1. Init => ErasureInv
  BY Sides DEF Init, ErasureInv, TypeOK, LocksOK, RowsOK, ClaimsOK, Claimed,
     LinkedToUser, NoOrphanYet, UserGone, QuietOK, RaceOK, Erasing, Writing,
     WriterPCs, EraserPCs
<1>2. QED
  BY <1>1, ErasureStep, PTL DEF Spec

(* No behaviour leaves the types declared in TypeOK.                       *)
THEOREM TypeCorrect == Spec => []TypeOK
<1>1. ErasureInv => TypeOK
  BY DEF ErasureInv
<1>2. QED
  BY <1>1, ErasureCorrect, PTL

(* No row and no usage outlives the users row it refers to, however the    *)
(* upserts of the requests and the deletes of the erasers interleave.      *)
THEOREM LinksHold == Spec => []LinkedToUser
<1>1. ErasureInv => LinkedToUser
  BY DEF ErasureInv
<1>2. QED
  BY <1>1, ErasureCorrect, PTL

(* An erasure that no request overlapped leaves nothing linked, and where  *)
(* none ever overlapped nothing is left unlinked (rtbf.delete_user,        *)
(* gdpr.delete_user).                                                      *)
THEOREM QuietComplete == Spec => []QuietErasure
<1>1. ErasureInv => QuietErasure
  BY DEF ErasureInv, QuietOK, NoOrphanYet, LinkedToUser, QuietErasure
<1>2. QED
  BY <1>1, ErasureCorrect, PTL

(* Committed personal data goes only by an eraser's commit, and then all   *)
(* of it with the users row: no failure, no other request, no second       *)
(* eraser removes a part.                                                  *)
THEOREM ErasesTogether == Spec => ErasedTogether
<1> DEFINE Lost == \E w \in Writers : rows[w] = "owned" /\ rows'[w] # "owned"
           Gone == ~users' /\ ~usage'
<1>1. ErasureInv /\ [Next]_vars => [Lost => Gone]_vars
  <2> SUFFICES ASSUME ErasureInv, Next, NEW w \in Writers,
                      rows[w] = "owned", rows'[w] # "owned"
               PROVE  Gone
    OBVIOUS
  <2>1. TypeOK /\ LocksOK /\ RowsOK
    BY DEF ErasureInv
  <2>2. CASE TokenExpires
    BY <2>2 DEF TokenExpires, database
  <2>3. ASSUME NEW v \in Writers, WriterStep(v) PROVE FALSE
    BY <2>1, <2>3, WriterEffects DEF TypeOK
  <2>4. ASSUME NEW e \in Erasers, EraserStep(e) PROVE Gone
    <3>1. EraserCommits(e)
      BY <2>1, <2>4, EraserEffects
    <3>2. "users" \in deleted[e]
      BY <3>1, CommitEffects
    <3>3. QED
      BY <3>1, <3>2, CommitEffects
  <2>5. QED
    BY <2>2, <2>3, <2>4 DEF Next
<1>2. QED
  BY <1>1, ErasureCorrect, PTL DEF Spec, ErasedTogether
=============================================================================
