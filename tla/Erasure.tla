------------------------------ MODULE Erasure ------------------------------
(***************************************************************************)
(* The right to be forgotten against the traffic of the user who claims    *)
(* it.  One user; API requests write the user's rows, each in a            *)
(* transaction of its own (Repository under session_scope), and erasers    *)
(* delete them (rtbf.delete_user, the gdpr.delete_user job).  PostgreSQL   *)
(* at READ COMMITTED is external and kept to what decides who waits and    *)
(* what each statement sees: uncommitted rows are invisible, a row that    *)
(* another transaction has locked is waited for, DELETE FROM users nulls   *)
(* the references that are committed by then, a cycle of waits ends with   *)
(* one victim.  A feedback row's optional query_history_id is left out.    *)
(***************************************************************************)
EXTENDS FiniteSets

CONSTANTS
    Recommends,    \* POST /recommend requests
    Feedbacks,     \* POST /feedback requests
    Selves,        \* DELETE /account and scripts/rtbf.py (rtbf.delete_user)
    Jobs,          \* gdpr.delete_user jobs in the worker
    Nobody         \* "no transaction"

Writers == Recommends \cup Feedbacks
Erasers == Selves \cup Jobs
Transactions == Writers \cup Erasers

ASSUME ErasureAssumption ==
    /\ Recommends \cap Feedbacks = {}
    /\ Selves \cap Jobs = {}
    /\ Writers \cap Erasers = {}
    /\ Nobody \notin Transactions
    /\ Writers \cap {"users", "usage_daily"} = {}

VARIABLES
    users,        \* committed: the users row exists
    rows,         \* committed: owner of each writer's query_history/feedback row
    usage,        \* committed: today's usage_daily row exists
    audit,        \* committed: the account_deletions row exists
    clerk,        \* the identity at Clerk
    token,        \* a session token issued before is still unexpired
    pc,           \* per transaction: where it is
    userLock,     \* transaction holding the users row (or its key)
    usageLock,    \* transaction holding the usage_daily row (or its key)
    deleted,      \* per eraser: rows its transaction has deleted
    nulled,       \* per eraser: rows its DELETE FROM users has nulled
    quiet,        \* history: no writer overlapped the eraser's current run
    raced         \* history: some eraser and writer have overlapped

database == <<users, rows, usage, audit>>
locks == <<userLock, usageLock>>
pending == <<deleted, nulled>>
history == <<quiet, raced>>
vars == <<database, clerk, token, pc, locks, pending, history>>

WriterPCs == {"idle", "serving", "ensured", "inserted", "commit"}
EraserPCs == {"idle", "clerk", "feedback", "query_history", "usage_daily",
              "users", "commit", "done", "failed"}

TypeOK ==
    /\ users \in BOOLEAN /\ usage \in BOOLEAN /\ audit \in BOOLEAN
    /\ rows \in [Writers -> {"absent", "owned", "orphan"}]
    /\ clerk \in {"active", "deleted"}
    /\ token \in BOOLEAN
    /\ pc \in [Transactions -> WriterPCs \cup EraserPCs]
    /\ \A w \in Writers : pc[w] \in WriterPCs
    /\ \A e \in Erasers : pc[e] \in EraserPCs
    /\ userLock \in Transactions \cup {Nobody}
    /\ usageLock \in Transactions \cup {Nobody}
    /\ deleted \in [Erasers -> SUBSET (Writers \cup {"users", "usage_daily"})]
    /\ nulled \in [Erasers -> SUBSET Writers]
    /\ quiet \in [Erasers -> BOOLEAN]
    /\ raced \in BOOLEAN
    /\ \A t \in {userLock, usageLock} \ {Nobody} :
          pc[t] \in {"ensured", "inserted", "commit", "users"}

Init ==
    /\ users = FALSE /\ usage = FALSE /\ audit = FALSE
    /\ rows = [w \in Writers |-> "absent"]
    /\ clerk = "active"
    /\ token = TRUE
    /\ pc = [t \in Transactions |-> "idle"]
    /\ userLock = Nobody /\ usageLock = Nobody
    /\ deleted = [e \in Erasers |-> {}]
    /\ nulled = [e \in Erasers |-> {}]
    /\ quiet = [e \in Erasers |-> FALSE]
    /\ raced = FALSE

-----------------------------------------------------------------------------
Writing(w) == pc[w] # "idle"
Erasing(e) == pc[e] \notin {"idle", "done", "failed"}

Go(t, at) == pc' = [pc EXCEPT ![t] = at]
Free(lock, t) == lock \in {Nobody, t}
Released(lock, t) == IF lock = t THEN Nobody ELSE lock
Unlock(t) == userLock' = Released(userLock, t) /\ usageLock' = Released(usageLock, t)

(* get_current_user accepts the token offline, whatever Clerk says by now. *)
Arrive(w) ==
    /\ pc[w] = "idle"
    /\ rows[w] = "absent"
    /\ token
    /\ Go(w, "serving")
    /\ quiet' = [e \in Erasers |-> FALSE]
    /\ raced' = (raced \/ \E e \in Erasers : Erasing(e))
    /\ UNCHANGED <<database, clerk, token, locks, pending>>

(* Clerk stops issuing tokens with the deletion; the last one runs out.    *)
TokenExpires ==
    /\ clerk = "deleted"
    /\ token
    /\ token' = FALSE
    /\ UNCHANGED <<database, clerk, pc, locks, pending, history>>

(* ensure_user: an upsert, which waits for whoever holds the row.          *)
EnsureUser(w) ==
    /\ pc[w] = "serving"
    /\ Free(userLock, w)
    /\ userLock' = w
    /\ Go(w, "ensured")
    /\ UNCHANGED <<database, clerk, token, usageLock, pending, history>>

(* add_query_history or add_feedback: flushed, visible to nobody else.     *)
AddRow(w) ==
    /\ pc[w] = "ensured"
    /\ Go(w, IF w \in Recommends THEN "inserted" ELSE "commit")
    /\ UNCHANGED <<database, clerk, token, locks, pending, history>>

(* record_usage: an upsert of the day's row.                               *)
RecordUsage(w) ==
    /\ pc[w] = "inserted"
    /\ Free(usageLock, w)
    /\ usageLock' = w
    /\ Go(w, "commit")
    /\ UNCHANGED <<database, clerk, token, userLock, pending, history>>

(* get_session commits after the response has been sent.                   *)
WriterCommits(w) ==
    /\ pc[w] = "commit"
    /\ users' = (users \/ userLock = w)
    /\ rows' = [rows EXCEPT ![w] = "owned"]
    /\ usage' = (usage \/ w \in Recommends)
    /\ Unlock(w)
    /\ Go(w, "idle")
    /\ UNCHANGED <<audit, clerk, token, pending, history>>

\* Mutant of WriterFails: session_scope ends without rollback or close.
WriterFailsHolding(w) ==
    /\ Writing(w)
    /\ Go(w, "idle")
    /\ UNCHANGED <<database, clerk, token, locks, pending, history>>

(* Any error in the route or the database: rollback.                       *)
WriterFails(w) ==
    /\ Writing(w)
    /\ Unlock(w)
    /\ Go(w, "idle")
    /\ UNCHANGED <<database, clerk, token, pending, history>>

-----------------------------------------------------------------------------
(* The endpoint needs a token, the CLI and the job do not; a failed or     *)
(* finished run may be repeated.                                           *)
Request(e) ==
    /\ ~Erasing(e)
    /\ Go(e, IF e \in Selves THEN "clerk" ELSE "feedback")
    /\ quiet' = [quiet EXCEPT ![e] = \A w \in Writers : ~Writing(w)]
    /\ raced' = (raced \/ \E w \in Writers : Writing(w))
    /\ UNCHANGED <<database, clerk, token, locks, pending>>

(* clerk_client.delete_user: deleted, or 404 and so already gone.          *)
ClerkDeletes(e) ==
    /\ pc[e] = "clerk"
    /\ clerk' = "deleted"
    /\ Go(e, "feedback")
    /\ UNCHANGED <<database, token, locks, pending, history>>

(* ClerkAPIError: nothing is deleted here.  After a network error Clerk    *)
(* may have deleted the identity all the same.                             *)
ClerkFails(e) ==
    /\ pc[e] = "clerk"
    /\ clerk' \in {clerk, "deleted"}
    /\ Go(e, "failed")
    /\ UNCHANGED <<database, token, locks, pending, history>>

\* Mutant of Delete: the first table of the list is never deleted from.
DeleteNoFeedback(e, table, mine, next) ==
    LET found == {w \in mine : rows[w] = "owned"} IN
    /\ pc[e] = table
    /\ \A f \in Erasers \ {e} : found \cap (deleted[f] \cup nulled[f]) = {}
    /\ deleted' = [deleted EXCEPT ![e] = @ \cup (found \ Feedbacks)]
    /\ Go(e, next)
    /\ UNCHANGED <<database, clerk, token, locks, nulled, history>>

\* Mutant of Delete: every statement commits on its own.
DeleteCommitting(e, table, mine, next) ==
    LET found == {w \in mine : rows[w] = "owned"} IN
    /\ pc[e] = table
    /\ \A f \in Erasers \ {e} : found \cap (deleted[f] \cup nulled[f]) = {}
    /\ rows' = [w \in Writers |-> IF w \in found THEN "absent" ELSE rows[w]]
    /\ Go(e, next)
    /\ UNCHANGED <<users, usage, audit, clerk, token, locks, pending, history>>

(* DELETE FROM table WHERE user_id = :uid, for the rows committed by now;  *)
(* rows another eraser has deleted, or nulled, are waited for.             *)
Delete(e, table, mine, next) ==
    LET found == {w \in mine : rows[w] = "owned"} IN
    /\ pc[e] = table
    /\ \A f \in Erasers \ {e} : found \cap (deleted[f] \cup nulled[f]) = {}
    /\ deleted' = [deleted EXCEPT ![e] = @ \cup found]
    /\ Go(e, next)
    /\ UNCHANGED <<database, clerk, token, locks, nulled, history>>

DeleteFeedback(e) == Delete(e, "feedback", Feedbacks, "query_history")
DeleteHistory(e) == Delete(e, "query_history", Recommends, "usage_daily")

DeleteUsage(e) ==
    /\ pc[e] = "usage_daily"
    /\ \/ ~usage /\ UNCHANGED <<usageLock, deleted>>
       \/ /\ usage /\ Free(usageLock, e)
          /\ usageLock' = e
          /\ deleted' = [deleted EXCEPT ![e] = @ \cup {"usage_daily"}]
    /\ Go(e, "users")
    /\ UNCHANGED <<database, clerk, token, userLock, nulled, history>>

(* Rows committed since this eraser's own deletes.                         *)
Missed(e) == {w \in Writers \ deleted[e] : rows[w] = "owned"}

\* Mutant of DeleteUsers: usage_daily has no foreign key that cascades.
DeleteUsersNoCascade(e) ==
    /\ pc[e] = "users"
    /\ \/ ~users /\ UNCHANGED <<userLock, pending>>
       \/ /\ users /\ Free(userLock, e)
          /\ \A f \in Erasers \ {e} : Missed(e) \cap deleted[f] = {}
          /\ userLock' = e
          /\ deleted' = [deleted EXCEPT ![e] = @ \cup {"users"}]
          /\ nulled' = [nulled EXCEPT ![e] = Missed(e)]
    /\ Go(e, "commit")
    /\ UNCHANGED <<database, clerk, token, usageLock, history>>

(* The users row last: it waits for writers that hold it, and then its     *)
(* foreign keys null what they have committed (usage_daily cascades).      *)
DeleteUsers(e) ==
    /\ pc[e] = "users"
    /\ \/ ~users /\ UNCHANGED <<userLock, pending>>
       \/ /\ users /\ Free(userLock, e)
          /\ \A f \in Erasers \ {e} : Missed(e) \cap deleted[f] = {}
          /\ userLock' = e
          /\ deleted' = [deleted EXCEPT ![e] = @ \cup {"users", "usage_daily"}]
          /\ nulled' = [nulled EXCEPT ![e] = Missed(e)]
    /\ Go(e, "commit")
    /\ UNCHANGED <<database, clerk, token, usageLock, history>>

(* delete_user adds the audit row and commits; the job only commits.       *)
EraserCommits(e) ==
    /\ pc[e] = "commit"
    /\ users' = (users /\ "users" \notin deleted[e])
    /\ usage' = (usage /\ "usage_daily" \notin deleted[e])
    /\ rows' = [w \in Writers |-> IF w \in deleted[e] THEN "absent"
                                  ELSE IF w \in nulled[e] THEN "orphan"
                                  ELSE rows[w]]
    /\ audit' = (audit \/ e \in Selves)
    /\ deleted' = [deleted EXCEPT ![e] = {}]
    /\ nulled' = [nulled EXCEPT ![e] = {}]
    /\ Unlock(e)
    /\ Go(e, "done")
    /\ UNCHANGED <<clerk, token, history>>

(* The transaction is rolled back: database error, crash, deadlock victim. *)
EraserFails(e) ==
    /\ Erasing(e) /\ pc[e] # "clerk"
    /\ deleted' = [deleted EXCEPT ![e] = {}]
    /\ nulled' = [nulled EXCEPT ![e] = {}]
    /\ Unlock(e)
    /\ Go(e, "failed")
    /\ UNCHANGED <<database, clerk, token, history>>

-----------------------------------------------------------------------------
WriterStep(w) ==
    \/ Arrive(w) \/ EnsureUser(w) \/ AddRow(w) \/ RecordUsage(w)
    \/ WriterCommits(w) \/ WriterFails(w)

EraserStep(e) ==
    \/ Request(e) \/ ClerkDeletes(e) \/ ClerkFails(e)
    \/ DeleteFeedback(e) \/ DeleteHistory(e) \/ DeleteUsage(e) \/ DeleteUsers(e)
    \/ EraserCommits(e) \/ EraserFails(e)

Next ==
    \/ TokenExpires
    \/ \E w \in Writers : WriterStep(w)
    \/ \E e \in Erasers : EraserStep(e)

Spec == Init /\ [][Next]_vars

-----------------------------------------------------------------------------
(* What is linked to the user is reachable: no owned row and no usage row  *)
(* outlives the users row, in any interleaving of upserts, deletes and     *)
(* their locks.                                                            *)
LinkedToUser ==
    /\ \A w \in Writers : rows[w] = "owned" => users
    /\ usage => users

(* An erasure that no request of the user overlapped leaves nothing linked *)
(* to the user, and without any overlap nothing is left unlinked either.   *)
QuietErasure ==
    /\ \A e \in Erasers : pc[e] = "done" /\ quiet[e] =>
          ~users /\ ~usage /\ \A w \in Writers : rows[w] # "owned"
    /\ ~raced => \A w \in Writers : rows[w] # "orphan"

(* Committed personal data goes only by an eraser's commit: a failed run,  *)
(* an expired token or another request never removes part of it.           *)
ErasedTogether ==
    [][ (\E w \in Writers : rows[w] = "owned" /\ rows'[w] # "owned")
           => ~users' /\ ~usage' ]_vars

-----------------------------------------------------------------------------
(* gdpr_delete.py:6-9: "For GDPR we must DELETE those rows, not null their *)
(* FK"; rtbf.py:13-14: "RTBF must explicitly delete the PII rows".         *)
NoOrphans == \A w \in Writers : rows[w] # "orphan"

(* account.py:53-55: deletes "all user-scoped PII rows ... + the           *)
(* Clerk-side identity, in a single transactional unit".                   *)
SingleUnit ==
    \A e \in Selves : pc[e] = "failed" => (clerk = "deleted" => ~users)

(* account.py:58-60: "After this call returns, the bearer token used to    *)
(* authenticate is no longer valid (Clerk-side delete)."                   *)
TokenRevoked == \A e \in Selves : pc[e] = "done" => ~token
=============================================================================
