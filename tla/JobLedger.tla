----------------------------- MODULE JobLedger -----------------------------
(***************************************************************************)
(* What the asynchronous job pipeline promises, without workers, receipts  *)
(* or deduplication markers: a job that was published stays held by the    *)
(* queue until a handler has run it to completion or a copy of it rests in *)
(* the dead-letter queue.  JobQueue is the pipeline that is to keep this   *)
(* promise.                                                                *)
(***************************************************************************)
CONSTANT Jobs     \* one per idempotency key

VARIABLES
    accepted,     \* jobs ever published
    held,         \* jobs with a message still on the main queue
    done,         \* jobs a handler has completed at least once
    dead          \* jobs with a copy on the dead-letter queue

vars == <<accepted, held, done, dead>>

Init == accepted = {} /\ held = {} /\ done = {} /\ dead = {}

(* A producer publishes j, possibly again (a repeated send).               *)
Accept(j) ==
    /\ accepted' = accepted \cup {j}
    /\ held' = held \cup {j}
    /\ UNCHANGED <<done, dead>>

(* A handler completes j while the queue still holds it.                   *)
Complete(j) ==
    /\ j \in held
    /\ done' = done \cup {j}
    /\ UNCHANGED <<accepted, held, dead>>

(* A copy of j reaches the dead-letter queue; with it the main queue may   *)
(* let go of j.                                                            *)
Bury(j) ==
    /\ j \in held
    /\ dead' = dead \cup {j}
    /\ held' \in {held, held \ {j}}
    /\ UNCHANGED <<accepted, done>>

(* The main queue lets go of a job that is settled.                        *)
Release(j) ==
    /\ j \in held \cap (done \cup dead)
    /\ held' = held \ {j}
    /\ UNCHANGED <<accepted, done, dead>>

Next == \E j \in Jobs : Accept(j) \/ Complete(j) \/ Bury(j) \/ Release(j)

Spec == Init /\ [][Next]_vars

-----------------------------------------------------------------------------
(* No published job is ever unaccounted for.                               *)
NoJobLost == accepted \subseteq held \cup done \cup dead
=============================================================================
