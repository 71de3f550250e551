------------------------------ MODULE JobQueue ------------------------------
(***************************************************************************)
(* The background-job pipeline: producers put job messages on an SQS       *)
(* queue; worker processes (apps/worker) receive them in batches, claim    *)
(* each one with a Redis marker "seen:<key>" (SET NX), run its handler and *)
(* delete it, or leave it for redelivery, or copy it to the dead-letter    *)
(* queue.  SQS itself is external: visibility timeouts, redelivery and the *)
(* redrive policy are modelled from how the code configures and uses it.   *)
(*                                                                         *)
(* One worker is one `python -m anime_worker` process: it handles its      *)
(* batch sequentially and gives up control at every await, so each await   *)
(* (receive, set_nx, handler, delete of the marker, send, delete) is a     *)
(* step of its own.                                                        *)
(***************************************************************************)
EXTENDS Integers, FiniteSets

CONSTANTS
    Messages,      \* messages that may be put on the queue
    Keys,          \* idempotency keys
    KeyOf,         \* the idempotency key of each message
    Unparseable,   \* messages whose body is not a JobMessage
    Unroutable,    \* messages whose type has no entry in the registry
    Workers,       \* worker processes polling the queue
    BatchMax,      \* RECEIVE_BATCH
    MaxReceive,    \* maxReceiveCount of the redrive policy
    NoMessage,     \* "no message in hand"
    Faults         \* which of the faults below may happen

(***************************************************************************)
(* kill     a worker process dies at any point (SIGKILL, OOM, node loss)   *)
(* restart  a worker process dies, but never between claiming a key and    *)
(*          leaving its handler                                            *)
(* batchwait  a visibility timeout runs out while the message waits in a   *)
(*          worker's batch for its turn                                    *)
(* overlap  a visibility timeout runs out while a worker has the message   *)
(*          in its batch, waiting or being processed                       *)
(* redis    a Redis command fails (RedisCache swallows the error)          *)
(* evict    Redis drops a marker (allkeys-lru, or the 7-day TTL)           *)
(* sqs      a call to SQS raises                                           *)
(***************************************************************************)
FaultKinds ==
    {"kill", "restart", "batchwait", "overlap", "redis", "evict", "sqs"}

ASSUME JobQueueAssumption ==
    /\ KeyOf \in [Messages -> Keys]
    /\ Unparseable \subseteq Messages
    /\ Unroutable \subseteq Messages \ Unparseable
    /\ \A m \in Unparseable, n \in Messages : KeyOf[m] = KeyOf[n] => m = n
    /\ NoMessage \notin Messages
    /\ BatchMax \in Nat \ {0}
    /\ MaxReceive \in Nat \ {0}
    /\ Faults \subseteq FaultKinds

VARIABLES
    loc,        \* where SQS has each message
    receives,   \* ApproximateReceiveCount of each message
    dead,       \* copies of each message on the dead-letter queue
    seen,       \* keys whose marker "seen:<key>" is set in Redis
    pc,         \* what each worker is awaiting
    todo,       \* messages of the worker's batch not yet taken up
    cur,        \* the message a worker is processing
    receipt,    \* per worker and message: the receipt handle it holds
    verdict,    \* the ProcessResult for the current message
    stop,       \* the worker's stop_event
    runs        \* history: completed handler runs per key

queueVars == <<loc, receives, dead>>
workerVars == <<pc, todo, cur, receipt, verdict, stop>>
vars == <<queueVars, seen, workerVars, runs>>

Locations == {"unsent", "visible", "inflight", "gone"}
PCs == {"idle", "poll", "next", "handle", "clear", "bury", "ack", "off"}
Verdicts == {"none", "processed", "duplicate", "failed", "poison"}

TypeOK ==
    /\ loc \in [Messages -> Locations]
    /\ receives \in [Messages -> 0..MaxReceive]
    /\ dead \in [Messages -> Nat]
    /\ seen \subseteq Keys
    /\ pc \in [Workers -> PCs]
    /\ todo \in [Workers -> SUBSET Messages]
    /\ cur \in [Workers -> Messages \cup {NoMessage}]
    /\ receipt \in [Workers -> [Messages -> 0..MaxReceive]]
    /\ verdict \in [Workers -> Verdicts]
    /\ stop \in [Workers -> BOOLEAN]
    /\ runs \in [Keys -> Nat]

Init ==
    /\ loc = [m \in Messages |-> "unsent"]
    /\ receives = [m \in Messages |-> 0]
    /\ dead = [m \in Messages |-> 0]
    /\ seen = {}
    /\ pc = [w \in Workers |-> "idle"]
    /\ todo = [w \in Workers |-> {}]
    /\ cur = [w \in Workers |-> NoMessage]
    /\ receipt = [w \in Workers |-> [m \in Messages |-> 0]]
    /\ verdict = [w \in Workers |-> "none"]
    /\ stop = [w \in Workers |-> FALSE]
    /\ runs = [k \in Keys |-> 0]

-----------------------------------------------------------------------------
Queued(m) == loc[m] \in {"visible", "inflight"}

(* The messages of the batch a worker has received and not finished.       *)
Holding(w) == todo[w] \cup ({cur[w]} \ {NoMessage})

(* The worker holds a claim it must either honour or take back.            *)
InClaim(w) == pc[w] \in {"handle", "clear"}

-----------------------------------------------------------------------------
(* SqsJobPublisher.publish: the message is on the queue.  Two messages     *)
(* with one key are a send that was repeated.                              *)
Publish(m) ==
    /\ loc[m] = "unsent"
    /\ loc' = [loc EXCEPT ![m] = "visible"]
    /\ UNCHANGED <<receives, dead, seen, workerVars, runs>>

(* SQS: the visibility timeout of an in-flight message runs out, normally  *)
(* because no live worker has it any more.                                 *)
VisibilityTimeout(m) ==
    /\ loc[m] = "inflight"
    /\ \A w \in Workers :
          \/ m \notin Holding(w)
          \/ "overlap" \in Faults
          \/ "batchwait" \in Faults /\ m # cur[w]
    /\ loc' = [loc EXCEPT ![m] = "visible"]
    /\ UNCHANGED <<receives, dead, seen, workerVars, runs>>

\* Mutant of Redrive: the policy is applied one receive too late.
RedriveOneLate(m) ==
    /\ loc[m] = "visible"
    /\ receives[m] = MaxReceive + 1
    /\ loc' = [loc EXCEPT ![m] = "gone"]
    /\ dead' = [dead EXCEPT ![m] = @ + 1]
    /\ UNCHANGED <<receives, seen, workerVars, runs>>

(* SQS: a message that has been received MaxReceive times goes to the      *)
(* dead-letter queue instead of being delivered again.                     *)
Redrive(m) ==
    /\ loc[m] = "visible"
    /\ receives[m] = MaxReceive
    /\ loc' = [loc EXCEPT ![m] = "gone"]
    /\ dead' = [dead EXCEPT ![m] = @ + 1]
    /\ UNCHANGED <<receives, seen, workerVars, runs>>

(* Redis forgets a marker.                                                 *)
Evict(k) ==
    /\ "evict" \in Faults
    /\ k \in seen
    /\ seen' = seen \ {k}
    /\ UNCHANGED <<queueVars, workerVars, runs>>

-----------------------------------------------------------------------------
(* run_worker: `while not stop.is_set()` and the long poll it starts.      *)
Poll(w) ==
    /\ pc[w] = "idle"
    /\ ~stop[w]
    /\ pc' = [pc EXCEPT ![w] = "poll"]
    /\ UNCHANGED <<queueVars, seen, todo, cur, receipt, verdict, stop, runs>>

\* Mutant of Receive: messages past their redrive limit are still delivered.
ReceiveUnlimited(w, batch) ==
    /\ pc[w] = "poll"
    /\ batch # {}
    /\ Cardinality(batch) <= BatchMax
    /\ \A m \in batch : loc[m] = "visible"
    /\ loc' = [m \in Messages |-> IF m \in batch THEN "inflight" ELSE loc[m]]
    /\ receives' = [m \in Messages |->
                      IF m \in batch THEN receives[m] + 1 ELSE receives[m]]
    /\ receipt' = [receipt EXCEPT ![w] =
                     [m \in Messages |-> IF m \in batch THEN receives[m] + 1 ELSE 0]]
    /\ todo' = [todo EXCEPT ![w] = batch]
    /\ pc' = [pc EXCEPT ![w] = "next"]
    /\ UNCHANGED <<dead, seen, cur, verdict, stop, runs>>

(* receive_message answers with up to BatchMax visible messages.           *)
Receive(w, batch) ==
    /\ pc[w] = "poll"
    /\ batch # {}
    /\ Cardinality(batch) <= BatchMax
    /\ \A m \in batch : loc[m] = "visible" /\ receives[m] < MaxReceive
    /\ loc' = [m \in Messages |-> IF m \in batch THEN "inflight" ELSE loc[m]]
    /\ receives' = [m \in Messages |->
                      IF m \in batch THEN receives[m] + 1 ELSE receives[m]]
    /\ receipt' = [receipt EXCEPT ![w] =
                     [m \in Messages |-> IF m \in batch THEN receives[m] + 1 ELSE 0]]
    /\ todo' = [todo EXCEPT ![w] = batch]
    /\ pc' = [pc EXCEPT ![w] = "next"]
    /\ UNCHANGED <<dead, seen, cur, verdict, stop, runs>>

(* The long poll runs out with nothing to deliver.                         *)
ReceiveNothing(w) ==
    /\ pc[w] = "poll"
    /\ pc' = [pc EXCEPT ![w] = "idle"]
    /\ UNCHANGED <<queueVars, seen, todo, cur, receipt, verdict, stop, runs>>

(* receive_message raises: nothing in run_worker catches it, the process   *)
(* ends and is started again later.                                        *)
ReceiveRaises(w) ==
    /\ "sqs" \in Faults
    /\ pc[w] = "poll"
    /\ pc' = [pc EXCEPT ![w] = "off"]
    /\ UNCHANGED <<queueVars, seen, todo, cur, receipt, verdict, stop, runs>>

(* SIGTERM: the handler only sets the event; the batch is finished first.  *)
Sigterm(w) ==
    /\ pc[w] # "off"
    /\ ~stop[w]
    /\ stop' = [stop EXCEPT ![w] = TRUE]
    /\ UNCHANGED <<queueVars, seen, pc, todo, cur, receipt, verdict, runs>>

Exit(w) ==
    /\ pc[w] = "idle"
    /\ stop[w]
    /\ pc' = [pc EXCEPT ![w] = "off"]
    /\ UNCHANGED <<queueVars, seen, todo, cur, receipt, verdict, stop, runs>>

(* The Deployment starts a replacement process.                            *)
Start(w) ==
    /\ pc[w] = "off"
    /\ pc' = [pc EXCEPT ![w] = "idle"]
    /\ stop' = [stop EXCEPT ![w] = FALSE]
    /\ UNCHANGED <<queueVars, seen, todo, cur, receipt, verdict, runs>>

(* The process dies with whatever it had in hand; SQS and Redis keep what  *)
(* they were last told.                                                    *)
Kill(w) ==
    /\ pc[w] # "off"
    /\ "kill" \in Faults \/ ("restart" \in Faults /\ ~InClaim(w))
    /\ pc' = [pc EXCEPT ![w] = "off"]
    /\ todo' = [todo EXCEPT ![w] = {}]
    /\ cur' = [cur EXCEPT ![w] = NoMessage]
    /\ verdict' = [verdict EXCEPT ![w] = "none"]
    /\ receipt' = [receipt EXCEPT ![w] = [m \in Messages |-> 0]]
    /\ UNCHANGED <<queueVars, seen, stop, runs>>

-----------------------------------------------------------------------------
(* The loop body is over for the current message, whatever its fate.       *)
NextMessage(w) ==
    /\ cur' = [cur EXCEPT ![w] = NoMessage]
    /\ verdict' = [verdict EXCEPT ![w] = "none"]
    /\ receipt' = [receipt EXCEPT ![w][cur[w]] = 0]
    /\ pc' = [pc EXCEPT ![w] = IF todo[w] = {} THEN "idle" ELSE "next"]
    /\ UNCHANGED <<todo, stop>>

(* Take m from the batch and reach the verdict v / the await p with it.    *)
TakeUp(w, m, p, v) ==
    /\ pc[w] = "next"
    /\ m \in todo[w]
    /\ todo' = [todo EXCEPT ![w] = @ \ {m}]
    /\ cur' = [cur EXCEPT ![w] = m]
    /\ pc' = [pc EXCEPT ![w] = p]
    /\ verdict' = [verdict EXCEPT ![w] = v]
    /\ UNCHANGED <<queueVars, receipt, stop, runs>>

(* model_validate_json fails: POISON, before Redis is asked anything.      *)
ParseFails(w, m) ==
    /\ m \in Unparseable
    /\ TakeUp(w, m, "bury", "poison")
    /\ UNCHANGED seen

(* set_nx finds the marker: DUPLICATE.                                     *)
FindDuplicate(w, m) ==
    /\ m \notin Unparseable
    /\ KeyOf[m] \in seen
    /\ TakeUp(w, m, "ack", "duplicate")
    /\ UNCHANGED seen

\* Mutant of Claim: the marker is only looked at, never set.
ClaimUnmarked(w, m) ==
    /\ m \notin Unparseable
    /\ KeyOf[m] \notin seen
    /\ m \notin Unroutable
    /\ TakeUp(w, m, "handle", "none")
    /\ UNCHANGED seen

(* set_nx sets the marker; a registry without the type makes it POISON.    *)
Claim(w, m) ==
    /\ m \notin Unparseable
    /\ KeyOf[m] \notin seen
    /\ \/ m \notin Unroutable /\ TakeUp(w, m, "handle", "none")
       \/ m \in Unroutable /\ TakeUp(w, m, "bury", "poison")
    /\ seen' = seen \cup {KeyOf[m]}

(* The reply to SET NX is lost.  Either set_nx catches the error and       *)
(* answers True (proceed without deduplication), whether or not the        *)
(* command reached Redis; or redis-py sends it again on a new connection   *)
(* and the worker meets its own marker: DUPLICATE.                         *)
ClaimBlind(w, m) ==
    /\ "redis" \in Faults
    /\ m \notin Unparseable
    /\ seen' \in {seen, seen \cup {KeyOf[m]}}
    /\ \/ m \notin Unroutable /\ TakeUp(w, m, "handle", "none")
       \/ m \in Unroutable /\ TakeUp(w, m, "bury", "poison")
       \/ KeyOf[m] \in seen' /\ TakeUp(w, m, "ack", "duplicate")

\* Mutant of HandlerReturns: the marker is cleared in a `finally`.
HandlerReturnsClearing(w) ==
    /\ pc[w] = "handle"
    /\ runs' = [runs EXCEPT ![KeyOf[cur[w]]] = @ + 1]
    /\ pc' = [pc EXCEPT ![w] = "ack"]
    /\ verdict' = [verdict EXCEPT ![w] = "processed"]
    /\ seen' = seen \ {KeyOf[cur[w]]}
    /\ UNCHANGED <<queueVars, todo, cur, receipt, stop>>

(* `await handler(...)` returns: PROCESSED.                                *)
HandlerReturns(w) ==
    /\ pc[w] = "handle"
    /\ runs' = [runs EXCEPT ![KeyOf[cur[w]]] = @ + 1]
    /\ pc' = [pc EXCEPT ![w] = "ack"]
    /\ verdict' = [verdict EXCEPT ![w] = "processed"]
    /\ UNCHANGED <<queueVars, seen, todo, cur, receipt, stop>>

\* Mutant of HandlerRaises: the failed message is deleted all the same.
HandlerRaisesDeleting(w) ==
    /\ pc[w] = "handle"
    /\ pc' = [pc EXCEPT ![w] = "ack"]
    /\ verdict' = [verdict EXCEPT ![w] = "failed"]
    /\ UNCHANGED <<queueVars, seen, todo, cur, receipt, stop, runs>>

(* The handler raises: the marker is to be cleared before FAILED returns.  *)
HandlerRaises(w) ==
    /\ pc[w] = "handle"
    /\ pc' = [pc EXCEPT ![w] = "clear"]
    /\ verdict' = [verdict EXCEPT ![w] = "failed"]
    /\ UNCHANGED <<queueVars, seen, todo, cur, receipt, stop, runs>>

\* Mutant of ClearMarker: FAILED is returned without clearing the marker.
ClearMarkerForgotten(w) ==
    /\ pc[w] = "clear"
    /\ NextMessage(w)
    /\ UNCHANGED <<queueVars, seen, runs>>

(* cache.delete(seen_key), then FAILED: the message is left on the queue.  *)
ClearMarker(w) ==
    /\ pc[w] = "clear"
    /\ seen' = seen \ {KeyOf[cur[w]]}
    /\ NextMessage(w)
    /\ UNCHANGED <<queueVars, runs>>

(* RedisCache.delete swallows its error: FAILED with the marker still set. *)
ClearMarkerFails(w) ==
    /\ "redis" \in Faults
    /\ pc[w] = "clear"
    /\ NextMessage(w)
    /\ UNCHANGED <<queueVars, seen, runs>>

(* POISON: copy the body to the dead-letter queue, then delete it.         *)
SendToDlq(w) ==
    /\ pc[w] = "bury"
    /\ dead' = [dead EXCEPT ![cur[w]] = @ + 1]
    /\ pc' = [pc EXCEPT ![w] = "ack"]
    /\ UNCHANGED <<loc, receives, seen, todo, cur, receipt, verdict, stop, runs>>

(* delete_message.  A receipt handle that a later receive has superseded   *)
(* is accepted but need not delete anything.                               *)
DeleteMessage(w) ==
    LET m == cur[w] IN
    /\ pc[w] = "ack"
    /\ \/ loc' = [loc EXCEPT ![m] = "gone"]
       \/ receipt[w][m] # receives[m] /\ UNCHANGED loc
    /\ NextMessage(w)
    /\ UNCHANGED <<receives, dead, seen, runs>>

\* Mutant of SqsCallRaises: a failed send is logged and the delete follows.
SqsCallRaisesDeleting(w) ==
    /\ "sqs" \in Faults
    /\ pc[w] = "bury"
    /\ pc' = [pc EXCEPT ![w] = "ack"]
    /\ UNCHANGED <<queueVars, seen, todo, cur, receipt, verdict, stop, runs>>

(* send_message or delete_message raises: logged, left for redelivery.     *)
SqsCallRaises(w) ==
    /\ "sqs" \in Faults
    /\ pc[w] \in {"bury", "ack"}
    /\ NextMessage(w)
    /\ UNCHANGED <<queueVars, seen, runs>>

-----------------------------------------------------------------------------
LoopStep(w) ==
    \/ Poll(w) \/ ReceiveNothing(w) \/ Exit(w) \/ Start(w)
    \/ \E batch \in SUBSET Messages : Receive(w, batch)

MessageStep(w) ==
    \/ \E m \in Messages : \/ ParseFails(w, m) \/ FindDuplicate(w, m)
                           \/ Claim(w, m) \/ ClaimBlind(w, m)
    \/ HandlerReturns(w) \/ HandlerRaises(w)
    \/ ClearMarker(w) \/ ClearMarkerFails(w)
    \/ SendToDlq(w) \/ DeleteMessage(w) \/ SqsCallRaises(w)

Disturbance(w) == ReceiveRaises(w) \/ Sigterm(w) \/ Kill(w)

Next ==
    \/ \E m \in Messages : Publish(m) \/ VisibilityTimeout(m) \/ Redrive(m)
    \/ \E k \in Keys : Evict(k)
    \/ \E w \in Workers : LoopStep(w) \/ MessageStep(w) \/ Disturbance(w)

Spec == Init /\ [][Next]_vars
-----------------------------------------------------------------------------
(***************************************************************************)
(* Fairness for the liveness property.  A live worker keeps making its     *)
(* calls (asyncio runs every ready task, and each awaited call answers or  *)
(* fails), Kubernetes starts replacements, and not every start is met by   *)
(* another SIGTERM before the first poll; SQS ends visibility timeouts,    *)
(* applies the redrive policy, and does not withhold a visible message     *)
(* from polls that go on for ever.                                         *)
(***************************************************************************)
Fairness ==
    /\ \A w \in Workers :
          /\ WF_vars(Start(w)) /\ WF_vars(Exit(w))
          /\ WF_vars(MessageStep(w))
    /\ SF_vars(\E w \in Workers : Poll(w))
    /\ \A m \in Messages :
          /\ SF_vars(\E w \in Workers, batch \in SUBSET Messages :
                        m \in batch /\ Receive(w, batch))
          /\ WF_vars(VisibilityTimeout(m))
          /\ WF_vars(Redrive(m))

FairSpec == Spec /\ Fairness

-----------------------------------------------------------------------------
Published(k) == \E m \in Messages : KeyOf[m] = k /\ loc[m] # "unsent"
InQueue(k) == \E m \in Messages : KeyOf[m] = k /\ Queued(m)
DeadLettered(k) == \E m \in Messages : KeyOf[m] = k /\ dead[m] > 0
InHandler(k) == \E w \in Workers : pc[w] = "handle" /\ KeyOf[cur[w]] = k

(* A published job is completed, in a handler, dead-lettered or still on   *)
(* the queue: no interleaving of claims, failures, redeliveries and        *)
(* deletions drops one.  Holds as long as no claim is abandoned or crossed *)
(* (faults kill, batchwait, overlap, redis; each of them breaks it).       *)
NoJobLost ==
    \A k \in Keys :
        Published(k) =>
            runs[k] > 0 \/ InHandler(k) \/ InQueue(k) \/ DeadLettered(k)

(* The dedup marker makes the handler complete at most once per key, for   *)
(* repeated sends, redeliveries and crashes alike.  Holds as long as Redis *)
(* answers and keeps its markers (faults redis, evict).                    *)
AtMostOneRun == \A k \in Keys : runs[k] <= 1

(* ... because two workers are never inside the handler of one key.        *)
OneHandlerPerKey ==
    \A v, w \in Workers :
        InClaim(v) /\ InClaim(w) /\ KeyOf[cur[v]] = KeyOf[cur[w]] => v = w

(* A body that does not parse leaves the queue only after a copy of it     *)
(* reached the dead-letter queue, whatever fails on the way.               *)
PoisonAccounted ==
    \A m \in Unparseable : loc[m] = "gone" => dead[m] > 0

(* Every published message eventually leaves the main queue, under every   *)
(* fault: a message nobody can process cannot stall the queue behind it.   *)
EventuallySettled ==
    \A m \in Messages : loc[m] # "unsent" ~> loc[m] = "gone"

(* The pipeline implements the ledger it promises.                         *)
Ledger == INSTANCE JobLedger WITH
    Jobs <- Keys,
    accepted <- {k \in Keys : Published(k)},
    held <- {k \in Keys : InQueue(k)},
    done <- {k \in Keys : runs[k] > 0},
    dead <- {k \in Keys : DeadLettered(k)}

LedgerSpec == Ledger!Spec

-----------------------------------------------------------------------------
(* worker.py:11-12: a key that already exists means the message is a       *)
(* redelivery of one that was already processed.                           *)
DuplicateWasProcessed ==
    \A w \in Workers : verdict[w] = "duplicate" => runs[KeyOf[cur[w]]] > 0
=============================================================================
