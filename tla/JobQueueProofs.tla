--------------------------- MODULE JobQueueProofs ---------------------------
(***************************************************************************)
(* Theorems about JobQueue for every set of messages, keys and workers,    *)
(* every batch size and receive limit.  A theorem that needs a fault to be *)
(* absent says so in its ASSUME.                                           *)
(***************************************************************************)
EXTENDS JobQueue, TLAPS

(* What the steps below need of the constants.                             *)
LEMMA ConstantFacts ==
    /\ KeyOf \in [Messages -> Keys]
    /\ Unparseable \subseteq Messages
    /\ NoMessage \notin Messages
    /\ MaxReceive \in Nat
    /\ 0 \in 0..MaxReceive
  BY JobQueueAssumption DEF JobQueueAssumption

USE ConstantFacts

-----------------------------------------------------------------------------
(* Updating a function at one point, which need not be in its domain.      *)
LEMMA UpdateInRange ==
    ASSUME NEW S, NEW T, NEW f \in [S -> T], NEW x, NEW y \in T
    PROVE  [f EXCEPT ![x] = y] \in [S -> T]
  OBVIOUS

(* Counting one up at one point.                                           *)
LEMMA CountUp ==
    ASSUME NEW S, NEW f \in [S -> Nat], NEW x
    PROVE  [f EXCEPT ![x] = @ + 1] \in [S -> Nat]
<1>1. CASE x \in S
  BY <1>1
<1>2. CASE x \notin S
  <2>1. [f EXCEPT ![x] = @ + 1] = f
    BY <1>2
  <2>2. QED
    BY <2>1
<1>3. QED
  BY <1>1, <1>2

-----------------------------------------------------------------------------
(* Type correctness.                                                       *)

(* Ending the loop body keeps the worker's variables well typed.           *)
LEMMA NextMessageType ==
    ASSUME TypeOK, NEW w \in Workers, NextMessage(w)
    PROVE  /\ pc' \in [Workers -> PCs]
           /\ todo' \in [Workers -> SUBSET Messages]
           /\ cur' \in [Workers -> Messages \cup {NoMessage}]
           /\ receipt' \in [Workers -> [Messages -> 0..MaxReceive]]
           /\ verdict' \in [Workers -> Verdicts]
           /\ stop' \in [Workers -> BOOLEAN]
<1>1. receipt' \in [Workers -> [Messages -> 0..MaxReceive]]
  <2>1. receipt[w] \in [Messages -> 0..MaxReceive]
    BY DEF TypeOK
  <2>2. [receipt[w] EXCEPT ![cur[w]] = 0] \in [Messages -> 0..MaxReceive]
    BY <2>1, UpdateInRange
  <2>3. receipt' = [receipt EXCEPT ![w] = [receipt[w] EXCEPT ![cur[w]] = 0]]
    BY DEF NextMessage
  <2>4. QED
    BY <2>2, <2>3 DEF TypeOK
<1>2. QED
  BY <1>1, SMT DEF TypeOK, NextMessage, PCs, Verdicts

(* Every step keeps the types.                                             *)
LEMMA TypeStep == TypeOK /\ [Next]_vars => TypeOK'
<1> SUFFICES ASSUME TypeOK, [Next]_vars PROVE TypeOK'
  OBVIOUS
<1>1. ASSUME NEW m \in Messages, Publish(m) \/ VisibilityTimeout(m) \/ Redrive(m)
      PROVE  TypeOK'
  <2>1. CASE Publish(m)
    BY <2>1 DEF TypeOK, Publish, workerVars, Locations
  <2>2. CASE VisibilityTimeout(m)
    BY <2>2 DEF TypeOK, VisibilityTimeout, workerVars, Locations
  <2>3. CASE Redrive(m)
    <3>1. dead' \in [Messages -> Nat]
      BY <2>3, CountUp DEF Redrive, TypeOK
    <3>2. QED
      BY <2>3, <3>1 DEF TypeOK, Redrive, workerVars, Locations
  <2>4. QED
    BY <1>1, <2>1, <2>2, <2>3
<1>2. ASSUME NEW k \in Keys, Evict(k) PROVE TypeOK'
  BY <1>2 DEF TypeOK, Evict, workerVars, queueVars
<1>3. ASSUME NEW w \in Workers,
             Poll(w) \/ ReceiveNothing(w) \/ ReceiveRaises(w) \/ Sigterm(w)
               \/ Exit(w) \/ Start(w)
      PROVE  TypeOK'
  BY <1>3 DEF TypeOK, Poll, ReceiveNothing, ReceiveRaises, Sigterm, Exit, Start,
              queueVars, PCs
<1>4. ASSUME NEW w \in Workers, NEW batch \in SUBSET Messages, Receive(w, batch)
      PROVE  TypeOK'
  <2>1. \A m \in batch : receives[m] + 1 \in 0..MaxReceive
    BY <1>4, SMT DEF Receive, TypeOK
  <2>2. /\ loc' \in [Messages -> Locations]
        /\ receives' \in [Messages -> 0..MaxReceive]
    BY <1>4, <2>1, SMT DEF Receive, TypeOK, Locations
  <2>3. [m \in Messages |-> IF m \in batch THEN receives[m] + 1 ELSE 0]
           \in [Messages -> 0..MaxReceive]
    BY <2>1, SMT
  <2>4. receipt' \in [Workers -> [Messages -> 0..MaxReceive]]
    BY <1>4, <2>3 DEF Receive, TypeOK
  <2>5. QED
    BY <1>4, <2>2, <2>4 DEF Receive, TypeOK, PCs
<1>5. ASSUME NEW w \in Workers, Kill(w) PROVE TypeOK'
  <2>1. [m \in Messages |-> 0] \in [Messages -> 0..MaxReceive]
    BY SMT
  <2>2. receipt' \in [Workers -> [Messages -> 0..MaxReceive]]
    BY <1>5, <2>1 DEF Kill, TypeOK
  <2>3. QED
    BY <1>5, <2>2 DEF Kill, TypeOK, PCs, Verdicts, queueVars
<1>6. ASSUME NEW w \in Workers, NEW m \in Messages,
             ParseFails(w, m) \/ FindDuplicate(w, m) \/ Claim(w, m) \/ ClaimBlind(w, m)
      PROVE  TypeOK'
  <2>1. seen' \subseteq Keys
    BY <1>6 DEF TypeOK, ParseFails, FindDuplicate, Claim, ClaimBlind
  <2>2. ASSUME NEW p \in PCs, NEW v \in Verdicts, TakeUp(w, m, p, v)
        PROVE  TypeOK'
    BY <2>1, <2>2 DEF TypeOK, TakeUp, queueVars
  <2>3. \E p \in PCs, v \in Verdicts : TakeUp(w, m, p, v)
    BY <1>6 DEF ParseFails, FindDuplicate, Claim, ClaimBlind, PCs, Verdicts
  <2>4. QED
    BY <2>2, <2>3
<1>7. ASSUME NEW w \in Workers, HandlerReturns(w) PROVE TypeOK'
  <2>1. runs' \in [Keys -> Nat]
    BY <1>7, CountUp DEF HandlerReturns, TypeOK
  <2>2. QED
    BY <1>7, <2>1 DEF TypeOK, HandlerReturns, PCs, Verdicts, queueVars
<1>8. ASSUME NEW w \in Workers, HandlerRaises(w) PROVE TypeOK'
  BY <1>8 DEF TypeOK, HandlerRaises, PCs, Verdicts, queueVars
<1>9. ASSUME NEW w \in Workers, ClearMarker(w) \/ ClearMarkerFails(w) \/ SqsCallRaises(w)
      PROVE  TypeOK'
  BY <1>9, NextMessageType DEF TypeOK, ClearMarker, ClearMarkerFails, SqsCallRaises, queueVars
<1>10. ASSUME NEW w \in Workers, SendToDlq(w) PROVE TypeOK'
  <2>1. dead' \in [Messages -> Nat]
    BY <1>10, CountUp DEF SendToDlq, TypeOK
  <2>2. QED
    BY <1>10, <2>1 DEF TypeOK, SendToDlq, PCs
<1>11. ASSUME NEW w \in Workers, DeleteMessage(w) PROVE TypeOK'
  <2>1. loc' \in [Messages -> Locations]
    BY <1>11 DEF DeleteMessage, TypeOK, Locations
  <2>2. QED
    BY <1>11, <2>1, NextMessageType DEF TypeOK, DeleteMessage
<1>12. CASE UNCHANGED vars
  BY <1>12 DEF TypeOK, vars, queueVars, workerVars
<1>13. QED
  BY <1>1, <1>2, <1>3, <1>4, <1>5, <1>6, <1>7, <1>8, <1>9, <1>10, <1>11, <1>12
     DEF Next, LoopStep, MessageStep, Disturbance

(* Every reachable state is well typed: in particular no message is        *)
(* received more often than the redrive policy allows.                     *)
THEOREM TypeCorrect == Spec => []TypeOK
<1>1. Init => TypeOK
  BY SMT DEF Init, TypeOK, Locations, PCs, Verdicts
<1>2. QED
  BY <1>1, TypeStep, PTL DEF Spec

-----------------------------------------------------------------------------
(* Control: which message a worker has in hand at each await.              *)
ControlOK ==
    \A w \in Workers :
        /\ cur[w] = NoMessage <=> pc[w] \in {"idle", "poll", "next", "off"}
        /\ pc[w] \in {"idle", "poll", "off"} => todo[w] = {}
        /\ cur[w] \notin todo[w]

(* Every step keeps a worker's position and what it has in hand agreed.    *)
LEMMA ControlStep == TypeOK /\ ControlOK /\ [Next]_vars => ControlOK'
<1> SUFFICES ASSUME TypeOK, ControlOK, [Next]_vars PROVE ControlOK'
  OBVIOUS
<1>1. ASSUME NEW m \in Messages, Publish(m) \/ VisibilityTimeout(m) \/ Redrive(m)
      PROVE  ControlOK'
  BY <1>1 DEF ControlOK, Publish, VisibilityTimeout, Redrive, workerVars
<1>2. ASSUME NEW k \in Keys, Evict(k) PROVE ControlOK'
  BY <1>2 DEF ControlOK, Evict, workerVars
<1>3. ASSUME NEW w \in Workers,
             Poll(w) \/ ReceiveNothing(w) \/ ReceiveRaises(w) \/ Sigterm(w)
               \/ Exit(w) \/ Start(w)
      PROVE  ControlOK'
  BY <1>3 DEF TypeOK, ControlOK, Poll, ReceiveNothing, ReceiveRaises, Sigterm, Exit, Start
<1>4. ASSUME NEW w \in Workers, NEW batch \in SUBSET Messages, Receive(w, batch)
      PROVE  ControlOK'
  BY <1>4 DEF TypeOK, ControlOK, Receive
<1>5. ASSUME NEW w \in Workers, Kill(w) PROVE ControlOK'
  BY <1>5 DEF TypeOK, ControlOK, Kill
<1>6. ASSUME NEW w \in Workers, NEW m \in Messages,
             ParseFails(w, m) \/ FindDuplicate(w, m) \/ Claim(w, m) \/ ClaimBlind(w, m)
      PROVE  ControlOK'
  <2>1. ASSUME NEW p \in {"handle", "bury", "ack"}, NEW v \in Verdicts, TakeUp(w, m, p, v)
        PROVE  ControlOK'
    BY <2>1 DEF TypeOK, ControlOK, TakeUp
  <2>2. \E p \in {"handle", "bury", "ack"}, v \in Verdicts : TakeUp(w, m, p, v)
    BY <1>6 DEF ParseFails, FindDuplicate, Claim, ClaimBlind, Verdicts
  <2>3. QED
    BY <2>1, <2>2
<1>7. ASSUME NEW w \in Workers, HandlerReturns(w) \/ HandlerRaises(w) \/ SendToDlq(w)
      PROVE  ControlOK'
  BY <1>7 DEF TypeOK, ControlOK, HandlerReturns, HandlerRaises, SendToDlq
<1>8. ASSUME NEW w \in Workers, NextMessage(w) PROVE ControlOK'
  BY <1>8 DEF TypeOK, ControlOK, NextMessage
<1>9. CASE UNCHANGED vars
  BY <1>9 DEF ControlOK, vars, workerVars
<1>10. QED
  BY <1>1, <1>2, <1>3, <1>4, <1>5, <1>6, <1>7, <1>8, <1>9
     DEF Next, LoopStep, MessageStep, Disturbance,
         ClearMarker, ClearMarkerFails, SqsCallRaises, DeleteMessage

(* At each await the worker has the message the code has there.            *)
THEOREM ControlCorrect == Spec => []ControlOK
<1>1. Init => ControlOK
  BY DEF Init, ControlOK
<1>2. QED
  BY <1>1, ControlStep, TypeCorrect, PTL DEF Spec

-----------------------------------------------------------------------------
(* Poison messages.                                                        *)

(* A dead-letter copy is never taken back.                                 *)
LEMMA DeadStays ==
    ASSUME TypeOK, [Next]_vars, NEW n \in Messages, dead[n] > 0
    PROVE  dead'[n] > 0
<1>1. ASSUME NEW m, dead' = [dead EXCEPT ![m] = @ + 1]
      PROVE  dead'[n] > 0
  <2>1. CASE m = n
    BY <1>1, <2>1, SMT DEF TypeOK
  <2>2. CASE m # n
    BY <1>1, <2>2, SMT DEF TypeOK
  <2>3. QED
    BY <2>1, <2>2
<1>2. ASSUME dead' = dead PROVE dead'[n] > 0
  BY <1>2
<1>3. dead' = dead \/ \E m : dead' = [dead EXCEPT ![m] = @ + 1]
  BY DEF Next, LoopStep, MessageStep, Disturbance, Publish, VisibilityTimeout, Redrive,
         Evict, Poll, ReceiveNothing, ReceiveRaises, Sigterm, Exit, Start, Receive, Kill,
         ParseFails, FindDuplicate, Claim, ClaimBlind, TakeUp, HandlerReturns,
         HandlerRaises, ClearMarker, ClearMarkerFails, SqsCallRaises, SendToDlq,
         DeleteMessage, vars, queueVars
<1>4. QED
  BY <1>1, <1>2, <1>3

PoisonInv ==
    /\ PoisonAccounted
    /\ \A w \in Workers :
          cur[w] \in Unparseable =>
              /\ pc[w] \in {"bury", "ack"}
              /\ pc[w] = "ack" => dead[cur[w]] > 0

(* No step lets an unparsed message go before a copy of it is made.        *)
LEMMA PoisonStep == TypeOK /\ ControlOK /\ PoisonInv /\ [Next]_vars => PoisonInv'
<1> SUFFICES ASSUME TypeOK, ControlOK, PoisonInv, [Next]_vars PROVE PoisonInv'
  OBVIOUS
<1>a. \A n \in Messages : dead[n] > 0 => dead'[n] > 0
  BY DeadStays
<1>1. ASSUME NEW m \in Messages, Publish(m) \/ VisibilityTimeout(m)
      PROVE  PoisonInv'
  BY <1>1, <1>a DEF TypeOK, PoisonInv, PoisonAccounted, Publish, VisibilityTimeout, workerVars
<1>2. ASSUME NEW m \in Messages, Redrive(m) PROVE PoisonInv'
  <2>1. dead'[m] > 0
    BY <1>2, SMT DEF Redrive, TypeOK
  <2>2. QED
    BY <1>2, <1>a, <2>1 DEF TypeOK, PoisonInv, PoisonAccounted, Redrive, workerVars
<1>3. ASSUME NEW w \in Workers, NEW batch \in SUBSET Messages, Receive(w, batch)
      PROVE  PoisonInv'
  BY <1>3 DEF TypeOK, ControlOK, PoisonInv, PoisonAccounted, Receive
<1>4. ASSUME NEW w \in Workers,
             Poll(w) \/ ReceiveNothing(w) \/ ReceiveRaises(w) \/ Sigterm(w)
               \/ Exit(w) \/ Start(w) \/ Kill(w)
      PROVE  PoisonInv'
  BY <1>4 DEF TypeOK, ControlOK, PoisonInv, PoisonAccounted, Poll, ReceiveNothing,
              ReceiveRaises, Sigterm, Exit, Start, Kill, queueVars
<1>5. ASSUME NEW w \in Workers, NEW m \in Messages,
             ParseFails(w, m) \/ FindDuplicate(w, m) \/ Claim(w, m) \/ ClaimBlind(w, m)
      PROVE  PoisonInv'
  <2>1. ASSUME NEW p, NEW v, TakeUp(w, m, p, v), m \in Unparseable => p = "bury"
        PROVE  PoisonInv'
    BY <2>1 DEF TypeOK, PoisonInv, PoisonAccounted, TakeUp, queueVars
  <2>2. \E p, v : TakeUp(w, m, p, v) /\ (m \in Unparseable => p = "bury")
    BY <1>5 DEF ParseFails, FindDuplicate, Claim, ClaimBlind
  <2>3. QED
    BY <2>1, <2>2
<1>6. ASSUME NEW w \in Workers, HandlerReturns(w) \/ HandlerRaises(w)
      PROVE  PoisonInv'
  BY <1>6 DEF TypeOK, PoisonInv, PoisonAccounted, HandlerReturns, HandlerRaises, queueVars
<1>7. ASSUME NEW w \in Workers, SendToDlq(w) PROVE PoisonInv'
  <2>1. cur[w] \in Messages
    BY <1>7 DEF TypeOK, ControlOK, SendToDlq
  <2>2. dead'[cur[w]] > 0
    BY <1>7, <2>1, SMT DEF SendToDlq, TypeOK
  <2>3. QED
    BY <1>7, <1>a, <2>2 DEF TypeOK, PoisonInv, PoisonAccounted, SendToDlq
<1>8. ASSUME NEW w \in Workers, NextMessage(w), UNCHANGED queueVars PROVE PoisonInv'
  BY <1>8 DEF TypeOK, PoisonInv, PoisonAccounted, NextMessage, queueVars
<1>9. ASSUME NEW w \in Workers, DeleteMessage(w) PROVE PoisonInv'
  BY <1>9 DEF TypeOK, PoisonInv, PoisonAccounted, DeleteMessage, NextMessage
<1>10. CASE UNCHANGED vars \/ \E k \in Keys : Evict(k)
  BY <1>10 DEF PoisonInv, PoisonAccounted, Evict, vars, queueVars, workerVars
<1>11. QED
  BY <1>1, <1>2, <1>3, <1>4, <1>5, <1>6, <1>7, <1>8, <1>9, <1>10
     DEF Next, LoopStep, MessageStep, Disturbance, ClearMarker, ClearMarkerFails, SqsCallRaises

(* Under every fault, an unparseable body leaves the queue only after a    *)
(* copy of it reached the dead-letter queue.                               *)
THEOREM PoisonNeverLost == Spec => []PoisonAccounted
<1>1. Init => PoisonInv
  BY DEF Init, PoisonInv, PoisonAccounted
<1>2. PoisonInv => PoisonAccounted
  BY DEF PoisonInv
<1>3. QED
  BY <1>1, <1>2, PoisonStep, TypeCorrect, ControlCorrect, PTL DEF Spec

-----------------------------------------------------------------------------
(* At most one run per key.                                                *)
MarkersKept == Faults \cap {"redis", "evict"} = {}

(* With reliable markers a claim in progress owns its key's marker, alone, *)
(* and a finished key keeps it.                                            *)
ClaimInv ==
    /\ OneHandlerPerKey
    /\ AtMostOneRun
    /\ \A w \in Workers :
          InClaim(w) => KeyOf[cur[w]] \in seen /\ runs[KeyOf[cur[w]]] = 0
    /\ \A k \in Keys : runs[k] > 0 => k \in seen

(* While markers are kept, a claimed key has its marker and one claimant.  *)
LEMMA ClaimStep ==
    ASSUME MarkersKept, TypeOK, ControlOK, ClaimInv, [Next]_vars
    PROVE  ClaimInv'
<1> USE DEF MarkersKept
<1>1. ASSUME UNCHANGED <<seen, runs>>, UNCHANGED cur,
             \A w \in Workers : pc'[w] \in {"handle", "clear"} => InClaim(w)
      PROVE  ClaimInv'
  BY <1>1 DEF ClaimInv, OneHandlerPerKey, AtMostOneRun, InClaim
<1>2. ASSUME NEW m \in Messages, Publish(m) \/ VisibilityTimeout(m) \/ Redrive(m)
      PROVE  ClaimInv'
  BY <1>1, <1>2 DEF Publish, VisibilityTimeout, Redrive, workerVars, InClaim
<1>3. ASSUME NEW k \in Keys, Evict(k) PROVE ClaimInv'
  BY <1>3 DEF Evict
<1>4. ASSUME NEW w \in Workers,
             \/ Poll(w) \/ ReceiveNothing(w) \/ ReceiveRaises(w) \/ Sigterm(w)
             \/ Exit(w) \/ Start(w) \/ HandlerRaises(w) \/ SendToDlq(w)
             \/ \E batch \in SUBSET Messages : Receive(w, batch)
      PROVE  ClaimInv'
  BY <1>1, <1>4 DEF TypeOK, InClaim, Poll, ReceiveNothing, ReceiveRaises, Sigterm, Exit,
              Start, HandlerRaises, SendToDlq, Receive
<1>5. ASSUME NEW w \in Workers, UNCHANGED <<seen, runs>>,
             \A v \in Workers : v # w => pc'[v] = pc[v] /\ cur'[v] = cur[v],
             pc'[w] \notin {"handle", "clear"}
      PROVE  ClaimInv'
  BY <1>5 DEF ClaimInv, OneHandlerPerKey, AtMostOneRun, InClaim
<1>6. ASSUME NEW w \in Workers, Kill(w) \/ DeleteMessage(w) \/ SqsCallRaises(w)
      PROVE  ClaimInv'
  BY <1>5, <1>6 DEF TypeOK, Kill, DeleteMessage, SqsCallRaises, NextMessage, queueVars
<1>7. ASSUME NEW w \in Workers, NEW m \in Messages, ParseFails(w, m) \/ FindDuplicate(w, m)
      PROVE  ClaimInv'
  BY <1>5, <1>7 DEF TypeOK, ParseFails, FindDuplicate, TakeUp, queueVars
<1>8. ASSUME NEW w \in Workers, NEW m \in Messages, Claim(w, m) PROVE ClaimInv'
  <2>1. /\ KeyOf[m] \notin seen
        /\ seen' = seen \cup {KeyOf[m]}
        /\ runs' = runs
        /\ cur' = [cur EXCEPT ![w] = m]
        /\ pc' = [pc EXCEPT ![w] = "handle"] \/ pc' = [pc EXCEPT ![w] = "bury"]
    BY <1>8 DEF Claim, TakeUp
  <2>2. KeyOf[m] \in Keys /\ runs[KeyOf[m]] = 0
    BY <2>1, SMT DEF ClaimInv, TypeOK
  <2>3. \A v \in Workers : v # w /\ InClaim(v) => KeyOf[cur[v]] # KeyOf[m]
    BY <2>1 DEF ClaimInv
  <2>4. QED
    BY <2>1, <2>2, <2>3 DEF TypeOK, ClaimInv, OneHandlerPerKey, AtMostOneRun, InClaim
<1>9. ASSUME NEW w \in Workers, NEW m \in Messages, ClaimBlind(w, m) PROVE ClaimInv'
  BY <1>9 DEF ClaimBlind
<1>10. ASSUME NEW w \in Workers, HandlerReturns(w) PROVE ClaimInv'
  <2> DEFINE k == KeyOf[cur[w]]
  <2>1. InClaim(w) /\ cur[w] \in Messages
    BY <1>10 DEF HandlerReturns, InClaim, TypeOK, ControlOK
  <2>2. k \in Keys /\ k \in seen /\ runs[k] = 0
    BY <2>1 DEF ClaimInv
  <2>3. /\ runs' = [runs EXCEPT ![k] = 1]
        /\ seen' = seen
        /\ cur' = cur
        /\ pc' = [pc EXCEPT ![w] = "ack"]
    BY <1>10, <2>2, SMT DEF HandlerReturns
  <2>4. \A v \in Workers : v # w /\ InClaim(v) => KeyOf[cur[v]] # k
    BY <2>1 DEF ClaimInv, OneHandlerPerKey
  <2>5. QED
    BY <2>2, <2>3, <2>4, SMT DEF TypeOK, ClaimInv, OneHandlerPerKey, AtMostOneRun, InClaim
<1>11. ASSUME NEW w \in Workers, ClearMarker(w) PROVE ClaimInv'
  <2> DEFINE k == KeyOf[cur[w]]
  <2>1. InClaim(w) /\ runs[k] = 0
    BY <1>11 DEF ClearMarker, InClaim, ClaimInv
  <2>2. \A v \in Workers : v # w /\ InClaim(v) => KeyOf[cur[v]] # k
    BY <2>1 DEF ClaimInv, OneHandlerPerKey
  <2>3. /\ seen' = seen \ {k}
        /\ runs' = runs
        /\ cur' = [cur EXCEPT ![w] = NoMessage]
        /\ pc'[w] \in {"idle", "next"}
        /\ \A v \in Workers : v # w => pc'[v] = pc[v]
    BY <1>11 DEF ClearMarker, NextMessage, TypeOK
  <2>4. QED
    BY <2>1, <2>2, <2>3 DEF TypeOK, ClaimInv, OneHandlerPerKey, AtMostOneRun, InClaim
<1>12. ASSUME NEW w \in Workers, ClearMarkerFails(w) PROVE ClaimInv'
  BY <1>12 DEF ClearMarkerFails
<1>13. CASE UNCHANGED vars
  BY <1>1, <1>13 DEF vars, workerVars, InClaim
<1>14. QED
  BY <1>2, <1>3, <1>4, <1>6, <1>7, <1>8, <1>9, <1>10, <1>11, <1>12, <1>13
     DEF Next, LoopStep, MessageStep, Disturbance

(* As long as Redis answers and keeps its markers, no key's handler is     *)
(* ever completed twice, whatever is killed, redelivered or sent twice.    *)
THEOREM RunsAtMostOnce ==
    ASSUME MarkersKept
    PROVE  Spec => []AtMostOneRun
<1>1. Init => ClaimInv
  BY SMT DEF Init, ClaimInv, OneHandlerPerKey, AtMostOneRun, InClaim
<1>2. ClaimInv => AtMostOneRun
  BY DEF ClaimInv
<1>3. TypeOK /\ ControlOK /\ ClaimInv /\ [Next]_vars => ClaimInv'
  BY ClaimStep
<1>4. QED
  BY <1>1, <1>2, <1>3, TypeCorrect, ControlCorrect, PTL DEF Spec

(* ... and two workers are never inside the handler of one key.            *)
THEOREM HandlersExclude ==
    ASSUME MarkersKept
    PROVE  Spec => []OneHandlerPerKey
<1>1. Init => ClaimInv
  BY SMT DEF Init, ClaimInv, OneHandlerPerKey, AtMostOneRun, InClaim
<1>2. ClaimInv => OneHandlerPerKey
  BY DEF ClaimInv
<1>3. TypeOK /\ ControlOK /\ ClaimInv /\ [Next]_vars => ClaimInv'
  BY ClaimStep
<1>4. QED
  BY <1>1, <1>2, <1>3, TypeCorrect, ControlCorrect, PTL DEF Spec

-----------------------------------------------------------------------------
(* No job is lost.                                                         *)
ClaimsHonoured ==
    /\ Faults \cap {"kill", "batchwait", "overlap", "redis"} = {}
    /\ Unroutable = {}

(* A message in some worker's hands is in flight, and in no other's hands. *)
ExclusiveHold ==
    \A w \in Workers : \A m \in Holding(w) :
        /\ loc[m] = "inflight"
        /\ \A v \in Workers : m \in Holding(v) => v = w

(* A marker whose job is not done belongs to a claim in progress.          *)
MarkersBacked ==
    \A k \in seen : runs[k] = 0 =>
        \E w \in Workers : InClaim(w) /\ KeyOf[cur[w]] = k

(* Message m keeps its job from being lost: it is dead-lettered, or queued *)
(* and not about to be deleted.                                            *)
Keeps(m) ==
    \/ dead[m] > 0
    \/ Queued(m) /\ \A w \in Workers : ~(pc[w] = "ack" /\ cur[w] = m)

JobsKept ==
    \A k \in Keys : Published(k) /\ runs[k] = 0 =>
        \E m \in Messages : KeyOf[m] = k /\ Keeps(m)

KeptInv == ExclusiveHold /\ MarkersBacked /\ JobsKept

(* Without redelivery to a second worker, hands stay exclusive.            *)
LEMMA HoldStep ==
    ASSUME ClaimsHonoured, TypeOK, ControlOK, ExclusiveHold, [Next]_vars
    PROVE  ExclusiveHold'
<1> USE DEF ClaimsHonoured
<1>1. ASSUME NEW m \in Messages,
             loc[m] # "inflight" \/ \A w \in Workers : m \notin Holding(w),
             \A n \in Messages : n # m => loc'[n] = loc[n],
             UNCHANGED workerVars
      PROVE  ExclusiveHold'
  BY <1>1 DEF ExclusiveHold, Holding, workerVars, TypeOK
<1>2. ASSUME NEW m \in Messages, Publish(m) \/ VisibilityTimeout(m) \/ Redrive(m)
      PROVE  ExclusiveHold'
  <2>1. loc[m] # "inflight" \/ \A w \in Workers : m \notin Holding(w)
    BY <1>2 DEF Publish, VisibilityTimeout, Redrive
  <2>2. UNCHANGED workerVars /\ \A n \in Messages : n # m => loc'[n] = loc[n]
    BY <1>2 DEF Publish, VisibilityTimeout, Redrive, TypeOK
  <2>3. QED
    BY <1>1, <2>1, <2>2
<1>3. ASSUME NEW w \in Workers, NEW batch \in SUBSET Messages, Receive(w, batch)
      PROVE  ExclusiveHold'
  <2>1. Holding(w) = {}
    BY <1>3 DEF Receive, ControlOK, Holding
  <2>2. \A v \in Workers, m \in batch : m \notin Holding(v)
    BY <1>3 DEF Receive, ExclusiveHold
  <2>3. Holding(w)' = batch /\ \A v \in Workers : v # w => Holding(v)' = Holding(v)
    BY <1>3, <2>1 DEF Receive, Holding, TypeOK
  <2>4. \A m \in Messages : loc'[m] = IF m \in batch THEN "inflight" ELSE loc[m]
    BY <1>3 DEF Receive
  <2>5. \A v \in Workers : Holding(v) \subseteq Messages
    BY DEF Holding, TypeOK
  <2>6. QED
    BY <2>2, <2>3, <2>4, <2>5 DEF ExclusiveHold
<1>4. ASSUME UNCHANGED loc, \A v \in Workers : Holding(v)' \subseteq Holding(v)
      PROVE  ExclusiveHold'
  BY <1>4 DEF ExclusiveHold
<1>5. ASSUME NEW w \in Workers,
             \/ Poll(w) \/ ReceiveNothing(w) \/ ReceiveRaises(w) \/ Sigterm(w)
             \/ Exit(w) \/ Start(w) \/ HandlerReturns(w) \/ HandlerRaises(w) \/ SendToDlq(w)
      PROVE  ExclusiveHold'
  BY <1>4, <1>5 DEF Poll, ReceiveNothing, ReceiveRaises, Sigterm, Exit, Start,
              HandlerReturns, HandlerRaises, SendToDlq, Holding, queueVars
<1>6. ASSUME NEW w \in Workers, Kill(w) PROVE ExclusiveHold'
  BY <1>4, <1>6 DEF Kill, Holding, queueVars, TypeOK
<1>7. ASSUME NEW w \in Workers, NEW m \in Messages,
             ParseFails(w, m) \/ FindDuplicate(w, m) \/ Claim(w, m) \/ ClaimBlind(w, m)
      PROVE  ExclusiveHold'
  <2>1. ASSUME NEW p, NEW v, TakeUp(w, m, p, v) PROVE ExclusiveHold'
    BY <1>4, <2>1 DEF TakeUp, Holding, queueVars, TypeOK
  <2>2. \E p, v : TakeUp(w, m, p, v)
    BY <1>7 DEF ParseFails, FindDuplicate, Claim, ClaimBlind
  <2>3. QED
    BY <2>1, <2>2
<1>8. ASSUME NEW w \in Workers, NextMessage(w), UNCHANGED queueVars PROVE ExclusiveHold'
  BY <1>4, <1>8 DEF NextMessage, Holding, queueVars, TypeOK
<1>9. ASSUME NEW w \in Workers, DeleteMessage(w) PROVE ExclusiveHold'
  <2>1. cur[w] \in Holding(w) /\ cur[w] \in Messages
    BY <1>9 DEF DeleteMessage, ControlOK, TypeOK, Holding
  <2>2. \A v \in Workers : v # w => Holding(v)' = Holding(v) /\ cur[w] \notin Holding(v)
    BY <1>9, <2>1 DEF DeleteMessage, NextMessage, ExclusiveHold, Holding, TypeOK
  <2>3. Holding(w)' = todo[w] /\ cur[w] \notin Holding(w)' /\ Holding(w)' \subseteq Holding(w)
    BY <1>9 DEF DeleteMessage, NextMessage, ControlOK, Holding, TypeOK
  <2>4. \A m \in Messages : m # cur[w] => loc'[m] = loc[m]
    BY <1>9 DEF DeleteMessage, TypeOK
  <2>5. \A v \in Workers : Holding(v) \subseteq Messages
    BY DEF Holding, TypeOK
  <2>6. QED
    BY <2>2, <2>3, <2>4, <2>5 DEF ExclusiveHold
<1>10. CASE UNCHANGED vars \/ \E k \in Keys : Evict(k)
  BY <1>4, <1>10 DEF Evict, vars, queueVars, workerVars, Holding
<1>11. QED
  BY <1>2, <1>3, <1>5, <1>6, <1>7, <1>8, <1>9, <1>10
     DEF Next, LoopStep, MessageStep, Disturbance, ClearMarker, ClearMarkerFails, SqsCallRaises

(* A marker is always backed by a completed run or a claim in progress.    *)
LEMMA MarkersStep ==
    ASSUME ClaimsHonoured, TypeOK, ControlOK, MarkersBacked, [Next]_vars
    PROVE  MarkersBacked'
<1> USE DEF ClaimsHonoured
<1>1. ASSUME seen' \subseteq seen, UNCHANGED <<runs, cur>>,
             \A w \in Workers : InClaim(w) => InClaim(w)'
      PROVE  MarkersBacked'
  BY <1>1 DEF MarkersBacked, InClaim
<1>2. ASSUME NEW m \in Messages, Publish(m) \/ VisibilityTimeout(m) \/ Redrive(m)
      PROVE  MarkersBacked'
  BY <1>1, <1>2 DEF Publish, VisibilityTimeout, Redrive, workerVars, InClaim
<1>3. ASSUME NEW w \in Workers,
             \/ Poll(w) \/ ReceiveNothing(w) \/ ReceiveRaises(w) \/ Sigterm(w)
             \/ Exit(w) \/ Start(w) \/ HandlerRaises(w) \/ SendToDlq(w)
             \/ \E batch \in SUBSET Messages : Receive(w, batch)
      PROVE  MarkersBacked'
  BY <1>1, <1>3 DEF TypeOK, InClaim, Poll, ReceiveNothing, ReceiveRaises, Sigterm, Exit,
              Start, HandlerRaises, SendToDlq, Receive
<1>4. ASSUME NEW w \in Workers, ~InClaim(w), UNCHANGED <<seen, runs>>,
             \A v \in Workers : v # w => pc'[v] = pc[v] /\ cur'[v] = cur[v]
      PROVE  MarkersBacked'
  BY <1>4 DEF MarkersBacked, InClaim
<1>5. ASSUME NEW w \in Workers, Kill(w) \/ DeleteMessage(w) \/ SqsCallRaises(w)
      PROVE  MarkersBacked'
  BY <1>4, <1>5 DEF TypeOK, InClaim, Kill, DeleteMessage, SqsCallRaises, NextMessage, queueVars
<1>6. ASSUME NEW w \in Workers, NEW m \in Messages, ParseFails(w, m) \/ FindDuplicate(w, m)
      PROVE  MarkersBacked'
  BY <1>4, <1>6 DEF TypeOK, InClaim, ParseFails, FindDuplicate, TakeUp, queueVars
<1>7. ASSUME NEW w \in Workers, NEW m \in Messages, Claim(w, m) PROVE MarkersBacked'
  <2>1. /\ seen' = seen \cup {KeyOf[m]}
        /\ runs' = runs
        /\ ~InClaim(w)
        /\ cur' = [cur EXCEPT ![w] = m]
        /\ pc' = [pc EXCEPT ![w] = "handle"]
    BY <1>7 DEF Claim, TakeUp, InClaim
  <2>2. InClaim(w)' /\ cur'[w] = m
    BY <2>1 DEF InClaim, TypeOK
  <2>3. \A v \in Workers : InClaim(v) => InClaim(v)' /\ cur'[v] = cur[v]
    BY <2>1 DEF InClaim, TypeOK
  <2>4. QED
    BY <2>1, <2>2, <2>3 DEF MarkersBacked
<1>8. ASSUME NEW w \in Workers, HandlerReturns(w) PROVE MarkersBacked'
  <2> DEFINE k == KeyOf[cur[w]]
  <2>1. k \in Keys
    BY <1>8 DEF HandlerReturns, ControlOK, TypeOK
  <2>2. runs'[k] # 0 /\ \A j \in Keys : j # k => runs'[j] = runs[j]
    BY <1>8, <2>1, SMT DEF HandlerReturns, TypeOK
  <2>3. /\ seen' = seen
        /\ cur' = cur
        /\ \A v \in Workers : v # w => pc'[v] = pc[v]
    BY <1>8 DEF HandlerReturns, TypeOK
  <2>4. QED
    BY <2>1, <2>2, <2>3 DEF MarkersBacked, InClaim, TypeOK
<1>9. ASSUME NEW w \in Workers, ClearMarker(w) PROVE MarkersBacked'
  <2> DEFINE k == KeyOf[cur[w]]
  <2>1. /\ seen' = seen \ {k}
        /\ runs' = runs
        /\ \A v \in Workers : v # w => pc'[v] = pc[v] /\ cur'[v] = cur[v]
    BY <1>9 DEF ClearMarker, NextMessage, TypeOK
  <2>2. QED
    BY <2>1 DEF MarkersBacked, InClaim
<1>10. ASSUME NEW w \in Workers, NEW m \in Messages, ClaimBlind(w, m)
       PROVE  MarkersBacked'
  BY <1>10 DEF ClaimBlind
<1>11. ASSUME NEW k \in Keys, Evict(k) PROVE MarkersBacked'
  BY <1>1, <1>11 DEF Evict, workerVars, InClaim
<1>12. CASE UNCHANGED vars
  BY <1>1, <1>12 DEF vars, workerVars, InClaim
<1>13. ASSUME NEW w \in Workers, ClearMarkerFails(w) PROVE MarkersBacked'
  BY <1>13 DEF ClearMarkerFails
<1>14. QED
  BY <1>2, <1>3, <1>5, <1>6, <1>7, <1>8, <1>9, <1>10, <1>11, <1>12, <1>13
     DEF Next, LoopStep, MessageStep, Disturbance

(* Completed runs are only ever added, and only by the handler's return.   *)
LEMMA RunsGrow ==
    ASSUME TypeOK, ControlOK, [Next]_vars, NEW k \in Keys
    PROVE  /\ runs[k] > 0 => runs'[k] > 0
           /\ runs'[k] = 0 => runs[k] = 0
           /\ \A w \in Workers :
                 HandlerReturns(w) /\ KeyOf[cur[w]] = k => runs'[k] > 0
<1>1. runs' = runs \/ \E w \in Workers : HandlerReturns(w)
  BY DEF Next, LoopStep, MessageStep, Disturbance, Publish, VisibilityTimeout, Redrive,
         Evict, Poll, ReceiveNothing, ReceiveRaises, Sigterm, Exit, Start, Receive, Kill,
         ParseFails, FindDuplicate, Claim, ClaimBlind, TakeUp, HandlerRaises,
         ClearMarker, ClearMarkerFails, SqsCallRaises, SendToDlq, DeleteMessage, vars
<1>2. ASSUME NEW w \in Workers, HandlerReturns(w)
      PROVE  /\ KeyOf[cur[w]] = k => runs'[k] = runs[k] + 1
             /\ KeyOf[cur[w]] # k => runs'[k] = runs[k]
  BY <1>2 DEF HandlerReturns, TypeOK
<1>3. runs[k] \in Nat
  BY DEF TypeOK
<1>4. QED
  BY <1>1, <1>2, <1>3, SMT

(* A message that keeps its job stops doing so only when it is found to be *)
(* a duplicate or its handler has returned.                                *)
LEMMA KeepsStep ==
    ASSUME ClaimsHonoured, TypeOK, ControlOK, [Next]_vars,
           NEW m \in Messages, Keeps(m)
    PROVE  \/ Keeps(m)'
           \/ \E w \in Workers : FindDuplicate(w, m)
           \/ \E w \in Workers : HandlerReturns(w) /\ cur[w] = m
<1>1. CASE dead[m] > 0
  BY <1>1, DeadStays DEF Keeps
<1>2. CASE Queued(m) /\ \A w \in Workers : ~(pc[w] = "ack" /\ cur[w] = m)
  <2>1. ASSUME Queued(m)', \A w \in Workers : ~(pc'[w] = "ack" /\ cur'[w] = m)
        PROVE  Keeps(m)'
    BY <2>1 DEF Keeps
  <2>2. ASSUME NEW n \in Messages, Publish(n) \/ VisibilityTimeout(n)
        PROVE  Keeps(m)'
    BY <1>2, <2>1, <2>2 DEF Publish, VisibilityTimeout, Queued, workerVars, TypeOK
  <2>3. ASSUME NEW n \in Messages, Redrive(n) PROVE Keeps(m)'
    <3>1. CASE n = m
      BY <2>3, <3>1, SMT DEF Redrive, Keeps, TypeOK
    <3>2. CASE n # m
      BY <1>2, <2>1, <2>3, <3>2 DEF Redrive, Queued, workerVars, TypeOK
    <3>3. QED
      BY <3>1, <3>2
  <2>4. ASSUME NEW w \in Workers, NEW batch \in SUBSET Messages, Receive(w, batch)
        PROVE  Keeps(m)'
    BY <1>2, <2>1, <2>4 DEF Receive, Queued, TypeOK
  <2>5. ASSUME NEW w \in Workers,
               \/ Poll(w) \/ ReceiveNothing(w) \/ ReceiveRaises(w) \/ Sigterm(w)
               \/ Exit(w) \/ Start(w) \/ HandlerRaises(w)
        PROVE  Keeps(m)'
    BY <1>2, <2>1, <2>5 DEF Poll, ReceiveNothing, ReceiveRaises, Sigterm, Exit, Start,
              HandlerRaises, Queued, queueVars, TypeOK
  <2>6. ASSUME NEW w \in Workers, Kill(w) PROVE Keeps(m)'
    BY <1>2, <2>1, <2>6 DEF Kill, Queued, queueVars, TypeOK
  <2>7. ASSUME NEW w \in Workers, NEW n \in Messages,
               ParseFails(w, n) \/ Claim(w, n)
        PROVE  Keeps(m)'
    <3>1. ASSUME NEW p, NEW v, p # "ack", TakeUp(w, n, p, v) PROVE Keeps(m)'
      BY <1>2, <2>1, <3>1 DEF TakeUp, Queued, queueVars, TypeOK
    <3>2. \E p, v : p # "ack" /\ TakeUp(w, n, p, v)
      BY <2>7 DEF ParseFails, Claim
    <3>3. QED
      BY <3>1, <3>2
  <2>8. ASSUME NEW w \in Workers, NEW n \in Messages, FindDuplicate(w, n), n # m
        PROVE  Keeps(m)'
    BY <1>2, <2>1, <2>8 DEF FindDuplicate, TakeUp, Queued, queueVars, TypeOK
  <2>9. ASSUME NEW w \in Workers, HandlerReturns(w), cur[w] # m PROVE Keeps(m)'
    BY <1>2, <2>1, <2>9 DEF HandlerReturns, Queued, queueVars, TypeOK
  <2>10. ASSUME NEW w \in Workers, NextMessage(w), UNCHANGED queueVars PROVE Keeps(m)'
    BY <1>2, <2>1, <2>10 DEF NextMessage, Queued, queueVars, TypeOK
  <2>11. ASSUME NEW w \in Workers, SendToDlq(w) PROVE Keeps(m)'
    <3>1. CASE cur[w] = m
      BY <2>11, <3>1, SMT DEF SendToDlq, Keeps, TypeOK
    <3>2. CASE cur[w] # m
      BY <1>2, <2>1, <2>11, <3>2 DEF SendToDlq, Queued, TypeOK
    <3>3. QED
      BY <3>1, <3>2
  <2>12. ASSUME NEW w \in Workers, DeleteMessage(w) PROVE Keeps(m)'
    BY <1>2, <2>1, <2>12 DEF DeleteMessage, NextMessage, Queued, TypeOK
  <2>13. CASE UNCHANGED vars \/ \E k \in Keys : Evict(k)
    BY <1>2, <2>1, <2>13 DEF Evict, vars, queueVars, workerVars, Queued
  <2>14. QED
    BY <2>2, <2>3, <2>4, <2>5, <2>6, <2>7, <2>8, <2>9, <2>10, <2>11, <2>12, <2>13
       DEF Next, LoopStep, MessageStep, Disturbance, ClearMarker, ClearMarkerFails,
           SqsCallRaises, ClaimBlind, ClaimsHonoured
<1>3. QED
  BY <1>1, <1>2 DEF Keeps

(* Every step leaves each unfinished job with a message that keeps it.     *)
LEMMA KeptStep ==
    ASSUME ClaimsHonoured, TypeOK, ControlOK, KeptInv, [Next]_vars
    PROVE  KeptInv'
<1>1. ExclusiveHold' /\ MarkersBacked'
  BY HoldStep, MarkersStep DEF KeptInv
<1>2. ASSUME NEW k \in Keys, Published(k)', runs'[k] = 0
      PROVE  \E m \in Messages : KeyOf[m] = k /\ Keeps(m)'
  <2>1. runs[k] = 0
    BY <1>2, RunsGrow
  <2>2. CASE Published(k)
    <3>1. PICK m \in Messages : KeyOf[m] = k /\ Keeps(m)
      BY <2>1, <2>2 DEF KeptInv, JobsKept
    <3>2. CASE Keeps(m)'
      BY <3>1, <3>2
    <3>3. ASSUME NEW w \in Workers, HandlerReturns(w), cur[w] = m PROVE FALSE
      <4>1. runs'[k] > 0
        BY <3>1, <3>3, RunsGrow
      <4>2. QED
        BY <1>2, <4>1, SMT
    <3>4. ASSUME NEW w \in Workers, FindDuplicate(w, m)
          PROVE  \E n \in Messages : KeyOf[n] = k /\ Keeps(n)'
      <4>1. k \in seen
        BY <3>1, <3>4 DEF FindDuplicate
      <4>2. PICK v \in Workers : InClaim(v) /\ KeyOf[cur[v]] = k
        BY <2>1, <4>1 DEF KeptInv, MarkersBacked
      <4>3. PICK n \in Messages : n = cur[v] /\ n \in Holding(v)
        BY <4>2 DEF ControlOK, TypeOK, InClaim, Holding
      <4>4. pc[w] = "next" /\ m \in Holding(w)
        BY <3>4 DEF FindDuplicate, TakeUp, Holding
      <4>5. m # n
        BY <4>2, <4>3, <4>4 DEF KeptInv, ExclusiveHold, InClaim
      <4>6. /\ loc' = loc
            /\ cur' = [cur EXCEPT ![w] = m]
            /\ pc' = [pc EXCEPT ![w] = "ack"]
        BY <3>4 DEF FindDuplicate, TakeUp, queueVars
      <4>7. \A u \in Workers : pc[u] = "ack" => cur[u] # n
        BY <4>2, <4>3 DEF KeptInv, ExclusiveHold, Holding, InClaim, ControlOK, TypeOK
      <4>8. Queued(n)'
        BY <4>3, <4>6 DEF KeptInv, ExclusiveHold, Queued
      <4>9. \A u \in Workers : ~(pc'[u] = "ack" /\ cur'[u] = n)
        BY <4>5, <4>6, <4>7 DEF TypeOK
      <4>10. QED
        BY <4>2, <4>3, <4>8, <4>9 DEF Keeps
    <3>5. QED
      BY <3>1, <3>2, <3>3, <3>4, KeepsStep
  <2>3. CASE ~Published(k)
    <3>1. PICK m \in Messages : KeyOf[m] = k /\ loc'[m] # "unsent"
      BY <1>2 DEF Published
    <3>2. loc[m] = "unsent"
      BY <2>3, <3>1 DEF Published
    <3>3. \A w \in Workers : m \notin Holding(w)
      BY <3>2 DEF KeptInv, ExclusiveHold
    <3>4. Publish(m)
      <4>1. \A w \in Workers : cur[w] # m
        BY <3>3, ConstantFacts DEF Holding
      <4>2. QED
        BY <3>1, <3>2, <4>1
           DEF Next, LoopStep, MessageStep, Disturbance, Publish, VisibilityTimeout, Redrive,
           Evict, Poll, ReceiveNothing, ReceiveRaises, Sigterm, Exit, Start, Receive, Kill,
           ParseFails, FindDuplicate, Claim, ClaimBlind, TakeUp, HandlerReturns,
           HandlerRaises, ClearMarker, ClearMarkerFails, SqsCallRaises, SendToDlq,
           DeleteMessage, vars, queueVars, TypeOK
    <3>5. Queued(m)' /\ \A w \in Workers : ~(pc'[w] = "ack" /\ cur'[w] = m)
      <4>1. \A w \in Workers : cur[w] # m
        BY <3>3, ConstantFacts DEF Holding
      <4>2. QED
        BY <3>4, <4>1 DEF Publish, Queued, workerVars, TypeOK
    <3>6. QED
      BY <3>1, <3>5 DEF Keeps
  <2>4. QED
    BY <2>2, <2>3
<1>3. QED
  BY <1>1, <1>2 DEF KeptInv, JobsKept

(* Nothing is published at first.                                          *)
LEMMA KeptInit == Init => KeptInv
  BY DEF Init, KeptInv, ExclusiveHold, Holding, MarkersBacked, JobsKept, Published

(* The invariant behind NoJobLost and the refinement.                      *)
LEMMA KeptCorrect ==
    ASSUME ClaimsHonoured
    PROVE  Spec => []KeptInv
<1>1. TypeOK /\ ControlOK /\ KeptInv /\ [Next]_vars => KeptInv'
  BY KeptStep
<1>2. QED
  BY <1>1, KeptInit, TypeCorrect, ControlCorrect, PTL DEF Spec

(* As long as no claim is abandoned or crossed, a published job is done,   *)
(* dead-lettered or still queued: failures, redeliveries, repeated sends,  *)
(* lost SQS calls, evicted markers and restarts between claims lose none.  *)
THEOREM JobsNeverLost ==
    ASSUME ClaimsHonoured
    PROVE  Spec => []NoJobLost
<1>1. TypeOK /\ KeptInv => NoJobLost
  <2> SUFFICES ASSUME TypeOK, KeptInv, NEW k \in Keys, Published(k)
               PROVE  runs[k] > 0 \/ InQueue(k) \/ DeadLettered(k)
    BY DEF NoJobLost
  <2>1. CASE runs[k] = 0
    BY <2>1 DEF KeptInv, JobsKept, Keeps, InQueue, DeadLettered
  <2>2. CASE runs[k] # 0
    BY <2>2, SMT DEF TypeOK
  <2>3. QED
    BY <2>1, <2>2
<1>2. QED
  BY <1>1, KeptCorrect, TypeCorrect, PTL

-----------------------------------------------------------------------------
(* The pipeline implements the ledger.                                     *)

(* A step that leaves each message published or not, and queued or not,    *)
(* and touches neither runs nor dead-letter copies, is invisible.          *)
LEMMA Invisible ==
    ASSUME \A m \in Messages : /\ loc'[m] # "unsent" <=> loc[m] # "unsent"
                               /\ Queued(m)' <=> Queued(m),
           UNCHANGED <<dead, runs>>
    PROVE  UNCHANGED Ledger!vars
  BY DEF Ledger!vars, Published, InQueue, DeadLettered

(* What a step that moves only message m does to the other jobs.           *)
LEMMA OneMoves ==
    ASSUME NEW m \in Messages, \A n \in Messages : n # m => loc'[n] = loc[n],
           NEW j \in Keys, j # KeyOf[m]
    PROVE  (Published(j)' <=> Published(j)) /\ (InQueue(j)' <=> InQueue(j))
  BY DEF Published, InQueue, Queued

(* What becomes of the dead-lettered keys when one message is copied.      *)
LEMMA OneBuried ==
    ASSUME TypeOK, NEW m \in Messages, dead' = [dead EXCEPT ![m] = @ + 1]
    PROVE  {k \in Keys : DeadLettered(k)}' = {k \in Keys : DeadLettered(k)} \cup {KeyOf[m]}
<1>1. dead'[m] > 0
  BY SMT DEF TypeOK
<1>2. \A n \in Messages : n # m => dead'[n] = dead[n]
  BY DEF TypeOK
<1>3. \A k \in Keys : k # KeyOf[m] => (DeadLettered(k)' <=> DeadLettered(k))
  BY <1>2 DEF DeadLettered
<1>4. DeadLettered(KeyOf[m])'
  BY <1>1 DEF DeadLettered
<1>5. QED
  BY <1>3, <1>4

(* Every step of the pipeline is a step of the ledger, or none.            *)
LEMMA LedgerStep ==
    ASSUME ClaimsHonoured, TypeOK, ControlOK, KeptInv, KeptInv', [Next]_vars
    PROVE  [Ledger!Next]_(Ledger!vars)
<1>1. ASSUME NEW m \in Messages, Publish(m) PROVE Ledger!Next
  <2> DEFINE k == KeyOf[m]
  <2>1. \A j \in Keys : j # k => /\ Published(j)' <=> Published(j)
                                 /\ InQueue(j)' <=> InQueue(j)
    BY <1>1, OneMoves DEF Publish, TypeOK
  <2>2. Published(k)' /\ InQueue(k)'
    BY <1>1 DEF Publish, TypeOK, Published, InQueue, Queued
  <2>3. UNCHANGED <<dead, runs>>
    BY <1>1 DEF Publish
  <2>4. Ledger!Accept(k)
    BY <2>1, <2>2, <2>3 DEF Ledger!Accept, DeadLettered
  <2>5. QED
    BY <2>4 DEF Ledger!Next
<1>2. ASSUME NEW m \in Messages, Redrive(m) PROVE Ledger!Next
  <2> DEFINE k == KeyOf[m]
  <2>1. \A j \in Keys : j # k => /\ Published(j)' <=> Published(j)
                                 /\ InQueue(j)' <=> InQueue(j)
    BY <1>2, OneMoves DEF Redrive, TypeOK
  <2>2. Published(k) /\ Published(k)' /\ InQueue(k)
    BY <1>2 DEF Redrive, TypeOK, Published, InQueue, Queued
  <2>3. {j \in Keys : DeadLettered(j)}' = {j \in Keys : DeadLettered(j)} \cup {k}
    BY <1>2, OneBuried DEF Redrive
  <2>4. runs' = runs
    BY <1>2 DEF Redrive
  <2>5. Ledger!Bury(k)
    BY <2>1, <2>2, <2>3, <2>4 DEF Ledger!Bury
  <2>6. QED
    BY <2>5 DEF Ledger!Next
<1>3. ASSUME NEW w \in Workers, pc[w] \in {"handle", "bury", "ack"}
      PROVE  /\ cur[w] \in Messages
             /\ Queued(cur[w])
             /\ KeyOf[cur[w]] \in Keys
             /\ InQueue(KeyOf[cur[w]])
  <2>1. cur[w] \in Messages /\ cur[w] \in Holding(w)
    BY <1>3 DEF ControlOK, TypeOK, Holding
  <2>2. QED
    BY <2>1 DEF KeptInv, ExclusiveHold, Queued, InQueue
<1>4. ASSUME NEW w \in Workers, HandlerReturns(w) PROVE Ledger!Next
  <2>1. PICK k \in Keys : k = KeyOf[cur[w]] /\ InQueue(k)
    BY <1>3, <1>4 DEF HandlerReturns
  <2>2. runs'[k] > 0 /\ \A j \in Keys : j # k => runs'[j] = runs[j]
    BY <1>4, <2>1, SMT DEF HandlerReturns, TypeOK
  <2>3. UNCHANGED <<loc, dead>>
    BY <1>4 DEF HandlerReturns, queueVars
  <2>4. {j \in Keys : runs[j] > 0}' = {j \in Keys : runs[j] > 0} \cup {k}
    BY <2>1, <2>2
  <2>5. /\ {j \in Keys : Published(j)}' = {j \in Keys : Published(j)}
        /\ {j \in Keys : InQueue(j)}' = {j \in Keys : InQueue(j)}
        /\ {j \in Keys : DeadLettered(j)}' = {j \in Keys : DeadLettered(j)}
    BY <2>3 DEF Published, InQueue, Queued, DeadLettered
  <2>6. Ledger!Complete(k)
    BY <2>1, <2>4, <2>5 DEF Ledger!Complete
  <2>7. QED
    BY <2>6 DEF Ledger!Next
<1>5. ASSUME NEW w \in Workers, SendToDlq(w) PROVE Ledger!Next
  <2>1. PICK m \in Messages : m = cur[w] /\ InQueue(KeyOf[m])
    BY <1>3, <1>5 DEF SendToDlq
  <2>2. {j \in Keys : DeadLettered(j)}' = {j \in Keys : DeadLettered(j)} \cup {KeyOf[m]}
    BY <1>5, <2>1, OneBuried DEF SendToDlq
  <2>3. UNCHANGED <<loc, runs>>
    BY <1>5 DEF SendToDlq
  <2>4. Ledger!Bury(KeyOf[m])
    BY <2>1, <2>2, <2>3 DEF Ledger!Bury, Published, InQueue, Queued
  <2>5. QED
    BY <2>4 DEF Ledger!Next
<1>6. ASSUME NEW w \in Workers, DeleteMessage(w) PROVE [Ledger!Next]_(Ledger!vars)
  <2>1. PICK m \in Messages : m = cur[w] /\ InQueue(KeyOf[m]) /\ Queued(m)
    BY <1>3, <1>6 DEF DeleteMessage
  <2> DEFINE k == KeyOf[m]
  <2>2. UNCHANGED <<dead, runs>>
    BY <1>6 DEF DeleteMessage
  <2>3. loc' = loc \/ loc' = [loc EXCEPT ![m] = "gone"]
    BY <1>6, <2>1 DEF DeleteMessage
  <2>4. \A j \in Keys : j # k => /\ Published(j)' <=> Published(j)
                                 /\ InQueue(j)' <=> InQueue(j)
    BY <2>3, OneMoves DEF TypeOK
  <2>5. Published(k) /\ Published(k)'
    BY <2>1, <2>3 DEF TypeOK, Published, Queued
  <2>6. CASE InQueue(k)'
    BY <2>1, <2>2, <2>4, <2>5, <2>6 DEF Ledger!vars, DeadLettered
  <2>7. CASE ~InQueue(k)'
    <3>1. runs[k] > 0 \/ DeadLettered(k)
      <4>1. CASE runs[k] = 0
        <5>1. PICK n \in Messages : KeyOf[n] = k /\ Keeps(n)'
          BY <2>2, <2>5, <4>1 DEF KeptInv, JobsKept
        <5>2. dead[n] > 0
          BY <2>2, <2>7, <5>1 DEF Keeps, InQueue
        <5>3. QED
          BY <5>1, <5>2 DEF DeadLettered
      <4>2. CASE runs[k] # 0
        BY <4>2, SMT DEF TypeOK
      <4>3. QED
        BY <4>1, <4>2
    <3>2. Ledger!Release(k)
      BY <2>1, <2>2, <2>4, <2>5, <2>7, <3>1 DEF Ledger!Release, DeadLettered
    <3>3. QED
      BY <3>2 DEF Ledger!Next
  <2>8. QED
    BY <2>6, <2>7
<1>7. ASSUME NEW w \in Workers, NEW batch \in SUBSET Messages, Receive(w, batch)
      PROVE  UNCHANGED Ledger!vars
  BY <1>7, Invisible DEF Receive, Queued, TypeOK
<1>8. ASSUME NEW m \in Messages, VisibilityTimeout(m) PROVE UNCHANGED Ledger!vars
  BY <1>8, Invisible DEF VisibilityTimeout, Queued, TypeOK
<1>9. ASSUME UNCHANGED <<loc, dead, runs>> PROVE UNCHANGED Ledger!vars
  BY <1>9, Invisible DEF Queued
<1>10. QED
  BY <1>1, <1>2, <1>4, <1>5, <1>6, <1>7, <1>8, <1>9
     DEF Next, LoopStep, MessageStep, Disturbance, Evict, Poll, ReceiveNothing,
         ReceiveRaises, Sigterm, Exit, Start, Kill, ParseFails, FindDuplicate, Claim,
         ClaimBlind, TakeUp, HandlerRaises, ClearMarker, ClearMarkerFails, SqsCallRaises,
         vars, queueVars

(* Every behaviour of the pipeline in which claims are honoured is one of  *)
(* the ledger: a job leaves the queue only completed or dead-lettered.     *)
THEOREM ImplementsLedger ==
    ASSUME ClaimsHonoured
    PROVE  Spec => LedgerSpec
<1>1. Init => Ledger!Init
  BY SMT DEF Init, Ledger!Init, Published, InQueue, Queued, DeadLettered
<1>2. TypeOK /\ ControlOK /\ KeptInv /\ KeptInv' /\ [Next]_vars => [Ledger!Next]_(Ledger!vars)
  BY LedgerStep
<1>3. QED
  BY <1>1, <1>2, TypeCorrect, ControlCorrect, KeptCorrect, PTL DEF Spec, LedgerSpec, Ledger!Spec
=============================================================================
