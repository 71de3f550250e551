------------------------ MODULE CircuitBreakerProofs ------------------------
(***************************************************************************)
(* Type correctness of CircuitBreaker and StreakDecides, for any number of *)
(* callers and any fail_max and reset_timeout.                             *)
(***************************************************************************)
EXTENDS CircuitBreaker, TLAPS

(* fail_max and reset_timeout, as the arithmetic below needs them.         *)
LEMMA ConstantFacts ==
    FailMax \in Nat /\ FailMax >= 1 /\ ResetTimeout \in Nat
  BY BreakerAssumption, SMT

(* The methods of a breaker answer with a breaker.                         *)
LEMMA BreakerType ==
    ASSUME NEW b \in Breakers
    PROVE  /\ Looked(b) \in Breakers
           /\ OnSuccess(b) \in Breakers
           /\ OnFailure(b) \in Breakers
           /\ Older(b) \in Breakers
<1> /\ b.state \in {"closed", "open", "half_open"}
    /\ b.failures \in Nat /\ b.age \in 0..ResetTimeout
    /\ b = [state |-> b.state, failures |-> b.failures, age |-> b.age]
  BY DEF Breakers
<1>1. Looked(b) \in Breakers
  BY DEF Breakers, Looked
<1>2. OnSuccess(b) \in Breakers
  BY DEF Breakers, OnSuccess
<1>3. OnFailure(b) \in Breakers
  BY ConstantFacts DEF Breakers, OnFailure
<1>4. Older(b) \in Breakers
  BY ConstantFacts DEF Breakers, Older
<1>5. QED
  BY <1>1, <1>2, <1>3, <1>4

(* Adding an ending keeps the history a bounded sequence of endings.       *)
LEMMA RecordedType ==
    ASSUME TypeOK, NEW e \in {"ok", "failed"}
    PROVE  Recorded(e) \in Seq({"ok", "failed"}) /\ Len(Recorded(e)) <= FailMax
  BY ConstantFacts, SMT DEF TypeOK, Recorded

(* Every step keeps the types.                                             *)
LEMMA TypeStep == TypeOK /\ [Next]_vars => TypeOK'
<1> SUFFICES ASSUME TypeOK, [Next]_vars PROVE TypeOK'
  OBVIOUS
<1> USE DEF TypeOK, CallStates
<1>1. ASSUME NEW c \in Callers, Admit(c) PROVE TypeOK'
  BY <1>1, BreakerType DEF Admit
<1>2. ASSUME NEW c \in Callers, Refuse(c) PROVE TypeOK'
  BY <1>2 DEF Refuse
<1>3. ASSUME NEW c \in Callers, Return(c) PROVE TypeOK'
  BY <1>3, BreakerType, RecordedType DEF Return
<1>4. ASSUME NEW c \in Callers, Raise(c) PROVE TypeOK'
  BY <1>4, BreakerType, RecordedType DEF Raise
<1>5. ASSUME NEW c \in Callers, Cancel(c) PROVE TypeOK'
  BY <1>5 DEF Cancel
<1>6. CASE Tick
  BY <1>6, BreakerType DEF Tick
<1>7. CASE UNCHANGED vars
  BY <1>7 DEF vars
<1>8. QED
  BY <1>1, <1>2, <1>3, <1>4, <1>5, <1>6, <1>7 DEF Next, Attempt, Finish

(* No behaviour leaves the types declared in TypeOK.                       *)
THEOREM TypeCorrect == Spec => []TypeOK
<1>1. Init => TypeOK
  BY ConstantFacts, SMT
     DEF Init, TypeOK, NewBreaker, Breakers, CallStates
<1>2. QED
  BY <1>1, TypeStep, PTL DEF Spec

-----------------------------------------------------------------------------
(***************************************************************************)
(* StreakDecides is not inductive: it says nothing of a breaker that is    *)
(* part of the way to opening.  The invariant behind it ties the counter   *)
(* to the history at every value: the last `failures` endings failed and   *)
(* the one before them, if remembered, did not.                            *)
(***************************************************************************)
CountOK ==
    /\ breaker.state = "closed" <=> breaker.failures < FailMax
    /\ Len(recent) < FailMax => breaker.failures <= Len(recent)
    /\ \A i \in 1..Len(recent) :
          i > Len(recent) - breaker.failures => recent[i] = "failed"
    /\ breaker.failures < Len(recent)
          => recent[Len(recent) - breaker.failures] = "ok"

(* A success ends the streak: the count restarts and the last ending is ok. *)
LEMMA SuccessKeepsCount ==
    ASSUME TypeOK, CountOK,
           breaker' = OnSuccess(breaker), recent' = Recorded("ok")
    PROVE  CountOK'
<1>1. breaker'.failures = 0 /\ breaker'.state = "closed"
  BY SMT DEF OnSuccess, TypeOK, Breakers
<1>2. Len(recent') \in Nat /\ Len(recent') >= 1 /\ recent'[Len(recent')] = "ok"
  BY ConstantFacts, SMT DEF Recorded, TypeOK
<1>3. QED
  BY <1>1, <1>2, ConstantFacts, SMT DEF CountOK

(* A failure lengthens the streak by one and the count by one.             *)
LEMMA FailureKeepsCount ==
    ASSUME TypeOK, CountOK,
           breaker' = OnFailure(breaker), recent' = Recorded("failed")
    PROVE  CountOK'
<1> DEFINE n == breaker.failures
<1>1. /\ n \in Nat
      /\ breaker'.failures = n + 1
      /\ breaker'.state = "closed" <=> n + 1 < FailMax
  BY ConstantFacts, SMT DEF OnFailure, TypeOK, Breakers, CountOK
<1>2. CASE Len(recent) < FailMax
  <2>1. /\ Len(recent') = Len(recent) + 1
        /\ recent'[Len(recent) + 1] = "failed"
        /\ \A i \in 1..Len(recent) : recent'[i] = recent[i]
    BY <1>2, ConstantFacts, SMT DEF Recorded, TypeOK
  <2>2. Len(recent) \in Nat /\ n <= Len(recent)
    BY <1>2, SMT DEF CountOK, TypeOK
  <2>3. ASSUME NEW i \in 1..Len(recent'), i > Len(recent') - (n + 1)
        PROVE  recent'[i] = "failed"
    <3>1. CASE i = Len(recent) + 1
      BY <2>1, <3>1
    <3>2. CASE i \in 1..Len(recent)
      <4>1. i > Len(recent) - n
        BY <1>1, <2>1, <2>2, <2>3, <3>2, SMT
      <4>2. QED
        BY <2>1, <3>2, <4>1 DEF CountOK
    <3>3. QED
      BY <2>1, <2>2, <2>3, <3>1, <3>2, SMT
  <2>4. n + 1 < Len(recent') => recent'[Len(recent') - (n + 1)] = "ok"
    <3>1. SUFFICES ASSUME n < Len(recent) PROVE recent'[Len(recent) - n] = "ok"
      BY <1>1, <2>1, <2>2, SMT
    <3>2. Len(recent) - n \in 1..Len(recent)
      BY <1>1, <2>2, <3>1, SMT
    <3>3. QED
      BY <2>1, <3>1, <3>2 DEF CountOK
  <2>5. QED
    BY <1>1, <2>1, <2>2, <2>3, <2>4, SMT DEF CountOK
<1>3. CASE Len(recent) >= FailMax
  <2>1. /\ Len(recent) = FailMax
        /\ Len(recent') = Len(recent)
        /\ recent'[Len(recent)] = "failed"
        /\ \A i \in 1..(Len(recent) - 1) : recent'[i] = recent[i + 1]
    BY <1>3, ConstantFacts, SMT DEF Recorded, TypeOK
  <2>2. QED
    BY <1>1, <1>3, <2>1, ConstantFacts, SMT DEF CountOK, TypeOK
<1>4. QED
  BY <1>2, <1>3, ConstantFacts, SMT DEF TypeOK

(* Every step keeps the count and the history in agreement.                *)
LEMMA CountStep == TypeOK /\ CountOK /\ [Next]_vars => CountOK'
<1> SUFFICES ASSUME TypeOK, CountOK, [Next]_vars PROVE CountOK'
  OBVIOUS
<1>1. ASSUME NEW c \in Callers, Admit(c) PROVE CountOK'
  <2>1. /\ breaker'.failures = breaker.failures
        /\ breaker'.state = "closed" <=> breaker.state = "closed"
        /\ recent' = recent
    BY <1>1, SMT DEF Admit, Looked, TypeOK, Breakers
  <2>2. QED
    BY <2>1 DEF CountOK
<1>2. ASSUME NEW c \in Callers, Refuse(c) PROVE CountOK'
  BY <1>2 DEF Refuse, CountOK
<1>3. ASSUME NEW c \in Callers, Return(c) PROVE CountOK'
  BY <1>3, SuccessKeepsCount DEF Return
<1>4. ASSUME NEW c \in Callers, Raise(c) PROVE CountOK'
  BY <1>4, FailureKeepsCount DEF Raise
<1>5. ASSUME NEW c \in Callers, Cancel(c) PROVE CountOK'
  BY <1>5 DEF Cancel, CountOK
<1>6. CASE Tick
  <2>1. /\ breaker'.failures = breaker.failures
        /\ breaker'.state = breaker.state
        /\ recent' = recent
    BY <1>6, SMT DEF Tick, Older, TypeOK, Breakers
  <2>2. QED
    BY <2>1 DEF CountOK
<1>7. CASE UNCHANGED vars
  BY <1>7 DEF vars, CountOK
<1>8. QED
  BY <1>1, <1>2, <1>3, <1>4, <1>5, <1>6, <1>7 DEF Next, Attempt, Finish

(* Read at the threshold, the agreement is StreakDecides.                  *)
LEMMA CountDecides == TypeOK /\ CountOK => StreakDecides
<1> SUFFICES ASSUME TypeOK, CountOK PROVE StreakDecides
  OBVIOUS
<1>1. breaker.failures \in Nat /\ Len(recent) \in Nat
  BY SMT DEF TypeOK, Breakers
<1>2. ASSUME breaker.state # "closed" PROVE Streak
  BY <1>1, <1>2, ConstantFacts, SMT DEF CountOK, Streak, TypeOK
<1>3. ASSUME Streak PROVE breaker.state # "closed"
  <2>1. SUFFICES ASSUME breaker.failures < FailMax PROVE FALSE
    BY DEF CountOK
  <2>2. recent[FailMax - breaker.failures] = "ok"
    BY <1>1, <1>3, <2>1, ConstantFacts, SMT DEF CountOK, Streak
  <2>3. recent[FailMax - breaker.failures] = "failed"
    BY <1>1, <1>3, <2>1, ConstantFacts, SMT DEF Streak
  <2>4. QED
    BY <2>2, <2>3
<1>4. QED
  BY <1>2, <1>3 DEF StreakDecides

(* A breaker is away from closed exactly when the last fail_max counted    *)
(* calls failed, for any number of overlapping callers.                    *)
THEOREM StreakCorrect == Spec => []StreakDecides
<1>1. Init => CountOK
  BY ConstantFacts, SMT DEF Init, CountOK, NewBreaker
<1>2. Spec => []CountOK
  BY <1>1, TypeCorrect, CountStep, PTL DEF Spec
<1>3. QED
  BY <1>2, TypeCorrect, CountDecides, PTL
=============================================================================
