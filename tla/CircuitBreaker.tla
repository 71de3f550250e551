--------------------------- MODULE CircuitBreaker ---------------------------
(***************************************************************************)
(* One AsyncCircuitBreaker shared by concurrent coroutines, each making    *)
(* `guarded` calls through it.  The breaker is read when a call starts and *)
(* written when it ends; in between the coroutine awaits and the others    *)
(* run, so calls end under a state of the breaker other than the one that  *)
(* admitted them.                                                          *)
(***************************************************************************)
EXTENDS Breaker, Sequences, FiniteSets

CONSTANTS
    Callers,        \* coroutines calling through the breaker
    FailureBound    \* bound on the failure count, for TLC

ASSUME CircuitBreakerAssumption == FailureBound \in Nat

VARIABLES
    breaker,    \* the AsyncCircuitBreaker
    call,       \* per caller: its current or last call
    recent      \* history: how the last FailMax counted calls ended

vars == <<breaker, call, recent>>

(* "running" and "trial" are calls in progress, admitted by a closed and   *)
(* by a half-open breaker; the others are over.                            *)
CallStates == {"idle", "running", "trial", "ok", "failed", "refused", "cancelled"}
InProgress(c) == call[c] \in {"running", "trial"}

TypeOK ==
    /\ breaker \in Breakers
    /\ call \in [Callers -> CallStates]
    /\ recent \in Seq({"ok", "failed"})
    /\ Len(recent) <= FailMax

Init ==
    /\ breaker = NewBreaker
    /\ call = [c \in Callers |-> "idle"]
    /\ recent = << >>

-----------------------------------------------------------------------------
(* call(): the state is not OPEN, the function is started.                 *)
Admit(c) ==
    /\ ~InProgress(c)
    /\ Looked(breaker).state # "open"
    /\ breaker' = Looked(breaker)
    /\ call' = [call EXCEPT ![c] =
                  IF Looked(breaker).state = "closed" THEN "running" ELSE "trial"]
    /\ UNCHANGED recent

(* call(): the state is OPEN, CircuitBreakerError.                         *)
Refuse(c) ==
    /\ ~InProgress(c)
    /\ Looked(breaker).state = "open"
    /\ call' = [call EXCEPT ![c] = "refused"]
    /\ UNCHANGED <<breaker, recent>>

(* The last FailMax endings, with e added.                                 *)
Recorded(e) ==
    IF Len(recent) < FailMax THEN Append(recent, e) ELSE Append(Tail(recent), e)

(* The function returns in time: _on_success.                              *)
Return(c) ==
    /\ InProgress(c)
    /\ breaker' = OnSuccess(breaker)
    /\ call' = [call EXCEPT ![c] = "ok"]
    /\ recent' = Recorded("ok")

(* The function raises, or with_timeout cancels it and raises TimeoutError: *)
(* _on_failure, and the caller gets the exception.                         *)
Raise(c) ==
    /\ InProgress(c)
    /\ breaker.failures < FailureBound
    /\ breaker' = OnFailure(breaker)
    /\ call' = [call EXCEPT ![c] = "failed"]
    /\ recent' = Recorded("failed")

\* Mutant of Cancel: `except BaseException` counts a cancelled call.
CancelCounted(c) ==
    /\ InProgress(c)
    /\ breaker.failures < FailureBound
    /\ breaker' = OnFailure(breaker)
    /\ call' = [call EXCEPT ![c] = "cancelled"]
    /\ UNCHANGED recent

(* The caller is cancelled: CancelledError is no Exception, nothing counts. *)
Cancel(c) ==
    /\ InProgress(c)
    /\ call' = [call EXCEPT ![c] = "cancelled"]
    /\ UNCHANGED <<breaker, recent>>

Tick ==
    /\ breaker.age < ResetTimeout
    /\ breaker' = Older(breaker)
    /\ UNCHANGED <<call, recent>>

Attempt(c) == Admit(c) \/ Refuse(c)
Finish(c) == Return(c) \/ Raise(c) \/ Cancel(c)

Next == Tick \/ \E c \in Callers : Attempt(c) \/ Finish(c)

Spec == Init /\ [][Next]_vars

(* Time passes, every call ends (with_timeout bounds it), and some caller  *)
(* makes another call for as long as one is not admitted.                  *)
Fairness ==
    /\ WF_vars(Tick)
    /\ \A c \in Callers : WF_vars(Finish(c))
    /\ WF_vars(\E c \in Callers : Admit(c))

FairSpec == Spec /\ Fairness

-----------------------------------------------------------------------------
(* The last FailMax calls to end all failed.                               *)
Streak ==
    /\ Len(recent) = FailMax
    /\ \A i \in 1..FailMax : recent[i] = "failed"

(* However calls overlap, and whatever the breaker was when they started,  *)
(* it is away from closed exactly when the last fail_max calls to end all  *)
(* failed; refused and cancelled calls have no say (_on_success,           *)
(* _on_failure).                                                           *)
StreakDecides == breaker.state # "closed" <=> Streak

(* The breaker cannot lock itself open: although every failure of a call   *)
(* that was already in progress restarts reset_timeout, an open breaker    *)
(* is in the end tried again.                                              *)
OpenNotForever == breaker.state = "open" ~> breaker.state # "open"

-----------------------------------------------------------------------------
(* resilience.py:67: "half_open -> one trial call allowed".                *)
OneTrial == Cardinality({c \in Callers : call[c] = "trial"}) <= 1

(* resilience.py:66: "open -> calls fast-fail with CircuitBreakerError     *)
(* until reset_timeout elapses".                                           *)
FastFailUntilReset ==
    [][ breaker.state = "open" /\ breaker.age < ResetTimeout
          => breaker'.state = "open" ]_vars
=============================================================================
