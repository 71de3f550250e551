------------------------------ MODULE Breaker ------------------------------
(***************************************************************************)
(* The state of one AsyncCircuitBreaker as a value, and what its methods   *)
(* do to it.  None of them awaits, so each is one atomic step of whichever *)
(* coroutine calls it.  The monotonic clock is kept as the age of the last *)
(* opening, which no comparison tells apart beyond ResetTimeout.           *)
(***************************************************************************)
EXTENDS Integers

CONSTANTS
    FailMax,        \* fail_max
    ResetTimeout    \* reset_timeout, in clock ticks

ASSUME BreakerAssumption ==
    /\ FailMax \in Nat \ {0}
    /\ ResetTimeout \in Nat

Breakers == [state : {"closed", "open", "half_open"},
             failures : Nat,
             age : 0..ResetTimeout]

\* Mutant of NewBreaker: the count starts one short.
NewBreakerShort == [state |-> "closed", failures |-> -1, age |-> ResetTimeout]

(* __init__: _opened_at = 0.0 is long past, and not read before an opening. *)
NewBreaker == [state |-> "closed", failures |-> 0, age |-> ResetTimeout]

\* Mutant of Looked: reset_timeout is compared with > instead of >=.
LookedStrict(b) ==
    IF b.state = "open" /\ b.age > ResetTimeout
    THEN [b EXCEPT !.state = "half_open"]
    ELSE b

(* The `state` property: reading it half-opens a breaker whose             *)
(* reset_timeout has elapsed.                                              *)
Looked(b) ==
    IF b.state = "open" /\ b.age >= ResetTimeout
    THEN [b EXCEPT !.state = "half_open"]
    ELSE b

\* Mutant of OnSuccess: the breaker closes but keeps its failure count.
OnSuccessKeeping(b) == [b EXCEPT !.state = "closed"]

(* _on_success.                                                            *)
OnSuccess(b) == [b EXCEPT !.state = "closed", !.failures = 0]

(* _on_failure: the count is kept through half_open, so there one failure  *)
(* is enough; a late failure of an open breaker restarts the clock.        *)
OnFailure(b) ==
    IF b.failures + 1 >= FailMax
    THEN [state |-> "open", failures |-> b.failures + 1, age |-> 0]
    ELSE [b EXCEPT !.failures = @ + 1]

(* time.monotonic() advances.                                              *)
Older(b) == [b EXCEPT !.age = IF @ < ResetTimeout THEN @ + 1 ELSE @]
=============================================================================
