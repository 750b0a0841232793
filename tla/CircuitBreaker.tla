----------------------------- MODULE CircuitBreaker -----------------------------
(***************************************************************************)
(* CircuitBreaker (src/src/utils/resiliency.py) around calls of one        *)
(* external service by several coroutines.  The wrapper reads the state,   *)
(* awaits the call, and records how it ended: between the two any other    *)
(* call may begin or end, and a task may be cancelled, which records       *)
(* nothing.  The failure count and the time since the last failure are     *)
(* kept up to the value at which the breaker acts on them.                 *)
(***************************************************************************)
EXTENDS Naturals

CONSTANTS
  Callers,          \* coroutines
  FailureThreshold,
  RecoveryTimeout

ASSUME BreakerAssumption ==
  FailureThreshold \in Nat \ {0} /\ RecoveryTimeout \in Nat \ {0}

VARIABLES
  state, \* _state: "closed", "open" or "half_open"
  count, \* _failure_count
  age,   \* the time since _last_failure_time
  call,  \* of each caller: "none", "calling", or "served" when it cannot fail
  up     \* whether the service has recovered for good
vars == <<state, count, age, call, up>>

AtMost(n, bound) == IF n <= bound THEN n ELSE bound

Init ==
  /\ state = "closed" /\ count = 0
  /\ age = RecoveryTimeout  \* no failure since the epoch
  /\ call = [c \in Callers |-> "none"] /\ up = FALSE

\* A mutant of Read that does not wait for the timeout.
ReadAtOnce == IF state = "open" THEN "half_open" ELSE state

\* The state property: what it reads, and makes of _state.
Read == IF state = "open" /\ age >= RecoveryTimeout THEN "half_open" ELSE state

\* Somebody looks at the state without calling.
Look == state' = Read /\ UNCHANGED <<count, age, call, up>>

Begin(c) ==
  /\ call[c] = "none"
  /\ Read # "open"
  /\ state' = Read
  /\ call' = [call EXCEPT ![c] = IF up THEN "served" ELSE "calling"]
  /\ UNCHANGED <<count, age, up>>

\* A mutant of Succeed that forgets to close.
SucceedKeepsState(c) ==
  /\ call[c] # "none" /\ call' = [call EXCEPT ![c] = "none"]
  /\ count' = 0
  /\ UNCHANGED <<state, age, up>>

Succeed(c) ==
  /\ call[c] # "none" /\ call' = [call EXCEPT ![c] = "none"]
  /\ count' = 0
  /\ state' = IF state = "half_open" THEN "closed" ELSE state
  /\ UNCHANGED <<age, up>>

\* A mutant of Opens that tests for more than the threshold.
OpensLate(failures) == failures > FailureThreshold

Opens(failures) == failures >= FailureThreshold

Fail(c) ==
  /\ call[c] = "calling" /\ call' = [call EXCEPT ![c] = "none"]
  /\ count' = AtMost(count + 1, FailureThreshold)
  /\ age' = 0
  /\ state' = IF Opens(count + 1) THEN "open" ELSE state
  /\ UNCHANGED up

Cancel(c) ==
  /\ call[c] # "none" /\ call' = [call EXCEPT ![c] = "none"]
  /\ UNCHANGED <<state, count, age, up>>

Tick == age' = AtMost(age + 1, RecoveryTimeout) /\ age' # age /\ UNCHANGED <<state, count, call, up>>

Recover == ~up /\ up' = TRUE /\ UNCHANGED <<state, count, age, call>>

Next == Tick \/ Recover \/ Look \/ \E c \in Callers : Begin(c) \/ Succeed(c) \/ Fail(c) \/ Cancel(c)

Spec == Init /\ [][Next]_vars

\* Time passes; a caller that may call calls, and a call whose caller is not
\* cancelled time and again is answered once the service is there.
Fairness ==
  /\ WF_vars(Tick)
  /\ \A c \in Callers : WF_vars(Begin(c)) /\ SF_vars(up /\ Succeed(c))

FairSpec == Spec /\ Fairness

-----------------------------------------------------------------------------
(* Properties *)

TypeOK ==
  /\ state \in {"closed", "open", "half_open"}
  /\ count \in 0..FailureThreshold
  /\ age \in 0..RecoveryTimeout
  /\ call \in [Callers -> {"none", "calling", "served"}]
  /\ up \in BOOLEAN

\* "Normal operation": a closed breaker has seen fewer failures than the
\* threshold since the last success, however late calls end and in whatever order.
ClosedIsHealthy == state = "closed" => count < FailureThreshold

\* No call begins within the recovery timeout after a run of failures that
\* reached the threshold, from whatever state they were recorded in.
CallsHoldOff ==
  [][\A c \in Callers :
       Begin(c) => count < FailureThreshold \/ age = RecoveryTimeout]_vars

\* Once the service is there for good, the breaker closes, whatever calls are still
\* to fail, as long as callers keep calling and time passes.
ClosesAgain == up ~> state = "closed"

\* test_circuit_breaker_reopens_on_half_open_failure
\* (src/tests/unit/test_resiliency.py): a call that fails in HALF_OPEN reopens.
ReopensOnFailure ==
  [][\A c \in Callers : state = "half_open" /\ Fail(c) => state' = "open"]_vars
===============================================================================
