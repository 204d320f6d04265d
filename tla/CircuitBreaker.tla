--------------------------- MODULE CircuitBreaker ---------------------------
(***************************************************************************)
(* The circuit breaker of crates/resilience: the struct CircuitBreaker and *)
(* its methods, one action per method, called in any order through the     *)
(* mutex that execute_resilient wraps around it.                           *)
(*                                                                         *)
(* Time is the age of last_failure_time in ticks.  The code only compares  *)
(* it with the recovery timeout, so it saturates one tick past it.         *)
(***************************************************************************)
EXTENDS Integers, Metrics

CONSTANTS FailureThreshold,          (* config.failure_threshold           *)
          RecoveryTimeout,           (* config.recovery_timeout_ms         *)
          HalfOpenSuccessThreshold   (* config.half_open_success_threshold *)

ASSUME BreakerConfigAssumption ==
    /\ FailureThreshold \in Nat
    /\ RecoveryTimeout \in Nat
    /\ HalfOpenSuccessThreshold \in Nat

VARIABLES state,              (* CircuitState                              *)
          failureCount,
          halfOpenSuccesses,
          sinceFailure,       (* age of last_failure_time, or Never        *)
          totalSuccesses,
          totalFailures

breakerVars == << state, failureCount, halfOpenSuccesses, sinceFailure,
                  totalSuccesses, totalFailures >>

CircuitState == {"Closed", "Open", "HalfOpen"}

Never == -1

-----------------------------------------------------------------------------

BreakerInit ==
    /\ state = "Closed"
    /\ failureCount = 0
    /\ halfOpenSuccesses = 0
    /\ sinceFailure = Never
    /\ totalSuccesses = 0
    /\ totalFailures = 0

RecoveryElapsed == sinceFailure # Never /\ sinceFailure > RecoveryTimeout

(* Mutant: the Open arm forgets to look at the recovery timeout. *)
AdmitsWhenOpen == state = "HalfOpen" => halfOpenSuccesses = 0

Admits ==
    \/ state = "Closed"
    \/ state = "HalfOpen" /\ halfOpenSuccesses = 0
    \/ state = "Open" /\ RecoveryElapsed

(* The answer is Admits in the state before the call. *)
AllowRequest ==
    /\ \/ /\ state = "Open"
          /\ RecoveryElapsed
          /\ state' = "HalfOpen"
          /\ halfOpenSuccesses' = 0
       \/ /\ ~(state = "Open" /\ RecoveryElapsed)
          /\ UNCHANGED << state, halfOpenSuccesses >>
    /\ UNCHANGED << failureCount, sinceFailure, totalSuccesses, totalFailures >>

(* Mutants: one probe too many, probes left over, a late success that closes. *)
EnoughAfterOneMore == halfOpenSuccesses >= HalfOpenSuccessThreshold
CloseKeepingProbes == state' = "Closed" /\ failureCount' = 0 /\ UNCHANGED halfOpenSuccesses
LateSuccessCloses == state' = "Closed" /\ failureCount' = 0 /\ halfOpenSuccesses' = 0

EnoughProbes == halfOpenSuccesses + 1 >= HalfOpenSuccessThreshold

Close == state' = "Closed" /\ failureCount' = 0 /\ halfOpenSuccesses' = 0

LateSuccess == UNCHANGED << state, failureCount, halfOpenSuccesses >>

RecordSuccess ==
    /\ totalSuccesses' = Bump(totalSuccesses)
    /\ \/ /\ state = "HalfOpen"
          /\ EnoughProbes
          /\ Close
       \/ /\ state = "HalfOpen"
          /\ ~EnoughProbes
          /\ halfOpenSuccesses' = halfOpenSuccesses + 1
          /\ UNCHANGED << state, failureCount >>
       \/ /\ state = "Closed"
          /\ failureCount' = 0
          /\ UNCHANGED << state, halfOpenSuccesses >>
       \/ state = "Open" /\ LateSuccess
    /\ UNCHANGED << sinceFailure, totalFailures >>

(* Mutants: the threshold off by one, a trip without its time. *)
TripsEarly == failureCount + 2 >= FailureThreshold
OpenWithoutTime == state' = "Open" /\ UNCHANGED sinceFailure

Trips == failureCount + 1 >= FailureThreshold

Open == state' = "Open" /\ sinceFailure' = 0

RecordFailure ==
    /\ totalFailures' = Bump(totalFailures)
    /\ \/ /\ state = "Closed"
          /\ failureCount' = failureCount + 1
          /\ IF Trips THEN Open ELSE UNCHANGED << state, sinceFailure >>
          /\ UNCHANGED halfOpenSuccesses
       \/ /\ state = "HalfOpen"
          /\ Open
          /\ halfOpenSuccesses' = 0
          /\ failureCount' = FailureThreshold
       \/ /\ state = "Open"
          /\ sinceFailure' = 0
          /\ UNCHANGED << state, failureCount, halfOpenSuccesses >>
    /\ UNCHANGED totalSuccesses

ForceOpen ==
    /\ Open
    /\ failureCount' = FailureThreshold
    /\ UNCHANGED << halfOpenSuccesses, totalSuccesses, totalFailures >>

ForceClosed ==
    /\ Close
    /\ UNCHANGED << sinceFailure, totalSuccesses, totalFailures >>

ResetCounters ==
    /\ failureCount' = 0
    /\ halfOpenSuccesses' = 0
    /\ totalSuccesses' = 0
    /\ totalFailures' = 0
    /\ UNCHANGED << state, sinceFailure >>

(* Utc::now() moves on. *)
Tick ==
    /\ sinceFailure # Never
    /\ sinceFailure <= RecoveryTimeout
    /\ sinceFailure' = sinceFailure + 1
    /\ UNCHANGED << state, failureCount, halfOpenSuccesses,
                    totalSuccesses, totalFailures >>

BreakerNext ==
    \/ AllowRequest
    \/ RecordSuccess
    \/ RecordFailure
    \/ ForceOpen
    \/ ForceClosed
    \/ ResetCounters
    \/ Tick

BreakerSpec == BreakerInit /\ [][BreakerNext]_breakerVars

-----------------------------------------------------------------------------

BreakerTypeOK ==
    /\ state \in CircuitState
    /\ failureCount \in Nat
    /\ halfOpenSuccesses \in Nat
    /\ sinceFailure \in Never .. (RecoveryTimeout + 1)
    /\ totalSuccesses \in Counter
    /\ totalFailures \in Counter

(***************************************************************************)
(* The counters agree with the state, whatever the order of the calls: a   *)
(* closed circuit is below the failure threshold and holds no probe count  *)
(* that a later half-open period could inherit; an open one has a failure  *)
(* time, without which allow_request would reject for ever; a half-open    *)
(* one is below the success threshold.                                     *)
(***************************************************************************)
ClosedConsistent ==
    state = "Closed" =>
        /\ halfOpenSuccesses = 0
        /\ failureCount < FailureThreshold \/ failureCount = 0

OpenConsistent == state = "Open" => sinceFailure # Never

HalfOpenConsistent ==
    state = "HalfOpen" =>
        /\ sinceFailure # Never
        /\ halfOpenSuccesses < HalfOpenSuccessThreshold \/ halfOpenSuccesses = 0

BreakerConsistent == ClosedConsistent /\ OpenConsistent /\ HalfOpenConsistent
=============================================================================
