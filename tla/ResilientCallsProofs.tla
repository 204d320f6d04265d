------------------------ MODULE ResilientCallsProofs ------------------------
(***************************************************************************)
(* Theorems about execute_resilient and its circuit breaker, for every set *)
(* of callers, every threshold, timeout and retry count.                   *)
(***************************************************************************)
EXTENDS ResilientCalls, TLAPS

(***************************************************************************)
(* The breaker alone: its methods keep the types and the agreement of      *)
(* counters and state, whatever order they are called in.                  *)
(***************************************************************************)
BreakerInv == BreakerTypeOK /\ BreakerConsistent

(* The pieces the breaker's methods are put together from. *)
USE DEF EnoughProbes, Close, LateSuccess, Trips, Open, HasRetry

(* The u64 metrics stay in range: the increment wraps (lib.rs 157, 183). *)
LEMMA BumpInRange ==
    ASSUME NEW n \in Counter
    PROVE  Bump(n) \in Counter
BY CounterAssumption DEF Bump, Counter

(* CircuitBreaker::new is consistent. *)
LEMMA BreakerInitInv == BreakerInit => BreakerInv
BY BreakerConfigAssumption, CounterAssumption
   DEF Counter, BreakerInit, BreakerInv, BreakerTypeOK, BreakerConsistent, ClosedConsistent,
       OpenConsistent, HalfOpenConsistent, CircuitState, Never

(* Every method of the breaker, and the clock, keeps it consistent. *)
LEMMA BreakerStepInv == BreakerInv /\ [BreakerNext]_breakerVars => BreakerInv'
<1> SUFFICES ASSUME BreakerInv, [BreakerNext]_breakerVars
             PROVE  BreakerInv'
  OBVIOUS
<1> USE BreakerConfigAssumption
    DEF BreakerInv, BreakerTypeOK, BreakerConsistent, ClosedConsistent,
        OpenConsistent, HalfOpenConsistent, CircuitState, Never
<1>1. CASE AllowRequest
  BY <1>1 DEF AllowRequest, RecoveryElapsed
<1>2. CASE RecordSuccess
  <2>1. totalSuccesses' \in Counter
    BY <1>2, BumpInRange DEF RecordSuccess
  <2>2. QED
    BY <1>2, <2>1 DEF RecordSuccess
<1>3. CASE RecordFailure
  <2>1. totalFailures' \in Counter
    BY <1>3, BumpInRange DEF RecordFailure
  <2>2. QED
    BY <1>3, <2>1 DEF RecordFailure
<1>4. CASE ForceOpen
  BY <1>4 DEF ForceOpen
<1>5. CASE ForceClosed
  BY <1>5 DEF ForceClosed
<1>6. CASE ResetCounters
  BY <1>6, CounterAssumption DEF ResetCounters, Counter
<1>7. CASE Tick
  BY <1>7 DEF Tick
<1>8. CASE UNCHANGED breakerVars
  BY <1>8 DEF breakerVars
<1>9. QED
  BY <1>1, <1>2, <1>3, <1>4, <1>5, <1>6, <1>7, <1>8 DEF BreakerNext

(***************************************************************************)
(* Every step of the callers touches the breaker through one method call,  *)
(* or not at all: the mutex makes each method atomic.                      *)
(***************************************************************************)
LEMMA StepIsMethodCall == [Next]_vars => [BreakerNext]_breakerVars
<1> SUFFICES ASSUME [Next]_vars
             PROVE  [BreakerNext]_breakerVars
  OBVIOUS
<1> USE DEF BreakerNext
<1>1. ASSUME NEW c \in Callers, CallStep(c) \/ Cancel(c)
      PROVE  [BreakerNext]_breakerVars
  BY <1>1 DEF CallStep, Admit, Reject, AttemptSucceeds, AttemptFails, Retry,
              Record, Cancel
<1>2. CASE OperatorOpens \/ OperatorCloses \/ OperatorResets
  BY <1>2 DEF OperatorOpens, OperatorCloses, OperatorResets
<1>3. CASE TimePasses
  BY <1>3 DEF TimePasses
<1>4. CASE UNCHANGED vars
  BY <1>4 DEF vars
<1>5. QED
  BY <1>1, <1>2, <1>3, <1>4 DEF Next

(***************************************************************************)
(* The inductive invariant.  TypeOK alone is not inductive: that Retry     *)
(* stays within max_retries needs that a call asleep in backoff has an     *)
(* attempt left, and that the shield survives a Record needs the bound by  *)
(* the call's own attempt number.                                          *)
(***************************************************************************)
SleepersHaveRetry == \A c \in Callers : pc[c] = "backoff" => attempt[c] < MaxRetries

AttemptsCovered ==
    \A c \in Callers :
        openAttempts[c] <= IF InFlight(c) THEN attempt[c] ELSE MaxRetries

CallsInv ==
    /\ TypeOK
    /\ BreakerConsistent
    /\ SleepersHaveRetry
    /\ AttemptsCovered

LEMMA InitInv == Init => CallsInv
<1> SUFFICES ASSUME Init PROVE CallsInv
  OBVIOUS
<1>1. BreakerInv
  BY BreakerInitInv DEF Init
<1>2. TypeOK
  <2>1. 0 \in 0 .. MaxRetries /\ BreakerTypeOK
    BY <1>1, CallsAssumption DEF BreakerInv
  <2>2. QED
    BY <2>1 DEF Init, TypeOK, Errors, CircuitState
<1>3. SleepersHaveRetry /\ AttemptsCovered
  BY CallsAssumption DEF Init, SleepersHaveRetry, AttemptsCovered, InFlight, Errors
<1>4. QED
  BY <1>1, <1>2, <1>3 DEF CallsInv, BreakerInv

(* A request is admitted only into a circuit that is not open afterwards.  *)
LEMMA AdmittedNotOpen ==
    ASSUME Admits, AllowRequest
    PROVE  state' # "Open"
BY DEF Admits, AllowRequest

(* Each step of one caller keeps the callers' part of the invariant. *)
LEMMA CallerStepInv ==
    ASSUME CallsInv, BreakerInv', NEW c \in Callers, CallStep(c) \/ Cancel(c)
    PROVE  CallsInv'
<1> USE CallsAssumption
    DEF CallsInv, TypeOK, SleepersHaveRetry, AttemptsCovered, InFlight, Errors
<1>0. BreakerTypeOK' /\ BreakerConsistent' /\ state' \in CircuitState
  BY DEF BreakerInv, BreakerTypeOK
<1>1. CASE Admit(c)
  <2>1. state' # "Open"
    BY <1>1, AdmittedNotOpen DEF Admit
  <2>2. TypeOK'
    BY <1>0, <1>1, <2>1 DEF Admit, History
  <2>3. SleepersHaveRetry' /\ AttemptsCovered'
    BY <1>1, <2>1 DEF Admit, History
  <2>4. QED
    BY <1>0, <2>2, <2>3
<1>2. CASE Reject(c)
  BY <1>0, <1>2 DEF Reject, History
<1>3. CASE AttemptSucceeds(c)
  BY <1>0, <1>3 DEF AttemptSucceeds
<1>4. ASSUME NEW e \in Errors, AttemptFails(c, e) PROVE CallsInv'
  BY <1>0, <1>4 DEF AttemptFails
<1>5. CASE Retry(c)
  BY <1>0, <1>5 DEF Retry, History
<1>6. CASE Record(c)
  BY <1>0, <1>6 DEF Record, Leave, History
<1>7. CASE Cancel(c)
  BY <1>0, <1>7 DEF Cancel, Leave
<1>8. QED
  BY <1>1, <1>2, <1>3, <1>4, <1>5, <1>6, <1>7 DEF CallStep

LEMMA StepInv == CallsInv /\ [Next]_vars => CallsInv'
<1> SUFFICES ASSUME CallsInv, [Next]_vars PROVE CallsInv'
  OBVIOUS
<1>0. BreakerInv'
  BY StepIsMethodCall, BreakerStepInv DEF CallsInv, TypeOK, BreakerInv
<1>1. ASSUME NEW c \in Callers, CallStep(c) \/ Cancel(c) PROVE CallsInv'
  BY <1>0, <1>1, CallerStepInv
<1> USE <1>0, CallsAssumption
    DEF CallsInv, BreakerInv, TypeOK, SleepersHaveRetry, AttemptsCovered, InFlight,
        Errors
<1>2. CASE OperatorOpens \/ OperatorCloses
  <2>1. ByHand
    BY <1>2 DEF OperatorOpens, OperatorCloses
  <2>2. \A c \in Callers : openAttempts'[c] \in {0, openAttempts[c]}
    BY <2>1 DEF ByHand
  <2>3. TypeOK'
    BY <2>1 DEF ByHand
  <2>4. SleepersHaveRetry'
    BY <2>1 DEF ByHand
  <2>5. AttemptsCovered'
    BY <2>1, <2>2 DEF ByHand
  <2>6. QED
    BY <2>3, <2>4, <2>5
<1>3. CASE OperatorResets \/ TimePasses
  BY <1>3 DEF OperatorResets, TimePasses, callVars
<1>4. CASE UNCHANGED vars
  BY <1>4 DEF vars, callVars
<1>5. QED
  BY <1>1, <1>2, <1>3, <1>4 DEF Next

LEMMA Invariance == Spec => []CallsInv
BY InitInv, StepInv, PTL DEF Spec

(***************************************************************************)
(* Types: in particular no call ever makes more than 1 + max_retries       *)
(* attempts.                                                               *)
(***************************************************************************)
THEOREM TypeCorrect == Spec => []TypeOK
BY Invariance, PTL DEF CallsInv

(***************************************************************************)
(* The counters of the shared breaker agree with its state in every        *)
(* interleaving of callers, operator and clock.                            *)
(***************************************************************************)
THEOREM BreakerStaysConsistent == Spec => []BreakerConsistent
BY Invariance, PTL DEF CallsInv

(***************************************************************************)
(* INV-011: after the circuit opens the dependency sees at most max_retries*)
(* further attempts of each call that was under way, and no new call.      *)
(***************************************************************************)
THEOREM OpenShields == Spec => []OpenShieldsDependency
<1>1. CallsInv => OpenShieldsDependency
  BY CallsAssumption
     DEF CallsInv, TypeOK, AttemptsCovered, OpenShieldsDependency, InFlight
<1>2. QED
  BY <1>1, Invariance, PTL

(***************************************************************************)
(* An outcome recorded in Open by a call admitted before the trip leaves   *)
(* the circuit open: record_success only counts it (lib.rs 174-177), and   *)
(* record_failure restarts the cooling down.                               *)
(***************************************************************************)
THEOREM LateOutcomesStayOut == Spec => LateOutcomesNeverClose
<1> DEFINE Late(c) == state = "Open" /\ pc[c] = "recording" /\ pc'[c] = "idle"
<1>1. ASSUME CallsInv, [Next]_vars, NEW c \in Callers, Late(c)
      PROVE  state' = "Open"
  <2>0. pc \in [Callers -> {"idle", "calling", "backoff", "recording"}]
    BY <1>1 DEF CallsInv, TypeOK
  <2>1. ASSUME NEW d \in Callers, CallStep(d) \/ Cancel(d)
        PROVE  state' = "Open"
    <3>1. CASE Record(d)
      BY <1>1, <3>1 DEF Record, RecordSuccess, RecordFailure
    <3>2. CASE Cancel(d)
      BY <1>1, <3>2 DEF Cancel, breakerVars
    <3>3. CASE Admit(d) \/ Reject(d) \/ Retry(d) \/ AttemptSucceeds(d)
      BY <1>1, <2>0, <3>3 DEF Admit, Reject, Retry, AttemptSucceeds
    <3>4. ASSUME NEW e \in Errors, AttemptFails(d, e) PROVE state' = "Open"
      BY <1>1, <2>0, <3>4 DEF AttemptFails
    <3>5. QED
      BY <2>1, <3>1, <3>2, <3>3, <3>4 DEF CallStep
  <2>2. CASE OperatorOpens \/ OperatorCloses \/ OperatorResets \/ TimePasses
    BY <1>1, <2>2 DEF OperatorOpens, OperatorCloses, OperatorResets, TimePasses,
                      ByHand, callVars
  <2>3. CASE UNCHANGED vars
    BY <1>1, <2>3 DEF vars, callVars
  <2>4. QED
    BY <1>1, <2>1, <2>2, <2>3 DEF Next
<1>2. CallsInv /\ [Next]_vars => (\A c \in Callers : Late(c) => state' = "Open")
  BY <1>1
<1>3. QED
  BY <1>2, Invariance, PTL DEF Spec, LateOutcomesNeverClose

(***************************************************************************)
(* With a half_open_success_threshold below the default of two, as the     *)
(* tests at lib.rs 791 and 808 configure it, a half-open breaker nobody is *)
(* waiting for admits the next request.  From two on this fails: run       *)
(* v_wedged_half_open.                                                     *)
(***************************************************************************)
THEOREM SingleProbeNeverWedges ==
    ASSUME HalfOpenSuccessThreshold < 2
    PROVE  Spec => []HalfOpenAdmitsProbe
<1>1. CallsInv => HalfOpenAdmitsProbe
  BY BreakerConfigAssumption
     DEF CallsInv, TypeOK, BreakerTypeOK, BreakerConsistent, HalfOpenConsistent,
         HalfOpenAdmitsProbe, Admits
<1>2. QED
  BY <1>1, Invariance, PTL

-----------------------------------------------------------------------------
(* Refinement.  What the history variable forced does at a method call.    *)
Automatic == forced' = (forced /\ state' = state)

LEMMA AutomaticEffect ==
    ASSUME forced \in BOOLEAN, Automatic
    PROVE  /\ state' # state => forced' = FALSE
           /\ state' = state => forced' = forced
BY DEF Automatic

LEMMA InitContract == Init => Contract!ContractInit
BY DEF Init, BreakerInit, Contract!ContractInit

(* allow_request stutters or half-opens a circuit that has cooled down. *)
LEMMA AllowRequestContract ==
    ASSUME BreakerInv, forced \in BOOLEAN, AllowRequest, Automatic
    PROVE  [Contract!ContractNext]_Contract!contractVars
<1>1. CASE state = "Open" /\ RecoveryElapsed
  <2>1. Contract!HalfOpens
    BY <1>1 DEF AllowRequest, Automatic, Contract!HalfOpens, Contract!Enter,
                RecoveryElapsed
  <2>2. QED
    BY <2>1 DEF Contract!ContractNext
<1>2. CASE ~(state = "Open" /\ RecoveryElapsed)
  BY <1>2 DEF AllowRequest, Automatic, Contract!contractVars, RecoveryElapsed
<1>3. QED
  BY <1>1, <1>2

(* record_success counts a probe, closes, clears the count, or stutters. *)
LEMMA RecordSuccessContract ==
    ASSUME BreakerInv, forced \in BOOLEAN, RecordSuccess, Automatic
    PROVE  [Contract!ContractNext]_Contract!contractVars
<1> USE AutomaticEffect
<1>1. CASE state = "HalfOpen" /\ halfOpenSuccesses + 1 >= HalfOpenSuccessThreshold
  <2>1. state' = "Closed" /\ failureCount' = 0 /\ halfOpenSuccesses' = 0
    BY <1>1, BreakerConfigAssumption DEF RecordSuccess, BreakerInv, BreakerTypeOK
  <2>2. Contract!Closes
    BY <1>1, <2>1 DEF Contract!Closes, Contract!Enter
  <2>3. QED
    BY <2>2 DEF Contract!ContractNext
<1>2. CASE state = "HalfOpen" /\ halfOpenSuccesses + 1 < HalfOpenSuccessThreshold
  <2>1. UNCHANGED state /\ halfOpenSuccesses' = halfOpenSuccesses + 1
    BY <1>2, BreakerConfigAssumption DEF RecordSuccess, BreakerInv, BreakerTypeOK
  <2>2. Contract!CountProbe
    BY <1>2, <2>1 DEF Contract!CountProbe
  <2>3. QED
    BY <2>2 DEF Contract!ContractNext
<1>3. CASE state = "Closed"
  <2>1. UNCHANGED << state, halfOpenSuccesses >> /\ failureCount' = 0
    BY <1>3 DEF RecordSuccess
  <2>2. Contract!ForgetCounts
    BY <1>3, <2>1 DEF Contract!ForgetCounts
  <2>3. QED
    BY <2>2 DEF Contract!ContractNext
<1>4. CASE state = "Open"
  <2>1. UNCHANGED << state, failureCount, halfOpenSuccesses, sinceFailure, forced >>
    BY <1>4 DEF RecordSuccess
  <2>2. QED
    BY <1>4, <2>1 DEF Contract!contractVars, RecoveryElapsed
<1>5. QED
  BY <1>1, <1>2, <1>3, <1>4, BreakerConfigAssumption
     DEF CircuitState, BreakerInv, BreakerTypeOK

(* record_failure counts, trips, re-opens, or restarts the cooling down. *)
LEMMA RecordFailureContract ==
    ASSUME BreakerInv, forced \in BOOLEAN, RecordFailure, Automatic
    PROVE  [Contract!ContractNext]_Contract!contractVars
<1> USE AutomaticEffect
<1>0. failureCount \in Nat /\ FailureThreshold \in Nat /\ state \in CircuitState
  BY BreakerConfigAssumption DEF BreakerInv, BreakerTypeOK
<1>1. CASE state = "Closed" /\ failureCount + 1 >= FailureThreshold
  <2>1. state' = "Open" /\ sinceFailure' = 0
    BY <1>1 DEF RecordFailure
  <2>2. ~RecoveryElapsed'
    BY <2>1, BreakerConfigAssumption DEF RecoveryElapsed
  <2>3. Contract!Trip
    BY <1>1, <2>1, <2>2 DEF Contract!Trip, Contract!Enter
  <2>4. QED
    BY <2>3 DEF Contract!ContractNext
<1>2. CASE state = "Closed" /\ failureCount + 1 < FailureThreshold
  <2>1. UNCHANGED << state, halfOpenSuccesses >> /\ failureCount' = failureCount + 1
    BY <1>0, <1>2 DEF RecordFailure
  <2>2. Contract!CountFailure
    BY <1>2, <2>1 DEF Contract!CountFailure
  <2>3. QED
    BY <2>2 DEF Contract!ContractNext
<1>3. CASE state = "HalfOpen"
  <2>1. state' = "Open" /\ sinceFailure' = 0
    BY <1>3 DEF RecordFailure
  <2>2. ~RecoveryElapsed'
    BY <2>1, BreakerConfigAssumption DEF RecoveryElapsed
  <2>3. Contract!Reopens
    BY <1>3, <2>1, <2>2 DEF Contract!Reopens, Contract!Enter
  <2>4. QED
    BY <2>3 DEF Contract!ContractNext
<1>4. CASE state = "Open"
  <2>1. UNCHANGED << state, forced >>
    BY <1>4 DEF RecordFailure
  <2>2. Contract!Cool
    BY <1>4, <2>1 DEF Contract!Cool
  <2>3. QED
    BY <2>2 DEF Contract!ContractNext
<1>5. QED
  BY <1>0, <1>1, <1>2, <1>3, <1>4 DEF CircuitState

(* The operator forces the circuit or resets the counts. *)
LEMMA OperatorContract ==
    ASSUME BreakerInv, OperatorOpens \/ OperatorCloses \/ OperatorResets
    PROVE  [Contract!ContractNext]_Contract!contractVars
<1> USE BreakerConfigAssumption DEF RecoveryElapsed, Never
<1>1. CASE OperatorOpens
  <2>1. Contract!Override
    BY <1>1 DEF OperatorOpens, ForceOpen, ByHand, Contract!Override, Contract!Enter
  <2>2. QED
    BY <2>1 DEF Contract!ContractNext
<1>2. CASE OperatorCloses
  <2>1. Contract!Override
    BY <1>2 DEF OperatorCloses, ForceClosed, ByHand, Contract!Override, Contract!Enter
  <2>2. QED
    BY <2>1 DEF Contract!ContractNext
<1>3. CASE OperatorResets
  <2>1. Contract!ForgetCounts
    BY <1>3 DEF OperatorResets, ResetCounters, callVars, Contract!ForgetCounts
  <2>2. QED
    BY <2>1 DEF Contract!ContractNext
<1>4. QED
  BY <1>1, <1>2, <1>3

LEMMA TickContract ==
    ASSUME TimePasses
    PROVE  [Contract!ContractNext]_Contract!contractVars
<1>1. CASE state = "Open"
  <2>1. Contract!Cool
    BY <1>1 DEF TimePasses, Tick, callVars, Contract!Cool
  <2>2. QED
    BY <2>1 DEF Contract!ContractNext
<1>2. CASE state # "Open"
  BY <1>2 DEF TimePasses, Tick, callVars, Contract!contractVars
<1>3. QED
  BY <1>1, <1>2

(* A step that leaves the breaker and forced alone is a stutter. *)
LEMMA StutterContract ==
    ASSUME UNCHANGED << breakerVars, forced >>
    PROVE  UNCHANGED Contract!contractVars
BY DEF breakerVars, Contract!contractVars, RecoveryElapsed

LEMMA StepContract ==
    CallsInv /\ [Next]_vars => [Contract!ContractNext]_Contract!contractVars
<1> SUFFICES ASSUME CallsInv, [Next]_vars
             PROVE  [Contract!ContractNext]_Contract!contractVars
  OBVIOUS
<1>0. BreakerInv /\ forced \in BOOLEAN
  BY DEF CallsInv, TypeOK, BreakerInv
<1>1. ASSUME NEW c \in Callers, CallStep(c) \/ Cancel(c)
      PROVE  [Contract!ContractNext]_Contract!contractVars
  <2>1. CASE Admit(c) \/ Reject(c)
    <3>1. AllowRequest /\ Automatic
      BY <2>1 DEF Admit, Reject, History, Automatic
    <3>2. QED
      BY <1>0, <3>1, AllowRequestContract
  <2>2. CASE Record(c)
    <3>1. Automatic /\ (RecordSuccess \/ RecordFailure)
      BY <2>2 DEF Record, History, Automatic
    <3>2. QED
      BY <1>0, <3>1, RecordSuccessContract, RecordFailureContract
  <2>3. CASE AttemptSucceeds(c) \/ Cancel(c) \/ \E e \in Errors : AttemptFails(c, e)
    <3>1. UNCHANGED << breakerVars, forced >>
      BY <2>3 DEF AttemptSucceeds, Cancel, AttemptFails
    <3>2. QED
      BY <3>1, StutterContract
  <2>4. CASE Retry(c)
    <3>1. UNCHANGED << breakerVars, forced >>
      BY <1>0, <2>4 DEF Retry, History, breakerVars
    <3>2. QED
      BY <3>1, StutterContract
  <2>5. QED
    BY <1>1, <2>1, <2>2, <2>3, <2>4 DEF CallStep
<1>2. CASE OperatorOpens \/ OperatorCloses \/ OperatorResets
  BY <1>0, <1>2, OperatorContract
<1>3. CASE TimePasses
  BY <1>3, TickContract
<1>4. CASE UNCHANGED vars
  BY <1>4, StutterContract DEF vars, callVars
<1>5. QED
  BY <1>1, <1>2, <1>3, <1>4 DEF Next

(***************************************************************************)
(* execute_resilient's breaker implements the documented state machine: no *)
(* interleaving trips it below the threshold of consecutive failures,      *)
(* closes it below the threshold of successes, or lets it leave Open       *)
(* before it has cooled down, unless the operator forces it.               *)
(***************************************************************************)
THEOREM BreakerImplementsContract == Spec => ImplementsContract
BY InitContract, StepContract, Invariance, PTL
   DEF Spec, ImplementsContract, Contract!ContractSpec
=============================================================================
