--------------------------- MODULE ResilientCalls ---------------------------
(***************************************************************************)
(* execute_resilient of crates/resilience: concurrent callers that share   *)
(* one Arc<Mutex<CircuitBreaker>>.  A call takes the mutex to ask          *)
(* allow_request, RELEASES it, runs RetryPolicy::execute with one timeout  *)
(* per attempt, and takes the mutex again to record the outcome: between   *)
(* the two critical sections other callers, the operator and the clock     *)
(* move the breaker.  A caller may also drop the future, which records     *)
(* nothing.                                                                *)
(***************************************************************************)
EXTENDS CircuitBreaker, FiniteSets

CONSTANTS Callers,
          MaxRetries     (* RetryConfig.max_retries *)

ASSUME CallsAssumption == MaxRetries \in Nat

VARIABLES pc,            (* where each caller stands in execute_resilient  *)
          attempt,       (* loop variable of RetryPolicy::execute          *)
          result,        (* last_error while running, then what was        *)
                         (* returned                                       *)
          openAttempts,  (* history: attempts started since the circuit    *)
                         (* last opened                                    *)
          forced         (* history: the operator set the present state    *)

callVars == << pc, attempt, result, openAttempts, forced >>
vars == << breakerVars, callVars >>

Errors == {"OperationFailed", "Timeout"}

InFlight(c) == pc[c] # "idle"

Init ==
    /\ BreakerInit
    /\ pc = [c \in Callers |-> "idle"]
    /\ attempt = [c \in Callers |-> 0]
    /\ result = [c \in Callers |-> "None"]
    /\ openAttempts = [c \in Callers |-> 0]
    /\ forced = FALSE

(* History only: the count starts again when the circuit leaves Open. *)
History(starting) ==
    /\ openAttempts' = [c \in Callers |->
           IF state' # "Open" THEN 0
           ELSE IF c \in starting THEN openAttempts[c] + 1
           ELSE openAttempts[c]]
    /\ forced' = (forced /\ state' = state)

-----------------------------------------------------------------------------
(* First critical section: allow_request, under the mutex. *)

Admit(c) ==
    /\ pc[c] = "idle"
    /\ Admits
    /\ AllowRequest
    /\ pc' = [pc EXCEPT ![c] = "calling"]
    /\ attempt' = [attempt EXCEPT ![c] = 0]
    /\ result' = [result EXCEPT ![c] = "None"]
    /\ History({c})

Reject(c) ==
    /\ pc[c] = "idle"
    /\ ~Admits
    /\ AllowRequest
    /\ result' = [result EXCEPT ![c] = "CircuitOpen"]
    /\ History({})
    /\ UNCHANGED << pc, attempt >>

(* RetryPolicy::execute around with_timeout, without the mutex. *)

AttemptSucceeds(c) ==
    /\ pc[c] = "calling"
    /\ pc' = [pc EXCEPT ![c] = "recording"]
    /\ result' = [result EXCEPT ![c] = "Ok"]
    /\ UNCHANGED << breakerVars, attempt, openAttempts, forced >>

HasRetry(c) == attempt[c] < MaxRetries

AttemptFails(c, e) ==
    /\ pc[c] = "calling"
    /\ result' = [result EXCEPT ![c] = e]
    /\ pc' = [pc EXCEPT ![c] = IF HasRetry(c) THEN "backoff" ELSE "recording"]
    /\ UNCHANGED << breakerVars, attempt, openAttempts, forced >>

(* Mutant: the loop variable stands still. *)
RetryUncounted(c) ==
    /\ pc[c] = "backoff"
    /\ pc' = [pc EXCEPT ![c] = "calling"]
    /\ UNCHANGED << breakerVars, attempt, result >>
    /\ History({c})

(* The sleep of delay_for_attempt ends and the next attempt starts. *)
Retry(c) ==
    /\ pc[c] = "backoff"
    /\ pc' = [pc EXCEPT ![c] = "calling"]
    /\ attempt' = [attempt EXCEPT ![c] = @ + 1]
    /\ UNCHANGED << breakerVars, result >>
    /\ History({c})

(* Second critical section: record the outcome of the whole call, once. *)

Leave(c) ==
    /\ pc' = [pc EXCEPT ![c] = "idle"]
    /\ attempt' = [attempt EXCEPT ![c] = 0]

Record(c) ==
    /\ pc[c] = "recording"
    /\ \/ result[c] = "Ok" /\ RecordSuccess
       \/ result[c] \in Errors /\ RecordFailure
    /\ Leave(c)
    /\ History({})
    /\ UNCHANGED result

(* The caller drops the future at an await point: nothing is recorded. *)
Cancel(c) ==
    /\ InFlight(c)
    /\ Leave(c)
    /\ result' = [result EXCEPT ![c] = "None"]
    /\ UNCHANGED << breakerVars, openAttempts, forced >>

-----------------------------------------------------------------------------
(* The operator's calls, under the mutex, and the clock. *)

ByHand ==
    /\ forced' = TRUE
    /\ openAttempts' = [c \in Callers |->
           IF state' # "Open" THEN 0 ELSE openAttempts[c]]
    /\ UNCHANGED << pc, attempt, result >>

OperatorOpens == ForceOpen /\ ByHand
OperatorCloses == ForceClosed /\ ByHand
OperatorResets == ResetCounters /\ UNCHANGED callVars

TimePasses == Tick /\ UNCHANGED callVars

CallStep(c) ==
    \/ Admit(c)
    \/ Reject(c)
    \/ AttemptSucceeds(c)
    \/ \E e \in Errors : AttemptFails(c, e)
    \/ Retry(c)
    \/ Record(c)

Next ==
    \/ \E c \in Callers : CallStep(c) \/ Cancel(c)
    \/ OperatorOpens
    \/ OperatorCloses
    \/ OperatorResets
    \/ TimePasses

Spec == Init /\ [][Next]_vars

(***************************************************************************)
(* Fairness.  with_timeout resolves every attempt and the runtime polls    *)
(* woken tasks and hands the fair tokio mutex on, so a running call keeps  *)
(* stepping; the clock moves.  That clients keep calling is a property of  *)
(* the environment, and only ClientsKeepCalling assumes it.                *)
(***************************************************************************)
Running(c) == InFlight(c) /\ CallStep(c)

Fairness ==
    /\ \A c \in Callers : WF_vars(Running(c))
    /\ WF_vars(TimePasses)

ClientsKeepCalling == \A c \in Callers : WF_vars(~InFlight(c) /\ CallStep(c))

FairSpec == Spec /\ Fairness
BusySpec == FairSpec /\ ClientsKeepCalling

-----------------------------------------------------------------------------

TypeOK ==
    /\ BreakerTypeOK
    /\ pc \in [Callers -> {"idle", "calling", "backoff", "recording"}]
    /\ attempt \in [Callers -> 0 .. MaxRetries]
    /\ result \in [Callers -> {"None", "Ok", "CircuitOpen"} \cup Errors]
    /\ openAttempts \in [Callers -> Nat]
    /\ forced \in BOOLEAN

(***************************************************************************)
(* The dependency is shielded (INV-011): once the circuit has opened, a    *)
(* caller that was already past the check starts at most its remaining     *)
(* retries, and nobody starts a first attempt, until the circuit leaves    *)
(* Open.                                                                   *)
(***************************************************************************)
OpenShieldsDependency == \A c \in Callers : openAttempts[c] <= MaxRetries

(***************************************************************************)
(* The circuit leaves Open only by the operator or by a request that found *)
(* the recovery timeout elapsed; in particular no outcome recorded by a    *)
(* call admitted before the trip closes it (lib.rs 174-177).               *)
(***************************************************************************)
LateOutcomesNeverClose ==
    [][\A c \in Callers :
          (state = "Open" /\ pc[c] = "recording" /\ pc'[c] = "idle")
              => state' = "Open"]_vars

(***************************************************************************)
(* Through every interleaving of callers, operator and clock the breaker   *)
(* shows its watchers the documented state diagram and nothing else.       *)
(***************************************************************************)
Contract == INSTANCE BreakerContract
    WITH MaxFailures <- FailureThreshold,
         MinProbes <- HalfOpenSuccessThreshold,
         phase <- state,
         failures <- IF state = "Closed" THEN failureCount ELSE 0,
         probes <- IF state = "HalfOpen" THEN halfOpenSuccesses ELSE 0,
         cooled <- state = "Open" /\ RecoveryElapsed

ImplementsContract == Contract!ContractSpec

(***************************************************************************)
(* With half_open_success_threshold = 1 a half-open breaker that waits for *)
(* nobody admits the next request.  The test at lib.rs:838 expects the same*)
(* with threshold 2.                                                       *)
(***************************************************************************)
HalfOpenAdmitsProbe ==
    (state = "HalfOpen" /\ \A c \in Callers : ~InFlight(c)) => Admits

(***************************************************************************)
(* Every call returns: retries are bounded, every attempt resolves, and no *)
(* caller waits for another.                                               *)
(***************************************************************************)
CallsReturn == \A c \in Callers : InFlight(c) ~> ~InFlight(c)

(***************************************************************************)
(* The promise of the half-open state: when from some time on the          *)
(* dependency answers, nobody gives up and the operator leaves the circuit *)
(* alone, the circuit closes for good (provided clients keep calling).     *)
(***************************************************************************)
Disturbance ==
    \/ \E c \in Callers : Cancel(c) \/ \E e \in Errors : AttemptFails(c, e)
    \/ OperatorOpens

RecoversWhenHealthy == <>[][~Disturbance]_vars => <>[](state = "Closed")
=============================================================================
