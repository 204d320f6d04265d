---------------------------- MODULE RetryPolicy -----------------------------
(***************************************************************************)
(* The time one RetryPolicy::execute takes when every attempt runs under   *)
(* with_timeout, as execute_resilient arranges it: attempts of at most     *)
(* AttemptTimeout, and between them the delays of delay_for_attempt.       *)
(* Durations are whole milliseconds, as Duration::from_millis makes them.  *)
(***************************************************************************)
EXTENDS Integers

CONSTANTS BaseDelay, MaxDelay,   (* base_delay_ms, max_delay_ms            *)
          UseJitter,
          MaxRetries,
          AttemptTimeout         (* timeout_duration, at least 1 ms        *)

ASSUME RetryAssumption ==
    /\ BaseDelay \in Nat /\ MaxDelay \in Nat /\ MaxRetries \in Nat
    /\ UseJitter \in BOOLEAN
    /\ AttemptTimeout \in Nat \ {0}

VARIABLES phase,      (* "calling", "sleeping", "ok" or "error"            *)
          attempt,    (* attempts that failed so far                       *)
          delay,      (* the latest delay                                  *)
          elapsed

retryVars == << phase, attempt, delay, elapsed >>

AtMost(limit, n) == IF n <= limit THEN n ELSE limit

(* Mutant: the delay grows by addition. *)
CappedSlow(a) == AtMost(MaxDelay, BaseDelay + a)

PowerOf2[a \in Nat] == IF a = 0 THEN 1 ELSE 2 * PowerOf2[a - 1]

Capped(a) == AtMost(MaxDelay, BaseDelay * PowerOf2[a])

(* The jitter is a real number in [-c/4, c/4); "as u64" drops the fraction *)
(* of the sum.                                                             *)
Jittered(c) == IF c = 0 THEN {0} ELSE ((3 * c) \div 4) .. ((5 * c - 1) \div 4)

DelayForAttempt(a) == IF UseJitter THEN Jittered(Capped(a)) ELSE {Capped(a)}

RetryInit == phase = "calling" /\ attempt = 0 /\ delay = 0 /\ elapsed = 0

(* The operation answers before its deadline. *)
Succeed(d) ==
    /\ phase = "calling"
    /\ d < AttemptTimeout
    /\ elapsed' = elapsed + d
    /\ phase' = "ok"
    /\ UNCHANGED << attempt, delay >>

(* Mutant: one attempt too many. *)
ExhaustedLate == attempt > MaxRetries

Exhausted == attempt >= MaxRetries

(* It fails, or is cut off at its deadline. *)
Fail(d) ==
    /\ phase = "calling"
    /\ elapsed' = elapsed + d
    /\ \/ /\ ~Exhausted
          /\ delay' \in DelayForAttempt(attempt)
          /\ phase' = "sleeping"
          /\ UNCHANGED attempt
       \/ /\ Exhausted
          /\ phase' = "error"
          /\ UNCHANGED << attempt, delay >>

WakeUp ==
    /\ phase = "sleeping"
    /\ elapsed' = elapsed + delay
    /\ attempt' = attempt + 1
    /\ phase' = "calling"
    /\ UNCHANGED delay

RetryNext ==
    \/ \E d \in 0 .. AttemptTimeout : Succeed(d) \/ Fail(d)
    \/ WakeUp

-----------------------------------------------------------------------------

(***************************************************************************)
(* However the attempts fail, the whole call ends within the deadlines of  *)
(* its attempts and a quarter more than the maximal delay between them.    *)
(***************************************************************************)
LatencyBound ==
    elapsed <= (MaxRetries + 1) * AttemptTimeout + (MaxRetries * 5 * MaxDelay) \div 4

(***************************************************************************)
(* Exponential backoff outgrows its jitter: the longest delay before one   *)
(* attempt is shorter than the shortest before the next, until the cap     *)
(* (with a base delay of 2 ms or more, below which truncation evens them). *)
(***************************************************************************)
BackoffGrows ==
    [][phase = "calling" /\ phase' = "sleeping" /\ attempt > 0
          /\ BaseDelay >= 2 /\ BaseDelay * PowerOf2[attempt] <= MaxDelay
       => delay' > delay]_retryVars
=============================================================================
