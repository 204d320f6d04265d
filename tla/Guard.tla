------------------------------- MODULE Guard --------------------------------
(***************************************************************************)
(* The guard of crates/kernel: per-minute counters for the agents it       *)
(* monitors.  It only ANSWERS with a GuardAction; carrying the answer out  *)
(* is its caller's business.  record_action and record_violation return    *)
(* None for a disabled guard or an unknown agent.  Alerts are never raised *)
(* in the code, and the throttle factor is only stored.                    *)
(***************************************************************************)
EXTENDS TrustKernel

CONSTANTS MaxActions,            (* config.max_actions_per_minute         *)
          ThrottleThreshold,     (* config.throttle_threshold             *)
          QuarantineThreshold,   (* config.quarantine_threshold           *)
          MaxViolations,         (* config.max_violations_per_minute      *)
          MinTrust               (* config.min_trust_score, in twentieths *)

ASSUME GuardAssumption ==
    /\ MaxActions \in Nat /\ ThrottleThreshold \in Nat
    /\ QuarantineThreshold \in Nat \ {0} /\ MaxViolations \in Nat \ {0}
    /\ MinTrust \in 0 .. 20

VARIABLES enabled,
          monitored,     (* the keys of monitors                           *)
          actions,       (* actions_this_minute                            *)
          violations,    (* violations_this_minute                         *)
          throttled      (* throttle_factor < 1.0                          *)

guardVars == << enabled, monitored, actions, violations, throttled >>

GuardInit ==
    /\ enabled = TRUE
    /\ monitored = {}
    /\ actions = [a \in Agents |-> 0]
    /\ violations = [a \in Agents |-> 0]
    /\ throttled = {}

Counts(a) == enabled /\ a \in monitored

-----------------------------------------------------------------------------
(* The answers, to be read after the step that counts. *)

(* Mutant: the threshold off by one. *)
FloodsBeyond(n) == n > QuarantineThreshold

Floods(n) == n >= QuarantineThreshold

ActionAnswer(n) ==
    IF Floods(n) THEN "Quarantine"
    ELSE IF n >= ThrottleThreshold THEN "Throttle"
    ELSE IF n >= MaxActions THEN "Alert"
    ELSE "None"

ViolationAnswer(n) == IF n >= MaxViolations THEN "Quarantine" ELSE "None"

(* check_trust needs a trust record, not a monitor. *)
TrustAnswer(a) ==
    IF enabled /\ Registered(a) /\ score[a] < MinTrust THEN "Quarantine" ELSE "None"

RecordAction(a) ==
    /\ Counts(a)
    /\ actions' = [actions EXCEPT ![a] = @ + 1]
    /\ UNCHANGED << enabled, monitored, violations, throttled >>

RecordViolation(a) ==
    /\ Counts(a)
    /\ violations' = [violations EXCEPT ![a] = @ + 1]
    /\ UNCHANGED << enabled, monitored, actions, throttled >>

(* Registering again starts a new monitor. *)
RegisterAgent(a) ==
    /\ monitored' = monitored \cup {a}
    /\ actions' = [actions EXCEPT ![a] = 0]
    /\ violations' = [violations EXCEPT ![a] = 0]
    /\ throttled' = throttled \ {a}
    /\ UNCHANGED enabled

UnregisterAgent(a) ==
    /\ monitored' = monitored \ {a}
    /\ actions' = [actions EXCEPT ![a] = 0]
    /\ violations' = [violations EXCEPT ![a] = 0]
    /\ throttled' = throttled \ {a}
    /\ UNCHANGED enabled

SetThrottle(a, on) ==
    /\ a \in monitored
    /\ throttled' = IF on THEN throttled \cup {a} ELSE throttled \ {a}
    /\ UNCHANGED << enabled, monitored, actions, violations >>

ResetCounters ==
    /\ actions' = [a \in Agents |-> 0]
    /\ violations' = [a \in Agents |-> 0]
    /\ UNCHANGED << enabled, monitored, throttled >>

Enable == enabled' = TRUE /\ UNCHANGED << monitored, actions, violations, throttled >>
Disable == enabled' = FALSE /\ UNCHANGED << monitored, actions, violations, throttled >>

-----------------------------------------------------------------------------

GuardTypeOK ==
    /\ enabled \in BOOLEAN
    /\ monitored \in SUBSET Agents /\ throttled \in SUBSET monitored
    /\ actions \in [Agents -> Nat] /\ violations \in [Agents -> Nat]
=============================================================================
