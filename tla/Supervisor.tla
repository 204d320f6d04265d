----------------------------- MODULE Supervisor ------------------------------
(***************************************************************************)
(* The supervisor of crates/supervisor.  turn_history keeps the times at   *)
(* which a session was INSPECTED, here as ages, oldest first; entries a    *)
(* minute old stay until the next inspection of their session drops them.  *)
(* What an inspection returns is Inspection; the log of past findings is   *)
(* not kept, nothing in the code decides by it.  Context drift is never    *)
(* found: the check is empty.                                              *)
(***************************************************************************)
EXTENDS Sessions, Filtering

CONSTANTS Minute,            (* ticks in a minute                           *)
          MaxTurns,          (* config.max_turns_per_minute                *)
          DecayThreshold     (* config.trust_decay_threshold, in twentieths*)

ASSUME MinuteAssumption == Minute \in Nat \ {0}

ASSUME SupervisorAssumption ==
    MaxTurns \in Nat /\ DecayThreshold \in Nat

VARIABLE turnHistory         (* SessionIds -> sequence of ages             *)

SupervisorInit == turnHistory = [s \in SessionIds |-> << >>]

Finding(s, kind, severity) ==
    {[session |-> s, kind |-> kind, severity |-> severity]}

(* Mutant: the list starts afresh once its first entry is a minute old,    *)
(* as the guard's counters do.                                             *)
WithinMinuteOfFirst(ages) ==
    IF ages # << >> /\ Head(ages) >= Minute THEN << 0 >> ELSE ages

(* push(now), then retain(t > now - 1 minute) *)
WithinMinute(ages) == Filter(ages, 0 .. Minute - 1)

TurnsAfter(s) == WithinMinute(Append(turnHistory[s], 0))

RateSeverity(n) ==
    IF n > 2 * MaxTurns THEN "Critical"
    ELSE IF n > (3 * MaxTurns) \div 2 THEN "Elevated"
    ELSE "Warning"

(* check_rate *)
RateFindings(s, turns) ==
    IF Len(turns) > MaxTurns
    THEN Finding(s, "RateAnomaly", RateSeverity(Len(turns))) ELSE {}

(* check_idle *)
IdleFindings(s) ==
    IF IsActive(s) /\ IsIdleLonger(s) THEN Finding(s, "SessionIdle", "Warning") ELSE {}

(* 0.1 is two twentieths. *)
TrustFindings(s, trust) ==
    IF trust < DecayThreshold
    THEN Finding(s, "TrustDecay", IF trust < 2 THEN "Critical" ELSE "Elevated") ELSE {}

(* What inspect_with_trust returns. *)
Inspection(s, trust) ==
    RateFindings(s, TurnsAfter(s)) \cup IdleFindings(s) \cup TrustFindings(s, trust)

InspectWithTrust(s) == turnHistory' = [turnHistory EXCEPT ![s] = TurnsAfter(s)]

Recommend(finding) ==
    IF finding.severity = "Critical"
    THEN IF finding.kind = "TrustDecay" THEN "QuarantineAgent" ELSE "SuspendSession"
    ELSE IF finding.severity = "Elevated" THEN "Notify"
    ELSE "Log"

(* It forgets the turns as well: a burst in progress starts from zero.     *)
ClearFindings == turnHistory' = [s \in SessionIds |-> << >>]

AgeTurns ==
    turnHistory' = [s \in SessionIds |->
        [i \in DOMAIN turnHistory[s] |->
            IF turnHistory[s][i] < Minute THEN turnHistory[s][i] + 1 ELSE Minute]]
=============================================================================
