---------------------------- MODULE Supervision ------------------------------
(***************************************************************************)
(* Guard, session manager and supervisor under one clock and one embedding *)
(* program (external: it follows the documented recommendations).  It      *)
(* resets the guard's counters once per minute (guard.rs:318), monitors    *)
(* every agent from the start and stops an agent at the first Quarantine   *)
(* answer or QuarantineAgent recommendation; SuspendSession deactivates    *)
(* the session.  Every turn of an agent is one guarded action, one advance *)
(* of its session and one inspection.  The guard counts in fixed minutes,  *)
(* the supervisor in a sliding one; an observer measures any stretch       *)
(* shorter than a minute against both.                                     *)
(***************************************************************************)
EXTENDS Guard, Supervisor

CONSTANTS TrustReadings,   (* trust scores inspections are given           *)
          HistoryBound     (* bound on the turns a session has in a minute *)

VARIABLES free,            (* agents that still run                        *)
          minuteAge,       (* ticks since reset_counters                   *)
          stretchAge,      (* history: age of the observed stretch         *)
          seen,            (* history: actions of each agent in it         *)
          turnsSeen,       (* history: turns of each session in it         *)
          quiet            (* history: age of the last turn or of the last *)
                           (* moment the session was active                *)

minuteVars == << trustVars, guardVars, free, minuteAge, stretchAge, seen >>

supervisionVars == << minuteVars, sessionVars, turnHistory, turnsSeen, quiet >>

-----------------------------------------------------------------------------
(* The guard under the clock. *)

MinutesInit ==
    /\ TrustInit /\ GuardInit
    /\ free = {}
    /\ minuteAge = 0 /\ stretchAge = 0
    /\ seen = [a \in Agents |-> 0]

Join(a) ==
    /\ a \notin monitored
    /\ RegisterAgent(a)
    /\ free' = free \cup {a}
    /\ UNCHANGED << minuteAge, stretchAge, seen >>

Throttle(a, on) == SetThrottle(a, on) /\ UNCHANGED << free, minuteAge, stretchAge, seen >>

MinuteEnds ==
    /\ minuteAge = Minute
    /\ ResetCounters
    /\ minuteAge' = 0
    /\ UNCHANGED << free, stretchAge, seen >>

(* An agent that left may come back under guard, as a new run. *)
Leave(a) ==
    /\ a \in monitored \ free
    /\ UnregisterAgent(a)
    /\ seen' = [seen EXCEPT ![a] = 0]
    /\ UNCHANGED << free, minuteAge, stretchAge >>

Tick ==
    /\ minuteAge < Minute
    /\ stretchAge + 1 < Minute
    /\ minuteAge' = minuteAge + 1
    /\ stretchAge' = stretchAge + 1
    /\ UNCHANGED << guardVars, free, seen >>

NewStretch(b) ==
    /\ minuteAge + b <= Minute
    /\ minuteAge' = minuteAge + b
    /\ stretchAge' = 0
    /\ seen' = [a \in Agents |-> 0]
    /\ UNCHANGED << guardVars, free >>

-----------------------------------------------------------------------------
(* With sessions and the supervisor. *)

SupervisionInit ==
    /\ MinutesInit /\ SessionsInit /\ SupervisorInit
    /\ turnsSeen = [s \in SessionIds |-> 0]
    /\ quiet = [s \in SessionIds |-> 0]

Open(a, s) ==
    /\ a \in free
    /\ CreateSession(s, a)
    /\ UNCHANGED << minuteVars, turnHistory, turnsSeen, quiet >>

Advised(s, trust) == { Recommend(f) : f \in Inspection(s, trust) }

Obeyed(s, trust) ==
    IF "SuspendSession" \in Advised(s, trust)
    THEN [sessions EXCEPT ![s] = Deactivated(@)]
    ELSE [sessions EXCEPT ![s].idle = 0]

Turn(a, s, trust) ==
    /\ a \in free
    /\ IsActive(s) /\ sessions[s].agent = a
    /\ Len(TurnsAfter(s)) <= HistoryBound
    /\ RecordAction(a)
    /\ InspectWithTrust(s)
    /\ free' = IF \/ ActionAnswer(actions'[a]) = "Quarantine"
                  \/ "QuarantineAgent" \in Advised(s, trust)
               THEN free \ {a} ELSE free
    /\ sessions' = Obeyed(s, trust)
    /\ seen' = [seen EXCEPT ![a] = @ + 1]
    /\ turnsSeen' = [turnsSeen EXCEPT ![s] = @ + 1]
    /\ quiet' = [quiet EXCEPT ![s] = 0]
    /\ UNCHANGED << issued, minuteAge, stretchAge >>

(* The embedder looks at a session of its own accord. *)
Inspect(s) ==
    /\ s \in Held
    /\ Len(TurnsAfter(s)) <= HistoryBound
    /\ InspectWithTrust(s)
    /\ UNCHANGED << minuteVars, sessionVars, turnsSeen, quiet >>

(* How long a session has been without a turn and inactive, after a step   *)
(* of its manager.                                                         *)
QuietAfter == [t \in SessionIds |-> IF IsActive(t) \/ IsActive(t)' THEN 0 ELSE quiet[t]]

Administer(s) ==
    /\ s \in Held
    /\ \/ Deactivate(s)
       \/ Activate(s)
       \/ RemoveSession(s)
       \/ DeactivateAgentSessions(sessions[s].agent)
    /\ quiet' = QuietAfter
    /\ UNCHANGED << minuteVars, turnHistory, turnsSeen >>

CleanUp ==
    /\ Cleanup
    /\ quiet' = QuietAfter
    /\ UNCHANGED << minuteVars, turnHistory, turnsSeen >>

(* The turns of the stretch that the supervisor can still know of.         *)
Clear ==
    /\ ClearFindings
    /\ turnsSeen' = [s \in SessionIds |-> 0]
    /\ UNCHANGED << minuteVars, sessionVars, quiet >>

(* One tick on every clock; an observer may start a stretch before it.     *)
Passes ==
    /\ Tick /\ Age /\ AgeTurns
    /\ quiet' = [s \in SessionIds |-> IF IsActive(s) THEN 0 ELSE Older(quiet[s])]
    /\ UNCHANGED << issued, turnsSeen >>

Observe ==
    /\ NewStretch(0)
    /\ turnsSeen' = [s \in SessionIds |-> 0]
    /\ UNCHANGED << sessionVars, turnHistory, quiet >>

ObserveLater ==
    /\ NewStretch(1) /\ Age /\ AgeTurns
    /\ turnsSeen' = [s \in SessionIds |-> 0]
    /\ quiet' = [s \in SessionIds |-> IF IsActive(s) THEN 0 ELSE Older(quiet[s])]
    /\ UNCHANGED issued

GuardOnly ==
    /\ \/ MinuteEnds
       \/ \E a \in Agents : \/ Join(a) \/ Leave(a)
                            \/ \E on \in BOOLEAN : Throttle(a, on)
    /\ UNCHANGED << sessionVars, turnHistory, turnsSeen, quiet >>

SupervisionNext ==
    /\ \/ \E s \in SessionIds :
            \/ Inspect(s)
            \/ Administer(s)
            \/ \E a \in Agents :
                \/ Open(a, s)
                \/ \E trust \in TrustReadings : Turn(a, s, trust)
       \/ CleanUp \/ Clear
       \/ Passes \/ Observe \/ ObserveLater
       \/ GuardOnly
    /\ UNCHANGED trustVars

SupervisionSpec == SupervisionInit /\ [][SupervisionNext]_supervisionVars

-----------------------------------------------------------------------------

(***************************************************************************)
(* In any stretch shorter than a minute, wherever the resets fall in it, an*)
(* agent gets through at most twice the quarantine threshold, less one,    *)
(* before it is stopped: a full quota before the reset and one after it.   *)
(***************************************************************************)
FloodBound == \A a \in Agents : seen[a] <= 2 * QuarantineThreshold - 1

(***************************************************************************)
(* A session that is still active after a turn has had no more than twice  *)
(* the limit of turns in any stretch shorter than a minute (counted from   *)
(* the latest clear_findings, which forgets the rate), however the guard's *)
(* own minutes fall: the supervisor's window slides.                       *)
(***************************************************************************)
BurstsAreSuspended ==
    [][\A s \in SessionIds :
          turnsSeen'[s] > turnsSeen[s] /\ IsActive(s)' => turnsSeen'[s] <= 2 * MaxTurns
      ]_supervisionVars

(***************************************************************************)
(* cleanup removes no session that was active, or had a turn, within the   *)
(* last MaxIdle ticks: one deactivated after a long silence is still kept. *)
(***************************************************************************)
CleanupSparesRecent ==
    [][CleanUp => \A s \in Held \ Held' : quiet[s] > MaxIdle]_supervisionVars
=============================================================================
