------------------------------ MODULE Sessions -------------------------------
(***************************************************************************)
(* The session manager of crates/session under a clock of whole ticks.     *)
(* last_active is kept as the age it gives (idle_duration).  The turn      *)
(* number, the context and the metadata decide nothing and are left out;   *)
(* the clone create_session returns is too: callers here work on the       *)
(* manager's own session.                                                  *)
(***************************************************************************)
EXTENDS Integers

CONSTANTS SessionIds,    (* identifiers, each issued at most once          *)
          Owners,        (* the agents sessions belong to                  *)
          NoSession,
          MaxIdle        (* the age cleanup and the supervisor ask about   *)

ASSUME SessionAssumption == MaxIdle \in Nat

VARIABLES sessions,      (* SessionManager.sessions                        *)
          issued         (* identifiers already given out                  *)

sessionVars == << sessions, issued >>

(* Ages are counted up to one past the only age anything compares with. *)
Older(age) == IF age > MaxIdle THEN age ELSE age + 1

Held == { s \in SessionIds : sessions[s] # NoSession }

IsActive(s) == s \in Held /\ sessions[s].active

IsIdleLonger(s) == sessions[s].idle > MaxIdle

ActiveSessionsFor(a) == { s \in Held : sessions[s].agent = a /\ sessions[s].active }

SessionsInit ==
    /\ sessions = [s \in SessionIds |-> NoSession]
    /\ issued = {}

CreateSession(s, a) ==
    /\ s \notin issued
    /\ sessions' = [sessions EXCEPT ![s] = [agent |-> a, active |-> TRUE, idle |-> 0]]
    /\ issued' = issued \cup {s}

(* advance_session asks only that the session exists: an inactive one goes *)
(* on too.                                                                 *)
AdvanceTurn(s) ==
    /\ s \in Held
    /\ sessions' = [sessions EXCEPT ![s].idle = 0]
    /\ UNCHANGED issued

(* Mutant: deactivation does not count as activity. *)
DeactivatedKeepingAge(session) == [session EXCEPT !.active = FALSE]

Deactivated(session) == [session EXCEPT !.active = FALSE, !.idle = 0]

Deactivate(s) ==
    /\ s \in Held
    /\ sessions' = [sessions EXCEPT ![s] = Deactivated(@)]
    /\ UNCHANGED issued

Activate(s) ==
    /\ s \in Held
    /\ sessions' = [sessions EXCEPT ![s].active = TRUE, ![s].idle = 0]
    /\ UNCHANGED issued

DeactivateAgentSessions(a) ==
    /\ sessions' = [s \in SessionIds |->
            IF s \in ActiveSessionsFor(a) THEN Deactivated(sessions[s]) ELSE sessions[s]]
    /\ UNCHANGED issued

Dropped(gone) == [s \in SessionIds |-> IF s \in gone THEN NoSession ELSE sessions[s]]

RemoveSession(s) == sessions' = Dropped({s}) /\ UNCHANGED issued

Cleanup ==
    /\ sessions' = Dropped({ s \in Held : ~sessions[s].active /\ IsIdleLonger(s) })
    /\ UNCHANGED issued

Age ==
    /\ sessions' = [s \in SessionIds |->
            IF s \in Held THEN [sessions[s] EXCEPT !.idle = Older(@)] ELSE NoSession]
    /\ UNCHANGED issued
=============================================================================
