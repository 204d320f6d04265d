---------------------------- MODULE KernelProofs ----------------------------
(***************************************************************************)
(* Proofs about crates/kernel and what is laid around it: the composed     *)
(* kernel (AegisKernel), and guard, sessions and supervisor under one clock*)
(* (Supervision), for any agents, sessions, thresholds and length of a     *)
(* minute.                                                                 *)
(***************************************************************************)
EXTENDS AegisKernel, Supervision, ListLemmas

(* The inductive invariant: every part refers only to itself and the types. *)
KernelInv == TypeOK /\ LevelMatchesScore /\ QuarantineStrips /\ FloodIsDecided

USE DEF One, Known, Registered

-----------------------------------------------------------------------------
(* Scores stay on their scale and levels in their set. *)

LEMMA LevelInRange == ASSUME NEW s \in 0 .. One PROVE Level(s) \in TrustLevel
BY DEF Level, TrustLevel

LEMMA RaisedInRange ==
    ASSUME NEW s \in 0 .. One, NEW d \in Nat PROVE Raised(s, d) \in 0 .. One
BY DEF Raised

LEMMA LoweredInRange ==
    ASSUME NEW s \in 0 .. One, NEW d \in Nat PROVE Lowered(s, d) \in 0 .. One
BY DEF Lowered

LEMMA NoneIsNoLevel == "None" \notin TrustLevel
BY DEF TrustLevel

(* A record that gets a score of the scale keeps the trust types and is no *)
(* staler than before.                                                     *)
LEMMA SetScoreInv ==
    ASSUME TrustTypeOK, LevelMatchesScore,
           NEW a \in Agents, NEW s \in 0 .. One, SetScore(a, s),
           attested' \in [Agents -> TrustLevel \cup {"None"}]
    PROVE  /\ TrustTypeOK' /\ LevelMatchesScore'
           /\ level'[a] # "None"
           /\ \A b \in Agents \ {a} : level'[b] = level[b]
<1>1. Level(s) \in TrustLevel /\ Level(s) # "None"
  BY LevelInRange, NoneIsNoLevel
<1> QED
  BY <1>1 DEF SetScore, TrustTypeOK, LevelMatchesScore

LEMMA ScoreMovesInv ==
    ASSUME TrustTypeOK, LevelMatchesScore, ScoreMoves
    PROVE  /\ TrustTypeOK' /\ LevelMatchesScore'
           /\ \A a \in Agents : Registered(a)' <=> Registered(a)
<1>1. ASSUME NEW a \in Agents, NEW d \in Deltas, Reinforce(a, d)
      PROVE  TrustTypeOK' /\ LevelMatchesScore'
             /\ \A b \in Agents : Registered(b)' <=> Registered(b)
  <2>1. Raised(score[a], d) \in 0 .. One
    BY RaisedInRange, TrustAssumption DEF TrustTypeOK
  <2> QED
    BY <1>1, <2>1, SetScoreInv DEF Reinforce, TrustTypeOK
<1>2. ASSUME NEW a \in Agents, NEW d \in Deltas, Penalize(a, d)
      PROVE  TrustTypeOK' /\ LevelMatchesScore'
             /\ \A b \in Agents : Registered(b)' <=> Registered(b)
  <2>1. Lowered(score[a], d) \in 0 .. One
    BY LoweredInRange, TrustAssumption DEF TrustTypeOK
  <2> QED
    BY <1>2, <2>1, SetScoreInv DEF Penalize, TrustTypeOK
<1>3. ASSUME ApplyDecay
      PROVE  TrustTypeOK' /\ LevelMatchesScore'
             /\ \A b \in Agents : Registered(b)' <=> Registered(b)
  <2>1. \A b \in Agents : Level(score'[b]) \in TrustLevel /\ Level(score'[b]) # "None"
    BY <1>3, LevelInRange, NoneIsNoLevel DEF ApplyDecay
  <2> QED
    BY <1>3, <2>1 DEF ApplyDecay, LevelsRefreshed, TrustTypeOK, LevelMatchesScore
<1> QED
  BY <1>1, <1>2, <1>3 DEF ScoreMoves

-----------------------------------------------------------------------------

(* The initial state satisfies the invariant. *)
LEMMA KernelInitInv == Init => KernelInv
<1> SUFFICES ASSUME Init PROVE KernelInv
  OBVIOUS
<1>1. TypeOK
  BY DEF Init, TrustInit, AgentInit, GuardInit, SandboxInit, TypeOK, TrustTypeOK,
         AgentTypeOK, GuardTypeOK, SandboxTypeOK, AgentStatus
<1>2. LevelMatchesScore /\ QuarantineStrips
  BY DEF Init, TrustInit, AgentInit, LevelMatchesScore, QuarantineStrips
<1>3. FloodIsDecided
  BY GuardAssumption DEF Init, GuardInit, FloodIsDecided
<1> QED
  BY <1>1, <1>2, <1>3 DEF KernelInv

(* The runtime's operations; the guard, the sandbox and the embedder's     *)
(* debts stand still.                                                      *)
LEMMA AgentMovesInv == KernelInv /\ AgentMoves => KernelInv'
<1> SUFFICES ASSUME KernelInv, NEW a \in Agents, AgentStep(a),
                    UNCHANGED << guardVars, boundary, owed >>
             PROVE  KernelInv'
  BY DEF AgentMoves
<1> USE DEF KernelInv
<1>0. /\ GuardTypeOK' /\ SandboxTypeOK' /\ owed' \subseteq Agents
  BY DEF TypeOK, guardVars, GuardTypeOK, SandboxTypeOK
<1>a. /\ status \in [Agents -> AgentStatus \cup {"None"}]
      /\ caps \in [Agents -> SUBSET Capability]
      /\ given \in [Agents -> SUBSET Capability]
  BY DEF TypeOK, AgentTypeOK
<1>b. {"FileSystemRead"} \subseteq Capability /\ Grantable \subseteq Capability
  BY EmbedderAssumption DEF Capability
<1>1. /\ TrustTypeOK' /\ LevelMatchesScore'
      /\ AgentTypeOK'
  <2>1. CASE Spawn(a)
    <3>1. InitialScore \in 0 .. One /\ attested' \in [Agents -> TrustLevel \cup {"None"}]
      BY <2>1, TrustAssumption DEF Spawn, Register, TypeOK, TrustTypeOK
    <3>2. /\ TrustTypeOK' /\ LevelMatchesScore' /\ level'[a] # "None"
          /\ \A b \in Agents \ {a} : level'[b] = level[b]
      BY <2>1, <3>1, SetScoreInv DEF Spawn, Register, TypeOK
    <3> QED
      BY <2>1, <3>2, <1>a DEF Spawn, Transition, TypeOK, AgentTypeOK, AgentStatus, Active
  <2>2. CASE ~Spawn(a)
    <3>1. UNCHANGED trustVars
      BY <2>2 DEF AgentStep, Suspend, Resume, Terminate, Finish, GrantToAgent,
         RevokeFromAgent
    <3>2. TrustTypeOK' /\ LevelMatchesScore'
      BY <3>1 DEF trustVars, TypeOK, TrustTypeOK, LevelMatchesScore
    <3>3. \/ \E s \in AgentStatus : Known(a) /\ Transition(a, s)
          \/ UNCHANGED status
      BY <2>2, <1>a DEF AgentStep, Suspend, Resume, Terminate, Finish, GrantToAgent,
         RevokeFromAgent, CanSuspend, CanResume, AgentStatus, Active, Terminal
    <3>4. "None" \notin AgentStatus
      BY DEF AgentStatus, Active, Terminal
    <3>5. AgentTypeOK'
      BY <3>1, <3>3, <3>4, <1>a DEF Transition, trustVars, TypeOK, AgentTypeOK
    <3> QED
      BY <3>2, <3>5
  <2> QED
    BY <2>1, <2>2
<1>2. /\ caps' \in [Agents -> SUBSET Capability]
      /\ given' \in [Agents -> SUBSET Capability]
      /\ QuarantineStrips'
  <2>1. CASE Spawn(a)
    <3>1. /\ caps' \in [Agents -> SUBSET Capability] /\ given' = given
          /\ status'[a] = "Running"
          /\ \A b \in Agents \ {a} : status'[b] = status[b] /\ caps'[b] = caps[b]
      BY <2>1, <1>a, <1>b DEF Spawn, Transition
    <3> QED
      BY <3>1, <1>a DEF QuarantineStrips
  <2>2. ASSUME NEW c \in Grantable, GrantToAgent(a, c)
        PROVE  /\ caps' \in [Agents -> SUBSET Capability]
               /\ given' \in [Agents -> SUBSET Capability]
               /\ QuarantineStrips'
    <3>1. /\ caps' = [caps EXCEPT ![a] = @ \cup {c}] /\ status' = status
          /\ given' = [given EXCEPT ![a] = IF status[a] = "Quarantined" THEN @ \cup {c} ELSE @]
          /\ c \in Capability
      BY <2>2, <1>b DEF GrantToAgent
    <3> QED
      BY <3>1, <1>a DEF QuarantineStrips
  <2>3. ASSUME NEW c \in Grantable, RevokeFromAgent(a, c)
        PROVE  /\ caps' \in [Agents -> SUBSET Capability]
               /\ given' \in [Agents -> SUBSET Capability]
               /\ QuarantineStrips'
    <3>1. caps' = [caps EXCEPT ![a] = @ \ {c}] /\ status' = status /\ given' = given
      BY <2>3 DEF RevokeFromAgent
    <3> QED
      BY <3>1, <1>a DEF QuarantineStrips
  <2>4. ASSUME Suspend(a) \/ Resume(a) \/ Terminate(a)
               \/ \E s \in {"Completed", "Failed"} : Finish(a, s)
        PROVE  /\ caps' \in [Agents -> SUBSET Capability]
               /\ given' \in [Agents -> SUBSET Capability]
               /\ QuarantineStrips'
    <3>1. /\ caps' = caps /\ given' = given
          /\ \A b \in Agents : status'[b] = "Quarantined" => status[b] = "Quarantined"
      BY <2>4, <1>a DEF Suspend, Resume, Terminate, Finish, Transition
    <3> QED
      BY <3>1, <1>a DEF QuarantineStrips
  <2> QED
    BY <2>1, <2>2, <2>3, <2>4 DEF AgentStep
<1>4. FloodIsDecided'
  <2>1. \A b \in Agents : Stopped(status[b]) => Stopped(status'[b])
    BY <1>a DEF AgentStep, Spawn, Suspend, Resume, Terminate, Finish, GrantToAgent,
       RevokeFromAgent, Transition, CanSuspend, CanResume, Active, Terminal, Stopped
  <2> QED
    BY <2>1 DEF FloodIsDecided, guardVars
<1> QED
  BY <1>0, <1>1, <1>2, <1>4 DEF TypeOK

(* Trust moves, decay included, unregister nobody. *)
LEMMA TrustMovesInv == KernelInv /\ TrustMoves => KernelInv'
<1> SUFFICES ASSUME KernelInv, TrustMoves PROVE KernelInv'
  OBVIOUS
<1> USE DEF KernelInv
<1>1. /\ TrustTypeOK' /\ LevelMatchesScore'
      /\ \A b \in Agents : Registered(b)' <=> Registered(b)
  <2>1. CASE ScoreMoves
    BY <2>1, ScoreMovesInv DEF TypeOK
  <2>2. ASSUME NEW a \in Agents, Attest(a)
        PROVE  /\ TrustTypeOK' /\ LevelMatchesScore'
               /\ \A b \in Agents : Registered(b)' <=> Registered(b)
    BY <2>2 DEF Attest, TypeOK, TrustTypeOK, LevelMatchesScore
  <2> QED
    BY <2>1, <2>2 DEF TrustMoves
<1>2. UNCHANGED << status, caps, given, enabled, monitored, actions, violations, throttled,
                   boundary, owed >>
  BY DEF TrustMoves, agentVars, guardVars
<1>3. TypeOK'
  BY <1>1, <1>2 DEF TypeOK, AgentTypeOK, GuardTypeOK, SandboxTypeOK
<1>4. QuarantineStrips' /\ FloodIsDecided'
  BY <1>2 DEF QuarantineStrips, FloodIsDecided
<1> QED
  BY <1>1, <1>3, <1>4

(* A positive threshold is not reached by a counter set back to zero. *)
LEMMA ZeroIsBelow ==
    ASSUME NEW T \in Nat \ {0}, NEW n, NEW m, m = n \/ m = 0, m >= T PROVE n >= T
OBVIOUS

(* The guard's bookkeeping only ever lowers a counter, to zero. *)
LEMMA GuardMovesInv == KernelInv /\ GuardMoves => KernelInv'
<1> SUFFICES ASSUME KernelInv, GuardMoves PROVE KernelInv'
  OBVIOUS
<1> USE DEF KernelInv
<1>1. UNCHANGED << score, level, attested, status, caps, given, boundary, owed >>
  BY DEF GuardMoves, trustVars, agentVars
<1>2. GuardTypeOK'
  <2>1. ASSUME NEW a \in Agents, RegisterAgent(a) \/ UnregisterAgent(a) PROVE GuardTypeOK'
    BY <2>1 DEF RegisterAgent, UnregisterAgent, TypeOK, GuardTypeOK
  <2>2. CASE ResetCounters
    BY <2>2 DEF ResetCounters, TypeOK, GuardTypeOK
  <2>3. CASE Enable \/ Disable
    BY <2>3 DEF Enable, Disable, TypeOK, GuardTypeOK
  <2> QED
    BY <2>1, <2>2, <2>3 DEF GuardMoves
<1>3. \A b \in Agents : /\ actions'[b] = actions[b] \/ actions'[b] = 0
                        /\ violations'[b] = violations[b] \/ violations'[b] = 0
  BY DEF GuardMoves, RegisterAgent, UnregisterAgent, ResetCounters, Enable, Disable,
         TypeOK, GuardTypeOK
<1>4. TypeOK' /\ LevelMatchesScore' /\ QuarantineStrips'
  BY <1>1, <1>2 DEF TypeOK, TrustTypeOK, AgentTypeOK, SandboxTypeOK, LevelMatchesScore,
     QuarantineStrips
<1>5. \A b \in Agents :
          /\ actions'[b] >= QuarantineThreshold => actions[b] >= QuarantineThreshold
          /\ violations'[b] >= MaxViolations => violations[b] >= MaxViolations
  BY <1>3, GuardAssumption, ZeroIsBelow
<1>6. FloodIsDecided'
  BY <1>1, <1>5 DEF FloodIsDecided
<1> QED
  BY <1>4, <1>6

(* The sandbox manager only deals capabilities it knows. *)
LEMMA SandboxMovesInv == KernelInv /\ SandboxMoves => KernelInv'
<1> SUFFICES ASSUME KernelInv, SandboxMoves PROVE KernelInv'
  OBVIOUS
<1> USE DEF KernelInv
<1>1. UNCHANGED << score, level, attested, status, caps, given, enabled, monitored, actions,
                   violations, throttled, owed >>
  BY DEF SandboxMoves, trustVars, agentVars, guardVars
<1>2. SandboxTypeOK'
  <2>1. \A l \in TrustLevel : CapsFor[l] \in SUBSET Capability
    BY DEF TrustLevel, CapsFor, MinimalCaps, StandardCaps, Capability
  <2>2. \A a \in Agents : Registered(a) => CapsFor[level[a]] \in SUBSET Capability
    BY <2>1 DEF TypeOK, TrustTypeOK
  <2>3. \A a \in Agents : Sandboxed(a) => boundary[a] \in SUBSET Capability
    BY DEF TypeOK, SandboxTypeOK, Sandboxed
  <2> QED
    BY <2>2, <2>3, EmbedderAssumption DEF SandboxMoves, CreateBoundary, GrantCapability,
       RevokeCapability, RemoveBoundary, TypeOK, SandboxTypeOK
<1>3. TypeOK' /\ LevelMatchesScore' /\ QuarantineStrips' /\ FloodIsDecided'
  BY <1>1, <1>2 DEF TypeOK, TrustTypeOK, AgentTypeOK, GuardTypeOK, LevelMatchesScore,
     QuarantineStrips, FloodIsDecided
<1> QED
  BY <1>3

(* A counter that reaches its threshold does so in the step that decides. *)
LEMMA WatchInv == KernelInv /\ Watch => KernelInv'
<1> SUFFICES ASSUME KernelInv, NEW a \in Agents, Act(a) \/ Violate(a) \/ Sweep(a),
                    UNCHANGED << trustVars, agentVars, boundary >>
             PROVE  KernelInv'
  BY DEF Watch
<1> USE DEF KernelInv
<1>1. UNCHANGED << score, level, attested, status, caps, given, boundary >>
  BY DEF trustVars, agentVars
<1>2. owed \subseteq owed' /\ owed' \subseteq Agents
  BY DEF Act, Violate, Sweep, Decide, TypeOK
<1>3. GuardTypeOK'
  BY DEF Act, Violate, Sweep, RecordAction, RecordViolation, guardVars, TypeOK, GuardTypeOK
<1>4. TypeOK' /\ LevelMatchesScore' /\ QuarantineStrips'
  BY <1>1, <1>2, <1>3 DEF TypeOK, TrustTypeOK, AgentTypeOK, SandboxTypeOK,
     LevelMatchesScore, QuarantineStrips
<1>5. FloodIsDecided'
  <2>1. CASE Act(a)
    <3>1. \A b \in Agents : /\ violations'[b] = violations[b]
                            /\ b # a => actions'[b] = actions[b]
      BY <2>1 DEF Act, RecordAction, TypeOK, GuardTypeOK
    <3>2. actions'[a] >= QuarantineThreshold => a \in owed'
      BY <2>1 DEF Act, Decide, ActionAnswer, Floods
    <3>3. ASSUME NEW b \in Agents, b # a
          PROVE  actions'[b] = actions[b] /\ violations'[b] = violations[b]
      BY <3>1, <3>3
    <3> QED
      BY <3>1, <3>2, <3>3, <1>1, <1>2 DEF FloodIsDecided
  <2>2. CASE Violate(a)
    <3>1. \A b \in Agents : /\ actions'[b] = actions[b]
                            /\ b # a => violations'[b] = violations[b]
      BY <2>2 DEF Violate, RecordViolation, TypeOK, GuardTypeOK
    <3>2. violations'[a] >= MaxViolations => a \in owed'
      BY <2>2 DEF Violate, Decide, ViolationAnswer
    <3>3. ASSUME NEW b \in Agents, b # a
          PROVE  actions'[b] = actions[b] /\ violations'[b] = violations[b]
      BY <3>1, <3>3
    <3> QED
      BY <3>1, <3>2, <3>3, <1>1, <1>2 DEF FloodIsDecided
  <2>3. CASE Sweep(a)
    BY <2>3, <1>1, <1>2 DEF Sweep, guardVars, FloodIsDecided
  <2> QED
    BY <2>1, <2>2, <2>3
<1> QED
  BY <1>4, <1>5

(* Carrying a quarantine out settles the debt by stopping the agent. *)
LEMMA CarryOutInv == ASSUME KernelInv, NEW a \in Agents, CarryOut(a) PROVE KernelInv'
<1> USE DEF KernelInv
<1>1. UNCHANGED << score, level, attested, enabled, monitored, actions, violations,
                   throttled, boundary >>
  BY DEF CarryOut, Quarantine, trustVars, guardVars
<1>2. /\ status' = [status EXCEPT ![a] = "Quarantined"]
      /\ caps' = [caps EXCEPT ![a] = {}]
      /\ given' = [given EXCEPT ![a] = {}]
      /\ owed' = owed \ {a}
      /\ Known(a)
  BY DEF CarryOut, Quarantine, Transition
<1>3. TypeOK'
  <2>1. TrustTypeOK' /\ GuardTypeOK' /\ SandboxTypeOK'
    BY <1>1 DEF TypeOK, TrustTypeOK, GuardTypeOK, SandboxTypeOK
  <2>2. AgentTypeOK'
    BY <1>1, <1>2 DEF TypeOK, AgentTypeOK, AgentStatus
  <2> QED
    BY <2>1, <2>2, <1>2 DEF TypeOK
<1>4. LevelMatchesScore'
  BY <1>1 DEF LevelMatchesScore
<1>5. QuarantineStrips'
  BY <1>2 DEF TypeOK, AgentTypeOK, QuarantineStrips
<1>6. FloodIsDecided'
  BY <1>1, <1>2 DEF TypeOK, AgentTypeOK, FloodIsDecided, Stopped
<1> QED
  BY <1>3, <1>4, <1>5, <1>6

(* Every step of the composition keeps the invariant. *)
LEMMA KernelStepInv == KernelInv /\ [Next]_vars => KernelInv'
<1> SUFFICES ASSUME KernelInv, [Next]_vars PROVE KernelInv'
  OBVIOUS
<1>1. CASE UNCHANGED vars
  BY <1>1 DEF vars, trustVars, agentVars, guardVars, KernelInv, TypeOK, TrustTypeOK,
     AgentTypeOK, GuardTypeOK, SandboxTypeOK, LevelMatchesScore, QuarantineStrips,
     FloodIsDecided
<1> QED
  BY <1>1, TrustMovesInv, AgentMovesInv, GuardMovesInv, SandboxMovesInv, WatchInv,
     CarryOutInv DEF Next

(* KernelInv holds in every reachable state. *)
THEOREM KernelInvariance == Spec => []KernelInv
BY KernelInitInv, KernelStepInv, PTL DEF Spec

(* The four parts of the kernel keep their types through the composition.  *)
THEOREM KernelTypeCorrect == Spec => []TypeOK
BY KernelInvariance, PTL DEF KernelInv

(* No cached trust level is ever stale: kernel.rs 273-337.                 *)
THEOREM LevelsAreNeverStale == Spec => []LevelMatchesScore
BY KernelInvariance, PTL DEF KernelInv

(* What a quarantined agent holds was granted after the strip, whatever was*)
(* granted, taken and carried out before: agent.rs 195-205, 323-343.       *)
THEOREM QuarantinedKeepNothing == Spec => []QuarantineStrips
BY KernelInvariance, PTL DEF KernelInv

(* An agent over a threshold of the guard is stopped, or its quarantine is *)
(* decided and not forgotten: guard.rs 252-288.                            *)
THEOREM FloodsAreDecided == Spec => []FloodIsDecided
BY KernelInvariance, PTL DEF KernelInv

-----------------------------------------------------------------------------
(* No operation of the kernel brings a stopped agent back. *)

(* One step may only stop an agent or, by a verdict that was owed, turn the*)
(* way it ended into Quarantined.                                          *)
LEMMA StoppedStep ==
    ASSUME KernelInv, [Next]_vars, NEW a \in Agents
    PROVE  /\ Stopped(status[a]) => Stopped(status'[a])
           /\ status[a] \in Terminal /\ status'[a] # status[a]
                 => status'[a] = "Quarantined" /\ a \in owed
<1> DEFINE Lasts == /\ Stopped(status[a]) => Stopped(status'[a])
                    /\ status[a] \in Terminal /\ status'[a] # status[a]
                          => status'[a] = "Quarantined" /\ a \in owed
<1>1. status \in [Agents -> AgentStatus \cup {"None"}]
  BY DEF KernelInv, TypeOK, AgentTypeOK
<1>2. ASSUME NEW b \in Agents, AgentStep(b) PROVE Lasts
  BY <1>1, <1>2 DEF AgentStep, Spawn, Suspend, Resume, Terminate, Finish, GrantToAgent,
     RevokeFromAgent, Transition, CanSuspend, CanResume, Active, Terminal, Stopped
<1>3. ASSUME NEW b \in Agents, CarryOut(b) PROVE Lasts
  BY <1>1, <1>3 DEF CarryOut, Quarantine, Transition, Stopped
<1>4. ASSUME UNCHANGED status PROVE Lasts
  BY <1>4
<1> QED
  BY <1>2, <1>3, <1>4 DEF Next, vars, agentVars, TrustMoves, AgentMoves, GuardMoves,
     SandboxMoves, Watch

(* An agent that ended or was quarantined never runs again, and how it     *)
(* ended is final but for a verdict carried out late: agent.rs 269-333.    *)
THEOREM StoppedForGood == Spec => StoppedStaysStopped
<1>1. KernelInv /\ [Next]_vars =>
        [\A a \in Agents :
            /\ Stopped(status[a]) => Stopped(status'[a])
            /\ status[a] \in Terminal /\ status'[a] # status[a]
                  => status'[a] = "Quarantined" /\ a \in owed]_vars
  BY StoppedStep
<1> QED
  BY <1>1, KernelInvariance, PTL DEF Spec, StoppedStaysStopped

HIDE DEF One, Known, Registered

-----------------------------------------------------------------------------
(* The flood bound *)

(* The observed stretch either began within the minute, and the counter has*)
(* seen all of it, or it began before the latest reset, and no further one *)
(* comes while it lasts: then an agent that still runs had less than a     *)
(* quota before the reset.                                                 *)
WithinTheMinute(a) == stretchAge <= minuteAge /\ seen[a] <= actions[a]

AcrossTheReset(a) ==
    /\ minuteAge <= stretchAge
    /\ IF a \in free THEN seen[a] <= actions[a] + QuarantineThreshold - 1
                     ELSE seen[a] <= 2 * QuarantineThreshold - 1

Watched(a) ==
    /\ actions[a] <= QuarantineThreshold
    /\ a \in free => actions[a] < QuarantineThreshold
    /\ a \notin monitored => seen[a] = 0
    /\ WithinTheMinute(a) \/ AcrossTheReset(a)

MinutesInv ==
    /\ actions \in [Agents -> Nat] /\ seen \in [Agents -> Nat]
    /\ free \subseteq monitored
    /\ minuteAge \in 0 .. Minute
    /\ stretchAge \in Nat /\ stretchAge < Minute
    /\ \A a \in Agents : Watched(a)

LEMMA BoundWatched == MinutesInv => FloodBound
<1> SUFFICES ASSUME MinutesInv, NEW a \in Agents
             PROVE  seen[a] <= 2 * QuarantineThreshold - 1
  BY DEF FloodBound
<1> QED
  BY GuardAssumption DEF MinutesInv, Watched, WithinTheMinute, AcrossTheReset

LEMMA MinutesStart == SupervisionInit => MinutesInv
<1> SUFFICES ASSUME SupervisionInit PROVE MinutesInv
  OBVIOUS
<1>1. /\ actions = [a \in Agents |-> 0] /\ seen = [a \in Agents |-> 0]
      /\ free = {} /\ minuteAge = 0 /\ stretchAge = 0
  BY DEF SupervisionInit, MinutesInit, GuardInit
<1> QED
  BY <1>1, GuardAssumption, MinuteAssumption
     DEF MinutesInv, Watched, WithinTheMinute

(* Steps that leave the clocks alone and move at most one agent.           *)
LEMMA OneAgentMoves ==
    ASSUME MinutesInv, NEW a \in Agents,
           actions' \in [Agents -> Nat], seen' \in [Agents -> Nat], free' \subseteq monitored',
           UNCHANGED << minuteAge, stretchAge >>,
           \A b \in Agents \ {a} :
              /\ actions'[b] = actions[b] /\ seen'[b] = seen[b]
              /\ b \in free' <=> b \in free
              /\ b \in monitored' <=> b \in monitored,
           Watched(a)'
    PROVE  MinutesInv'
<1>1. \A b \in Agents \ {a} : Watched(b)'
  BY DEF MinutesInv, Watched, WithinTheMinute, AcrossTheReset
<1> QED
  BY <1>1 DEF MinutesInv

LEMMA TurnKeepsMinutes ==
    ASSUME MinutesInv, NEW a \in Agents, NEW s \in SessionIds, NEW trust \in TrustReadings,
           Turn(a, s, trust)
    PROVE  MinutesInv'
<1>1. /\ actions' = [actions EXCEPT ![a] = @ + 1] /\ seen' = [seen EXCEPT ![a] = @ + 1]
      /\ monitored' = monitored /\ a \in free
      /\ UNCHANGED << minuteAge, stretchAge >>
  BY DEF Turn, RecordAction
<1>2. /\ actions' \in [Agents -> Nat] /\ seen' \in [Agents -> Nat]
      /\ actions'[a] = actions[a] + 1 /\ seen'[a] = seen[a] + 1
      /\ actions[a] \in Nat /\ seen[a] \in Nat
  BY <1>1 DEF MinutesInv
<1>3. /\ free' = free \/ free' = free \ {a}
      /\ actions'[a] >= QuarantineThreshold => free' = free \ {a}
  BY DEF Turn, ActionAnswer, Floods
<1>4. \A b \in Agents \ {a} :
        /\ actions'[b] = actions[b] /\ seen'[b] = seen[b]
        /\ b \in free' <=> b \in free
        /\ b \in monitored' <=> b \in monitored
  BY <1>1, <1>3 DEF MinutesInv
<1>5. /\ actions[a] < QuarantineThreshold /\ QuarantineThreshold \in Nat
      /\ minuteAge \in Nat /\ stretchAge \in Nat /\ a \in monitored
      /\ WithinTheMinute(a) \/ AcrossTheReset(a)
  BY <1>1, GuardAssumption, MinuteAssumption DEF MinutesInv, Watched
<1>6. WithinTheMinute(a)' \/ AcrossTheReset(a)'
  BY <1>1, <1>2, <1>3, <1>5 DEF WithinTheMinute, AcrossTheReset
<1>7. Watched(a)'
  BY <1>1, <1>2, <1>3, <1>5, <1>6 DEF Watched
<1> QED
  BY <1>1, <1>2, <1>3, <1>4, <1>7, OneAgentMoves DEF MinutesInv

LEMMA ComingAndGoingKeepsMinutes ==
    ASSUME MinutesInv, NEW a \in Agents, Join(a) \/ Leave(a)
    PROVE  MinutesInv'
<1>1. /\ actions' = [actions EXCEPT ![a] = 0] /\ seen'[a] = 0
      /\ UNCHANGED << minuteAge, stretchAge >>
      /\ seen' \in [Agents -> Nat] /\ actions' \in [Agents -> Nat] /\ actions'[a] = 0
      /\ \A b \in Agents \ {a} : seen'[b] = seen[b] /\ actions'[b] = actions[b]
  BY DEF Join, Leave, RegisterAgent, UnregisterAgent, MinutesInv, Watched
<1>2. /\ free' \subseteq monitored'
      /\ \A b \in Agents \ {a} : /\ b \in free' <=> b \in free
                                 /\ b \in monitored' <=> b \in monitored
  BY DEF Join, Leave, RegisterAgent, UnregisterAgent, MinutesInv
<1>3. QuarantineThreshold \in Nat \ {0} /\ minuteAge \in Nat /\ stretchAge \in Nat
  BY GuardAssumption, MinuteAssumption DEF MinutesInv
<1>4. Watched(a)'
  BY <1>1, <1>3 DEF Watched, WithinTheMinute, AcrossTheReset
<1> QED
  BY <1>1, <1>2, <1>4, OneAgentMoves

LEMMA ResetKeepsMinutes == MinutesInv /\ MinuteEnds => MinutesInv'
<1> SUFFICES ASSUME MinutesInv, MinuteEnds PROVE MinutesInv'
  OBVIOUS
<1>1. /\ minuteAge = Minute /\ minuteAge' = 0 /\ UNCHANGED << free, stretchAge, seen, monitored >>
      /\ actions' = [a \in Agents |-> 0]
  BY DEF MinuteEnds, ResetCounters
<1>2. Minute \in Nat /\ stretchAge \in Nat /\ stretchAge < Minute
  BY MinuteAssumption DEF MinutesInv
<1>3. ASSUME NEW a \in Agents PROVE Watched(a)'
  <2>1. /\ seen[a] <= actions[a] /\ actions[a] <= QuarantineThreshold
        /\ a \in free => actions[a] < QuarantineThreshold
        /\ a \notin monitored => seen[a] = 0
    BY <1>1, <1>2 DEF MinutesInv, Watched, WithinTheMinute, AcrossTheReset
  <2>2. actions[a] \in Nat /\ seen[a] \in Nat /\ QuarantineThreshold \in Nat \ {0}
    BY GuardAssumption DEF MinutesInv
  <2>3. actions'[a] = 0
    BY <1>1
  <2> QED
    BY <1>1, <1>2, <2>1, <2>2, <2>3 DEF Watched, AcrossTheReset
<1> QED
  BY <1>1, <1>2, <1>3 DEF MinutesInv

LEMMA ClocksKeepMinutes ==
    MinutesInv /\ (Tick \/ \E b \in {0, 1} : NewStretch(b)) => MinutesInv'
<1>1. ASSUME MinutesInv, Tick PROVE MinutesInv'
  BY <1>1, MinuteAssumption
     DEF MinutesInv, Tick, guardVars, Watched, WithinTheMinute, AcrossTheReset
<1>2. ASSUME MinutesInv, NEW b \in {0, 1}, NewStretch(b) PROVE MinutesInv'
  <2>1. /\ UNCHANGED << actions, monitored, free >>
        /\ seen' = [a \in Agents |-> 0] /\ stretchAge' = 0
        /\ minuteAge' \in 0 .. Minute
    BY <1>2, MinuteAssumption DEF NewStretch, guardVars, MinutesInv
  <2>2. \A a \in Agents : Watched(a)'
    BY <1>2, <2>1 DEF MinutesInv, Watched, WithinTheMinute
  <2> QED
    BY <1>2, <2>1, <2>2, MinuteAssumption DEF MinutesInv
<1> QED
  BY <1>1, <1>2

LEMMA OthersKeepMinutes ==
    MinutesInv /\ UNCHANGED << actions, monitored, free, minuteAge, stretchAge, seen >>
        => MinutesInv'
BY DEF MinutesInv, Watched, WithinTheMinute, AcrossTheReset

LEMMA MinutesKept == MinutesInv /\ [SupervisionNext]_supervisionVars => MinutesInv'
<1> SUFFICES ASSUME MinutesInv, [SupervisionNext]_supervisionVars PROVE MinutesInv'
  OBVIOUS
<1>1. ASSUME NEW s \in SessionIds, Inspect(s) \/ Administer(s) \/ \E a \in Agents : Open(a, s)
      PROVE  MinutesInv'
  BY <1>1, OthersKeepMinutes DEF Inspect, Administer, Open, minuteVars, guardVars
<1>2. CASE CleanUp \/ Clear
  BY <1>2, OthersKeepMinutes DEF CleanUp, Clear, minuteVars, guardVars
<1>3. CASE Passes
  BY <1>3, ClocksKeepMinutes DEF Passes
<1>4. CASE Observe \/ ObserveLater
  BY <1>4, ClocksKeepMinutes DEF Observe, ObserveLater
<1>5. CASE GuardOnly
  <2>1. ASSUME NEW a \in Agents, NEW on \in BOOLEAN, Throttle(a, on) PROVE MinutesInv'
    BY <2>1, OthersKeepMinutes DEF Throttle, SetThrottle
  <2> QED
    BY <1>5, <2>1, ResetKeepsMinutes, ComingAndGoingKeepsMinutes DEF GuardOnly
<1>6. CASE UNCHANGED supervisionVars
  BY <1>6, OthersKeepMinutes DEF supervisionVars, minuteVars, guardVars
<1> QED
  BY <1>1, <1>2, <1>3, <1>4, <1>5, <1>6, TurnKeepsMinutes DEF SupervisionNext

(***************************************************************************)
(* For every threshold and length of a minute, and wherever a stretch      *)
(* shorter than a minute lies: an agent gets through at most a quota before*)
(* the reset and one after it, less one (guard.rs 252-324).                *)
(***************************************************************************)
THEOREM FloodsAreBounded == SupervisionSpec => []FloodBound
BY MinutesStart, MinutesKept, BoundWatched, PTL DEF SupervisionSpec
-----------------------------------------------------------------------------
(* Cleanup *)

Session == [agent : Agents, active : BOOLEAN, idle : Nat]

(* The age the manager gives an inactive session is not beyond the time it *)
(* has really been quiet.                                                  *)
AgeIsNoExcuse(s) == ~ sessions[s].active => sessions[s].idle <= quiet[s]

QuietInv ==
    /\ sessions \in [SessionIds -> Session \cup {NoSession}]
    /\ quiet \in [SessionIds -> Nat]
    /\ \A s \in Held : AgeIsNoExcuse(s)

LEMMA QuietStarts == SupervisionInit => QuietInv
BY DEF SupervisionInit, SessionsInit, QuietInv, Held

LEMMA OlderIsMonotone ==
    ASSUME NEW m \in Nat, NEW n \in Nat, m <= n
    PROVE  Older(m) \in Nat /\ Older(m) <= Older(n)
BY SessionAssumption DEF Older

LEMMA DeactivatedIsFresh ==
    ASSUME NEW session \in Session
    PROVE  Deactivated(session) \in Session /\ Deactivated(session).idle = 0
BY DEF Session, Deactivated

(* A step under which sessions stay as they are, are dropped or count as   *)
(* used, while no time passes.                                             *)
LEMMA UseKeepsQuiet ==
    ASSUME QuietInv, quiet' \in [SessionIds -> Nat],
           sessions' \in [SessionIds -> Session \cup {NoSession}],
           \A s \in SessionIds :
              \/ sessions'[s] = NoSession
              \/ sessions'[s].idle = 0
              \/ sessions'[s].active
              \/ sessions'[s] = sessions[s] /\ quiet'[s] = quiet[s]
    PROVE  QuietInv'
<1>1. ASSUME NEW s \in Held' PROVE AgeIsNoExcuse(s)'
  <2>1. s \in SessionIds /\ sessions'[s] # NoSession /\ quiet'[s] \in Nat
    BY <1>1 DEF Held
  <2>2. CASE sessions'[s].idle = 0 \/ sessions'[s].active
    BY <2>1, <2>2 DEF AgeIsNoExcuse
  <2>3. CASE sessions'[s] = sessions[s] /\ quiet'[s] = quiet[s]
    BY <2>1, <2>3 DEF AgeIsNoExcuse, QuietInv, Held
  <2> QED
    BY <2>1, <2>2, <2>3
<1> QED
  BY <1>1 DEF QuietInv

LEMMA QuietAfterIsNat == QuietInv => QuietAfter \in [SessionIds -> Nat]
BY DEF QuietInv, QuietAfter

LEMMA OpenKeepsQuiet ==
    ASSUME QuietInv, NEW a \in Agents, NEW s \in SessionIds, Open(a, s)
    PROVE  QuietInv'
<1> DEFINE opened == [agent |-> a, active |-> TRUE, idle |-> 0]
<1>1. opened \in Session
  BY DEF Session
<1>2. sessions' = [sessions EXCEPT ![s] = opened] /\ quiet' = quiet
  BY DEF Open, CreateSession
<1>3. opened.active
  OBVIOUS
<1> HIDE DEF opened
<1>4. sessions' \in [SessionIds -> Session \cup {NoSession}] /\ quiet' \in [SessionIds -> Nat]
  BY <1>1, <1>2 DEF QuietInv
<1>5. \A t \in SessionIds :
         \/ sessions'[t].active
         \/ sessions'[t] = sessions[t] /\ quiet'[t] = quiet[t]
  BY <1>2, <1>3 DEF QuietInv
<1> QED
  BY <1>4, <1>5, UseKeepsQuiet

LEMMA TurnKeepsQuiet ==
    ASSUME QuietInv, NEW a \in Agents, NEW s \in SessionIds, NEW trust \in TrustReadings,
           Turn(a, s, trust)
    PROVE  QuietInv'
<1>1. /\ sessions[s] \in Session
      /\ quiet' = [quiet EXCEPT ![s] = 0]
      /\ \/ sessions' = [sessions EXCEPT ![s] = Deactivated(sessions[s])]
         \/ sessions' = [sessions EXCEPT ![s].idle = 0]
  BY DEF Turn, IsActive, Held, Obeyed, QuietInv
<1>2. sessions' \in [SessionIds -> Session \cup {NoSession}] /\ sessions'[s].idle = 0
  <2>1. CASE sessions' = [sessions EXCEPT ![s] = Deactivated(sessions[s])]
    BY <1>1, <2>1, DeactivatedIsFresh DEF QuietInv
  <2>2. CASE sessions' = [sessions EXCEPT ![s].idle = 0]
    BY <1>1, <2>2 DEF QuietInv, Session
  <2> QED
    BY <1>1, <2>1, <2>2
<1>3. \A t \in SessionIds \ {s} : sessions'[t] = sessions[t] /\ quiet'[t] = quiet[t]
  BY <1>1 DEF QuietInv
<1>4. quiet' \in [SessionIds -> Nat]
  BY <1>1 DEF QuietInv
<1> QED
  BY <1>2, <1>3, <1>4, UseKeepsQuiet

(* QuietAfter changes nothing for a session that stays as it was inactive. *)
LEMMA QuietAfterKeeps ==
    ASSUME QuietInv, quiet' = QuietAfter, NEW t \in SessionIds,
           sessions'[t] = sessions[t]
    PROVE  \/ sessions'[t] = NoSession \/ sessions'[t].active
           \/ quiet'[t] = quiet[t]
BY DEF QuietAfter, IsActive, Held

LEMMA ManagerKeepsQuiet ==
    ASSUME QuietInv, NEW s \in Held,
           Deactivate(s) \/ Activate(s) \/ RemoveSession(s)
              \/ DeactivateAgentSessions(sessions[s].agent) \/ Cleanup,
           quiet' = QuietAfter
    PROVE  QuietInv'
<1>1. /\ s \in SessionIds /\ sessions[s] \in Session
      /\ quiet' \in [SessionIds -> Nat]
  BY QuietAfterIsNat DEF Held, QuietInv
<1>2. /\ sessions' \in [SessionIds -> Session \cup {NoSession}]
      /\ \A t \in SessionIds : \/ sessions'[t] = NoSession
                               \/ sessions'[t].idle = 0
                               \/ sessions'[t] = sessions[t]
  <2>1. CASE Deactivate(s)
    <3>1. sessions' = [sessions EXCEPT ![s] = Deactivated(sessions[s])]
      BY <2>1 DEF Deactivate
    <3> QED
      BY <1>1, <3>1, DeactivatedIsFresh DEF QuietInv
  <2>2. CASE Activate(s)
    <3> DEFINE used == [sessions[s] EXCEPT !.active = TRUE, !.idle = 0]
    <3>1. sessions' = [sessions EXCEPT ![s] = used]
      BY <1>1, <2>2 DEF Activate, QuietInv
    <3>2. used \in Session /\ used.idle = 0
      BY <1>1 DEF Session
    <3> HIDE DEF used
    <3> QED
      BY <3>1, <3>2 DEF QuietInv
  <2>3. ASSUME NEW gone, sessions' = Dropped(gone)
        PROVE  /\ sessions' \in [SessionIds -> Session \cup {NoSession}]
               /\ \A t \in SessionIds : sessions'[t] = NoSession \/ sessions'[t] = sessions[t]
    BY <2>3 DEF Dropped, QuietInv
  <2>4. CASE RemoveSession(s) \/ Cleanup
    BY <2>3, <2>4 DEF RemoveSession, Cleanup
  <2>5. CASE DeactivateAgentSessions(sessions[s].agent)
    <3> DEFINE stopped == ActiveSessionsFor(sessions[s].agent)
    <3>1. sessions' = [t \in SessionIds |->
                          IF t \in stopped THEN Deactivated(sessions[t]) ELSE sessions[t]]
      BY <2>5 DEF DeactivateAgentSessions
    <3>2. \A t \in stopped : sessions[t] \in Session
      BY DEF ActiveSessionsFor, Held, QuietInv
    <3> HIDE DEF stopped
    <3> QED
      BY <3>1, <3>2, DeactivatedIsFresh DEF QuietInv
  <2> QED
    BY <2>1, <2>2, <2>4, <2>5
<1> QED
  BY <1>1, <1>2, QuietAfterKeeps, UseKeepsQuiet

LEMMA AgingKeepsQuiet ==
    ASSUME QuietInv, Age,
           quiet' = [s \in SessionIds |-> IF IsActive(s) THEN 0 ELSE Older(quiet[s])]
    PROVE  QuietInv'
<1>1. \A s \in SessionIds : quiet[s] \in Nat
  BY DEF QuietInv
<1>2. quiet' \in [SessionIds -> Nat]
  BY <1>1, OlderIsMonotone
<1>3. ASSUME NEW s \in Held
      PROVE  /\ sessions'[s] = [sessions[s] EXCEPT !.idle = Older(@)]
             /\ sessions'[s] \in Session
             /\ AgeIsNoExcuse(s)'
  <2>1. s \in SessionIds /\ sessions[s] \in Session /\ sessions[s].idle \in Nat
    BY <1>3 DEF Held, QuietInv, Session
  <2>2. sessions'[s] = [sessions[s] EXCEPT !.idle = Older(@)]
    BY <1>3, <2>1 DEF Age
  <2>3. Older(sessions[s].idle) \in Nat
    BY <2>1, OlderIsMonotone
  <2>4. /\ sessions'[s] \in Session
        /\ sessions'[s].active = sessions[s].active
        /\ sessions'[s].idle = Older(sessions[s].idle)
    BY <2>1, <2>2, <2>3 DEF Session
  <2>5. ~ sessions[s].active => Older(sessions[s].idle) <= Older(quiet[s])
    BY <1>1, <1>3, <2>1, OlderIsMonotone DEF QuietInv, AgeIsNoExcuse
  <2>6. ~ sessions[s].active => quiet'[s] = Older(quiet[s])
    BY <2>1 DEF IsActive
  <2> QED
    BY <2>2, <2>4, <2>5, <2>6 DEF AgeIsNoExcuse
<1>4. \A s \in SessionIds \ Held : sessions'[s] = NoSession
  BY DEF Age
<1>5. sessions' \in [SessionIds -> Session \cup {NoSession}]
  <2>1. DOMAIN sessions' = SessionIds /\ sessions' = [s \in SessionIds |-> sessions'[s]]
    BY DEF Age
  <2>2. \A s \in SessionIds : sessions'[s] \in Session \cup {NoSession}
    BY <1>3, <1>4
  <2> QED
    BY <2>1, <2>2
<1>6. \A s \in Held' : s \in Held
  BY <1>4 DEF Held
<1> QED
  BY <1>2, <1>3, <1>5, <1>6 DEF QuietInv

LEMMA OthersKeepQuiet == QuietInv /\ UNCHANGED << sessions, quiet >> => QuietInv'
BY DEF QuietInv, Held, AgeIsNoExcuse

LEMMA QuietKept == QuietInv /\ [SupervisionNext]_supervisionVars => QuietInv'
<1> SUFFICES ASSUME QuietInv, [SupervisionNext]_supervisionVars PROVE QuietInv'
  OBVIOUS
<1>1. ASSUME NEW s \in SessionIds, Inspect(s) PROVE QuietInv'
  BY <1>1, OthersKeepQuiet DEF Inspect, sessionVars
<1>2. ASSUME NEW s \in SessionIds, Administer(s) PROVE QuietInv'
  BY <1>2, ManagerKeepsQuiet DEF Administer
<1>3. CASE CleanUp
  <2>1. CASE Held = {}
    <3>1. /\ sessions' \in [SessionIds -> Session \cup {NoSession}]
          /\ \A s \in SessionIds : sessions'[s] = NoSession
      BY <1>3, <2>1 DEF CleanUp, Cleanup, Dropped, Held
    <3> QED
      BY <1>3, <3>1, QuietAfterIsNat, UseKeepsQuiet DEF CleanUp
  <2>2. ASSUME NEW s \in Held PROVE QuietInv'
    BY <1>3, <2>2, ManagerKeepsQuiet DEF CleanUp
  <2> QED
    BY <2>1, <2>2
<1>4. CASE Passes \/ ObserveLater
  BY <1>4, AgingKeepsQuiet DEF Passes, ObserveLater
<1>5. CASE Clear \/ Observe \/ GuardOnly \/ UNCHANGED supervisionVars
  BY <1>5, OthersKeepQuiet DEF Clear, Observe, GuardOnly, supervisionVars, sessionVars
<1> QED
  BY <1>1, <1>2, <1>3, <1>4, <1>5, OpenKeepsQuiet, TurnKeepsQuiet DEF SupervisionNext

(***************************************************************************)
(* For every idle limit: cleanup (session lib.rs 183-188) takes no         *)
(* session that was active or had a turn within the limit, however it was  *)
(* deactivated, activated again and deactivated once more in between.      *)
(***************************************************************************)
THEOREM RecentSessionsStay == SupervisionSpec => CleanupSparesRecent
<1>1. ASSUME QuietInv, CleanUp, NEW s \in Held \ Held' PROVE quiet[s] > MaxIdle
  <2>1. s \in SessionIds /\ sessions[s] \in Session /\ AgeIsNoExcuse(s) /\ quiet[s] \in Nat
    BY <1>1 DEF Held, QuietInv
  <2>2. ~ sessions[s].active /\ IsIdleLonger(s)
    BY <1>1 DEF CleanUp, Cleanup, Dropped, Held
  <2> QED
    BY <2>1, <2>2, SessionAssumption DEF AgeIsNoExcuse, IsIdleLonger, Session
<1>2. QuietInv /\ [SupervisionNext]_supervisionVars
         => [CleanUp => \A s \in Held \ Held' : quiet[s] > MaxIdle]_supervisionVars
  BY <1>1
<1> QED
  BY <1>2, QuietStarts, QuietKept, PTL DEF SupervisionSpec, CleanupSparesRecent

-----------------------------------------------------------------------------
(* The supervisor's sliding minute *)

Ages == 0 .. Minute

(* The turns of the observed stretch are the last entries of the history   *)
(* (inspections without a turn only add younger ones), and none of them is *)
(* older than the stretch, so none is dropped while it lasts.              *)
Remembers(history, turns) ==
    /\ history \in Seq(Ages) /\ turns \in 0 .. Len(history)
    /\ \A k \in 0 .. turns - 1 : history[Len(history) - k] <= stretchAge

BurstInv ==
    /\ stretchAge \in Nat /\ stretchAge < Minute
    /\ turnHistory \in [SessionIds -> Seq(Ages)]
    /\ turnsSeen \in [SessionIds -> Nat]
    /\ \A s \in SessionIds : Remembers(turnHistory[s], turnsSeen[s])

LEMMA AgesAreNumbers == \A n : n \in Ages <=> n \in Nat /\ n <= Minute
BY MinuteAssumption DEF Ages

LEMMA BurstStart == SupervisionInit => BurstInv
<1> SUFFICES ASSUME SupervisionInit PROVE BurstInv
  OBVIOUS
<1>1. /\ stretchAge = 0
      /\ turnHistory = [s \in SessionIds |-> << >>] /\ turnsSeen = [s \in SessionIds |-> 0]
  BY DEF SupervisionInit, MinutesInit, SupervisorInit
<1>2. << >> \in Seq(Ages) /\ Len(<< >>) = 0
  OBVIOUS
<1> QED
  BY <1>1, <1>2, MinuteAssumption DEF BurstInv, Remembers

(* An inspection adds an entry and drops none of the stretch.              *)
LEMMA InspectionRemembers ==
    ASSUME BurstInv, NEW s \in SessionIds
    PROVE  /\ Remembers(TurnsAfter(s), turnsSeen[s])
           /\ Remembers(TurnsAfter(s), turnsSeen[s] + 1)
<1> DEFINE before == turnHistory[s]
           list == Append(before, 0)
           keep == 0 .. Minute - 1
           t == turnsSeen[s] + 1
           short == Filter(list, keep)
<1>1. /\ before \in Seq(Ages) /\ turnsSeen[s] \in 0 .. Len(before)
      /\ \A k \in 0 .. turnsSeen[s] - 1 : before[Len(before) - k] <= stretchAge
      /\ stretchAge \in Nat /\ stretchAge < Minute /\ Minute \in Nat \ {0}
      /\ Len(before) \in Nat /\ turnsSeen[s] \in Nat
  BY MinuteAssumption DEF BurstInv, Remembers
<1>2. /\ list \in Seq(Ages) /\ Len(list) = Len(before) + 1
      /\ list[Len(before) + 1] = 0
      /\ \A i \in 1 .. Len(before) : list[i] = before[i]
  <2>1. 0 \in Ages
    BY <1>1 DEF Ages
  <2> QED
    BY <1>1, <2>1
<1> HIDE DEF list
<1>3. ASSUME NEW k \in 0 .. t - 1
      PROVE  list[Len(list) - k] <= stretchAge /\ list[Len(list) - k] \in keep
  <2>1. CASE k = 0
    BY <1>1, <1>2, <2>1
  <2>2. CASE k # 0
    <3>1. /\ k - 1 \in 0 .. turnsSeen[s] - 1
          /\ Len(list) - k = Len(before) - (k - 1)
          /\ Len(before) - (k - 1) \in 1 .. Len(before)
      BY <1>1, <1>2, <2>2
    <3>2. list[Len(list) - k] = before[Len(before) - (k - 1)]
      BY <1>2, <3>1
    <3>3. before[Len(before) - (k - 1)] \in Ages
      BY <1>1, <3>1
    <3>4. list[Len(list) - k] \in Nat /\ list[Len(list) - k] <= stretchAge
      BY <1>1, <3>1, <3>2, <3>3, AgesAreNumbers
    <3> QED
      BY <1>1, <3>4
  <2> QED
    BY <2>1, <2>2
<1>4. t \in 0 .. Len(list)
  BY <1>1, <1>2
<1>5. /\ short \in Seq(Ages) /\ t <= Len(short)
      /\ \A k \in 0 .. t - 1 : short[Len(short) - k] = list[Len(list) - k]
  <2> HIDE DEF t, keep
  <2> QED
    BY <1>2, <1>3, <1>4, FilterKeepsEnd
<1>6. TurnsAfter(s) = short
  BY DEF TurnsAfter, WithinMinute, list
<1> HIDE DEF short
<1>7. /\ \A k \in 0 .. t - 1 : short[Len(short) - k] <= stretchAge
      /\ Len(short) \in Nat
  BY <1>3, <1>5
<1> QED
  BY <1>1, <1>5, <1>6, <1>7 DEF Remembers

LEMMA InspectKeepsBurst ==
    ASSUME BurstInv, NEW s \in SessionIds, InspectWithTrust(s), UNCHANGED stretchAge,
           \/ turnsSeen' = turnsSeen
           \/ turnsSeen' = [turnsSeen EXCEPT ![s] = @ + 1]
    PROVE  BurstInv'
<1>1. /\ turnHistory' = [turnHistory EXCEPT ![s] = TurnsAfter(s)]
      /\ TurnsAfter(s) \in Seq(Ages)
  BY InspectionRemembers DEF InspectWithTrust, Remembers
<1>2. turnHistory' \in [SessionIds -> Seq(Ages)] /\ turnsSeen' \in [SessionIds -> Nat]
  <2>1. turnHistory' \in [SessionIds -> Seq(Ages)]
    BY <1>1 DEF BurstInv
  <2>2. turnsSeen' \in [SessionIds -> Nat]
    BY DEF BurstInv
  <2> QED
    BY <2>1, <2>2
<1>3. Remembers(turnHistory'[s], turnsSeen'[s])
  <2>1. turnHistory'[s] = TurnsAfter(s) /\ turnsSeen'[s] \in {turnsSeen[s], turnsSeen[s] + 1}
    BY <1>1 DEF BurstInv
  <2> QED
    BY <2>1, InspectionRemembers
<1>4. \A t \in SessionIds \ {s} : turnHistory'[t] = turnHistory[t] /\ turnsSeen'[t] = turnsSeen[t]
  BY <1>1 DEF BurstInv
<1>5. \A t \in SessionIds : Remembers(turnHistory'[t], turnsSeen'[t])
  BY <1>3, <1>4 DEF BurstInv
<1> QED
  BY <1>2, <1>5 DEF BurstInv, Remembers

(* A stretch starts with no turn of it seen. *)
LEMMA NewStretchRemembers ==
    ASSUME BurstInv, NEW age \in Nat, age < Minute, stretchAge' = age,
           turnHistory' \in [SessionIds -> Seq(Ages)],
           turnsSeen' = [s \in SessionIds |-> 0]
    PROVE  BurstInv'
BY DEF BurstInv, Remembers

LEMMA AgedHistories ==
    ASSUME BurstInv, AgeTurns
    PROVE  /\ turnHistory' \in [SessionIds -> Seq(Ages)]
           /\ \A s \in SessionIds :
                /\ Len(turnHistory'[s]) = Len(turnHistory[s])
                /\ \A i \in 1 .. Len(turnHistory[s]) :
                      turnHistory[s][i] < Minute => turnHistory'[s][i] = turnHistory[s][i] + 1
<1> DEFINE Aged(s) == [i \in DOMAIN turnHistory[s] |->
               IF turnHistory[s][i] < Minute THEN turnHistory[s][i] + 1 ELSE Minute]
<1>1. turnHistory' = [s \in SessionIds |-> Aged(s)]
  BY DEF AgeTurns
<1>2. ASSUME NEW s \in SessionIds
      PROVE  /\ Aged(s) \in Seq(Ages) /\ Len(Aged(s)) = Len(turnHistory[s])
             /\ DOMAIN turnHistory[s] = 1 .. Len(turnHistory[s])
  <2>1. turnHistory[s] \in Seq(Ages) /\ Len(turnHistory[s]) \in Nat
        /\ DOMAIN turnHistory[s] = 1 .. Len(turnHistory[s])
    BY DEF BurstInv
  <2>2. \A i \in 1 .. Len(turnHistory[s]) : turnHistory[s][i] \in Ages
    BY <2>1
  <2>3. \A i \in 1 .. Len(turnHistory[s]) : Aged(s)[i] \in Ages
    <3> SUFFICES ASSUME NEW i \in 1 .. Len(turnHistory[s]) PROVE Aged(s)[i] \in Ages
      OBVIOUS
    <3>1. turnHistory[s][i] \in Nat /\ turnHistory[s][i] <= Minute /\ Minute \in Nat
      BY <2>2, AgesAreNumbers, MinuteAssumption
    <3>2. Aged(s)[i] = IF turnHistory[s][i] < Minute THEN turnHistory[s][i] + 1 ELSE Minute
      BY <2>1
    <3>3. Aged(s)[i] \in Nat /\ Aged(s)[i] <= Minute
      BY <3>1, <3>2
    <3> HIDE DEF Aged
    <3> QED
      BY <3>3, AgesAreNumbers
  <2>4. Aged(s) \in [1 .. Len(turnHistory[s]) -> Ages]
    BY <2>1, <2>3
  <2> HIDE DEF Aged
  <2> QED
    BY <2>1, <2>4
<1> QED
  BY <1>1, <1>2

LEMMA TimeKeepsBurst == BurstInv /\ Passes => BurstInv'
<1> SUFFICES ASSUME BurstInv, Passes PROVE BurstInv'
  OBVIOUS
<1>1. /\ stretchAge' = stretchAge + 1 /\ stretchAge + 1 < Minute
      /\ turnsSeen' = turnsSeen /\ AgeTurns /\ stretchAge \in Nat /\ Minute \in Nat
  BY MinuteAssumption DEF Passes, Tick, BurstInv
<1>2. ASSUME NEW s \in SessionIds PROVE Remembers(turnHistory[s], turnsSeen[s])'
  <2> DEFINE old == turnHistory[s]
             new == turnHistory'[s]
  <2>1. /\ new \in Seq(Ages) /\ Len(new) = Len(old)
        /\ \A i \in 1 .. Len(old) : old[i] < Minute => new[i] = old[i] + 1
    BY <1>1, AgedHistories
  <2>2. /\ turnsSeen[s] \in 0 .. Len(old) /\ old \in Seq(Ages) /\ Len(old) \in Nat
        /\ \A k \in 0 .. turnsSeen[s] - 1 : old[Len(old) - k] <= stretchAge
    BY DEF BurstInv, Remembers
  <2>3. ASSUME NEW k \in 0 .. turnsSeen[s] - 1
        PROVE  new[Len(new) - k] <= stretchAge + 1
    <3>1. Len(old) - k \in 1 .. Len(old) /\ turnsSeen[s] \in Nat
      BY <2>2
    <3>2. old[Len(old) - k] \in Nat /\ old[Len(old) - k] <= stretchAge
      BY <2>2, <3>1, AgesAreNumbers
    <3>3. old[Len(old) - k] < Minute
      BY <1>1, <3>2
    <3>4. new[Len(old) - k] = old[Len(old) - k] + 1
      BY <2>1, <3>1, <3>3
    <3> QED
      BY <1>1, <2>1, <3>2, <3>4
  <2> QED
    BY <1>1, <2>1, <2>2, <2>3 DEF Remembers
<1> QED
  BY <1>1, <1>2, AgedHistories DEF BurstInv

LEMMA OthersKeepBurst ==
    BurstInv /\ UNCHANGED << stretchAge, turnHistory, turnsSeen >> => BurstInv'
BY DEF BurstInv, Remembers

LEMMA BurstKept == BurstInv /\ [SupervisionNext]_supervisionVars => BurstInv'
<1> SUFFICES ASSUME BurstInv, [SupervisionNext]_supervisionVars PROVE BurstInv'
  OBVIOUS
<1>1. ASSUME NEW s \in SessionIds, Inspect(s) PROVE BurstInv'
  BY <1>1, InspectKeepsBurst DEF Inspect, minuteVars
<1>2. ASSUME NEW s \in SessionIds, Administer(s) \/ \E a \in Agents : Open(a, s)
      PROVE  BurstInv'
  BY <1>2, OthersKeepBurst DEF Administer, Open, minuteVars
<1>3. ASSUME NEW a \in Agents, NEW s \in SessionIds, NEW trust \in TrustReadings,
             Turn(a, s, trust)
      PROVE  BurstInv'
  BY <1>3, InspectKeepsBurst DEF Turn
<1>4. CASE CleanUp
  BY <1>4, OthersKeepBurst DEF CleanUp, minuteVars
<1>5. CASE Clear
  <2>1. \A s \in SessionIds : << >> \in Seq(Ages)
    OBVIOUS
  <2> QED
    BY <1>5, <2>1, NewStretchRemembers DEF Clear, ClearFindings, minuteVars, BurstInv
<1>6. CASE Observe
  BY <1>6, MinuteAssumption, NewStretchRemembers DEF Observe, NewStretch, BurstInv
<1>7. CASE ObserveLater
  BY <1>7, MinuteAssumption, AgedHistories, NewStretchRemembers DEF ObserveLater, NewStretch
<1>8. CASE GuardOnly
  BY <1>8, OthersKeepBurst DEF GuardOnly, MinuteEnds, Join, Leave, Throttle
<1>9. CASE UNCHANGED supervisionVars
  BY <1>9, OthersKeepBurst DEF supervisionVars, minuteVars
<1> QED
  BY <1>1, <1>2, <1>3, <1>4, <1>5, <1>6, <1>7, <1>8, <1>9, TimeKeepsBurst DEF SupervisionNext

(* More than twice the limit of turns is Critical, and Critical suspends.  *)
LEMMA CriticalSuspends ==
    ASSUME QuietInv, NEW a \in Agents, NEW s \in SessionIds, NEW trust \in TrustReadings,
           Turn(a, s, trust), Len(TurnsAfter(s)) > 2 * MaxTurns, Len(TurnsAfter(s)) \in Nat
    PROVE  ~ IsActive(s)'
<1> DEFINE found == [session |-> s, kind |-> "RateAnomaly", severity |-> "Critical"]
<1>1. RateSeverity(Len(TurnsAfter(s))) = "Critical" /\ Len(TurnsAfter(s)) > MaxTurns
  BY SupervisorAssumption DEF RateSeverity
<1>2. found \in Inspection(s, trust)
  BY <1>1 DEF Inspection, RateFindings, Finding
<1>3. Recommend(found) = "SuspendSession"
  BY DEF Recommend
<1>4. "SuspendSession" \in Advised(s, trust)
  BY <1>2, <1>3 DEF Advised
<1>5. sessions' = [sessions EXCEPT ![s] = Deactivated(sessions[s])] /\ sessions[s] \in Session
  BY <1>4 DEF Turn, Obeyed, IsActive, Held, QuietInv
<1>6. sessions'[s].active = FALSE
  BY <1>5 DEF QuietInv, Deactivated, Session
<1> QED
  BY <1>6 DEF IsActive

(***************************************************************************)
(* For any limit and any number of sessions, agents and inspections in     *)
(* between: whoever gets past twice the limit of turns within a stretch    *)
(* shorter than a minute is suspended by the turn that does, because the   *)
(* window check_rate counts in slides (supervisor lib.rs, inspect).        *)
(***************************************************************************)
THEOREM BurstsEndInSuspension == SupervisionSpec => BurstsAreSuspended
<1> DEFINE Burst(s) == turnsSeen'[s] > turnsSeen[s] /\ IsActive(s)'
<1>1. ASSUME BurstInv, QuietInv, SupervisionNext, NEW s \in SessionIds, Burst(s)
      PROVE  turnsSeen'[s] <= 2 * MaxTurns
  <2>0. turnsSeen \in [SessionIds -> Nat]
    BY <1>1 DEF BurstInv
  <2>1. ASSUME turnsSeen' = turnsSeen \/ turnsSeen' = [t \in SessionIds |-> 0] PROVE FALSE
    BY <1>1, <2>0, <2>1
  <2>2. PICK t \in SessionIds, a \in Agents, trust \in TrustReadings : Turn(a, t, trust)
    BY <1>1, <2>1 DEF SupervisionNext, Inspect, Administer, Open, CleanUp, Clear, Passes,
                      Observe, ObserveLater, GuardOnly
  <2>3. turnsSeen' = [turnsSeen EXCEPT ![t] = @ + 1]
    BY <2>2 DEF Turn
  <2>4. t = s /\ turnsSeen'[s] = turnsSeen[s] + 1
    BY <1>1, <2>0, <2>3
  <2>5. turnsSeen[s] + 1 <= Len(TurnsAfter(s)) /\ Len(TurnsAfter(s)) \in Nat
    BY <1>1, InspectionRemembers DEF Remembers
  <2>6. ~ (Len(TurnsAfter(s)) > 2 * MaxTurns)
    BY <1>1, <2>2, <2>4, <2>5, CriticalSuspends
  <2> QED
    BY <2>0, <2>4, <2>5, <2>6, SupervisorAssumption
<1>2. BurstInv /\ QuietInv /\ [SupervisionNext]_supervisionVars
         => [\A s \in SessionIds : Burst(s) => turnsSeen'[s] <= 2 * MaxTurns]_supervisionVars
  BY <1>1
<1> QED
  BY <1>2, BurstStart, BurstKept, QuietStarts, QuietKept, PTL
     DEF SupervisionSpec, BurstsAreSuspended
=============================================================================
