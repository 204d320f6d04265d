---------------------------- MODULE AegisKernel ----------------------------
(***************************************************************************)
(* The kernel crate composed as examples/sentinel.rs composes it: an       *)
(* embedding program owns the runtime (with its trust kernel), the guard   *)
(* and the sandbox manager, and is the only link between them.  A guard    *)
(* answer "Quarantine" is a value the embedder holds (owed) until it calls *)
(* runtime.quarantine; everything else may happen in between.              *)
(* Throttle factors, which nothing in the kernel reads, are left to        *)
(* Supervision.                                                            *)
(***************************************************************************)
EXTENDS AgentRuntime, Guard, Sandbox

CONSTANTS Grantable,     (* bound: capabilities granted by hand            *)
          MaxCount       (* bound: counters of a minute                    *)

ASSUME EmbedderAssumption == Grantable \subseteq Capability /\ MaxCount \in Nat

VARIABLE owed            (* agents whose quarantine is decided             *)

vars == << trustVars, agentVars, guardVars, boundary, owed >>

Init ==
    /\ TrustInit /\ AgentInit /\ GuardInit /\ SandboxInit
    /\ owed = {}

Decide(a, answer) ==
    owed' = IF answer = "Quarantine" THEN owed \cup {a} ELSE owed

-----------------------------------------------------------------------------

TrustMoves ==
    /\ ScoreMoves \/ \E a \in Agents : Attest(a)
    /\ UNCHANGED << agentVars, guardVars, boundary, owed >>

AgentStep(a) ==
    \/ Spawn(a)
    \/ Suspend(a)
    \/ Resume(a)
    \/ Terminate(a)
    \/ \E s \in {"Completed", "Failed"} : Finish(a, s)
    \/ \E c \in Grantable : GrantToAgent(a, c) \/ RevokeFromAgent(a, c)

AgentMoves ==
    /\ \E a \in Agents : AgentStep(a)
    /\ UNCHANGED << guardVars, boundary, owed >>

(* A spawned agent is put under guard, an ended one may be taken off. *)
GuardMoves ==
    /\ \/ \E a \in Agents :
              \/ status[a] = "Running" /\ RegisterAgent(a)
              \/ status[a] \in Terminal /\ UnregisterAgent(a)
       \/ ResetCounters
       \/ Enable
       \/ Disable
    /\ UNCHANGED << trustVars, agentVars, boundary, owed >>

SandboxMoves ==
    /\ \E a \in Agents :
           \/ Registered(a) /\ CreateBoundary(a, level[a])
           \/ \E c \in Grantable : GrantCapability(a, c) \/ RevokeCapability(a, c)
           \/ status[a] \in Terminal /\ RemoveBoundary(a)
    /\ UNCHANGED << trustVars, agentVars, guardVars, owed >>

(* The agent acts, or breaks a policy, and the guard is told. *)
Act(a) ==
    /\ status[a] = "Running"
    /\ actions[a] < MaxCount
    /\ RecordAction(a)
    /\ Decide(a, ActionAnswer(actions'[a]))

Violate(a) ==
    /\ status[a] = "Running"
    /\ violations[a] < MaxCount
    /\ RecordViolation(a)
    /\ Decide(a, ViolationAnswer(violations'[a]))

(* The embedder looks at an agent's trust, whatever the agent's status. *)
Sweep(a) == Decide(a, TrustAnswer(a)) /\ UNCHANGED guardVars

Watch ==
    /\ \E a \in Agents : Act(a) \/ Violate(a) \/ Sweep(a)
    /\ UNCHANGED << trustVars, agentVars, boundary >>

CarryOut(a) ==
    /\ a \in owed
    /\ Quarantine(a)
    /\ owed' = owed \ {a}
    /\ UNCHANGED << guardVars, boundary >>

Next ==
    \/ TrustMoves
    \/ AgentMoves
    \/ GuardMoves
    \/ SandboxMoves
    \/ Watch
    \/ \E a \in Agents : CarryOut(a)

Spec == Init /\ [][Next]_vars

-----------------------------------------------------------------------------

TypeOK ==
    /\ TrustTypeOK /\ AgentTypeOK /\ GuardTypeOK /\ SandboxTypeOK
    /\ caps \in [Agents -> SUBSET Capability]
    /\ given \in [Agents -> SUBSET Capability]
    /\ owed \subseteq Agents

(***************************************************************************)
(* An agent that ended or was quarantined never runs again, whatever       *)
(* suspensions, resumptions and late verdicts follow; and how it ended is  *)
(* final but for a verdict of the guard that was carried out late, which   *)
(* turns it into Quarantined (agent.rs 269-333).                           *)
(***************************************************************************)
StoppedStaysStopped ==
    [][\A a \in Agents :
        /\ Stopped(status[a]) => Stopped(status'[a])
        /\ status[a] \in Terminal /\ status'[a] # status[a]
              => status'[a] = "Quarantined" /\ a \in owed]_vars

(***************************************************************************)
(* A flood is never forgotten: a running agent whose counters of the       *)
(* minute have reached a quarantine threshold has a quarantine decided, or *)
(* carried out, although suspensions, resets of the counters, switching    *)
(* the guard and trust changes come in between (guard.rs 252-288).         *)
(***************************************************************************)
FloodIsDecided ==
    \A a \in Agents :
        /\ actions[a] >= QuarantineThreshold \/ violations[a] >= MaxViolations
        /\ ~Stopped(status[a])
        => a \in owed

(***************************************************************************)
(* "Isolate the agent (strip capabilities, suspend)" (guard.rs:34): the    *)
(* sandbox refuses a quarantined agent every capability.                   *)
(***************************************************************************)
QuarantineIsolates ==
    \A a \in Agents : status[a] = "Quarantined" =>
        \A c \in Capability : ~Allowed(a, c)
=============================================================================
