---------------------------- MODULE AgentRuntime ----------------------------
(***************************************************************************)
(* The agent runtime of crates/kernel, which owns the trust kernel: the    *)
(* status and the capability list of every agent.  An operation that the   *)
(* code answers with Err changes nothing and is not a step.                *)
(***************************************************************************)
EXTENDS TrustKernel

VARIABLES status,     (* agent.status; "None" before spawn                 *)
          caps,       (* agent.capabilities                                *)
          given       (* history: granted by hand since the agent was      *)
                      (* quarantined (last, if more than once)             *)

agentVars == << status, caps, given >>

Active == {"Spawning", "Running"}
Terminal == {"Completed", "Terminated", "Failed"}
AgentStatus == Active \cup Terminal \cup {"Suspended", "Quarantined"}

Known(a) == status[a] # "None"

AgentInit ==
    /\ status = [a \in Agents |-> "None"]
    /\ caps = [a \in Agents |-> {}]
    /\ given = [a \in Agents |-> {}]

Transition(a, s) == status' = [status EXCEPT ![a] = s]

-----------------------------------------------------------------------------

(* Spawning draws a fresh id, so an agent is spawned once. *)
Spawn(a) ==
    /\ ~Known(a)
    /\ Register(a)
    /\ caps' = [caps EXCEPT ![a] =
           IF AtLeast(level'[a], "Standard") THEN {"FileSystemRead"} ELSE {}]
    /\ Transition(a, "Running")
    /\ UNCHANGED given

CanSuspend(a) == status[a] \in Active
Suspend(a) ==
    /\ CanSuspend(a)
    /\ Transition(a, "Suspended")
    /\ UNCHANGED << caps, given, trustVars >>

(* Mutant: a quarantined agent counts as paused. *)
CanResumeFromQuarantine(a) == status[a] \in {"Suspended", "Quarantined"}

CanResume(a) == status[a] = "Suspended"
Resume(a) ==
    /\ CanResume(a)
    /\ Transition(a, "Running")
    /\ UNCHANGED << caps, given, trustVars >>

Terminate(a) ==
    /\ Known(a)
    /\ status[a] \notin Terminal
    /\ Transition(a, "Terminated")
    /\ UNCHANGED << caps, given, trustVars >>

(* Mutant: the capabilities are not cleared. *)
QuarantineOnly(a) ==
    /\ Known(a)
    /\ Transition(a, "Quarantined")
    /\ given' = [given EXCEPT ![a] = {}]
    /\ UNCHANGED << caps, trustVars >>

(* Every agent the runtime knows, whatever its status. *)
Quarantine(a) ==
    /\ Known(a)
    /\ Transition(a, "Quarantined")
    /\ caps' = [caps EXCEPT ![a] = {}]
    /\ given' = [given EXCEPT ![a] = {}]
    /\ UNCHANGED trustVars

-----------------------------------------------------------------------------
(* What the embedding program does through get_agent_mut: it ends its own  *)
(* running agents, and gives and takes capabilities, whatever the status:  *)
(* nothing keeps it from granting one to a quarantined agent.              *)

Finish(a, s) ==
    /\ status[a] = "Running"
    /\ Transition(a, s)
    /\ UNCHANGED << caps, given, trustVars >>

GrantToAgent(a, c) ==
    /\ Known(a)
    /\ caps' = [caps EXCEPT ![a] = @ \cup {c}]
    /\ given' = [given EXCEPT ![a] = IF status[a] = "Quarantined" THEN @ \cup {c} ELSE @]
    /\ UNCHANGED << status, trustVars >>

RevokeFromAgent(a, c) ==
    /\ Known(a)
    /\ caps' = [caps EXCEPT ![a] = @ \ {c}]
    /\ UNCHANGED << status, given, trustVars >>

-----------------------------------------------------------------------------

Stopped(s) == s \in Terminal \cup {"Quarantined"}

AgentTypeOK ==
    /\ status \in [Agents -> AgentStatus \cup {"None"}]
    /\ \A a \in Agents : Known(a) <=> Registered(a)

(***************************************************************************)
(* A quarantined agent keeps and regains nothing by itself: whatever it    *)
(* holds, somebody granted after the latest strip, however grants,         *)
(* revocations, suspensions and repeated verdicts were ordered before.     *)
(***************************************************************************)
QuarantineStrips ==
    \A a \in Agents : status[a] = "Quarantined" => caps[a] \subseteq given[a]
=============================================================================
