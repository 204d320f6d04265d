------------------------------ MODULE Sandbox ------------------------------
(***************************************************************************)
(* The sandbox manager of crates/kernel: one boundary per agent, of which  *)
(* the model keeps the capabilities (check_capability is membership).  The *)
(* manager hands out no &mut SandboxBoundary, so none it holds is ever     *)
(* locked and grant and revoke fail only for want of a boundary.           *)
(***************************************************************************)
EXTENDS TrustKernel

VARIABLE boundary     (* a set of capabilities, or NoBoundary              *)

Capability == {"FileSystemRead", "FileSystemWrite", "NetworkAccess",
    "ProcessSpawn", "EnvironmentAccess", "InterAgentComm", "AuditRead",
    "PolicyModify", "CryptoOperations", "ExtendedMemory", "TimerAccess",
    "AgentManagement"}

(* The table in create_boundary. *)
MinimalCaps == {"TimerAccess", "InterAgentComm"}
StandardCaps == MinimalCaps \cup {"FileSystemRead", "NetworkAccess",
    "EnvironmentAccess", "AuditRead", "ExtendedMemory"}
CapsFor == [Unverified |-> MinimalCaps,
            Probationary |-> MinimalCaps \cup {"FileSystemRead"},
            Standard |-> StandardCaps,
            Elevated |-> StandardCaps \cup
                {"FileSystemWrite", "ProcessSpawn", "CryptoOperations"},
            Sovereign |-> Capability]

NoBoundary == {"no boundary"}

Sandboxed(a) == boundary[a] # NoBoundary

SandboxInit == boundary = [a \in Agents |-> NoBoundary]

(* A boundary that is already there is replaced. *)
CreateBoundary(a, l) == boundary' = [boundary EXCEPT ![a] = CapsFor[l]]

GrantCapability(a, c) ==
    /\ Sandboxed(a)
    /\ boundary' = [boundary EXCEPT ![a] = @ \cup {c}]

RevokeCapability(a, c) ==
    /\ Sandboxed(a)
    /\ boundary' = [boundary EXCEPT ![a] = @ \ {c}]

RemoveBoundary(a) == boundary' = [boundary EXCEPT ![a] = NoBoundary]

Allowed(a, c) == Sandboxed(a) /\ c \in boundary[a]

SandboxTypeOK == boundary \in [Agents -> (SUBSET Capability) \cup {NoBoundary}]
=============================================================================
