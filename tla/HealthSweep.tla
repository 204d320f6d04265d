----------------------------- MODULE HealthSweep -----------------------------
(***************************************************************************)
(* HealthRegistry::aggregate_status (crates/resilience): the registered    *)
(* checks are awaited one after another, while the components go on        *)
(* changing, and the answer is made from statuses of different moments.    *)
(* HealthReport::from_components (crates/kernel) counts instead.           *)
(***************************************************************************)
EXTENDS Naturals, Sequences, FiniteSets, SequencesExt

CONSTANT Checked           (* components, each registered once             *)

Statuses == {"Healthy", "Degraded", "Unhealthy"}

VARIABLES status,          (* external: the state each component is in     *)
          checks,          (* HealthRegistry.checks                        *)
          reports,         (* results of the sweep so far                  *)
          aggregate,       (* "None", "Sweeping" or the answer             *)
          worst, best      (* history: statuses seen since the sweep began *)

healthVars == << status, checks, reports, aggregate, worst, best >>

HealthInit ==
    /\ status = [c \in Checked |-> "Healthy"]
    /\ checks = << >> /\ reports = << >>
    /\ aggregate = "None"
    /\ worst = {} /\ best = {}

Sweeping == aggregate = "Sweeping"

RegisterCheck(c) ==
    /\ ~Sweeping /\ c \notin ToSet(checks)
    /\ checks' = Append(checks, c)
    /\ UNCHANGED << status, reports, aggregate, worst, best >>

(* worst: unhealthy all along; best: healthy at some moment. *)
StatusChanges(c, new) ==
    /\ status' = [status EXCEPT ![c] = new]
    /\ worst' = IF new = "Unhealthy" THEN worst ELSE worst \ {c}
    /\ best' = IF Sweeping /\ new = "Healthy" THEN best \cup {c} ELSE best
    /\ UNCHANGED << checks, reports, aggregate >>

BeginSweep ==
    /\ ~Sweeping
    /\ aggregate' = "Sweeping"
    /\ reports' = << >>
    /\ worst' = { c \in Checked : status[c] = "Unhealthy" }
    /\ best' = { c \in Checked : status[c] = "Healthy" }
    /\ UNCHANGED << status, checks >>

CheckNext ==
    /\ Sweeping /\ Len(reports) < Len(checks)
    /\ reports' = Append(reports, status[checks[Len(reports) + 1]])
    /\ UNCHANGED << status, checks, aggregate, worst, best >>

(* Mutant: degraded before unhealthy. *)
AggregateMildest(statuses) ==
    IF "Degraded" \in statuses THEN "Degraded"
    ELSE IF "Unhealthy" \in statuses THEN "Unhealthy" ELSE "Healthy"

Aggregate(statuses) ==
    IF "Unhealthy" \in statuses THEN "Unhealthy"
    ELSE IF "Degraded" \in statuses THEN "Degraded" ELSE "Healthy"

(* HealthRegistry::is_healthy asks for nothing else. *)
IsHealthy(statuses) == statuses \subseteq {"Healthy"}

(* The kernel's report of the same results. *)
FromComponents(results) ==
    LET count(s) == Cardinality({ i \in DOMAIN results : results[i] = s })
    IN  [system_status |-> IF count("Unhealthy") > 0 THEN "Unhealthy"
                           ELSE IF count("Degraded") > 0 THEN "Degraded" ELSE "Healthy",
         total |-> count("Healthy") + count("Degraded") + count("Unhealthy")]

(* SystemHealth: the kernel's parts, each known to work or not. *)
KernelParts == << "trust_kernel", "policy_engine", "agent_runtime",
                  "sandbox", "guard", "audit_ledger" >>
ComponentHealth(ok) == IF ok THEN "Healthy" ELSE "Unhealthy"

SystemReport(ok) ==
    FromComponents([i \in DOMAIN KernelParts |-> ComponentHealth(ok[KernelParts[i]])])

EndSweep ==
    /\ Sweeping /\ Len(reports) = Len(checks)
    /\ aggregate' = Aggregate(ToSet(reports))
    /\ UNCHANGED << status, checks, reports, worst, best >>

HealthNext ==
    \/ \E c \in Checked : RegisterCheck(c) \/ \E new \in Statuses : StatusChanges(c, new)
    \/ BeginSweep \/ CheckNext \/ EndSweep

-----------------------------------------------------------------------------

(***************************************************************************)
(* The answer of a sweep, whose statuses never held together: Healthy      *)
(* still means that every component checked was healthy at some moment of  *)
(* it, and a component unhealthy all along makes it Unhealthy.  is_healthy *)
(* and the kernel's report, made otherwise, agree with it; and the report  *)
(* of the kernel's own parts is never Degraded and counts every part.      *)
(***************************************************************************)
SweepIsFair ==
    [][EndSweep =>
        /\ aggregate' = "Healthy" => ToSet(checks) \subseteq best
        /\ worst \cap ToSet(checks) # {} => aggregate' = "Unhealthy"
        /\ IsHealthy(ToSet(reports)) <=> aggregate' = "Healthy"
        /\ FromComponents(reports) =
              [system_status |-> aggregate', total |-> Len(checks)]
        /\ \A ok \in [ToSet(KernelParts) -> BOOLEAN] :
              SystemReport(ok) = [system_status |-> ComponentHealth(\A p \in DOMAIN ok : ok[p]),
                                  total |-> Len(KernelParts)]]_healthVars
=============================================================================
