----------------------------- MODULE Decisions -------------------------------
(***************************************************************************)
(* The decision procedures that share nothing: how a retry waits, what a   *)
(* skill depends on, what the policies say, how healthy the system is, and *)
(* what the security gates let through; and what the audit ledger verifies.*)
(* Each behaviour is about one of them, as in Services.                    *)
(***************************************************************************)
EXTENDS RetryPolicy, SkillResolution, PolicyEngine, HealthSweep,
        SecurityGates, AuditLedger

VARIABLE focus

decisionVars == << focus, retryVars, resolutionVars, policyVars, healthVars,
                   gateVars, ledgerVars >>

Procedures == {"retry", "resolution", "policy", "health", "gates", "ledger"}

DecisionsInit ==
    /\ focus \in Procedures
    /\ RetryInit /\ ResolutionInit /\ PolicyInit /\ HealthInit /\ GatesInit
    /\ LedgerInit
    /\ focus # "policy" => policies = WithDefaults
    /\ focus # "gates" => allowed = {"file_read"} /\ guarding /\ scanning

RetryStep ==
    /\ focus = "retry" /\ RetryNext
    /\ UNCHANGED << focus, resolutionVars, policyVars, healthVars, gateVars,
                    ledgerVars >>

ResolutionStep ==
    /\ focus = "resolution" /\ ResolutionNext
    /\ UNCHANGED << focus, retryVars, policyVars, healthVars, gateVars,
                    ledgerVars >>

PolicyStep ==
    /\ focus = "policy" /\ PolicyNext
    /\ UNCHANGED << focus, retryVars, resolutionVars, healthVars, gateVars,
                    ledgerVars >>

HealthStep ==
    /\ focus = "health" /\ HealthNext
    /\ UNCHANGED << focus, retryVars, resolutionVars, policyVars, gateVars,
                    ledgerVars >>

GateStep ==
    /\ focus = "gates" /\ GatesNext
    /\ UNCHANGED << focus, retryVars, resolutionVars, policyVars, healthVars,
                    ledgerVars >>

LedgerStep ==
    /\ focus = "ledger" /\ LedgerNext
    /\ UNCHANGED << focus, retryVars, resolutionVars, policyVars, healthVars,
                    gateVars >>

DecisionsNext ==
    RetryStep \/ ResolutionStep \/ PolicyStep \/ HealthStep \/ GateStep \/ LedgerStep

DecisionsSpec == DecisionsInit /\ [][DecisionsNext]_decisionVars
=============================================================================
