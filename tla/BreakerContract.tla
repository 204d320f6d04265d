--------------------------- MODULE BreakerContract --------------------------
(***************************************************************************)
(* What a circuit breaker promises to those who watch it from outside: the *)
(* state diagram of the documentation (DIAGRAMS.md section 21) with its    *)
(* labels taken seriously.  Tripping takes MaxFailures failures in a row,  *)
(* closing takes MinProbes successes counted in one half-open period, and  *)
(* an open circuit stays open until it has cooled down.  Nothing here      *)
(* knows of callers, retries, clocks or locks.                             *)
(***************************************************************************)
EXTENDS Naturals

CONSTANTS MaxFailures, MinProbes

VARIABLES phase,      (* the CircuitState                                  *)
          failures,   (* failures in a row, while closed                   *)
          probes,     (* successes counted, while half-open                *)
          cooled,     (* the recovery timeout has elapsed, while open      *)
          forced      (* the operator put the circuit in this phase        *)

contractVars == << phase, failures, probes, cooled, forced >>

ContractInit ==
    /\ phase = "Closed"
    /\ failures = 0 /\ probes = 0
    /\ cooled = FALSE /\ forced = FALSE

Enter(p, byHand) ==
    /\ phase' = p
    /\ failures' = 0 /\ probes' = 0
    /\ cooled' = FALSE /\ forced' = byHand

CountFailure ==
    /\ phase = "Closed" /\ failures + 1 < MaxFailures
    /\ failures' = failures + 1
    /\ UNCHANGED << phase, probes, cooled, forced >>

Trip == phase = "Closed" /\ failures + 1 >= MaxFailures /\ Enter("Open", FALSE)

ForgetCounts ==
    /\ failures' = 0 /\ probes' = 0
    /\ UNCHANGED << phase, cooled, forced >>

(* Time cools an open circuit down; a late failure warms it up again. *)
Cool == phase = "Open" /\ cooled' \in BOOLEAN
        /\ UNCHANGED << phase, failures, probes, forced >>

HalfOpens == phase = "Open" /\ cooled /\ Enter("HalfOpen", FALSE)

CountProbe ==
    /\ phase = "HalfOpen" /\ probes + 1 < MinProbes
    /\ probes' = probes + 1
    /\ UNCHANGED << phase, failures, cooled, forced >>

Closes == phase = "HalfOpen" /\ probes + 1 >= MinProbes /\ Enter("Closed", FALSE)

Reopens == phase = "HalfOpen" /\ Enter("Open", FALSE)

(* force_open and force_closed, at any time. *)
Override == Enter("Open", TRUE) \/ Enter("Closed", TRUE)

ContractNext ==
    \/ CountFailure \/ Trip \/ ForgetCounts \/ Cool
    \/ HalfOpens \/ CountProbe \/ Closes \/ Reopens
    \/ Override

ContractSpec == ContractInit /\ [][ContractNext]_contractVars
=============================================================================
