---------------------------- MODULE TrustKernel ----------------------------
(***************************************************************************)
(* The trust kernel of crates/kernel: one TrustRecord per registered agent,*)
(* with a score and the level CACHED from it.  Scores are f64 in [0, 1] in *)
(* the code; here they are twentieths, a grid that holds every threshold   *)
(* the kernel compares a score with.  A decayed score is rounded to the    *)
(* grid either way.                                                        *)
(***************************************************************************)
EXTENDS Integers

CONSTANTS Agents,                 (* agent ids: AgentId::new never repeats one *)
          InitialScore,           (* initial_score, in twentieths              *)
          Deltas,                 (* amounts callers reinforce and penalize by *)
          DecayNum, DecayDen      (* decay_factor, clamped to [0, 1]           *)

ASSUME TrustAssumption ==
    /\ InitialScore \in 0 .. 20
    /\ Deltas \subseteq Nat
    /\ DecayNum \in Nat /\ DecayDen \in Nat \ {0} /\ DecayNum <= DecayDen

VARIABLES score,      (* record.score                                      *)
          level,      (* record.level; "None" for an agent without record  *)
          attested    (* record.attestation.trust_level, or "None"         *)

trustVars == << score, level, attested >>

One == 20

TrustLevel == {"Unverified", "Probationary", "Standard", "Elevated", "Sovereign"}

(* TrustLevel::min_score *)
MinScore == [Unverified |-> 0, Probationary |-> 4, Standard |-> 10,
             Elevated |-> 15, Sovereign |-> 19]

(* TrustScore::level *)
Level(s) ==
    IF s >= 19 THEN "Sovereign"
    ELSE IF s >= 15 THEN "Elevated"
    ELSE IF s >= 10 THEN "Standard"
    ELSE IF s >= 4 THEN "Probationary"
    ELSE "Unverified"

AtLeast(l, m) == MinScore[l] >= MinScore[m]

Registered(a) == level[a] # "None"

Raised(s, d) == IF s + d <= One THEN s + d ELSE One
Lowered(s, d) == IF s >= d THEN s - d ELSE 0
Decayed(s) == (s * DecayNum) \div DecayDen .. (s * DecayNum + DecayDen - 1) \div DecayDen

-----------------------------------------------------------------------------

TrustInit ==
    /\ score = [a \in Agents |-> 0]
    /\ level = [a \in Agents |-> "None"]
    /\ attested = [a \in Agents |-> "None"]

SetScore(a, s) ==
    /\ score' = [score EXCEPT ![a] = s]
    /\ level' = [level EXCEPT ![a] = Level(s)]

(* Registering again replaces the record. *)
Register(a) ==
    /\ SetScore(a, InitialScore)
    /\ attested' = [attested EXCEPT ![a] = "None"]

Reinforce(a, d) ==
    /\ Registered(a)
    /\ SetScore(a, Raised(score[a], d))
    /\ UNCHANGED attested

Penalize(a, d) ==
    /\ Registered(a)
    /\ SetScore(a, Lowered(score[a], d))
    /\ UNCHANGED attested

(* Mutant: decay keeps the cached levels. *)
LevelsKept == UNCHANGED level

LevelsRefreshed ==
    level' = [a \in Agents |-> IF Registered(a) THEN Level(score'[a]) ELSE "None"]

(* One pass over all the records. *)
ApplyDecay ==
    /\ score' \in [Agents -> 0 .. One]
    /\ \A a \in Agents : IF Registered(a) THEN score'[a] \in Decayed(score[a])
                                          ELSE score'[a] = score[a]
    /\ LevelsRefreshed
    /\ UNCHANGED attested

Attest(a) ==
    /\ Registered(a)
    /\ attested' = [attested EXCEPT ![a] = level[a]]
    /\ UNCHANGED << score, level >>

ScoreMoves ==
    \/ \E a \in Agents, d \in Deltas : Reinforce(a, d) \/ Penalize(a, d)
    \/ ApplyDecay

-----------------------------------------------------------------------------

TrustTypeOK ==
    /\ score \in [Agents -> 0 .. One]
    /\ level \in [Agents -> TrustLevel \cup {"None"}]
    /\ attested \in [Agents -> TrustLevel \cup {"None"}]

(***************************************************************************)
(* The cached level is never stale: every update of a score, the bulk decay*)
(* included, re-derives the level that spawning and sandboxing consult.    *)
(***************************************************************************)
LevelMatchesScore == \A a \in Agents : Registered(a) => level[a] = Level(score[a])
=============================================================================
