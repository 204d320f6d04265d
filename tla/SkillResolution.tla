--------------------------- MODULE SkillResolution ---------------------------
(***************************************************************************)
(* DependencyResolver of crates/skills: a depth-first walk over the        *)
(* dependencies of a skill, its recursion kept as a stack of frames.  Only *)
(* dependencies on skills count.  optional changes a log line only: a      *)
(* missing optional dependency fails the resolution like any other, so the *)
(* flag is left out, and so are version and fallback, which are not read.  *)
(***************************************************************************)
EXTENDS Naturals, Sequences

CONSTANTS Skills,
          DependencyLists     (* lists of dependencies a skill may have     *)

ASSUME ResolutionAssumption == DependencyLists \subseteq Seq(Skills)

VARIABLES deps,         (* Skills -> its dependencies, in order             *)
          registered,   (* the skills the registry holds                    *)
          stack,        (* frames [skill, done]: dependencies dealt with    *)
          visiting, resolved,
          resolution,   (* "idle", "running", "ok", "missing" or "cycle"    *)
          root          (* history: the skill whose resolution was asked    *)

resolutionVars ==
    << deps, registered, stack, visiting, resolved, resolution, root >>

Frame(s) == [skill |-> s, done |-> 0]

Top == stack[Len(stack)]

Popped == SubSeq(stack, 1, Len(stack) - 1)

TopAdvanced == Append(Popped, [Top EXCEPT !.done = @ + 1])

ResolutionInit ==
    /\ deps = [s \in Skills |-> << >>]
    /\ registered = {}
    /\ stack = << >> /\ visiting = {} /\ resolved = {}
    /\ resolution = "idle"
    /\ root = "None"

DependsOnNothing == \A s \in Skills : deps[s] = << >>

(* Loading skills is the registry's business; here any registry may come.  *)
LoadSkills ==
    /\ resolution = "idle" /\ registered = {} /\ DependsOnNothing
    /\ deps' \in [Skills -> DependencyLists]
    /\ registered' \in SUBSET Skills
    /\ UNCHANGED << stack, visiting, resolved, resolution, root >>

Resolve(s) ==
    /\ resolution = "idle"
    /\ root' = s
    /\ stack' = << Frame(s) >>
    /\ visiting' = {s}
    /\ resolution' = "running"
    /\ UNCHANGED << deps, registered, resolved >>

Walking == resolution = "running" /\ stack # << >>

HasDependency == Walking /\ Top.done < Len(deps[Top.skill])

Dependency == deps[Top.skill][Top.done + 1]

Stop(reason) ==
    /\ resolution' = reason
    /\ UNCHANGED << deps, registered, stack, visiting, resolved, root >>

MissingDependency == HasDependency /\ Dependency \notin registered /\ Stop("missing")

CircularDependency ==
    /\ HasDependency
    /\ Dependency \in registered /\ Dependency \in visiting
    /\ Stop("cycle")

SkipResolved ==
    /\ HasDependency
    /\ Dependency \in registered \ visiting
    /\ Dependency \in resolved
    /\ stack' = TopAdvanced
    /\ UNCHANGED << deps, registered, visiting, resolved, resolution, root >>

Descend ==
    /\ HasDependency
    /\ Dependency \in registered \ visiting
    /\ Dependency \notin resolved
    /\ resolved' = resolved \cup {Dependency}
    /\ visiting' = visiting \cup {Dependency}
    /\ stack' = Append(TopAdvanced, Frame(Dependency))
    /\ UNCHANGED << deps, registered, resolution, root >>

(* Mutant: a skill that has been dealt with still counts as being visited. *)
StillVisiting == visiting

Visited == visiting \ {Top.skill}

Return ==
    /\ Walking /\ ~HasDependency
    /\ stack' = Popped
    /\ visiting' = Visited
    /\ resolution' = IF Len(stack) = 1 THEN "ok" ELSE "running"
    /\ UNCHANGED << deps, registered, resolved, root >>

ResolutionNext ==
    \/ LoadSkills
    \/ \E s \in Skills : Resolve(s)
    \/ MissingDependency \/ CircularDependency
    \/ SkipResolved \/ Descend \/ Return

-----------------------------------------------------------------------------

DependsOn(s) == { deps[s][i] : i \in DOMAIN deps[s] }

Closed(set) == \A s \in set : DependsOn(s) \subseteq set

(* All that s depends on, directly or not. *)
Required(s) == { d \in Skills :
    \A set \in SUBSET Skills : Closed(set) /\ DependsOn(s) \subseteq set => d \in set }

Reachable(s) == {s} \cup Required(s)

(***************************************************************************)
(* A resolution that has come to an end says what is the case of the whole *)
(* graph below its root: it succeeds exactly when everything required is   *)
(* registered and nothing required requires itself, then with everything   *)
(* required and nothing else; otherwise its reason is a true one.          *)
(***************************************************************************)
ResolutionIsRight ==
    resolution \notin {"idle", "running"} =>
        LET missing == ~(Required(root) \subseteq registered)
            cyclic == \E s \in Reachable(root) : s \in Required(s)
        IN  /\ resolution = "ok" => ~missing /\ ~cyclic /\ resolved = Required(root)
            /\ resolution = "missing" => missing
            /\ resolution = "cycle" => cyclic
=============================================================================
