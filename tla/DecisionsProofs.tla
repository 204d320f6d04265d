--------------------------- MODULE DecisionsProofs ---------------------------
(***************************************************************************)
(* That the walk over dependencies is right about every graph of skills    *)
(* and a sweep of health checks about any number of components; how long a *)
(* retried call takes and how its delays grow; that priority decides among *)
(* any policies; and that the gates follow their rules for every address.  *)
(***************************************************************************)
EXTENDS Decisions, ListLemmas, FiniteSetTheorems, TLAPS

-----------------------------------------------------------------------------
(* What a skill requires *)

GraphOK == deps \in [Skills -> Seq(Skills)] /\ registered \subseteq Skills

LEMMA DependenciesAreSkills ==
    ASSUME GraphOK, NEW s \in Skills PROVE DependsOn(s) \subseteq Skills
BY DEF GraphOK, DependsOn

LEMMA DirectlyRequired ==
    ASSUME GraphOK, NEW s \in Skills PROVE DependsOn(s) \subseteq Required(s)
BY DependenciesAreSkills DEF Required

LEMMA RequiredTransitive ==
    ASSUME NEW s, NEW d \in Required(s), NEW e \in Required(d)
    PROVE  e \in Required(s)
BY DEF Required, Closed

LEMMA RequiredWithin ==
    ASSUME NEW set \in SUBSET Skills, Closed(set), NEW s, DependsOn(s) \subseteq set
    PROVE  Required(s) \subseteq set
BY DEF Required

-----------------------------------------------------------------------------
(* The walk *)

Frames == [skill : Skills, done : Nat]

(* Skills the walk is done with: all they depend on is dealt with too, and *)
(* none requires itself.                                                   *)
Dealt == resolved \ visiting

DealtInv ==
    /\ resolved \subseteq Required(root) \cap registered
    /\ root \notin resolved
    /\ \A d \in Dealt : DependsOn(d) \subseteq Dealt /\ d \notin Required(d)

(* The stack is a path: each skill on it requires those above, and what a  *)
(* frame is done with has been dealt with or is the frame above it.        *)
StackInv ==
    /\ stack \in Seq(Frames) /\ stack # << >>
    /\ stack[1].skill = root
    /\ visiting = { stack[i].skill : i \in 1 .. Len(stack) }
    /\ visiting \ {root} \subseteq resolved
    /\ \A i, j \in 1 .. Len(stack) : i < j =>
          /\ stack[i].skill # stack[j].skill
          /\ stack[j].skill \in Required(stack[i].skill)

FrameOK(i) ==
    /\ stack[i].done <= Len(deps[stack[i].skill])
    /\ \A k \in 1 .. stack[i].done :
          \/ deps[stack[i].skill][k] \in Dealt
          \/ i < Len(stack) /\ deps[stack[i].skill][k] = stack[i + 1].skill

ResolutionInv ==
    /\ GraphOK
    /\ resolution \in {"idle", "running", "ok", "missing", "cycle"}
    /\ resolution = "idle" => resolved = {}
    /\ resolution = "running" =>
          DealtInv /\ StackInv /\ \A i \in 1 .. Len(stack) : FrameOK(i)
    /\ ResolutionIsRight

LEMMA ResolutionStart == DecisionsInit => ResolutionInv
BY DEF DecisionsInit, ResolutionInit, ResolutionInv, GraphOK, ResolutionIsRight

LEMMA StackFacts ==
    ASSUME stack \in Seq(Frames), stack # << >>
    PROVE  /\ Len(stack) \in Nat \ {0} /\ Top \in Frames
           /\ \A i \in 1 .. Len(stack) : stack[i] \in Frames
           /\ Popped \in Seq(Frames) /\ Len(Popped) = Len(stack) - 1
           /\ \A i \in 1 .. Len(stack) - 1 : Popped[i] = stack[i]
           /\ TopAdvanced \in Seq(Frames) /\ Len(TopAdvanced) = Len(stack)
           /\ \A i \in 1 .. Len(stack) - 1 : TopAdvanced[i] = stack[i]
           /\ TopAdvanced[Len(stack)].skill = Top.skill
           /\ TopAdvanced[Len(stack)].done = Top.done + 1
<1> DEFINE advanced == [Top EXCEPT !.done = @ + 1]
<1>1. Len(stack) \in Nat \ {0} /\ Top \in Frames
  BY DEF Top
<1>2. /\ Popped \in Seq(Frames) /\ Len(Popped) = Len(stack) - 1
      /\ \A i \in 1 .. Len(stack) - 1 : Popped[i] = stack[i]
  <2>1. Popped = [i \in 1 .. Len(stack) - 1 |-> stack[i]]
    BY <1>1 DEF Popped
  <2> QED
    BY <1>1, <2>1
<1>3. advanced \in Frames /\ advanced.skill = Top.skill /\ advanced.done = Top.done + 1
  BY <1>1 DEF Frames
<1>4. TopAdvanced = Append(Popped, advanced)
  BY DEF TopAdvanced
<1> HIDE DEF advanced
<1>5. /\ TopAdvanced \in Seq(Frames) /\ Len(TopAdvanced) = Len(stack)
      /\ \A i \in 1 .. Len(stack) - 1 : TopAdvanced[i] = stack[i]
      /\ TopAdvanced[Len(stack)] = advanced
  BY <1>1, <1>2, <1>3, <1>4
<1> QED
  BY <1>1, <1>2, <1>3, <1>5

(* The dependency looked at is required by the root and by the whole path. *)
LEMMA DependencyFacts ==
    ASSUME ResolutionInv, HasDependency
    PROVE  /\ DealtInv /\ StackInv /\ Top \in Frames /\ Dependency \in Skills
           /\ Dependency \in DependsOn(Top.skill)
           /\ \A i \in 1 .. Len(stack) : Dependency \in Required(stack[i].skill)
           /\ Dependency \in Required(root)
<1>1. GraphOK /\ DealtInv /\ StackInv
  BY DEF HasDependency, Walking, ResolutionInv
<1>2. Len(stack) \in Nat \ {0} /\ Top \in Frames
  BY <1>1, StackFacts DEF StackInv
<1>3. /\ Top.skill \in Skills /\ Top.done \in Nat /\ deps[Top.skill] \in Seq(Skills)
      /\ Top.done + 1 \in 1 .. Len(deps[Top.skill])
  BY <1>1, <1>2 DEF Frames, GraphOK, HasDependency
<1>4. Dependency \in Skills /\ Dependency \in DependsOn(Top.skill)
  BY <1>3 DEF Dependency, DependsOn
<1>5. Dependency \in Required(Top.skill)
  BY <1>1, <1>3, <1>4, DirectlyRequired
<1>6. ASSUME NEW i \in 1 .. Len(stack) PROVE Dependency \in Required(stack[i].skill)
  <2>1. CASE i = Len(stack)
    BY <1>5, <2>1 DEF Top
  <2>2. CASE i < Len(stack)
    <3>1. Top.skill \in Required(stack[i].skill)
      BY <1>1, <1>2, <2>2 DEF StackInv, Top
    <3> QED
      BY <1>5, <3>1, RequiredTransitive
  <2> QED
    BY <1>2, <1>6, <2>1, <2>2
<1>7. 1 \in 1 .. Len(stack) /\ stack[1].skill = root
  BY <1>1, <1>2 DEF StackInv
<1> QED
  BY <1>1, <1>2, <1>4, <1>6, <1>7

(* The graph is fixed, and with it who requires whom.                      *)
LEMMA GraphFixed ==
    ASSUME UNCHANGED << deps, registered >>
    PROVE  /\ GraphOK' <=> GraphOK
           /\ \A s : DependsOn(s)' = DependsOn(s) /\ Required(s)' = Required(s)
BY DEF GraphOK, Required, Closed, DependsOn

(* A step that touches only what lies off the walk.                        *)
LEMMA OthersKeepResolution ==
    ResolutionInv /\ UNCHANGED resolutionVars => ResolutionInv'
<1> SUFFICES ASSUME ResolutionInv, UNCHANGED resolutionVars PROVE ResolutionInv'
  OBVIOUS
<1>1. UNCHANGED << deps, registered, stack, visiting, resolved, resolution, root >>
  BY DEF resolutionVars
<1>2. (GraphOK' <=> GraphOK) /\ \A s : DependsOn(s)' = DependsOn(s) /\ Required(s)' = Required(s)
  BY <1>1, GraphFixed
<1>3. DealtInv' <=> DealtInv
  BY <1>1, <1>2 DEF DealtInv, Dealt
<1>4. StackInv' <=> StackInv
  BY <1>1, <1>2 DEF StackInv
<1>5. \A i : FrameOK(i)' <=> FrameOK(i)
  BY <1>1 DEF FrameOK, Dealt
<1>6. ResolutionIsRight' <=> ResolutionIsRight
  BY <1>1, <1>2 DEF ResolutionIsRight, Reachable
<1> QED
  BY <1>1, <1>2, <1>3, <1>4, <1>5, <1>6 DEF ResolutionInv

LEMMA StopIsRight ==
    ASSUME ResolutionInv, MissingDependency \/ CircularDependency
    PROVE  ResolutionInv'
<1>1. HasDependency /\ UNCHANGED << deps, registered, stack, visiting, resolved, root >>
  BY DEF MissingDependency, CircularDependency, Stop
<1>2. /\ DealtInv /\ StackInv /\ Dependency \in Skills
      /\ Dependency \in Required(root)
      /\ \A i \in 1 .. Len(stack) : Dependency \in Required(stack[i].skill)
  BY <1>1, DependencyFacts
<1>3. GraphOK' /\ \A s : DependsOn(s)' = DependsOn(s) /\ Required(s)' = Required(s)
  BY <1>1, GraphFixed DEF ResolutionInv
<1>4. CASE MissingDependency
  <2>1. resolution' = "missing" /\ Dependency \notin registered
    BY <1>4 DEF MissingDependency, Stop
  <2>2. ~ (Required(root) \subseteq registered)'
    BY <1>1, <1>2, <1>3, <2>1
  <2>3. ResolutionIsRight'
    BY <2>1, <2>2 DEF ResolutionIsRight
  <2> QED
    BY <1>3, <2>1, <2>3 DEF ResolutionInv
<1>5. CASE CircularDependency
  <2>1. resolution' = "cycle" /\ Dependency \in visiting
    BY <1>5 DEF CircularDependency, Stop
  <2>2. PICK i \in 1 .. Len(stack) : Dependency = stack[i].skill
    BY <1>2, <2>1 DEF StackInv
  <2>3. Dependency \in Required(Dependency) /\ Dependency \in Reachable(root)
    BY <1>2, <2>2 DEF Reachable
  <2>4. (\E s \in Reachable(root) : s \in Required(s))'
    BY <1>1, <1>3, <2>3 DEF Reachable
  <2>5. ResolutionIsRight'
    BY <2>1, <2>4 DEF ResolutionIsRight
  <2> QED
    BY <1>3, <2>1, <2>5 DEF ResolutionInv
<1> QED
  BY <1>4, <1>5

LEMMA LoadKeepsResolution ==
    ASSUME ResolutionInv, LoadSkills PROVE ResolutionInv'
<1>1. /\ resolution = "idle" /\ UNCHANGED << resolved, resolution >>
      /\ GraphOK'
  BY ResolutionAssumption DEF LoadSkills, GraphOK
<1> QED
  BY <1>1 DEF ResolutionInv, ResolutionIsRight

LEMMA ResolveKeepsResolution ==
    ASSUME ResolutionInv, NEW s \in Skills, Resolve(s) PROVE ResolutionInv'
<1>1. /\ resolution = "idle" /\ resolved = {} /\ root' = s /\ resolved' = {}
      /\ visiting' = {s} /\ resolution' = "running" /\ UNCHANGED << deps, registered >>
  BY DEF Resolve, ResolutionInv
<1>2. stack' = << Frame(s) >> /\ Frame(s) \in Frames /\ Frame(s).skill = s /\ Frame(s).done = 0
  BY DEF Resolve, Frame, Frames
<1>3. stack' \in Seq(Frames) /\ stack' # << >> /\ Len(stack') = 1 /\ stack'[1] = Frame(s)
  BY <1>2
<1>4. GraphOK'
  BY <1>1, GraphFixed DEF ResolutionInv
<1>5. DealtInv'
  BY <1>1 DEF DealtInv, Dealt
<1>6. StackInv'
  BY <1>1, <1>2, <1>3 DEF StackInv
<1>7. \A i \in (1 .. Len(stack))' : FrameOK(i)'
  <2>1. deps'[s] \in Seq(Skills)
    BY <1>4 DEF GraphOK
  <2> QED
    BY <1>2, <1>3, <2>1 DEF FrameOK
<1> QED
  BY <1>1, <1>4, <1>5, <1>6, <1>7 DEF ResolutionInv, ResolutionIsRight

(* The frames below the top of the walk only look at Dealt and each other. *)
LEMMA SkipKeepsResolution ==
    ASSUME ResolutionInv, SkipResolved PROVE ResolutionInv'
<1> DEFINE n == Len(stack)
<1>1. /\ HasDependency /\ Dependency \in resolved \ visiting
      /\ stack' = TopAdvanced
      /\ UNCHANGED << deps, registered, visiting, resolved, resolution, root >>
  BY DEF SkipResolved
<1>2. DealtInv /\ StackInv /\ resolution = "running" /\ (\A i \in 1 .. n : FrameOK(i)) /\ GraphOK
  BY <1>1 DEF HasDependency, Walking, ResolutionInv
<1>3. /\ n \in Nat \ {0} /\ Top \in Frames /\ \A i \in 1 .. n : stack[i] \in Frames
      /\ stack' \in Seq(Frames) /\ Len(stack') = n
      /\ \A i \in 1 .. n - 1 : stack'[i] = stack[i]
      /\ stack'[n].skill = Top.skill /\ stack'[n].done = Top.done + 1
  BY <1>1, <1>2, StackFacts DEF StackInv
<1>4. (GraphOK' <=> GraphOK) /\ \A s : DependsOn(s)' = DependsOn(s) /\ Required(s)' = Required(s)
  BY <1>1, GraphFixed
<1>5. DealtInv' /\ Dealt' = Dealt
  BY <1>1, <1>2, <1>4 DEF DealtInv, Dealt
<1>6. \A i \in 1 .. n : stack'[i].skill = stack[i].skill
  BY <1>3 DEF Top
<1>7. StackInv'
  <2>1. stack' # << >> /\ stack'[1].skill = root' /\ (visiting \ {root} \subseteq resolved)'
    BY <1>1, <1>2, <1>3, <1>6 DEF StackInv
  <2>2. visiting' = { stack'[i].skill : i \in 1 .. n }
    BY <1>1, <1>2, <1>6 DEF StackInv
  <2>3. \A i, j \in 1 .. n : i < j => /\ stack'[i].skill # stack'[j].skill
                                      /\ stack'[j].skill \in Required(stack'[i].skill)
    BY <1>2, <1>6 DEF StackInv
  <2>4. \A i, j : (stack[j].skill \in Required(stack[i].skill))'
                     <=> stack'[j].skill \in Required(stack'[i].skill)
    BY <1>1 DEF Required, Closed, DependsOn
  <2> QED
    BY <1>3, <2>1, <2>2, <2>3, <2>4 DEF StackInv
<1>8. ASSUME NEW i \in 1 .. n PROVE FrameOK(i)'
  <2>1. CASE i < n
    <3>1. stack'[i] = stack[i] /\ stack'[i + 1].skill = stack[i + 1].skill
      BY <1>3, <1>6, <2>1
    <3> QED
      BY <1>1, <1>2, <1>3, <1>5, <3>1 DEF FrameOK
  <2>2. CASE i = n
    <3>1. /\ Top.done \in Nat /\ Top.skill \in Skills /\ deps[Top.skill] \in Seq(Skills)
          /\ Top.done + 1 <= Len(deps[Top.skill])
          /\ deps[Top.skill][Top.done + 1] \in Dealt
      BY <1>1, <1>2, <1>3 DEF HasDependency, Dependency, Dealt, Frames, GraphOK
    <3>2. \A k \in 1 .. Top.done : deps[Top.skill][k] \in Dealt
      BY <1>2, <1>3 DEF FrameOK, Top
    <3>3. \A k \in 1 .. Top.done + 1 : deps[Top.skill][k] \in Dealt
      BY <3>1, <3>2
    <3> QED
      BY <1>1, <1>3, <1>5, <2>2, <3>1, <3>3 DEF FrameOK
  <2> QED
    BY <1>3, <1>8, <2>1, <2>2
<1>9. ResolutionIsRight'
  BY <1>1, <1>2 DEF ResolutionIsRight
<1> QED
  BY <1>1, <1>2, <1>3, <1>4, <1>5, <1>7, <1>8, <1>9 DEF ResolutionInv

LEMMA DescendKeepsResolution ==
    ASSUME ResolutionInv, Descend PROVE ResolutionInv'
<1> DEFINE n == Len(stack)
           d == Dependency
<1>1. /\ HasDependency /\ d \in registered \ visiting /\ d \notin resolved
      /\ resolved' = resolved \cup {d} /\ visiting' = visiting \cup {d}
      /\ stack' = Append(TopAdvanced, Frame(d))
      /\ UNCHANGED << deps, registered, resolution, root >>
  BY DEF Descend
<1>2. DealtInv /\ StackInv /\ resolution = "running" /\ (\A i \in 1 .. n : FrameOK(i)) /\ GraphOK
  BY <1>1 DEF HasDependency, Walking, ResolutionInv
<1>3. /\ d \in Skills /\ d \in Required(root)
      /\ \A i \in 1 .. n : d \in Required(stack[i].skill)
  BY <1>1, DependencyFacts
<1>4. Frame(d) \in Frames /\ Frame(d).skill = d /\ Frame(d).done = 0
  BY <1>3 DEF Frame, Frames
<1>5. /\ n \in Nat \ {0} /\ Top \in Frames /\ \A i \in 1 .. n : stack[i] \in Frames
      /\ TopAdvanced \in Seq(Frames) /\ Len(TopAdvanced) = n
      /\ \A i \in 1 .. n - 1 : TopAdvanced[i] = stack[i]
      /\ TopAdvanced[n].skill = Top.skill /\ TopAdvanced[n].done = Top.done + 1
  BY <1>2, StackFacts DEF StackInv
<1>6. /\ stack' \in Seq(Frames) /\ Len(stack') = n + 1 /\ stack' # << >>
      /\ \A i \in 1 .. n - 1 : stack'[i] = stack[i]
      /\ stack'[n].skill = Top.skill /\ stack'[n].done = Top.done + 1
      /\ stack'[n + 1].skill = d /\ stack'[n + 1].done = 0
  BY <1>1, <1>4, <1>5
<1>7. \A i \in 1 .. n : stack'[i].skill = stack[i].skill
  <2>1. Top = stack[n]
    BY DEF Top
  <2>2. ASSUME NEW i \in 1 .. n, i # n PROVE stack'[i] = stack[i]
    BY <1>5, <1>6, <2>2
  <2> QED BY <1>6, <2>1, <2>2
<1>8. (GraphOK' <=> GraphOK) /\ \A s : DependsOn(s)' = DependsOn(s) /\ Required(s)' = Required(s)
  BY <1>1, GraphFixed
<1>9. Dealt' = Dealt
  BY <1>1 DEF Dealt
<1>10. DealtInv'
  <2>1. root \in visiting
    BY <1>2, <1>5 DEF StackInv
  <2>2. resolved' \subseteq Required(root) \cap registered /\ root \notin resolved'
    BY <1>1, <1>2, <1>3, <2>1 DEF DealtInv
  <2>3. \A e \in Dealt' : DependsOn(e)' \subseteq Dealt' /\ e \notin Required(e)'
    BY <1>2, <1>8, <1>9 DEF DealtInv
  <2> QED
    BY <1>1, <1>8, <2>2, <2>3 DEF DealtInv
<1>11. StackInv'
  <2>1. stack'[1].skill = root' /\ (visiting \ {root} \subseteq resolved)'
    BY <1>1, <1>2, <1>5, <1>7 DEF StackInv
  <2>2. visiting' = { stack'[i].skill : i \in 1 .. n + 1 }
    BY <1>1, <1>2, <1>5, <1>6, <1>7 DEF StackInv
  <2>3. ASSUME NEW i \in 1 .. n + 1, NEW j \in 1 .. n + 1, i < j
        PROVE  /\ stack'[i].skill # stack'[j].skill
               /\ stack'[j].skill \in Required(stack'[i].skill)
    <3>1. CASE j <= n
      BY <1>2, <1>5, <1>7, <2>3, <3>1 DEF StackInv
    <3>2. CASE j = n + 1
      <4>1. i \in 1 .. n /\ stack'[i].skill = stack[i].skill /\ stack'[j].skill = d
        BY <1>5, <1>6, <1>7, <2>3, <3>2
      <4>2. stack[i].skill \in visiting
        BY <1>2, <4>1 DEF StackInv
      <4> QED
        BY <1>1, <1>3, <4>1, <4>2
    <3> QED
      BY <1>5, <2>3, <3>1, <3>2
  <2>4. \A i, j : (stack[j].skill \in Required(stack[i].skill))'
                     <=> stack'[j].skill \in Required(stack'[i].skill)
    BY <1>1 DEF Required, Closed, DependsOn
  <2> QED
    BY <1>6, <2>1, <2>2, <2>3, <2>4 DEF StackInv
<1>12. ASSUME NEW i \in 1 .. n + 1 PROVE FrameOK(i)'
  <2>1. CASE i < n
    <3>1. stack'[i] = stack[i] /\ stack'[i + 1].skill = stack[i + 1].skill
      BY <1>5, <1>6, <1>7, <2>1
    <3> QED
      BY <1>1, <1>2, <1>5, <1>6, <1>9, <2>1, <3>1 DEF FrameOK
  <2>2. CASE i = n
    <3>1. /\ Top.done \in Nat /\ Top.skill \in Skills /\ deps[Top.skill] \in Seq(Skills)
          /\ Top.done + 1 <= Len(deps[Top.skill])
          /\ deps[Top.skill][Top.done + 1] = stack'[n + 1].skill
      BY <1>1, <1>2, <1>5, <1>6 DEF HasDependency, Dependency, Frames, GraphOK
    <3>2. \A k \in 1 .. Top.done : deps[Top.skill][k] \in Dealt
      BY <1>2, <1>5 DEF FrameOK, Top
    <3>3. /\ i < Len(stack') /\ deps' = deps
          /\ stack'[i].skill = Top.skill /\ stack'[i].done = Top.done + 1
          /\ i + 1 = n + 1
      BY <1>1, <1>5, <1>6, <2>2
    <3>4. ASSUME NEW k \in 1 .. Top.done + 1
          PROVE  deps[Top.skill][k] \in Dealt \/ deps[Top.skill][k] = stack'[i + 1].skill
      BY <3>1, <3>2, <3>3
    <3> QED
      BY <1>9, <3>1, <3>3, <3>4 DEF FrameOK
  <2>3. CASE i = n + 1
    <3>1. deps[d] \in Seq(Skills)
      BY <1>2, <1>3 DEF GraphOK
    <3> QED
      BY <1>1, <1>5, <1>6, <2>3, <3>1 DEF FrameOK
  <2> QED
    BY <1>5, <1>12, <2>1, <2>2, <2>3
<1>13. ResolutionIsRight'
  BY <1>1, <1>2 DEF ResolutionIsRight
<1> QED
  BY <1>1, <1>2, <1>6, <1>8, <1>10, <1>11, <1>12, <1>13 DEF ResolutionInv

(* The top of the walk, all its dependencies dealt with, is dealt with.    *)
LEMMA TopIsDealt ==
    ASSUME ResolutionInv, Walking, ~ HasDependency
    PROVE  /\ Top.skill \in Skills /\ Top.skill \in visiting
           /\ Closed(Dealt) /\ Dealt \subseteq Skills
           /\ DependsOn(Top.skill) \subseteq Dealt
           /\ Required(Top.skill) \subseteq Dealt
           /\ Top.skill \notin Required(Top.skill)
<1>1. /\ DealtInv /\ StackInv /\ GraphOK /\ \A i \in 1 .. Len(stack) : FrameOK(i)
  BY DEF Walking, ResolutionInv
<1>2. /\ Len(stack) \in Nat \ {0} /\ Top \in Frames
  BY <1>1, StackFacts DEF StackInv
<1>3. /\ Top.skill \in Skills /\ Top.done \in Nat /\ deps[Top.skill] \in Seq(Skills)
      /\ Top.skill \in visiting
  BY <1>1, <1>2 DEF Frames, GraphOK, StackInv, Top
<1>4. Top.done = Len(deps[Top.skill])
  BY <1>1, <1>2, <1>3 DEF HasDependency, FrameOK, Top
<1>5. \A k \in 1 .. Len(deps[Top.skill]) : deps[Top.skill][k] \in Dealt
  BY <1>1, <1>2, <1>4 DEF FrameOK, Top
<1>6. DependsOn(Top.skill) \subseteq Dealt
  BY <1>3, <1>5 DEF DependsOn
<1>7. Closed(Dealt) /\ Dealt \subseteq Skills /\ Top.skill \notin Dealt
  BY <1>1, <1>3 DEF DealtInv, Closed, Dealt, Required
<1>8. Required(Top.skill) \subseteq Dealt
  BY <1>6, <1>7, RequiredWithin
<1> QED
  BY <1>3, <1>6, <1>7, <1>8

LEMMA EndIsRight ==
    ASSUME ResolutionInv, Return, Len(stack) = 1 PROVE ResolutionInv'
<1>1. /\ Walking /\ ~ HasDependency /\ resolution' = "ok"
      /\ UNCHANGED << deps, registered, resolved, root >>
  BY DEF Return
<1>2. DealtInv /\ StackInv /\ GraphOK
  BY <1>1 DEF Walking, ResolutionInv
<1>3. Top.skill = root /\ visiting = {root}
  BY <1>2 DEF StackInv, Top
<1>4. Dealt = resolved
  BY <1>2, <1>3 DEF Dealt, DealtInv
<1>5. /\ Required(root) = resolved /\ root \notin Required(root)
      /\ Required(root) \subseteq registered
      /\ \A s \in Required(root) : s \notin Required(s)
  BY <1>1, <1>2, <1>3, <1>4, TopIsDealt DEF DealtInv
<1>6. (GraphOK' <=> GraphOK) /\ \A s : Required(s)' = Required(s)
  BY <1>1, GraphFixed
<1>7. ResolutionIsRight'
  BY <1>1, <1>5, <1>6 DEF ResolutionIsRight, Reachable
<1> QED
  BY <1>1, <1>2, <1>6, <1>7 DEF ResolutionInv

LEMMA ReturnKeepsResolution ==
    ASSUME ResolutionInv, Return, Len(stack) # 1 PROVE ResolutionInv'
<1> DEFINE n == Len(stack)
           t == Top.skill
<1>1. /\ Walking /\ ~ HasDependency /\ resolution' = "running"
      /\ stack' = Popped /\ visiting' = visiting \ {t}
      /\ UNCHANGED << deps, registered, resolved, root >>
  BY DEF Return, Visited, Walking
<1>2. DealtInv /\ StackInv /\ GraphOK /\ (\A i \in 1 .. n : FrameOK(i)) /\ resolution = "running"
  BY <1>1 DEF Walking, ResolutionInv
<1>3. /\ n \in Nat \ {0} /\ n # 1 /\ \A i \in 1 .. n : stack[i] \in Frames
      /\ stack' \in Seq(Frames) /\ Len(stack') = n - 1
      /\ \A i \in 1 .. n - 1 : stack'[i] = stack[i]
      /\ t = stack[n].skill
  BY <1>1, <1>2, StackFacts DEF StackInv, Top
<1>4. (GraphOK' <=> GraphOK) /\ \A s : DependsOn(s)' = DependsOn(s) /\ Required(s)' = Required(s)
  BY <1>1, GraphFixed
<1>5. t # root /\ t \in resolved /\ t \in visiting
  BY <1>2, <1>3 DEF StackInv
<1>6. Dealt' = Dealt \cup {t}
  BY <1>1, <1>5 DEF Dealt
<1>7. DealtInv'
  <2>1. \A d \in Dealt' : DependsOn(d) \subseteq Dealt' /\ d \notin Required(d)
    BY <1>1, <1>2, <1>6, TopIsDealt DEF DealtInv
  <2>2. \A d \in Dealt' : DependsOn(d)' \subseteq Dealt' /\ d \notin Required(d)'
    BY <1>4, <2>1
  <2> QED
    BY <1>1, <1>2, <1>4, <2>2 DEF DealtInv
<1>8. StackInv'
  <2>1. stack' # << >> /\ stack'[1].skill = root' /\ (visiting \ {root} \subseteq resolved)'
    BY <1>1, <1>2, <1>3 DEF StackInv
  <2>2. visiting' = { stack'[i].skill : i \in 1 .. n - 1 }
    <3>1. \A i \in 1 .. n - 1 : stack[i].skill # t
      BY <1>2, <1>3 DEF StackInv
    <3>2. visiting = { stack[i].skill : i \in 1 .. n }
      BY <1>2 DEF StackInv
    <3>3. ASSUME NEW v \in visiting' PROVE \E i \in 1 .. n - 1 : v = stack'[i].skill
      <4>1. PICK i \in 1 .. n : v = stack[i].skill
        BY <1>1, <3>2, <3>3
      <4>2. i # n
        BY <1>1, <1>3, <3>3, <4>1
      <4> QED
        BY <1>3, <4>1, <4>2
    <3>4. ASSUME NEW i \in 1 .. n - 1 PROVE stack'[i].skill \in visiting'
      BY <1>1, <1>3, <3>1, <3>2
    <3> QED
      BY <3>3, <3>4
  <2>3. \A i, j \in 1 .. n - 1 : i < j => /\ stack'[i].skill # stack'[j].skill
                                          /\ stack'[j].skill \in Required(stack'[i].skill)
    <3>1. \A i, j \in 1 .. n : i < j => /\ stack[i].skill # stack[j].skill
                                        /\ stack[j].skill \in Required(stack[i].skill)
      BY <1>2 DEF StackInv
    <3>2. \A i \in 1 .. n - 1 : i \in 1 .. n /\ stack'[i] = stack[i]
      BY <1>3
    <3> HIDE DEF n
    <3> QED
      BY <3>1, <3>2
  <2>4. \A i, j : (stack[j].skill \in Required(stack[i].skill))'
                     <=> stack'[j].skill \in Required(stack'[i].skill)
    BY <1>1 DEF Required, Closed, DependsOn
  <2> QED
    BY <1>3, <2>1, <2>2, <2>3, <2>4 DEF StackInv
<1>9. ASSUME NEW i \in 1 .. n - 1 PROVE FrameOK(i)'
  <2>1. stack'[i] = stack[i] /\ (i + 1 < n => stack'[i + 1] = stack[i + 1])
    BY <1>3
  <2>2. FrameOK(i)
    BY <1>2, <1>3
  <2>3. CASE i + 1 < n
    BY <1>1, <1>3, <1>6, <2>1, <2>2, <2>3 DEF FrameOK
  <2>4. CASE i + 1 = n
    BY <1>1, <1>3, <1>6, <2>1, <2>2, <2>4 DEF FrameOK
  <2> QED
    BY <1>3, <1>9, <2>3, <2>4
<1>10. ResolutionIsRight'
  BY <1>1 DEF ResolutionIsRight
<1> QED
  BY <1>1, <1>2, <1>3, <1>4, <1>7, <1>8, <1>9, <1>10 DEF ResolutionInv

LEMMA ResolutionKept == ResolutionInv /\ [DecisionsNext]_decisionVars => ResolutionInv'
<1> SUFFICES ASSUME ResolutionInv, [DecisionsNext]_decisionVars PROVE ResolutionInv'
  OBVIOUS
<1>1. CASE UNCHANGED resolutionVars
  BY <1>1, OthersKeepResolution
<1>2. CASE ResolutionNext
  BY <1>2, LoadKeepsResolution, ResolveKeepsResolution, StopIsRight, SkipKeepsResolution,
     DescendKeepsResolution, EndIsRight, ReturnKeepsResolution DEF ResolutionNext
<1> QED
  BY <1>1, <1>2 DEF DecisionsNext, decisionVars, RetryStep, ResolutionStep, PolicyStep,
                    HealthStep, GateStep, LedgerStep

(***************************************************************************)
(* For every set of skills, graph of dependencies and registry: the walk of*)
(* DependencyResolver (validator.rs) answers what is the case of the whole  *)
(* graph below its root, with the right set when it succeeds.              *)
(***************************************************************************)
THEOREM ResolutionsAreRight == DecisionsSpec => []ResolutionIsRight
<1>1. ResolutionInv => ResolutionIsRight
  BY DEF ResolutionInv
<1> QED
  BY <1>1, ResolutionStart, ResolutionKept, PTL DEF DecisionsSpec

-----------------------------------------------------------------------------
(* Health *)

(* What each report of the sweep so far still means.                       *)
ReportOK(i) ==
    /\ reports[i] = "Healthy" => checks[i] \in best
    /\ checks[i] \in worst => reports[i] = "Unhealthy"

HealthInv ==
    /\ status \in [Checked -> Statuses] /\ checks \in Seq(Checked)
    /\ Sweeping =>
          /\ reports \in Seq(Statuses) /\ Len(reports) <= Len(checks)
          /\ \A i \in 1 .. Len(reports) : ReportOK(i)
          /\ \A c \in worst : status[c] = "Unhealthy"
          /\ \A c \in Checked : status[c] = "Healthy" => c \in best

LEMMA HealthStart == DecisionsInit => HealthInv
BY DEF DecisionsInit, HealthInit, HealthInv, Sweeping, Statuses

LEMMA CheckKeepsHealth == HealthInv /\ CheckNext => HealthInv'
<1> SUFFICES ASSUME HealthInv, CheckNext PROVE HealthInv'
  OBVIOUS
<1> DEFINE n == Len(reports)
           c == checks[n + 1]
<1>1. /\ Sweeping /\ n < Len(checks) /\ reports' = Append(reports, status[c])
      /\ UNCHANGED << status, checks, aggregate, worst, best >>
  BY DEF CheckNext
<1>2. /\ status \in [Checked -> Statuses] /\ checks \in Seq(Checked)
      /\ reports \in Seq(Statuses) /\ n \in Nat
      /\ \A i \in 1 .. n : ReportOK(i)
      /\ \A d \in worst : status[d] = "Unhealthy"
      /\ \A d \in Checked : status[d] = "Healthy" => d \in best
  BY <1>1 DEF HealthInv
<1>3. c \in Checked /\ status[c] \in Statuses
  BY <1>1, <1>2
<1> HIDE DEF c
<1>4. /\ reports' \in Seq(Statuses) /\ Len(reports') = n + 1
      /\ reports'[n + 1] = status[c] /\ \A i \in 1 .. n : reports'[i] = reports[i]
  BY <1>1, <1>2, <1>3
<1>5. ASSUME NEW i \in 1 .. n + 1 PROVE ReportOK(i)'
  <2>1. CASE i \in 1 .. n
    BY <1>1, <1>2, <1>4, <2>1 DEF ReportOK
  <2>2. CASE i = n + 1
    BY <1>1, <1>2, <1>3, <1>4, <2>2 DEF ReportOK, c
  <2> QED
    BY <1>2, <1>5, <2>1, <2>2
<1> QED
  BY <1>1, <1>2, <1>4, <1>5 DEF HealthInv, Sweeping

LEMMA ChangeKeepsHealth ==
    ASSUME HealthInv, NEW c \in Checked, NEW new \in Statuses, StatusChanges(c, new)
    PROVE  HealthInv'
<1>1. /\ status' = [status EXCEPT ![c] = new] /\ UNCHANGED << checks, reports, aggregate >>
      /\ worst' = IF new = "Unhealthy" THEN worst ELSE worst \ {c}
      /\ best' = IF Sweeping /\ new = "Healthy" THEN best \cup {c} ELSE best
  BY DEF StatusChanges
<1>2. status' \in [Checked -> Statuses]
  BY <1>1 DEF HealthInv
<1>3. CASE Sweeping
  <2>1. best \subseteq best' /\ worst' \subseteq worst
    BY <1>1
  <2>2. \A i \in 1 .. Len(reports) : ReportOK(i)'
    BY <1>1, <1>3, <2>1 DEF HealthInv, ReportOK
  <2>3. \A d \in worst' : status'[d] = "Unhealthy"
    BY <1>1, <1>3 DEF HealthInv
  <2>4. \A d \in Checked : status'[d] = "Healthy" => d \in best'
    BY <1>1, <1>3 DEF HealthInv
  <2> QED
    BY <1>1, <1>2, <1>3, <2>2, <2>3, <2>4 DEF HealthInv, Sweeping
<1>4. CASE ~ Sweeping
  BY <1>1, <1>2, <1>4 DEF HealthInv, Sweeping
<1> QED
  BY <1>3, <1>4

LEMMA HealthKept == HealthInv /\ [DecisionsNext]_decisionVars => HealthInv'
<1> SUFFICES ASSUME HealthInv, [DecisionsNext]_decisionVars PROVE HealthInv'
  OBVIOUS
<1>1. CASE UNCHANGED healthVars
  BY <1>1 DEF HealthInv, healthVars, Sweeping, ReportOK
<1>2. ASSUME NEW c \in Checked, RegisterCheck(c) PROVE HealthInv'
  BY <1>2 DEF RegisterCheck, HealthInv, Sweeping
<1>3. CASE BeginSweep
  <2>1. /\ reports' = << >> /\ UNCHANGED << status, checks >>
        /\ worst' = { c \in Checked : status[c] = "Unhealthy" }
        /\ best' = { c \in Checked : status[c] = "Healthy" }
    BY <1>3 DEF BeginSweep
  <2>2. reports' \in Seq(Statuses) /\ Len(reports') = 0 /\ Len(checks) \in Nat
    BY <2>1 DEF HealthInv
  <2> QED
    BY <2>1, <2>2 DEF HealthInv
<1>4. CASE EndSweep
  <2>1. aggregate' # "Sweeping"
    BY <1>4 DEF EndSweep, Aggregate
  <2> QED
    BY <1>4, <2>1 DEF EndSweep, HealthInv, Sweeping
<1> QED
  BY <1>1, <1>2, <1>3, <1>4, CheckKeepsHealth, ChangeKeepsHealth
     DEF DecisionsNext, decisionVars, RetryStep, ResolutionStep, PolicyStep,
         HealthStep, GateStep, LedgerStep, HealthNext

(* Counting statuses and looking for them come to the same.                *)
LEMMA ReportIsAggregate ==
    ASSUME NEW results \in Seq(Statuses)
    PROVE  FromComponents(results)
              = [system_status |-> Aggregate(ToSet(results)), total |-> Len(results)]
<1> DEFINE n == Len(results)
           places(s) == { i \in 1 .. n : results[i] = s }
           count(s) == Cardinality(places(s))
<1>1. n \in Nat /\ DOMAIN results = 1 .. n /\ \A i \in 1 .. n : results[i] \in Statuses
  OBVIOUS
<1>2. IsFiniteSet(1 .. n) /\ Cardinality(1 .. n) = n
  <2>1. /\ IsFiniteSet(1 .. n)
        /\ Cardinality(1 .. n) = IF 1 > n THEN 0 ELSE n - 1 + 1
    BY <1>1, FS_Interval
  <2> QED
    BY <1>1, <2>1
<1>3. \A s : IsFiniteSet(places(s)) /\ count(s) \in Nat
  BY <1>2, FS_Subset, FS_CardinalityType
<1>4. \A s : count(s) > 0 <=> s \in ToSet(results)
  <2> SUFFICES ASSUME NEW s PROVE count(s) > 0 <=> s \in ToSet(results)
    OBVIOUS
  <2>1. count(s) = 0 <=> places(s) = {}
    BY <1>3, FS_EmptySet
  <2>2. places(s) = {} <=> s \notin ToSet(results)
    BY <1>1 DEF ToSet
  <2>3. count(s) \in Nat
    BY <1>3
  <2> HIDE DEF count, places
  <2>4. count(s) > 0 <=> count(s) # 0
    BY <2>3
  <2> QED
    BY <2>1, <2>2, <2>4
<1>5. count("Healthy") + count("Degraded") + count("Unhealthy") = n
  <2> DEFINE H == places("Healthy") D == places("Degraded") U == places("Unhealthy")
  <2>1. H \cap D = {} /\ (H \cup D) \cap U = {}
    OBVIOUS
  <2>2. (H \cup D) \cup U = 1 .. n
    BY <1>1 DEF Statuses
  <2>3. IsFiniteSet(H) /\ IsFiniteSet(D) /\ IsFiniteSet(U)
    BY <1>3
  <2> HIDE DEF H, D, U
  <2>4. Cardinality({}) = 0
    BY FS_EmptySet
  <2>5. /\ IsFiniteSet(H \cup D)
        /\ Cardinality(H \cup D) = Cardinality(H) + Cardinality(D) - 0
    BY <2>1, <2>3, <2>4, FS_Union
  <2>6. Cardinality((H \cup D) \cup U) = Cardinality(H \cup D) + Cardinality(U) - 0
    BY <2>1, <2>3, <2>4, <2>5, FS_Union
  <2>7. Cardinality(H) \in Nat /\ Cardinality(D) \in Nat /\ Cardinality(U) \in Nat
    BY <2>3, FS_CardinalityType
  <2>8. Cardinality((H \cup D) \cup U) = n
    BY <1>2, <2>2
  <2>9. Cardinality(H) + Cardinality(D) + Cardinality(U) = n
    BY <2>5, <2>6, <2>7, <2>8
  <2> QED
    BY <2>9 DEF H, D, U
<1>6. FromComponents(results) =
         [system_status |-> IF count("Unhealthy") > 0 THEN "Unhealthy"
                            ELSE IF count("Degraded") > 0 THEN "Degraded" ELSE "Healthy",
          total |-> count("Healthy") + count("Degraded") + count("Unhealthy")]
  BY <1>1 DEF FromComponents
<1> HIDE DEF count
<1> QED
  BY <1>4, <1>5, <1>6 DEF Aggregate

LEMMA AllWellIsHealthy ==
    ASSUME NEW statuses \in SUBSET Statuses
    PROVE  IsHealthy(statuses) <=> Aggregate(statuses) = "Healthy"
BY DEF IsHealthy, Aggregate, Statuses

(* The kernel's own report.                                                *)
LEMMA SystemReportIsPlain ==
    ASSUME NEW ok \in [ToSet(KernelParts) -> BOOLEAN]
    PROVE  SystemReport(ok) = [system_status |-> ComponentHealth(\A p \in DOMAIN ok : ok[p]),
                               total |-> Len(KernelParts)]
<1> DEFINE n == Len(KernelParts)
           results == [i \in DOMAIN KernelParts |-> ComponentHealth(ok[KernelParts[i]])]
<1>1. n = 6 /\ DOMAIN KernelParts = 1 .. 6
  BY DEF KernelParts
<1>2. ToSet(KernelParts) = { KernelParts[i] : i \in 1 .. 6 }
  BY <1>1 DEF ToSet
<1>3. \A i \in 1 .. 6 : ok[KernelParts[i]] \in BOOLEAN
  BY <1>2
<1>4. results = [i \in 1 .. 6 |-> ComponentHealth(ok[KernelParts[i]])]
  BY <1>1
<1>5. \A i \in 1 .. 6 : ComponentHealth(ok[KernelParts[i]]) \in Statuses
  BY DEF ComponentHealth, Statuses
<1>6. results \in Seq(Statuses) /\ Len(results) = n
  BY <1>1, <1>4, <1>5
<1>7. SystemReport(ok) = [system_status |-> Aggregate(ToSet(results)), total |-> n]
  BY <1>6, ReportIsAggregate DEF SystemReport
<1>8. ToSet(results) = { ComponentHealth(ok[p]) : p \in DOMAIN ok }
  <2>1. ToSet(results) = { ComponentHealth(ok[KernelParts[i]]) : i \in 1 .. 6 }
    BY <1>4 DEF ToSet
  <2> QED
    BY <1>2, <2>1
<1>9. Aggregate(ToSet(results)) = ComponentHealth(\A p \in DOMAIN ok : ok[p])
  BY <1>8 DEF Aggregate, ComponentHealth
<1> HIDE DEF n, results
<1> QED
  BY <1>7, <1>9 DEF n

(***************************************************************************)
(* For any number of components, however their states change under the     *)
(* sweep of HealthRegistry (resilience lib.rs) and whichever part of the   *)
(* kernel is down (health.rs): the answers mean what they say.             *)
(***************************************************************************)
THEOREM SweepsAreFair == DecisionsSpec => SweepIsFair
<1> DEFINE Fair ==
        /\ aggregate' = "Healthy" => ToSet(checks) \subseteq best
        /\ worst \cap ToSet(checks) # {} => aggregate' = "Unhealthy"
        /\ IsHealthy(ToSet(reports)) <=> aggregate' = "Healthy"
        /\ FromComponents(reports) =
              [system_status |-> aggregate', total |-> Len(checks)]
        /\ \A ok \in [ToSet(KernelParts) -> BOOLEAN] :
              SystemReport(ok) = [system_status |-> ComponentHealth(\A p \in DOMAIN ok : ok[p]),
                                  total |-> Len(KernelParts)]
<1>1. ASSUME HealthInv, EndSweep PROVE Fair
  <2> DEFINE n == Len(checks)
  <2>1. /\ checks \in Seq(Checked) /\ reports \in Seq(Statuses) /\ Len(reports) = n
        /\ \A i \in 1 .. n : ReportOK(i)
        /\ aggregate' = Aggregate(ToSet(reports))
    BY <1>1 DEF EndSweep, HealthInv
  <2>2. /\ ToSet(checks) = { checks[i] : i \in 1 .. n }
        /\ ToSet(reports) = { reports[i] : i \in 1 .. n }
        /\ ToSet(reports) \subseteq Statuses
    BY <2>1 DEF ToSet
  <2>3. ASSUME aggregate' = "Healthy" PROVE ToSet(checks) \subseteq best
    <3>1. \A i \in 1 .. n : reports[i] = "Healthy"
      BY <2>1, <2>2, <2>3 DEF Aggregate, Statuses
    <3> QED
      BY <2>1, <2>2, <3>1 DEF ReportOK
  <2>4. ASSUME NEW c \in worst \cap ToSet(checks) PROVE aggregate' = "Unhealthy"
    <3>1. PICK i \in 1 .. n : checks[i] = c
      BY <2>2
    <3>2. reports[i] = "Unhealthy"
      BY <2>1, <3>1 DEF ReportOK
    <3> QED
      BY <2>1, <2>2, <3>2 DEF Aggregate
  <2>5. IsHealthy(ToSet(reports)) <=> aggregate' = "Healthy"
    BY <2>1, <2>2, AllWellIsHealthy
  <2>6. FromComponents(reports) = [system_status |-> aggregate', total |-> n]
    BY <2>1, ReportIsAggregate
  <2> QED
    BY <2>3, <2>4, <2>5, <2>6, SystemReportIsPlain
<1>2. HealthInv /\ [DecisionsNext]_decisionVars => [EndSweep => Fair]_healthVars
  BY <1>1
<1> QED
  BY <1>2, HealthStart, HealthKept, PTL DEF DecisionsSpec, SweepIsFair
-----------------------------------------------------------------------------
(* Powers of two *)

PowersUpTo(n, p) ==
    p \in [0 .. n -> Nat] /\ p[0] = 1 /\ \A i \in 1 .. n : p[i] = 2 * p[i - 1]

LEMMA PowersExist ==
    ASSUME NEW n \in Nat PROVE \E p : PowersUpTo(n, p)
<1> DEFINE T == { m \in Nat : \E p : PowersUpTo(m, p) }
<1>1. 0 \in T
  <2>1. PowersUpTo(0, [i \in 0 .. 0 |-> 1])
    BY DEF PowersUpTo
  <2> QED BY <2>1
<1>2. ASSUME NEW m \in Nat, m \in T PROVE m + 1 \in T
  <2>1. PICK p : PowersUpTo(m, p)
    BY <1>2
  <2> DEFINE q == [i \in 0 .. m + 1 |-> IF i = m + 1 THEN 2 * p[m] ELSE p[i]]
  <2>2. p \in [0 .. m -> Nat] /\ p[0] = 1 /\ \A i \in 1 .. m : p[i] = 2 * p[i - 1]
    BY <2>1 DEF PowersUpTo
  <2>3. q \in [0 .. m + 1 -> Nat] /\ q[0] = 1
    BY <2>2
  <2>4. ASSUME NEW i \in 1 .. m + 1 PROVE q[i] = 2 * q[i - 1]
    <3>1. CASE i = m + 1
      BY <2>2, <3>1
    <3>2. CASE i # m + 1
      <4>1. i \in 1 .. m /\ i - 1 \in 0 .. m /\ i - 1 # m + 1 /\ i \in 0 .. m + 1 /\ i - 1 \in 0 .. m + 1
        BY <3>2
      <4> QED BY <2>2, <3>2, <4>1
    <3> QED BY <3>1, <3>2
  <2> HIDE DEF q
  <2>5. PowersUpTo(m + 1, q)
    BY <2>3, <2>4 DEF PowersUpTo
  <2> QED BY <2>5
<1>3. T \subseteq Nat
  OBVIOUS
<1> HIDE DEF T
<1>4. T = Nat
  BY <1>1, <1>2, <1>3, NaturalInduction
<1>5. n \in T
  BY <1>4
<1> QED BY <1>5 DEF T

LEMMA PowersAgree ==
    ASSUME NEW n \in Nat, NEW p, PowersUpTo(n, p), NEW q, PowersUpTo(n + 1, q)
    PROVE  p[n] = q[n]
<1> DEFINE T == { i \in Nat : i <= n => p[i] = q[i] }
<1>1. 0 \in T
  BY DEF PowersUpTo
<1>2. ASSUME NEW m \in Nat, m \in T PROVE m + 1 \in T
  <2>1. CASE m + 1 <= n
    <3>1. m + 1 \in 1 .. n /\ m + 1 \in 1 .. n + 1 /\ (m + 1) - 1 = m /\ m <= n
      BY <2>1
    <3>2. p[m] = q[m]
      BY <1>2, <3>1
    <3>3. p[m + 1] = 2 * p[m] /\ q[m + 1] = 2 * q[m]
      BY <3>1 DEF PowersUpTo
    <3> QED BY <3>2, <3>3
  <2> QED BY <2>1
<1>3. T \subseteq Nat
  OBVIOUS
<1> HIDE DEF T
<1>4. T = Nat
  BY <1>1, <1>2, <1>3, NaturalInduction
<1>5. n \in T
  BY <1>4
<1> QED BY <1>5 DEF T

(* 2.0.powi(attempt), as its recursion has it.                             *)
LEMMA PowersDouble ==
    /\ PowerOf2 \in [Nat -> Nat] /\ PowerOf2[0] = 1
    /\ \A n \in Nat : PowerOf2[n + 1] = 2 * PowerOf2[n]
<1> DEFINE upTo == [n \in Nat |-> CHOOSE p : PowersUpTo(n, p)]
           g == [n \in Nat |-> upTo[n][n]]
           Body(f) == [a \in Nat |-> IF a = 0 THEN 1 ELSE 2 * f[a - 1]]
<1>1. \A n \in Nat : PowersUpTo(n, upTo[n])
  BY PowersExist
<1> HIDE DEF upTo
<1>2. \A n \in Nat : g[n] \in Nat
  <2> SUFFICES ASSUME NEW n \in Nat PROVE g[n] \in Nat
    OBVIOUS
  <2>1. upTo[n] \in [0 .. n -> Nat] /\ n \in 0 .. n
    BY <1>1 DEF PowersUpTo
  <2> QED BY <2>1
<1>3. g[0] = 1
  BY <1>1 DEF PowersUpTo
<1>4. ASSUME NEW n \in Nat PROVE g[n + 1] = 2 * g[n]
  <2>1. PowersUpTo(n, upTo[n]) /\ PowersUpTo(n + 1, upTo[n + 1])
    BY <1>1
  <2>2. upTo[n][n] = upTo[n + 1][n]
    BY <2>1, PowersAgree
  <2>3. upTo[n + 1][n + 1] = 2 * upTo[n + 1][n]
    <3>1. n + 1 \in 1 .. n + 1 /\ (n + 1) - 1 = n
      OBVIOUS
    <3> QED BY <2>1, <3>1 DEF PowersUpTo
  <2> QED BY <2>2, <2>3
<1>5. DOMAIN g = Nat /\ g = [n \in Nat |-> g[n]]
  OBVIOUS
<1> HIDE DEF g
<1>6. g = Body(g)
  <2>1. \A a \in Nat : g[a] = IF a = 0 THEN 1 ELSE 2 * g[a - 1]
    <3> SUFFICES ASSUME NEW a \in Nat, a # 0 PROVE g[a] = 2 * g[a - 1]
      BY <1>3
    <3>1. a - 1 \in Nat /\ (a - 1) + 1 = a
      OBVIOUS
    <3> QED BY <1>4, <3>1
  <2> QED BY <1>5, <2>1
<1>7. PowerOf2 = CHOOSE f : f = Body(f)
  BY DEF PowerOf2
<1>8. PowerOf2 = Body(PowerOf2)
  <2> HIDE DEF Body
  <2> QED BY <1>6, <1>7
<1>9. /\ PowerOf2[0] = 1
      /\ \A n \in Nat : PowerOf2[n + 1] = 2 * PowerOf2[n]
  <2>1. \A a \in Nat : PowerOf2[a] = IF a = 0 THEN 1 ELSE 2 * PowerOf2[a - 1]
    BY <1>8
  <2>2. ASSUME NEW n \in Nat PROVE PowerOf2[n + 1] = 2 * PowerOf2[n]
    <3>1. n + 1 \in Nat /\ n + 1 # 0 /\ (n + 1) - 1 = n
      OBVIOUS
    <3> QED BY <2>1, <3>1
  <2> QED BY <2>1, <2>2
<1>10. \A n \in Nat : PowerOf2[n] \in Nat
  <2> DEFINE T == { n \in Nat : PowerOf2[n] \in Nat }
  <2>1. 0 \in T /\ \A n \in Nat : n \in T => n + 1 \in T
    BY <1>9
  <2>2. T \subseteq Nat
    OBVIOUS
  <2> HIDE DEF T
  <2>3. T = Nat
    BY <2>1, <2>2, NaturalInduction
  <2> QED BY <2>3 DEF T
<1>11. PowerOf2 \in [Nat -> Nat]
  BY <1>8, <1>10
<1> QED BY <1>9, <1>11

LEMMA PowersArePositive == \A n \in Nat : PowerOf2[n] # 0
<1> DEFINE T == { n \in Nat : PowerOf2[n] # 0 }
<1>1. 0 \in T
  BY PowersDouble
<1>2. ASSUME NEW n \in Nat, n \in T PROVE n + 1 \in T
  <2>1. PowerOf2[n] \in Nat /\ PowerOf2[n + 1] = 2 * PowerOf2[n] /\ PowerOf2[n] # 0
    BY <1>2, PowersDouble
  <2> QED BY <2>1
<1>3. T \subseteq Nat
  OBVIOUS
<1> HIDE DEF T
<1>4. T = Nat
  BY <1>1, <1>2, <1>3, NaturalInduction
<1> QED BY <1>4 DEF T

-----------------------------------------------------------------------------
(* Retries *)

(* The jitter stays within a quarter of the capped delay.                  *)
LEMMA JitterBounds ==
    ASSUME NEW c \in Nat, NEW d \in Jittered(c)
    PROVE  d \in Nat /\ 4 * d <= 5 * c /\ (c > 0 => 4 * d < 5 * c)
<1>1. CASE c = 0
  BY <1>1 DEF Jittered
<1>2. CASE c # 0
  BY <1>2 DEF Jittered
<1> QED BY <1>1, <1>2

LEMMA CappedType ==
    ASSUME NEW a \in Nat PROVE Capped(a) \in Nat /\ Capped(a) <= MaxDelay
<1>1. BaseDelay * PowerOf2[a] \in Nat
  <2>1. PowerOf2[a] \in Nat
    BY PowersDouble
  <2> QED BY <2>1, RetryAssumption
<1> QED BY <1>1, RetryAssumption DEF Capped, AtMost

LEMMA DelayBound ==
    ASSUME NEW a \in Nat, NEW d \in DelayForAttempt(a)
    PROVE  d \in Nat /\ 4 * d <= 5 * MaxDelay
<1>1. Capped(a) \in Nat /\ Capped(a) <= MaxDelay /\ MaxDelay \in Nat
  BY CappedType, RetryAssumption
<1>2. d \in Nat /\ 4 * d <= 5 * Capped(a)
  <2>1. CASE UseJitter
    BY <1>1, <2>1, JitterBounds DEF DelayForAttempt
  <2>2. CASE ~UseJitter
    BY <1>1, <2>2 DEF DelayForAttempt
  <2> QED BY <2>1, <2>2
<1> QED BY <1>1, <1>2

(* Four times what one failed attempt and the delay after it may take.     *)
Round == 4 * AttemptTimeout + 5 * MaxDelay

RetryInv ==
    /\ attempt \in 0 .. MaxRetries /\ delay \in Nat /\ elapsed \in Nat
    /\ phase \in {"calling", "sleeping", "ok", "error"}
    /\ phase = "calling" => 4 * elapsed <= attempt * Round
    /\ phase # "calling" => 4 * elapsed <= attempt * Round + 4 * AttemptTimeout
    /\ phase = "sleeping" => attempt < MaxRetries /\ delay \in DelayForAttempt(attempt)
    /\ phase = "calling" /\ attempt > 0 => delay \in DelayForAttempt(attempt - 1)

LEMMA RetryStart == DecisionsInit => RetryInv
<1> SUFFICES ASSUME DecisionsInit PROVE RetryInv
  OBVIOUS
<1>1. phase = "calling" /\ attempt = 0 /\ delay = 0 /\ elapsed = 0 /\ Round \in Nat
  BY RetryAssumption DEF DecisionsInit, RetryInit, Round
<1>2. 0 * Round = 0
  BY <1>1
<1> QED BY <1>1, <1>2, RetryAssumption DEF RetryInv

LEMMA FailKeepsRetry ==
    ASSUME RetryInv, NEW d \in 0 .. AttemptTimeout, Fail(d) PROVE RetryInv'
<1> DEFINE w == attempt * Round
<1>1. /\ attempt \in Nat /\ Round \in Nat /\ AttemptTimeout \in Nat /\ MaxRetries \in Nat
  BY RetryAssumption DEF RetryInv, Round
<1>2. w \in Nat
  BY <1>1
<1>3. phase = "calling" /\ elapsed' = elapsed + d /\ attempt' = attempt
      /\ elapsed \in Nat /\ 4 * elapsed <= w /\ Round' = Round
  BY DEF Fail, RetryInv, Round
<1> HIDE DEF w
<1>4. elapsed' \in Nat /\ 4 * elapsed' <= w + 4 * AttemptTimeout
  BY <1>1, <1>2, <1>3
<1>5. w = attempt' * Round'
  BY <1>3 DEF w
<1>6. CASE ~Exhausted /\ delay' \in DelayForAttempt(attempt) /\ phase' = "sleeping"
  <2>1. attempt < MaxRetries /\ delay' \in Nat
    BY <1>1, <1>6, DelayBound DEF Exhausted
  <2>2. delay' \in DelayForAttempt(attempt)' /\ attempt' \in 0 .. MaxRetries
    BY <1>3, <1>6 DEF DelayForAttempt, Capped, RetryInv
  <2> QED BY <1>3, <1>4, <1>5, <1>6, <2>1, <2>2 DEF RetryInv
<1>7. CASE phase' = "error" /\ delay' = delay
  <2>1. attempt' \in 0 .. MaxRetries /\ delay' \in Nat
    BY <1>3, <1>7 DEF RetryInv
  <2> QED BY <1>4, <1>5, <1>7, <2>1 DEF RetryInv
<1> QED BY <1>6, <1>7 DEF Fail

LEMMA WakeUpKeepsRetry ==
    ASSUME RetryInv, WakeUp PROVE RetryInv'
<1> DEFINE w == attempt * Round
<1>1. /\ attempt \in Nat /\ AttemptTimeout \in Nat /\ MaxRetries \in Nat /\ MaxDelay \in Nat
  BY RetryAssumption DEF RetryInv
<1>2. Round \in Nat /\ Round = 4 * AttemptTimeout + 5 * MaxDelay /\ Round' = Round
  BY <1>1 DEF Round
<1>3. w \in Nat
  BY <1>1, <1>2
<1>4. (attempt + 1) * Round = w + Round
  BY <1>1, <1>2
<1>5. /\ phase = "sleeping" /\ elapsed' = elapsed + delay /\ attempt' = attempt + 1
      /\ phase' = "calling" /\ delay' = delay
      /\ elapsed \in Nat /\ delay \in Nat /\ 4 * elapsed <= w + 4 * AttemptTimeout
      /\ attempt < MaxRetries /\ delay \in DelayForAttempt(attempt)
  BY DEF WakeUp, RetryInv
<1>6. 4 * delay <= 5 * MaxDelay
  BY <1>1, <1>5, DelayBound
<1> HIDE DEF w
<1>7. elapsed' \in Nat /\ 4 * elapsed' <= w + Round
  BY <1>1, <1>2, <1>3, <1>5, <1>6
<1>8. attempt' \in 0 .. MaxRetries /\ attempt' - 1 = attempt
  BY <1>1, <1>5
<1>9. delay' \in DelayForAttempt(attempt' - 1) /\ attempt' * Round' = w + Round
  BY <1>2, <1>4, <1>5, <1>8
<1>10. (delay \in DelayForAttempt(attempt - 1))' <=> delay' \in DelayForAttempt(attempt' - 1)
  BY DEF DelayForAttempt, Capped
<1> QED BY <1>5, <1>7, <1>8, <1>9, <1>10 DEF RetryInv

LEMMA RetryKept == RetryInv /\ [DecisionsNext]_decisionVars => RetryInv'
<1> SUFFICES ASSUME RetryInv, [DecisionsNext]_decisionVars PROVE RetryInv'
  OBVIOUS
<1>1. CASE UNCHANGED retryVars
  BY <1>1 DEF retryVars, RetryInv, Round, DelayForAttempt, Capped
<1>2. ASSUME NEW d \in 0 .. AttemptTimeout, Succeed(d) PROVE RetryInv'
  <2> DEFINE w == attempt * Round
  <2>1. /\ attempt \in Nat /\ Round \in Nat /\ AttemptTimeout \in Nat
    BY RetryAssumption DEF RetryInv, Round
  <2>2. w \in Nat
    BY <2>1
  <2>3. /\ phase' = "ok" /\ elapsed' = elapsed + d /\ attempt' = attempt /\ delay' = delay
        /\ elapsed \in Nat /\ 4 * elapsed <= w /\ Round' = Round
        /\ attempt \in 0 .. MaxRetries /\ delay \in Nat
    BY <1>2 DEF Succeed, RetryInv, Round
  <2> HIDE DEF w
  <2>4. elapsed' \in Nat /\ 4 * elapsed' <= w + 4 * AttemptTimeout
    BY <2>1, <2>2, <2>3
  <2>5. w = attempt' * Round'
    BY <2>3 DEF w
  <2> QED BY <2>3, <2>4, <2>5 DEF RetryInv
<1> QED
  BY <1>1, <1>2, FailKeepsRetry, WakeUpKeepsRetry
     DEF DecisionsNext, decisionVars, RetryStep, ResolutionStep, PolicyStep, HealthStep,
         GateStep, LedgerStep, RetryNext

(***************************************************************************)
(* For every policy and however its attempts fail: the whole call ends     *)
(* within its attempts' deadlines and a quarter more than the maximal      *)
(* delay between them (resilience/lib.rs 298-371 under with_timeout).      *)
(***************************************************************************)
THEOREM CallsAreShort == DecisionsSpec => []LatencyBound
<1>1. RetryInv => LatencyBound
  <2> SUFFICES ASSUME RetryInv PROVE LatencyBound
    OBVIOUS
  <2> DEFINE w == attempt * Round
             z == MaxRetries * Round
             td == MaxRetries * AttemptTimeout
             md == MaxRetries * 5 * MaxDelay
  <2>1. /\ attempt \in 0 .. MaxRetries /\ AttemptTimeout \in Nat /\ MaxRetries \in Nat
        /\ MaxDelay \in Nat /\ Round \in Nat /\ elapsed \in Nat
    BY RetryAssumption DEF RetryInv, Round
  <2>2. w <= z /\ w \in Nat /\ z \in Nat /\ td \in Nat /\ md \in Nat
    <3>1. MaxRetries - attempt \in Nat /\ (MaxRetries - attempt) * Round \in Nat
      BY <2>1
    <3>2. z = w + (MaxRetries - attempt) * Round
      BY <2>1
    <3>3. w \in Nat /\ z \in Nat /\ td \in Nat /\ md \in Nat
      BY <2>1
    <3> HIDE DEF w, z
    <3> QED BY <3>1, <3>2, <3>3
  <2>3. z = 4 * td + md /\ (MaxRetries + 1) * AttemptTimeout = td + AttemptTimeout
    BY <2>1 DEF Round
  <2>4. 4 * elapsed <= w + 4 * AttemptTimeout
    BY <2>1, <2>2 DEF RetryInv
  <2>5. LatencyBound <=> elapsed <= (td + AttemptTimeout) + md \div 4
    BY <2>3 DEF LatencyBound
  <2> HIDE DEF w, z, td, md
  <2>6. 4 * (elapsed - (td + AttemptTimeout)) <= md
    BY <2>1, <2>2, <2>3, <2>4
  <2>7. \A e \in Int : 4 * e <= md => e <= md \div 4
    BY <2>2
  <2>8. elapsed - (td + AttemptTimeout) <= md \div 4
    BY <2>1, <2>2, <2>6, <2>7
  <2>9. md \div 4 \in Int
    BY <2>2
  <2> QED BY <2>1, <2>2, <2>5, <2>8, <2>9
<1> QED
  BY <1>1, RetryStart, RetryKept, PTL DEF DecisionsSpec

(* A capped delay that has room to double, doubled, is out of the jitter's *)
(* reach.                                                                  *)
LEMMA JitterIsOutgrown ==
    ASSUME NEW c \in Nat, c >= 2, NEW d \in Jittered(c), NEW e \in Jittered(2 * c)
    PROVE  e > d
<1>1. d \in Int /\ e \in Int /\ d <= (5 * c - 1) \div 4 /\ e >= (3 * (2 * c)) \div 4
  BY DEF Jittered
<1>2. (3 * (2 * c)) \div 4 > (5 * c - 1) \div 4
  OBVIOUS
<1> QED BY <1>1, <1>2

(***************************************************************************)
(* For every base delay of 2 ms or more: exponential backoff outgrows its  *)
(* jitter, until the cap (resilience/lib.rs 298-312).                      *)
(***************************************************************************)
THEOREM DelaysOutgrowJitter == DecisionsSpec => BackoffGrows
<1> DEFINE Grows == phase = "calling" /\ phase' = "sleeping" /\ attempt > 0
                       /\ BaseDelay >= 2 /\ BaseDelay * PowerOf2[attempt] <= MaxDelay
                    => delay' > delay
<1>1. ASSUME RetryInv, NEW n, Fail(n), phase' = "sleeping", attempt > 0, BaseDelay >= 2,
             BaseDelay * PowerOf2[attempt] <= MaxDelay
      PROVE  delay' > delay
  <2> DEFINE a == attempt - 1
             c == BaseDelay * PowerOf2[a]
  <2>1. a \in Nat /\ a + 1 = attempt /\ BaseDelay \in Nat /\ MaxDelay \in Nat
    BY <1>1, RetryAssumption DEF RetryInv
  <2>2. delay \in DelayForAttempt(a) /\ delay' \in DelayForAttempt(attempt)
    BY <1>1 DEF RetryInv, Fail
  <2>3. PowerOf2[a] \in Nat \ {0} /\ PowerOf2[attempt] = 2 * PowerOf2[a]
    BY <2>1, PowersDouble, PowersArePositive
  <2>4. c \in Nat /\ c >= 2 /\ BaseDelay * PowerOf2[attempt] = 2 * c
    <3> DEFINE p == PowerOf2[a]
    <3>1. p \in Nat \ {0} /\ PowerOf2[attempt] = 2 * p
      BY <2>3
    <3> HIDE DEF p
    <3>2. BaseDelay * p \in Nat /\ BaseDelay * p >= 2 /\ BaseDelay * (2 * p) = 2 * (BaseDelay * p)
      BY <1>1, <2>1, <3>1
    <3> QED BY <3>1, <3>2 DEF p
  <2>5. Capped(a) = c /\ Capped(attempt) = 2 * c
    <3>1. 2 * c <= MaxDelay
      BY <1>1, <2>4
    <3> HIDE DEF c
    <3>2. AtMost(MaxDelay, c) = c /\ AtMost(MaxDelay, 2 * c) = 2 * c
      BY <2>1, <2>4, <3>1 DEF AtMost
    <3> QED BY <2>4, <3>2 DEF Capped, c
  <2> HIDE DEF a, c
  <2>6. CASE UseJitter
    BY <2>2, <2>4, <2>5, <2>6, JitterIsOutgrown DEF DelayForAttempt
  <2>7. CASE ~UseJitter
    BY <2>2, <2>4, <2>5, <2>7 DEF DelayForAttempt
  <2> QED BY <2>6, <2>7
<1>2. RetryInv /\ [DecisionsNext]_decisionVars => [Grows]_retryVars
  <2> SUFFICES ASSUME RetryInv, [DecisionsNext]_decisionVars, ~UNCHANGED retryVars,
                      phase = "calling", phase' = "sleeping", attempt > 0, BaseDelay >= 2,
                      BaseDelay * PowerOf2[attempt] <= MaxDelay
               PROVE  delay' > delay
    OBVIOUS
  <2>1. RetryNext
    BY DEF DecisionsNext, decisionVars, RetryStep, ResolutionStep, PolicyStep, HealthStep,
           GateStep, LedgerStep
  <2>2. \E n \in 0 .. AttemptTimeout : Fail(n)
    BY <2>1 DEF RetryNext, Succeed, WakeUp
  <2> QED BY <1>1, <2>2
<1> QED
  BY <1>2, RetryStart, RetryKept, PTL DEF DecisionsSpec, BackoffGrows
-----------------------------------------------------------------------------
(* Policies *)

Held == { n \in PolicyNames : policies[n] # NoPolicy }

PolicyInv ==
    /\ DOMAIN policies = PolicyNames
    /\ IsFiniteSet(Held)
    /\ \A n \in Held : policies[n].priority \in Int

LEMMA OneHeld ==
    ASSUME NEW n, NEW p, p.priority \in Int, policies = Only(n, p)
    PROVE  PolicyInv
<1>1. DOMAIN policies = PolicyNames /\ \A m \in PolicyNames : policies[m] = IF m = n THEN p ELSE NoPolicy
  BY DEF Only
<1>2. Held \in SUBSET {n} /\ \A m \in Held : policies[m] = p
  BY <1>1 DEF Held
<1>3. IsFiniteSet(Held)
  BY <1>2, FS_Singleton, FS_Subset
<1> QED BY <1>1, <1>2, <1>3 DEF PolicyInv

LEMMA PolicyStart == DecisionsInit => PolicyInv
<1> SUFFICES ASSUME PolicyInit PROVE PolicyInv
  BY DEF DecisionsInit
<1>1. CASE policies = [n \in PolicyNames |-> NoPolicy]
  <2>1. Held = {} /\ DOMAIN policies = PolicyNames
    BY <1>1 DEF Held
  <2> QED BY <2>1, FS_EmptySet DEF PolicyInv
<1>2. CASE policies = WithDefaults
  <2>1. DefaultSafety.priority = 100
    BY DEF DefaultSafety, Policy
  <2> HIDE DEF DefaultSafety
  <2> QED BY <1>2, <2>1, OneHeld DEF WithDefaults
<1>3. ASSUME NEW n \in PolicyNames, NEW header \in PolicyHeader, NEW q \in Policies,
             policies = FromToml(n, header, q.rules)
      PROVE  PolicyInv
  <2> DEFINE p == [Policy(Given(header.priority, 0), Given(header.default, "Denied"), q.rules)
                      EXCEPT !.enabled = Given(header.enabled, TRUE)]
  <2>1. Given(header.priority, 0) \in Int
    BY DEF PolicyHeader, Given
  <2>2. p.priority \in Int
    BY <2>1 DEF Policy
  <2>3. policies = Only(n, p)
    BY <1>3 DEF FromToml
  <2> HIDE DEF p
  <2> QED BY <2>2, <2>3, OneHeld
<1> QED BY <1>1, <1>2, <1>3 DEF PolicyInit

LEMMA PolicyKept == PolicyInv /\ [DecisionsNext]_decisionVars => PolicyInv'
<1> SUFFICES ASSUME PolicyInv, [DecisionsNext]_decisionVars PROVE PolicyInv'
  OBVIOUS
<1>1. CASE UNCHANGED policies
  BY <1>1 DEF PolicyInv, Held
<1>2. ASSUME NEW n \in PolicyNames, NEW p, p = NoPolicy \/ p \in Policies,
             policies' = [policies EXCEPT ![n] = p]
      PROVE  PolicyInv'
  <2>1. /\ DOMAIN policies' = PolicyNames
        /\ \A m \in PolicyNames : policies'[m] = IF m = n THEN p ELSE policies[m]
    BY <1>2 DEF PolicyInv
  <2>2. Held' \in SUBSET (Held \cup {n})
    BY <2>1 DEF Held
  <2>3. IsFiniteSet(Held')
    BY <2>2, FS_AddElement, FS_Subset DEF PolicyInv
  <2>4. \A m \in Held' : policies'[m].priority \in Int
    BY <1>2, <2>1, PolicyAssumption DEF Held, PolicyInv
  <2> QED BY <2>1, <2>3, <2>4 DEF PolicyInv
<1> QED
  BY <1>1, <1>2 DEF DecisionsNext, decisionVars, RetryStep, ResolutionStep, PolicyStep,
         HealthStep, GateStep, LedgerStep, PolicyNext, AddPolicy, RemovePolicy, Evaluate, policyVars

(* A finite set of policies has one of lowest priority.                    *)
LEMMA LowestExists ==
    ASSUME PolicyInv, NEW S \in SUBSET Held, S # {}
    PROVE  \E x \in S : \A y \in S : policies[x].priority <= policies[y].priority
<1> DEFINE Low(U) == \E x \in U : \A y \in U : policies[x].priority <= policies[y].priority
           T == { k \in Nat : \A U \in SUBSET Held : Cardinality(U) = k + 1 => Low(U) }
<1>1. \A U \in SUBSET Held : IsFiniteSet(U) /\ Cardinality(U) \in Nat
                              /\ \A n \in U : policies[n].priority \in Int
  BY FS_Subset, FS_CardinalityType DEF PolicyInv
<1>2. 0 \in T
  <2> SUFFICES ASSUME NEW U \in SUBSET Held, Cardinality(U) = 1 PROVE Low(U)
    OBVIOUS
  <2>1. PICK x : U = {x}
    BY <1>1, FS_Singleton
  <2> QED BY <1>1, <2>1
<1>3. ASSUME NEW k \in Nat, k \in T PROVE k + 1 \in T
  <2> SUFFICES ASSUME NEW U \in SUBSET Held, Cardinality(U) = (k + 1) + 1 PROVE Low(U)
    OBVIOUS
  <2>1. PICK z \in U : TRUE
    BY <1>1, FS_EmptySet
  <2> DEFINE V == U \ {z}
  <2>2. V \in SUBSET Held /\ Cardinality(V) = k + 1
    BY <1>1, <2>1, FS_RemoveElement
  <2>3. PICK x \in V : \A y \in V : policies[x].priority <= policies[y].priority
    BY <1>3, <2>2
  <2>4. policies[x].priority \in Int /\ policies[z].priority \in Int
    BY <1>1, <2>1, <2>3
  <2>5. CASE policies[x].priority <= policies[z].priority
    BY <2>3, <2>5
  <2>6. CASE policies[z].priority < policies[x].priority
    <3>1. \A y \in U : policies[z].priority <= policies[y].priority
      BY <1>1, <2>3, <2>4, <2>6
    <3> QED BY <2>1, <3>1
  <2> QED BY <2>4, <2>5, <2>6
<1>4. T \subseteq Nat
  OBVIOUS
<1>5. S \in SUBSET Held /\ Cardinality(S) \in Nat /\ Cardinality(S) # 0
  BY <1>1, FS_EmptySet
<1> HIDE DEF T, Low
<1>6. T = Nat
  BY <1>2, <1>3, <1>4, NaturalInduction
<1>7. Cardinality(S) - 1 \in T /\ Cardinality(S) = (Cardinality(S) - 1) + 1
  BY <1>5, <1>6
<1>8. Low(S)
  BY <1>5, <1>7 DEF T
<1> QED BY <1>8 DEF Low

(* Each policy once, none before one of higher priority.                   *)
SortedBy(order, k, S) ==
    /\ order \in [1 .. k -> S]
    /\ \A i, j \in 1 .. k : i # j => order[i] # order[j]
    /\ \A i, j \in 1 .. k : i < j => Precedes(order[i], order[j])

LEMMA SortExists ==
    ASSUME PolicyInv, NEW S \in SUBSET Held
    PROVE  \E order : SortedBy(order, Cardinality(S), S)
<1> DEFINE Sorts(k, U) == \E order : SortedBy(order, k, U)
           T == { k \in Nat : \A U \in SUBSET Held : Cardinality(U) = k => Sorts(k, U) }
<1>1. \A U \in SUBSET Held : IsFiniteSet(U) /\ Cardinality(U) \in Nat
                              /\ \A n \in U : policies[n].priority \in Int
  BY FS_Subset, FS_CardinalityType DEF PolicyInv
<1>2. 0 \in T
  <2> SUFFICES ASSUME NEW U \in SUBSET Held, Cardinality(U) = 0 PROVE Sorts(0, U)
    OBVIOUS
  <2>1. 1 .. 0 = {}
    OBVIOUS
  <2>2. SortedBy([i \in 1 .. 0 |-> i], 0, U)
    BY <2>1 DEF SortedBy
  <2> QED BY <2>2
<1>3. ASSUME NEW k \in Nat, k \in T PROVE k + 1 \in T
  <2> SUFFICES ASSUME NEW U \in SUBSET Held, Cardinality(U) = k + 1 PROVE Sorts(k + 1, U)
    OBVIOUS
  <2>1. PICK z \in U : \A y \in U : policies[z].priority <= policies[y].priority
    BY <1>1, FS_EmptySet, LowestExists
  <2> DEFINE V == U \ {z}
  <2>2. V \in SUBSET Held /\ Cardinality(V) = k
    <3>1. V \in SUBSET Held
      OBVIOUS
    <3>2. Cardinality(V) = (k + 1) - 1
      BY <1>1, <2>1, FS_RemoveElement
    <3> QED BY <3>1, <3>2
  <2>3. PICK order : SortedBy(order, k, V)
    BY <1>3, <2>2
  <2> DEFINE more == [i \in 1 .. k + 1 |-> IF i = k + 1 THEN z ELSE order[i]]
  <2>4. /\ \A i \in 1 .. k : order[i] \in V
        /\ \A i, j \in 1 .. k : i # j => order[i] # order[j]
        /\ \A i, j \in 1 .. k : i < j => Precedes(order[i], order[j])
    BY <2>3 DEF SortedBy
  <2>5. more[k + 1] = z /\ \A i \in 1 .. k : more[i] = order[i]
    OBVIOUS
  <2>6. more \in [1 .. k + 1 -> U]
    <3>1. \A i \in 1 .. k + 1 : i # k + 1 => i \in 1 .. k
      OBVIOUS
    <3> QED BY <2>1, <2>4, <3>1
  <2> HIDE DEF more
  <2>7. ASSUME NEW i \in 1 .. k + 1, NEW j \in 1 .. k + 1, i < j
        PROVE  more[i] # more[j] /\ Precedes(more[i], more[j])
    <3>1. i \in 1 .. k /\ more[i] = order[i] /\ order[i] \in V
      BY <2>4, <2>5, <2>7
    <3>2. CASE j = k + 1
      BY <1>1, <2>1, <2>5, <3>1, <3>2 DEF Precedes
    <3>3. CASE j \in 1 .. k
      <4>1. more[j] = order[j] /\ i # j
        BY <2>5, <2>7, <3>3
      <4> QED BY <2>4, <2>7, <3>1, <3>3, <4>1
    <3> QED BY <3>2, <3>3
  <2>8. \A i, j \in 1 .. k + 1 : i # j => more[i] # more[j]
    <3>1. \A i, j \in 1 .. k + 1 : i # j => i < j \/ j < i
      OBVIOUS
    <3> QED BY <2>7, <3>1
  <2>9. SortedBy(more, k + 1, U)
    BY <2>6, <2>7, <2>8 DEF SortedBy
  <2> QED BY <2>9
<1>4. T \subseteq Nat
  OBVIOUS
<1> HIDE DEF T, Sorts
<1>5. T = Nat
  BY <1>2, <1>3, <1>4, NaturalInduction
<1>6. Cardinality(S) \in T
  BY <1>1, <1>5
<1>7. Sorts(Cardinality(S), S)
  BY <1>6 DEF T
<1> QED BY <1>7 DEF Sorts

(* An order of the enabled policies has every one of them.                 *)
LEMMA SortedHasAll ==
    ASSUME PolicyInv, NEW order \in SortedPolicies
    PROVE  LET k == Cardinality(Enabled)
           IN  /\ k \in Nat /\ order \in Seq(Enabled) /\ Len(order) = k
               /\ DOMAIN order = 1 .. k
               /\ \A i \in 1 .. k : order[i] \in Enabled
               /\ \A n \in Enabled : \E i \in 1 .. k : order[i] = n
               /\ \A i, j \in 1 .. k : i < j => Precedes(order[i], order[j])
<1> DEFINE k == Cardinality(Enabled)
<1>1. Enabled \in SUBSET Held
  BY DEF Enabled, Held
<1>2. IsFiniteSet(Enabled) /\ k \in Nat
  BY <1>1, FS_Subset, FS_CardinalityType DEF PolicyInv
<1>3. SortedBy(order, k, Enabled)
  BY DEF SortedPolicies, SortedBy
<1> HIDE DEF k
<1>4. order \in [1 .. k -> Enabled] /\ \A i, j \in 1 .. k : i # j => order[i] # order[j]
  BY <1>3 DEF SortedBy
<1>5. order \in Injection(1 .. k, Enabled)
  BY <1>4 DEF Injection, IsInjective
<1>6. Cardinality(1 .. k) = k
  BY <1>2, FS_Interval
<1>7. order \in Surjection(1 .. k, Enabled)
  BY <1>2, <1>5, <1>6, FS_Injection DEF k
<1>8. order \in Seq(Enabled) /\ Len(order) = k /\ DOMAIN order = 1 .. k
  BY <1>2, <1>4
<1>9. \A n \in Enabled : \E i \in 1 .. k : order[i] = n
  BY <1>7 DEF Surjection
<1> QED BY <1>2, <1>3, <1>4, <1>8, <1>9 DEF SortedBy, k

(* The least of a set of places of a list.                                 *)
LEMMA ForemostIsLeast ==
    ASSUME NEW places \in SUBSET Nat, places # {}
    PROVE  Foremost(places) \in places /\ \A j \in places : Foremost(places) <= j
BY LeastNatural DEF Foremost

(***************************************************************************)
(* For any policies, any number of them enabled, and any request: whatever *)
(* order the hash map gives, the verdict of policy.rs (evaluate, 287-323)  *)
(* is that of a policy of the highest priority concerned.                  *)
(***************************************************************************)
THEOREM HighestDecide == DecisionsSpec => []PriorityDecides
<1>1. ASSUME PolicyInv, NEW request \in Requests
      PROVE  LET concerned == { n \in Enabled : Matching(n, request) # {} }
                 candidates == IF concerned # {} THEN concerned ELSE Enabled
                 highest == { n \in candidates : \A m \in candidates :
                                 policies[m].priority <= policies[n].priority }
             IN  /\ concerned # {} =>
                       Verdicts(request) \subseteq { RuleEffect(n, request) : n \in highest }
                 /\ Cardinality(highest) = 1 => Cardinality(Verdicts(request)) = 1
  <2> DEFINE concerned == { n \in Enabled : Matching(n, request) # {} }
             candidates == IF concerned # {} THEN concerned ELSE Enabled
             highest == { n \in candidates : \A m \in candidates :
                             policies[m].priority <= policies[n].priority }
             k == Cardinality(Enabled)
             Answer(n) == IF concerned # {} THEN RuleEffect(n, request) ELSE policies[n].default
  <2>1. ASSUME NEW order \in SortedPolicies, candidates # {}
        PROVE  \E n \in highest : VerdictIn(order, request) = Answer(n)
    <3> DEFINE deciding == { i \in DOMAIN order : Matching(order[i], request) # {} }
    <3>1. /\ k \in Nat /\ Len(order) = k /\ DOMAIN order = 1 .. k
          /\ \A i \in 1 .. k : order[i] \in Enabled
          /\ \A n \in Enabled : \E i \in 1 .. k : order[i] = n
          /\ \A i, j \in 1 .. k : i < j =>
                policies[order[i]].priority >= policies[order[j]].priority
          /\ \A i \in 1 .. k : policies[order[i]].priority \in Int
      <4>1. /\ k \in Nat /\ Len(order) = k /\ DOMAIN order = 1 .. k
            /\ \A i \in 1 .. k : order[i] \in Enabled
            /\ \A n \in Enabled : \E i \in 1 .. k : order[i] = n
            /\ \A i, j \in 1 .. k : i < j => Precedes(order[i], order[j])
        BY <1>1, SortedHasAll
      <4>2. \A n \in Enabled : policies[n].priority \in Int
        BY <1>1 DEF PolicyInv, Held, Enabled
      <4> HIDE DEF k
      <4> QED BY <4>1, <4>2 DEF Precedes
    <3> HIDE DEF k
    <3>2. CASE concerned # {}
      <4>1. PICK n \in concerned : TRUE
        BY <3>2
      <4>2. n \in Enabled /\ Matching(n, request) # {}
        BY <4>1
      <4>3. deciding # {} /\ deciding \in SUBSET Nat
        <5>1. PICK j \in 1 .. k : order[j] = n
          BY <3>1, <4>2
        <5>2. j \in deciding
          BY <3>1, <4>2, <5>1
        <5>3. deciding \subseteq 1 .. k /\ 1 .. k \subseteq Nat
          BY <3>1
        <5> HIDE DEF deciding
        <5> QED BY <5>2, <5>3
      <4> DEFINE i == Foremost(deciding)
      <4>4. i \in deciding /\ \A j \in deciding : i <= j
        BY <4>3, ForemostIsLeast
      <4>5. i \in 1 .. k /\ order[i] \in concerned
        BY <3>1, <4>4
      <4>6. VerdictIn(order, request) = RuleEffect(order[i], request)
        BY <4>3 DEF VerdictIn
      <4> HIDE DEF i
      <4>7. ASSUME NEW m \in concerned
            PROVE  policies[m].priority <= policies[order[i]].priority
        <5>1. PICK j \in 1 .. k : order[j] = m
          BY <3>1
        <5>2. j \in deciding
          BY <3>1, <5>1
        <5>3. i <= j
          BY <4>4, <5>2
        <5> QED BY <3>1, <4>5, <5>1, <5>3
      <4>8. order[i] \in highest
        BY <3>2, <4>5, <4>7
      <4> QED BY <3>2, <4>6, <4>8
    <3>3. CASE concerned = {}
      <4>1. k > 0 /\ Enabled # {}
        BY <2>1, <3>1, <3>3
      <4>2. deciding = {}
        BY <3>1, <3>3
      <4>3. VerdictIn(order, request) = policies[order[1]].default
        BY <3>1, <4>1, <4>2 DEF VerdictIn
      <4>4. ASSUME NEW m \in Enabled
            PROVE  policies[m].priority <= policies[order[1]].priority
        <5>1. PICK j \in 1 .. k : order[j] = m
          BY <3>1
        <5>2. 1 \in 1 .. k /\ (j = 1 \/ 1 < j)
          BY <3>1, <4>1
        <5> QED BY <3>1, <5>1, <5>2
      <4>5. order[1] \in highest
        BY <3>1, <3>3, <4>1, <4>4
      <4> QED BY <3>3, <4>3, <4>5
    <3> QED BY <3>2, <3>3
  <2>2. ASSUME concerned # {}
        PROVE  Verdicts(request) \subseteq { RuleEffect(n, request) : n \in highest }
    <3>1. \A n : Answer(n) = RuleEffect(n, request)
      BY <2>2
    <3>2. candidates # {}
      BY <2>2
    <3> HIDE DEF concerned, candidates, highest, Answer
    <3> QED BY <2>1, <3>1, <3>2 DEF Verdicts
  <2>3. ASSUME Cardinality(highest) = 1 PROVE Cardinality(Verdicts(request)) = 1
    <3>1. candidates \in SUBSET Held /\ highest \in SUBSET Held
      BY DEF Enabled, Held
    <3>2. IsFiniteSet(highest)
      BY <1>1, <3>1, FS_Subset DEF PolicyInv
    <3> HIDE DEF highest
    <3>3. PICK n : highest = {n}
      BY <2>3, <3>2, FS_Singleton
    <3>4. candidates # {}
      BY <3>3 DEF highest
    <3>5. PICK order : order \in SortedPolicies
      <4>1. Enabled \in SUBSET Held
        BY DEF Enabled, Held
      <4>2. PICK order : SortedBy(order, k, Enabled)
        BY <1>1, <4>1, SortExists
      <4> QED BY <4>2 DEF SortedBy, SortedPolicies
    <3> HIDE DEF candidates, Answer
    <3>6. \A o \in SortedPolicies : VerdictIn(o, request) = Answer(n)
      BY <2>1, <3>3, <3>4
    <3>7. Verdicts(request) = {Answer(n)}
      BY <3>5, <3>6 DEF Verdicts
    <3> QED BY <3>7, FS_Singleton
  <2> QED BY <2>2, <2>3
<1>2. PolicyInv => PriorityDecides
  BY <1>1 DEF PriorityDecides
<1> QED
  BY <1>2, PolicyStart, PolicyKept, PTL DEF DecisionsSpec


-----------------------------------------------------------------------------
(* The gates *)

GatesInv ==
    /\ guarding \in BOOLEAN /\ scanning \in BOOLEAN
    /\ DOMAIN told = Tools
    /\ \A tool \in Tools : tool \in allowed <=> told[tool] = "allow"

LEMMA GatesStart == DecisionsInit => GatesInv
BY DEF DecisionsInit, GatesInit, GatesInv

LEMMA GatesKept == GatesInv /\ [DecisionsNext]_decisionVars => GatesInv'
<1> SUFFICES ASSUME GatesInv, [DecisionsNext]_decisionVars PROVE GatesInv'
  OBVIOUS
<1>1. CASE UNCHANGED gateVars
  BY <1>1 DEF GatesInv, gateVars
<1>2. ASSUME NEW tool \in Tools, AllowTool(tool) \/ DenyTool(tool) PROVE GatesInv'
  <2>1. guarding' = guarding /\ scanning' = scanning
    BY <1>2 DEF AllowTool, DenyTool, Tell
  <2>2. CASE AllowTool(tool)
    <3>1. told' = [told EXCEPT ![tool] = "allow"] /\ allowed' = allowed \cup {tool}
      BY <2>2 DEF AllowTool, Tell
    <3> QED BY <2>1, <3>1 DEF GatesInv
  <2>3. CASE DenyTool(tool)
    <3>1. told' = [told EXCEPT ![tool] = "deny"] /\ allowed' = allowed \ {tool}
      BY <2>3 DEF DenyTool, Tell
    <3> QED BY <2>1, <3>1 DEF GatesInv
  <2> QED BY <1>2, <2>2, <2>3
<1>3. ASSUME NEW on \in BOOLEAN, SetGuard(on) \/ SetScanner(on) PROVE GatesInv'
  BY <1>3 DEF SetGuard, SetScanner, GatesInv
<1> QED
  BY <1>1, <1>2, <1>3 DEF DecisionsNext, decisionVars, RetryStep, ResolutionStep, PolicyStep,
         HealthStep, GateStep, LedgerStep, GatesNext

Inside(address) == \E block \in Blocks(address.family) :
    Leading(address) \in block[1] .. block[1] + block[2] - 1

LEMMA OctetRange == \A n \in Octet : n \in Nat /\ n <= 255
BY DEF Octet

LEMMA SegmentRange == \A n \in Segment : n \in Nat /\ n <= 65535
BY DEF Segment

(* The two masks of ssrf.rs, as ranges.                                    *)
LEMMA MaskedRanges ==
    ASSUME NEW n \in Nat, n <= 65535
    PROVE  /\ Masked(n, 512) = 64512 <=> n \in 64512 .. 64512 + 512 - 1
           /\ Masked(n, 64) = 65152 <=> n \in 65152 .. 65152 + 64 - 1
<1>1. n - (n % 512) = 64512 <=> n \in 64512 .. 64512 + 512 - 1
  OBVIOUS
<1>2. n - (n % 64) = 65152 <=> n \in 65152 .. 65152 + 64 - 1
  OBVIOUS
<1> QED BY <1>1, <1>2 DEF Masked

LEMMA Ipv4Blocked ==
    ASSUME NEW octets \in [1 .. 4 -> Octet]
    PROVE  LET address == [family |-> 4, parts |-> octets]
           IN  BlocksIpv4(octets) <=> Inside(address) \/ address \in SpecialAddresses
<1> DEFINE address == [family |-> 4, parts |-> octets]
           a == octets[1]
           b == octets[2]
<1>1. a \in Nat /\ a <= 255 /\ b \in Nat /\ b <= 255
  <2>1. a \in Octet /\ b \in Octet
    OBVIOUS
  <2> HIDE DEF a, b
  <2> QED BY <2>1, OctetRange
<1>2. Inside(address) <=>
        \/ a * 256 + b \in 127 * 256 .. 127 * 256 + 256 - 1
        \/ a * 256 + b \in 10 * 256 .. 10 * 256 + 256 - 1
        \/ a * 256 + b \in 172 * 256 + 16 .. 172 * 256 + 16 + 16 - 1
        \/ a * 256 + b \in 192 * 256 + 168 .. 192 * 256 + 168 + 1 - 1
        \/ a * 256 + b \in 169 * 256 + 254 .. 169 * 256 + 254 + 1 - 1
  <2> DEFINE In(block) == Leading(address) \in block[1] .. block[1] + block[2] - 1
  <2>1. Inside(address) <=> \E block \in Blocks(4) : In(block)
    BY DEF Inside
  <2>2. Leading(address) = a * 256 + b
    BY DEF Leading
  <2>3. /\ In(<< 127 * 256, 256 >>) <=> a * 256 + b \in 127 * 256 .. 127 * 256 + 256 - 1
        /\ In(<< 10 * 256, 256 >>) <=> a * 256 + b \in 10 * 256 .. 10 * 256 + 256 - 1
        /\ In(<< 172 * 256 + 16, 16 >>)
               <=> a * 256 + b \in 172 * 256 + 16 .. 172 * 256 + 16 + 16 - 1
        /\ In(<< 192 * 256 + 168, 1 >>)
               <=> a * 256 + b \in 192 * 256 + 168 .. 192 * 256 + 168 + 1 - 1
        /\ In(<< 169 * 256 + 254, 1 >>)
               <=> a * 256 + b \in 169 * 256 + 254 .. 169 * 256 + 254 + 1 - 1
    BY <2>2
  <2>4. Blocks(4) = {<< 127 * 256, 256 >>, << 10 * 256, 256 >>, << 172 * 256 + 16, 16 >>,
                     << 192 * 256 + 168, 1 >>, << 169 * 256 + 254, 1 >>}
    BY DEF Blocks
  <2> DEFINE b1 == << 127 * 256, 256 >>
             b2 == << 10 * 256, 256 >>
             b3 == << 172 * 256 + 16, 16 >>
             b4 == << 192 * 256 + 168, 1 >>
             b5 == << 169 * 256 + 254, 1 >>
  <2>5. Blocks(4) = {b1, b2, b3, b4, b5}
    BY <2>4
  <2> HIDE DEF In, b1, b2, b3, b4, b5
  <2>6. (\E block \in Blocks(4) : In(block)) <=> In(b1) \/ In(b2) \/ In(b3) \/ In(b4) \/ In(b5)
    BY <2>5
  <2> HIDE DEF address, a, b
  <2> QED BY <2>1, <2>3, <2>6 DEF b1, b2, b3, b4, b5
<1>3. /\ a * 256 + b \in 127 * 256 .. 127 * 256 + 256 - 1 <=> a = 127
      /\ a * 256 + b \in 10 * 256 .. 10 * 256 + 256 - 1 <=> a = 10
      /\ a * 256 + b \in 172 * 256 + 16 .. 172 * 256 + 16 + 16 - 1 <=> a = 172 /\ b \in 16 .. 31
      /\ a * 256 + b \in 192 * 256 + 168 .. 192 * 256 + 168 + 1 - 1 <=> a = 192 /\ b = 168
      /\ a * 256 + b \in 169 * 256 + 254 .. 169 * 256 + 254 + 1 - 1 <=> a = 169 /\ b = 254
  <2> HIDE DEF a, b
  <2> QED BY <1>1
<1>4. address \in SpecialAddresses <=> \A i \in 1 .. 4 : octets[i] = 255
  <2>1. address \in SpecialAddresses <=> octets = << 255, 255, 255, 255 >>
    BY DEF SpecialAddresses
  <2>2. octets = << 255, 255, 255, 255 >> <=> \A i \in 1 .. 4 : octets[i] = 255
    OBVIOUS
  <2> QED BY <2>1, <2>2
<1> QED BY <1>2, <1>3, <1>4 DEF BlocksIpv4

LEMMA Ipv6Blocked ==
    ASSUME NEW segments \in [1 .. 8 -> Segment]
    PROVE  LET address == [family |-> 6, parts |-> segments]
           IN  BlocksIpv6(segments) <=> Inside(address) \/ address \in SpecialAddresses
<1> DEFINE address == [family |-> 6, parts |-> segments]
           n == segments[1]
<1>1. n \in Nat /\ n <= 65535
  <2>1. n \in Segment
    OBVIOUS
  <2> HIDE DEF n
  <2> QED BY <2>1, SegmentRange
<1>2. Inside(address) <=>
        \/ n \in 64512 .. 64512 + 512 - 1
        \/ n \in 65152 .. 65152 + 64 - 1
  <2> DEFINE In(block) == Leading(address) \in block[1] .. block[1] + block[2] - 1
  <2>1. Inside(address) <=> \E block \in Blocks(6) : In(block)
    BY DEF Inside
  <2>2. Leading(address) = n
    BY DEF Leading
  <2>3. /\ In(<< 64512, 512 >>) <=> n \in 64512 .. 64512 + 512 - 1
        /\ In(<< 65152, 64 >>) <=> n \in 65152 .. 65152 + 64 - 1
    BY <2>2
  <2>4. Blocks(6) = {<< 64512, 512 >>, << 65152, 64 >>}
    BY DEF Blocks
  <2> DEFINE b1 == << 64512, 512 >>
             b2 == << 65152, 64 >>
  <2>5. Blocks(6) = {b1, b2}
    BY <2>4
  <2> HIDE DEF In, b1, b2
  <2>6. (\E block \in Blocks(6) : In(block)) <=> In(b1) \/ In(b2)
    BY <2>5
  <2> HIDE DEF address, n
  <2> QED BY <2>1, <2>3, <2>6 DEF b1, b2
<1>3. /\ Masked(n, 512) = 64512 <=> n \in 64512 .. 64512 + 512 - 1
      /\ Masked(n, 64) = 65152 <=> n \in 65152 .. 65152 + 64 - 1
  BY <1>1, MaskedRanges
<1>5. address \in SpecialAddresses <=> segments = << 0, 0, 0, 0, 0, 0, 0, 1 >>
  BY DEF SpecialAddresses
<1> QED BY <1>2, <1>3, <1>5 DEF BlocksIpv6

LEMMA ScanFinds ==
    ASSUME GatesInv, NEW text \in Texts
    PROVE  /\ Scan(text) # "Clean" <=> scanning /\ text # {}
           /\ Scan(text) \in text \cup {"Clean"}
<1> DEFINE patterns == InjectionPatterns
           matching == Filter(patterns, text)
<1>0. Len(patterns) = 12 /\ DOMAIN patterns = 1 .. 12
  BY DEF InjectionPatterns
<1>1. PICK S : patterns \in Seq(S)
  <2> DEFINE n == 12
             R == ToSet(patterns)
  <2>1. n \in Nat /\ patterns = [i \in 1 .. n |-> patterns[i]]
    BY DEF InjectionPatterns
  <2>2. R = { patterns[i] : i \in 1 .. n }
    BY <1>0 DEF ToSet
  <2> HIDE DEF n, R, patterns
  <2>3. \A i \in 1 .. n : patterns[i] \in R
    BY <2>2
  <2>4. patterns \in Seq(R)
    BY <2>1, <2>3
  <2> QED BY <2>4
<1>2. \A i \in 1 .. 12 : patterns[i] # "Clean"
  BY DEF InjectionPatterns
<1>3. ToSet(patterns) = { patterns[i] : i \in 1 .. 12 }
  BY <1>0 DEF ToSet
<1>4. \A x \in text : x # "Clean" /\ \E i \in 1 .. Len(patterns) : patterns[i] = x
  BY <1>0, <1>2, <1>3, GatesAssumption
<1> HIDE DEF patterns
<1>5. matching \in Seq(S)
  BY <1>1, FilterSelects
<1>6. \A x : (\E i \in 1 .. Len(matching) : matching[i] = x)
                 <=> x \in text /\ \E j \in 1 .. Len(patterns) : patterns[j] = x
  BY <1>1, FilterMembers
<1> HIDE DEF matching
<1>7. matching # << >> => Head(matching) \in text
  <2> SUFFICES ASSUME matching # << >> PROVE Head(matching) \in text
    OBVIOUS
  <2>1. 1 \in 1 .. Len(matching) /\ Head(matching) = matching[1]
    BY <1>5
  <2> QED BY <1>6, <2>1
<1>8. matching = << >> => text = {}
  <2>1. matching = << >> => 1 .. Len(matching) = {}
    BY <1>5
  <2> QED BY <1>4, <1>6, <2>1
<1>9. Scan(text) = IF scanning /\ matching # << >> THEN Head(matching) ELSE "Clean"
  BY DEF Scan, matching, patterns
<1> QED BY <1>4, <1>7, <1>8, <1>9 DEF GatesInv

(* A URL is answered as its host is, when extract_host finds it whole.     *)
LEMMA UrlHosts ==
    ASSUME GatesInv, NEW address \in Addresses, NEW port \in BOOLEAN,
           CheckHostname("literal", address) = CheckIp(address)
    PROVE  /\ address.family = 4 \/ port =>
                 CheckUrl("literal", address, port) = {CheckIp(address)}
           /\ guarding => \A kind \in {"none", "localhost"} :
                 CheckUrl(kind, address, port) = {"Blocked"}
<1>1. address.family \in {4, 6}
  BY GatesAssumption DEF Ipv4Addresses, Ipv6Addresses
<1>2. ASSUME address.family = 4 \/ port
      PROVE  CheckUrl("literal", address, port) = {CheckIp(address)}
  <2>1. ExtractHost("literal", address, port) = {<< "literal", address >>}
    BY <1>1, <1>2 DEF ExtractHost
  <2> DEFINE answer(host) == IF guarding /\ host[1] = "none" THEN "Blocked"
                             ELSE CheckHostname(host[1], host[2])
  <2>2. answer(<< "literal", address >>) = CheckIp(address)
    OBVIOUS
  <2>3. CheckUrl("literal", address, port) = { answer(host) : host \in {<< "literal", address >>} }
    BY <2>1 DEF CheckUrl
  <2> HIDE DEF answer
  <2> QED BY <2>2, <2>3
<1>3. ASSUME guarding, NEW kind \in {"none", "localhost"}
      PROVE  CheckUrl(kind, address, port) = {"Blocked"}
  <2>1. ExtractHost(kind, address, port) = {<< kind, address >>}
    BY DEF ExtractHost
  <2>2. kind = "localhost" => CheckHostname(kind, address) = "Blocked"
    BY <1>3 DEF CheckHostname
  <2> QED BY <1>3, <2>1, <2>2 DEF CheckUrl
<1> QED BY <1>2, <1>3

LEMMA GatesFollow == GatesInv => RulesAreFollowed
<1> SUFFICES ASSUME GatesInv PROVE RulesAreFollowed
  OBVIOUS
<1>1. ASSUME NEW address \in Addresses
      PROVE  /\ CheckIp(address) = "Blocked"
                    <=> guarding /\ (Inside(address) \/ address \in SpecialAddresses)
             /\ CheckHostname("literal", address) = CheckIp(address)
  <2>1. CASE address \in Ipv4Addresses
    <3>1. /\ address.parts \in [1 .. 4 -> Octet] /\ address.family = 4
          /\ address = [family |-> 4, parts |-> address.parts]
      BY <2>1 DEF Ipv4Addresses
    <3>2. BlocksIpv4(address.parts) <=> Inside(address) \/ address \in SpecialAddresses
      BY <3>1, Ipv4Blocked
    <3>3. CheckIp(address) = IF guarding /\ BlocksIpv4(address.parts) THEN "Blocked" ELSE "Safe"
      BY <3>1 DEF CheckIp
    <3> QED BY <3>2, <3>3 DEF CheckHostname, GatesInv
  <2>2. CASE address \in Ipv6Addresses
    <3>1. /\ address.parts \in [1 .. 8 -> Segment] /\ address.family = 6
          /\ address = [family |-> 6, parts |-> address.parts]
      BY <2>2 DEF Ipv6Addresses
    <3>2. BlocksIpv6(address.parts) <=> Inside(address) \/ address \in SpecialAddresses
      BY <3>1, Ipv6Blocked
    <3>3. CheckIp(address) = IF guarding /\ BlocksIpv6(address.parts) THEN "Blocked" ELSE "Safe"
      BY <3>1 DEF CheckIp
    <3> QED BY <3>2, <3>3 DEF CheckHostname, GatesInv
  <2> QED BY <2>1, <2>2, GatesAssumption
<1>2. \A tool \in Tools : CheckTool(tool) = "Allowed" <=> told[tool] = "allow"
  BY DEF GatesInv, CheckTool
<1>3. ASSUME NEW address \in Addresses, NEW port \in BOOLEAN
      PROVE  /\ address.family = 4 \/ port =>
                   CheckUrl("literal", address, port) = {CheckIp(address)}
             /\ guarding => \A kind \in {"none", "localhost"} :
                   CheckUrl(kind, address, port) = {"Blocked"}
  BY <1>1, UrlHosts
<1> QED BY <1>1, <1>2, <1>3, ScanFinds DEF RulesAreFollowed, Inside

(***************************************************************************)
(* For every address, tool and text: after any switching the SSRF guard    *)
(* blocks the documented blocks and nothing else, the allowlist answers    *)
(* with what it was last told, the scanner finds every text with a pattern *)
(* (security: ssrf.rs, allowlist.rs, injection.rs).                        *)
(***************************************************************************)
THEOREM GatesAreExact == DecisionsSpec => GatesFollowTheirRules
<1>1. GatesInv /\ GatesInv' /\ [DecisionsNext]_decisionVars
          => [gateVars' # gateVars => RulesAreFollowed']_gateVars
  <2>1. GatesInv' => RulesAreFollowed'
    BY GatesFollow, PTL
  <2> QED BY <2>1
<1> QED
  BY <1>1, GatesStart, GatesKept, PTL DEF DecisionsSpec, GatesFollowTheirRules

-----------------------------------------------------------------------------
(* The audit ledger *)

(* Beside the other procedures the ledger does what it does by itself, so  *)
(* what AuditLedgerProofs shows of LedgerSpec holds of DecisionsSpec.      *)
LEMMA LedgerOnItsOwn == DecisionsSpec => LedgerSpec
<1>1. DecisionsInit => LedgerInit
  BY DEF DecisionsInit
<1>2. [DecisionsNext]_decisionVars => [LedgerNext]_ledgerVars
  BY DEF DecisionsNext, decisionVars, RetryStep, ResolutionStep, PolicyStep, HealthStep,
         GateStep, LedgerStep
<1> QED
  BY <1>1, <1>2, PTL DEF DecisionsSpec, LedgerSpec
=============================================================================
