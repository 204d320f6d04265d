-------------------------- MODULE SkillServingProofs --------------------------
(***************************************************************************)
(* What the registry's cache may serve, what its secondary indexes list    *)
(* and what a call leaves in the ledger, for any number of calls, skills,  *)
(* trees and sizes of the cache.                                           *)
(***************************************************************************)
EXTENDS SkillServing, ListLemmas, FiniteSetTheorems, TLAPS

-----------------------------------------------------------------------------
(* The cache *)

CacheInv ==
    /\ DOMAIN skills = SkillIds /\ DOMAIN cached = SkillIds
    /\ CacheAgrees

LEMMA CacheStart == Init => CacheInv
BY DEF Init, RegistryInit, CacheInv, CacheAgrees

LEMMA InsertKeepsCache ==
    ASSUME CacheInv, NEW skill, Insert(skill) PROVE CacheInv'
<1>1. /\ skills' = [skills EXCEPT ![skill.skill_id] = skill]
      /\ \E kept : cached' = [id \in SkillIds |->
                       IF id = skill.skill_id THEN skill
                       ELSE IF id \in ToSet(kept) THEN cached[id] ELSE NoSkill]
  BY DEF Insert, CachePut
<1>2. /\ DOMAIN skills' = SkillIds /\ DOMAIN cached' = SkillIds
      /\ \A id \in SkillIds :
            IF id = skill.skill_id
            THEN cached'[id] = skill /\ skills'[id] = skill
            ELSE skills'[id] = skills[id] /\ cached'[id] \in {cached[id], NoSkill}
  BY <1>1 DEF CacheInv
<1> QED
  BY <1>2 DEF CacheInv, CacheAgrees

LEMMA RemovalKeepsCache ==
    ASSUME CacheInv, NEW id \in SkillIds, RemoveSkill(id) PROVE CacheInv'
<1>1. /\ skills' = [skills EXCEPT ![id] = NoSkill]
      /\ cached' = [cached EXCEPT ![id] = NoSkill]
  BY DEF RemoveSkill, CacheRemove
<1> QED
  BY <1>1 DEF CacheInv, CacheAgrees

LEMMA OthersKeepCache == CacheInv /\ UNCHANGED << skills, cached >> => CacheInv'
BY DEF CacheInv, CacheAgrees

LEMMA CacheKept == CacheInv /\ [Next]_vars => CacheInv'
<1> SUFFICES ASSUME CacheInv, [Next]_vars PROVE CacheInv'
  OBVIOUS
<1>1. CASE Registering
  <2>1. CASE Clear
    BY <2>1 DEF Clear, CacheInv, CacheAgrees
  <2>2. CASE LoadStops \/ \E read \in Contents : BeginLoad(read)
    BY <2>2, OthersKeepCache DEF LoadStops, BeginLoad, indexVars, cacheVars
  <2>3. CASE LoadNext
    BY <2>3, InsertKeepsCache DEF LoadNext
  <2> QED
    BY <1>1, <2>1, <2>2, <2>3, RemovalKeepsCache DEF Registering
<1>2. ASSUME NEW c \in Calls, Find(c) PROVE CacheInv'
  BY <1>2, OthersKeepCache DEF Find, UseCache, registryVars, indexVars, cacheVars
<1>3. CASE UNCHANGED registryVars
  BY <1>3, OthersKeepCache DEF registryVars
<1> QED
  BY <1>1, <1>2, <1>3 DEF Next, vars, CallTool, Start, ImplReturns, ImplFails, Cancel,
                          RequestRefresh, Refresh

(***************************************************************************)
(* For every size of the cache and whatever is registered, replaced,       *)
(* removed or evicted: what the cache of registry.rs (272-300) holds under *)
(* an identifier is what the main index holds.                             *)
(***************************************************************************)
THEOREM CacheIsCurrent == Spec => []CacheAgrees
<1>1. CacheInv => CacheAgrees
  BY DEF CacheInv
<1> QED
  BY <1>1, CacheStart, CacheKept, PTL DEF Spec
-----------------------------------------------------------------------------
(* What is registered *)

SkillsInv ==
    /\ skills \in [SkillIds -> Skills \cup {NoSkill}]
    /\ loading \in Seq(UNION { ToSet(list) : list \in Contents })

LEMMA SkillsStart == Init => SkillsInv
BY DEF Init, RegistryInit, SkillsInv

LEMMA LoadKeepsSkills == SkillsInv /\ LoadNext => SkillsInv'
<1> SUFFICES ASSUME SkillsInv, LoadNext PROVE SkillsInv'
  OBVIOUS
<1> DEFINE Read == UNION { ToSet(list) : list \in Contents }
<1>1. loading \in Seq(Read) /\ loading # << >>
  BY DEF SkillsInv, LoadNext
<1>2. Head(loading) \in Read /\ loading' \in Seq(Read)
  BY <1>1 DEF LoadNext
<1>3. Head(loading) \in Skills
  BY <1>2, ServingAssumption DEF LoadNext
<1>4. skills' = [skills EXCEPT ![Head(loading).skill_id] = Head(loading)]
  BY DEF LoadNext, Insert
<1> QED
  BY <1>2, <1>3, <1>4 DEF SkillsInv

LEMMA OthersKeepSkills == SkillsInv /\ UNCHANGED << skills, loading >> => SkillsInv'
BY DEF SkillsInv

LEMMA SkillsKept == SkillsInv /\ [Next]_vars => SkillsInv'
<1> SUFFICES ASSUME SkillsInv, [Next]_vars PROVE SkillsInv'
  OBVIOUS
<1>1. CASE Registering
  <2>1. ASSUME NEW read \in Contents, BeginLoad(read) PROVE SkillsInv'
    <3>1. skills' = skills /\ loading' = read
      BY <2>1 DEF BeginLoad, indexVars
    <3> QED
      BY <3>1, ServingAssumption DEF SkillsInv
  <2>2. CASE LoadStops
    BY <2>2 DEF LoadStops, indexVars, SkillsInv
  <2>3. ASSUME NEW id \in SkillIds, RemoveSkill(id) PROVE SkillsInv'
    BY <2>3 DEF RemoveSkill, SkillsInv
  <2>4. CASE Clear
    BY <2>4 DEF Clear, SkillsInv
  <2> QED
    BY <1>1, <2>1, <2>2, <2>3, <2>4, LoadKeepsSkills DEF Registering
<1>2. ASSUME NEW c \in Calls, Find(c) PROVE SkillsInv'
  BY <1>2, OthersKeepSkills DEF Find, UseCache, registryVars, indexVars
<1>3. CASE UNCHANGED registryVars
  BY <1>3, OthersKeepSkills DEF registryVars
<1> QED
  BY <1>1, <1>2, <1>3 DEF Next, vars, CallTool, Start, ImplReturns, ImplFails, Cancel,
                          RequestRefresh, Refresh

-----------------------------------------------------------------------------
(* The indexes *)

Occurs(list, id) == \E j \in 1 .. Len(list) : list[j] = id

(* Every registered skill is under its own identifier and its identifier   *)
(* is in every entry it belongs to.                                        *)
Indexed(id) ==
    skills[id] # NoSkill =>
        /\ skills[id].skill_id = id
        /\ Occurs(byCategory[skills[id].category], id)
        /\ \A c \in skills[id].capabilities_required : Occurs(byCapability[c], id)

IndexInv ==
    /\ skills \in [SkillIds -> Skills \cup {NoSkill}]
    /\ byCategory \in [Categories -> Seq(SkillIds)]
    /\ byCapability \in [Capabilities -> Seq(SkillIds)]
    /\ \A id \in SkillIds : Indexed(id)

LEMMA Belongs ==
    ASSUME NEW skill \in Skills
    PROVE  /\ skill # NoSkill /\ skill.skill_id \in SkillIds /\ skill.category \in Categories
           /\ skill.capabilities_required \subseteq Capabilities
BY RegistryAssumption DEF SkillIds, Categories, Capabilities

LEMMA IndexStart == Init => IndexInv
<1> SUFFICES ASSUME Init PROVE IndexInv
  OBVIOUS
<1>1. /\ skills = [id \in SkillIds |-> NoSkill]
      /\ byCategory = [c \in Categories |-> << >>]
      /\ byCapability = [c \in Capabilities |-> << >>]
  BY DEF Init, RegistryInit
<1>2. << >> \in Seq(SkillIds)
  OBVIOUS
<1> QED
  BY <1>1, <1>2 DEF IndexInv, Indexed

(* Vec::push: an entry keeps what it has, and has the identifier too.      *)
LEMMA PushedKeeps ==
    ASSUME NEW Keys, NEW index \in [Keys -> Seq(SkillIds)], NEW keys \in SUBSET Keys,
           NEW id \in SkillIds
    PROVE  /\ Pushed(index, keys, id) \in [Keys -> Seq(SkillIds)]
           /\ \A k \in keys : Occurs(Pushed(index, keys, id)[k], id)
           /\ \A k \in Keys, other \in SkillIds :
                 Occurs(index[k], other) => Occurs(Pushed(index, keys, id)[k], other)
<1> DEFINE next == Pushed(index, keys, id)
<1>1. /\ DOMAIN next = Keys
      /\ \A k \in Keys : next[k] = IF k \in keys THEN Append(index[k], id) ELSE index[k]
  BY DEF Pushed
<1>2. \A list \in Seq(SkillIds) :
          /\ Append(list, id) \in Seq(SkillIds)
          /\ Occurs(Append(list, id), id)
          /\ \A other \in SkillIds : Occurs(list, other) => Occurs(Append(list, id), other)
  <2> SUFFICES ASSUME NEW list \in Seq(SkillIds)
               PROVE  /\ Append(list, id) \in Seq(SkillIds)
                      /\ Occurs(Append(list, id), id)
                      /\ \A other \in SkillIds :
                            Occurs(list, other) => Occurs(Append(list, id), other)
    OBVIOUS
  <2> DEFINE more == Append(list, id)
             n == Len(list)
  <2>1. /\ n \in Nat /\ more \in Seq(SkillIds) /\ Len(more) = n + 1
        /\ more[n + 1] = id /\ \A j \in 1 .. n : more[j] = list[j]
    OBVIOUS
  <2> HIDE DEF more
  <2>2. n + 1 \in 1 .. Len(more) /\ \A j \in 1 .. n : j \in 1 .. Len(more)
    BY <2>1
  <2>3. Occurs(more, id)
    BY <2>1, <2>2 DEF Occurs
  <2>4. \A other \in SkillIds : Occurs(list, other) => Occurs(more, other)
    BY <2>1, <2>2 DEF Occurs
  <2> QED BY <2>1, <2>3, <2>4 DEF more
<1> HIDE DEF next
<1>3. \A k \in Keys : next[k] \in Seq(SkillIds)
  BY <1>1, <1>2
<1>4. next \in [Keys -> Seq(SkillIds)]
  <2>1. next = [k \in Keys |-> IF k \in keys THEN Append(index[k], id) ELSE index[k]]
    BY DEF next, Pushed
  <2> QED BY <1>1, <1>3, <2>1
<1> QED BY <1>1, <1>2, <1>4 DEF next

(* Vec::retain: what an entry loses is the identifier.                     *)
LEMMA WithoutKeeps ==
    ASSUME NEW list \in Seq(SkillIds), NEW id \in SkillIds
    PROVE  /\ Without(list, id) \in Seq(SkillIds)
           /\ \A other \in SkillIds \ {id} :
                 Occurs(list, other) => Occurs(Without(list, id), other)
<1>1. Without(list, id) \in Seq(SkillIds)
  BY FilterSelects DEF Without
<1>2. ASSUME NEW other \in SkillIds \ {id}, Occurs(list, other)
      PROVE  Occurs(Without(list, id), other)
  <2> DEFINE keep == SkillIds \ {id}
             short == Filter(list, keep)
  <2>1. other \in keep /\ (\E j \in 1 .. Len(list) : list[j] = other)
    BY <1>2 DEF Occurs
  <2> HIDE DEF keep
  <2>2. \E i \in 1 .. Len(short) : short[i] = other
    BY <2>1, FilterMembers
  <2>3. Without(list, id) = short
    BY DEF Without, short, keep
  <2> QED BY <2>2, <2>3, Zenon DEF Occurs
<1> QED BY <1>1, <1>2

LEMMA ForgottenKeeps ==
    ASSUME NEW Keys, NEW index \in [Keys -> Seq(SkillIds)], NEW keys,
           NEW id \in SkillIds
    PROVE  /\ Forgotten(index, keys, id) \in [Keys -> Seq(SkillIds)]
           /\ \A k \in Keys, other \in SkillIds \ {id} :
                 Occurs(index[k], other) => Occurs(Forgotten(index, keys, id)[k], other)
<1> DEFINE next == Forgotten(index, keys, id)
<1>1. /\ next = [k \in Keys |-> IF k \in keys THEN Without(index[k], id) ELSE index[k]]
      /\ \A k \in Keys : next[k] = IF k \in keys THEN Without(index[k], id) ELSE index[k]
  BY DEF Forgotten
<1>2. \A k \in Keys : index[k] \in Seq(SkillIds)
  OBVIOUS
<1> HIDE DEF next
<1>3. \A k \in Keys : next[k] \in Seq(SkillIds)
  BY <1>1, <1>2, WithoutKeeps
<1>4. next \in [Keys -> Seq(SkillIds)]
  BY <1>1, <1>3
<1>5. \A k \in Keys, other \in SkillIds \ {id} : Occurs(index[k], other) => Occurs(next[k], other)
  BY <1>1, <1>2, WithoutKeeps
<1> QED BY <1>4, <1>5 DEF next

LEMMA InsertKeepsIndexes ==
    ASSUME IndexInv, NEW skill \in Skills, Insert(skill) PROVE IndexInv'
<1> DEFINE id == skill.skill_id
           keys == skill.capabilities_required
<1>1. id \in SkillIds /\ skill.category \in Categories /\ keys \subseteq Capabilities
  BY Belongs
<1>2. /\ skills' = [skills EXCEPT ![id] = skill]
      /\ byCategory' = Pushed(byCategory, {skill.category}, id)
      /\ byCapability' = Pushed(byCapability, keys, id)
  BY DEF Insert
<1> HIDE DEF id, keys
<1>3. /\ byCategory' \in [Categories -> Seq(SkillIds)]
      /\ Occurs(byCategory'[skill.category], id)
      /\ \A k \in Categories, other \in SkillIds :
            Occurs(byCategory[k], other) => Occurs(byCategory'[k], other)
  <2> DEFINE keys0 == {skill.category}
             next == Pushed(byCategory, keys0, id)
  <2>1. byCategory \in [Categories -> Seq(SkillIds)] /\ keys0 \in SUBSET Categories
    BY <1>1 DEF IndexInv
  <2> HIDE DEF keys0
  <2>2. /\ next \in [Categories -> Seq(SkillIds)]
        /\ \A k \in keys0 : Occurs(next[k], id)
        /\ \A k \in Categories, other \in SkillIds : Occurs(byCategory[k], other) => Occurs(next[k], other)
    BY <1>1, <2>1, PushedKeeps
  <2>3. byCategory' = next
    BY <1>2 DEF keys0
  <2> HIDE DEF next
  <2> QED BY <2>2, <2>3 DEF keys0
<1>4. /\ byCapability' \in [Capabilities -> Seq(SkillIds)]
      /\ \A k \in keys : Occurs(byCapability'[k], id)
      /\ \A k \in Capabilities, other \in SkillIds :
            Occurs(byCapability[k], other) => Occurs(byCapability'[k], other)
  <2> DEFINE keys0 == keys
             next == Pushed(byCapability, keys0, id)
  <2>1. byCapability \in [Capabilities -> Seq(SkillIds)] /\ keys0 \in SUBSET Capabilities
    BY <1>1 DEF IndexInv
  <2> HIDE DEF keys0
  <2>2. /\ next \in [Capabilities -> Seq(SkillIds)]
        /\ \A k \in keys0 : Occurs(next[k], id)
        /\ \A k \in Capabilities, other \in SkillIds : Occurs(byCapability[k], other) => Occurs(next[k], other)
    BY <1>1, <2>1, PushedKeeps
  <2>3. byCapability' = next
    BY <1>2 DEF keys0
  <2> HIDE DEF next
  <2> QED BY <2>2, <2>3 DEF keys0
<1>5. skills' \in [SkillIds -> Skills \cup {NoSkill}] /\ skills'[id] = skill
      /\ \A other \in SkillIds \ {id} : skills'[other] = skills[other]
  BY <1>1, <1>2 DEF IndexInv
<1>6. Indexed(id)'
  BY <1>3, <1>4, <1>5 DEF Indexed, Occurs, id, keys
<1>7. ASSUME NEW other \in SkillIds \ {id} PROVE Indexed(other)'
  <2>1. SUFFICES ASSUME skills[other] # NoSkill PROVE Indexed(other)'
    BY <1>5 DEF Indexed
  <2>2. Indexed(other) /\ skills[other] \in Skills
    BY <2>1 DEF IndexInv
  <2> DEFINE old == skills[other]
  <2>3. old.category \in Categories /\ old.capabilities_required \subseteq Capabilities
    BY <2>2, Belongs
  <2>4. skills'[other] = old
    BY <1>5
  <2>5. Occurs(byCategory[old.category], other) /\ old.skill_id = other
        /\ \A c \in old.capabilities_required : Occurs(byCapability[c], other)
    BY <2>1, <2>2 DEF Indexed
  <2> HIDE DEF old
  <2>6. Occurs(byCategory'[old.category], other)
        /\ \A c \in old.capabilities_required : Occurs(byCapability'[c], other)
    BY <1>3, <1>4, <2>3, <2>5
  <2> QED BY <2>4, <2>5, <2>6 DEF Indexed, Occurs
<1> QED BY <1>3, <1>4, <1>5, <1>6, <1>7 DEF IndexInv

LEMMA RemovalKeepsIndexes ==
    ASSUME IndexInv, NEW id \in SkillIds, RemoveSkill(id) PROVE IndexInv'
<1> DEFINE keys == skills[id].capabilities_required
           category == {skills[id].category}
<1>1. /\ skills' = [skills EXCEPT ![id] = NoSkill]
      /\ byCategory' = Forgotten(byCategory, category, id)
      /\ byCapability' = Forgotten(byCapability, keys, id)
  BY DEF RemoveSkill
<1> HIDE DEF keys, category
<1>2. /\ byCategory' \in [Categories -> Seq(SkillIds)]
      /\ \A k \in Categories, other \in SkillIds \ {id} :
            Occurs(byCategory[k], other) => Occurs(byCategory'[k], other)
  BY <1>1, ForgottenKeeps DEF IndexInv
<1>3. /\ byCapability' \in [Capabilities -> Seq(SkillIds)]
      /\ \A k \in Capabilities, other \in SkillIds \ {id} :
            Occurs(byCapability[k], other) => Occurs(byCapability'[k], other)
  BY <1>1, ForgottenKeeps DEF IndexInv
<1>4. skills' \in [SkillIds -> Skills \cup {NoSkill}] /\ skills'[id] = NoSkill
      /\ \A other \in SkillIds \ {id} : skills'[other] = skills[other]
  BY <1>1 DEF IndexInv
<1>5. Indexed(id)'
  BY <1>4 DEF Indexed
<1>6. ASSUME NEW other \in SkillIds \ {id} PROVE Indexed(other)'
  <2>1. SUFFICES ASSUME skills[other] # NoSkill PROVE Indexed(other)'
    BY <1>4 DEF Indexed
  <2>2. Indexed(other) /\ skills[other] \in Skills
    BY <2>1 DEF IndexInv
  <2> DEFINE old == skills[other]
  <2>3. old.category \in Categories /\ old.capabilities_required \subseteq Capabilities
    BY <2>2, Belongs
  <2>4. skills'[other] = old
    BY <1>4
  <2>5. Occurs(byCategory[old.category], other) /\ old.skill_id = other
        /\ \A c \in old.capabilities_required : Occurs(byCapability[c], other)
    BY <2>1, <2>2 DEF Indexed
  <2> HIDE DEF old
  <2>6. Occurs(byCategory'[old.category], other)
        /\ \A c \in old.capabilities_required : Occurs(byCapability'[c], other)
    BY <1>2, <1>3, <2>3, <2>5
  <2> QED BY <2>4, <2>5, <2>6 DEF Indexed, Occurs
<1> QED BY <1>2, <1>3, <1>4, <1>5, <1>6 DEF IndexInv

LEMMA OthersKeepIndexes == IndexInv /\ UNCHANGED indexVars => IndexInv'
BY DEF IndexInv, Indexed, Occurs, indexVars

LEMMA IndexesKept == SkillsInv /\ IndexInv /\ [Next]_vars => IndexInv'
<1> SUFFICES ASSUME SkillsInv, IndexInv, [Next]_vars PROVE IndexInv'
  OBVIOUS
<1>1. CASE Registering
  <2>1. CASE Clear
    <3>1. /\ skills' = [id \in SkillIds |-> NoSkill]
          /\ byCategory' = [c \in Categories |-> << >>]
          /\ byCapability' = [c \in Capabilities |-> << >>]
      BY <2>1 DEF Clear
    <3>2. << >> \in Seq(SkillIds)
      OBVIOUS
    <3> QED BY <3>1, <3>2 DEF IndexInv, Indexed
  <2>2. CASE LoadStops \/ \E read \in Contents : BeginLoad(read)
    BY <2>2, OthersKeepIndexes DEF LoadStops, BeginLoad
  <2>3. CASE LoadNext
    <3> DEFINE Read == UNION { ToSet(list) : list \in Contents }
    <3>1. Head(loading) \in Read
      BY <2>3 DEF LoadNext, SkillsInv
    <3>2. Head(loading) \in Skills
      BY <2>3, <3>1, ServingAssumption DEF LoadNext
    <3> QED BY <2>3, <3>2, InsertKeepsIndexes DEF LoadNext
  <2> QED
    BY <1>1, <2>1, <2>2, <2>3, RemovalKeepsIndexes DEF Registering
<1>2. ASSUME NEW c \in Calls, Find(c) PROVE IndexInv'
  BY <1>2, OthersKeepIndexes DEF Find, UseCache, registryVars, indexVars
<1>3. CASE UNCHANGED registryVars
  BY <1>3, OthersKeepIndexes DEF registryVars, indexVars
<1> QED
  BY <1>1, <1>2, <1>3 DEF Next, vars, CallTool, Start, ImplReturns, ImplFails, Cancel,
                          RequestRefresh, Refresh

(* What an entry answers with has the present version of what it names.    *)
LEMMA ListedHas ==
    ASSUME NEW list \in Seq(SkillIds), NEW id \in SkillIds, Occurs(list, id),
           skills[id] # NoSkill
    PROVE  skills[id] \in Range(Listed(list))
<1> DEFINE keep == {other \in SkillIds : skills[other] # NoSkill}
           present == Filter(list, keep)
           answer == [i \in DOMAIN present |-> skills[present[i]]]
<1>1. present \in Seq(SkillIds)
  BY FilterSelects
<1>2. PICK i \in 1 .. Len(present) : present[i] = id
  <2>1. id \in keep
    OBVIOUS
  <2> HIDE DEF keep
  <2> QED BY <2>1, FilterMembers DEF Occurs
<1>3. DOMAIN present = 1 .. Len(present)
  BY <1>1
<1>4. Listed(list) = answer
  BY DEF Listed
<1> HIDE DEF present, keep
<1>5. i \in DOMAIN answer /\ answer[i] = skills[id]
  BY <1>2, <1>3
<1> QED BY <1>4, <1>5 DEF Range

(***************************************************************************)
(* For any skills and any sequence of loads, replacements, removals and    *)
(* clears: the secondary indexes of registry.rs (117-150, 184-205) list    *)
(* every registered skill, in its present version.                         *)
(***************************************************************************)
THEOREM IndexesStayComplete == Spec => []IndexesComplete
<1>1. IndexInv => IndexesComplete
  <2> SUFFICES ASSUME IndexInv, NEW id \in SkillIds, skills[id] # NoSkill
               PROVE  /\ skills[id] \in Range(ByCategory(skills[id].category))
                      /\ \A c \in skills[id].capabilities_required :
                            skills[id] \in Range(ByCapability(c))
    BY DEF IndexesComplete
  <2>1. Indexed(id) /\ skills[id] \in Skills
    BY DEF IndexInv
  <2>2. /\ skills[id].category \in Categories
        /\ skills[id].capabilities_required \subseteq Capabilities
    BY <2>1, Belongs
  <2>3. /\ byCategory[skills[id].category] \in Seq(SkillIds)
        /\ \A c \in skills[id].capabilities_required : byCapability[c] \in Seq(SkillIds)
    BY <2>2 DEF IndexInv
  <2> QED BY <2>1, <2>3, ListedHas DEF Indexed, ByCategory, ByCapability
<1> QED
  BY <1>1, SkillsStart, IndexStart, SkillsKept, IndexesKept, PTL DEF Spec

-----------------------------------------------------------------------------
(* Calls *)

Fits(k) ==
    /\ k.trail # << >> => Head(k.trail) = "start"
    /\ \A i \in DOMAIN k.trail : k.trail[i] = "success" => i = Len(k.trail)
    /\ k.answer = "ok" => "success" \in ToSet(k.trail)
    /\ "success" \in ToSet(k.trail) => k.answer \in {"ok", "failed"}
    /\ k.metric = "ok" <=> k.answer = "ok"
    /\ k.metric = "error" <=> k.answer = "failed"

Waiting(k) == \E tool, skill :
    \/ k = Pending("finding", tool, NoSkill, << >>)
    \/ skill \in Skills /\ k = Pending("starting", tool, skill, << >>)
    \/ skill \in Skills /\ k = Pending("running", tool, skill, << "start" >>)

Over(k) == k.pc = "idle" /\ Fits(k)

CallsInv ==
    /\ DOMAIN call = Calls
    /\ \A c \in Calls : Waiting(call[c]) \/ Over(call[c])

LEMMA WaitingFits ==
    ASSUME NEW k, Waiting(k) PROVE Fits(k)
<1>1. k.trail \in {<< >>, << "start" >>} /\ k.metric = "none" /\ k.answer = "none"
  BY DEF Waiting, Pending
<1>2. CASE k.trail = << >>
  BY <1>1, <1>2 DEF Fits, ToSet
<1>3. CASE k.trail = << "start" >>
  BY <1>1, <1>3 DEF Fits, ToSet
<1> QED
  BY <1>1, <1>2, <1>3

LEMMA CallsBound == CallsInv => LedgerFitsAnswer
BY WaitingFits DEF CallsInv, LedgerFitsAnswer, Over, Fits

(* A record without an outcome.                                             *)
LEMMA NoOutcomeFits ==
    ASSUME NEW trail \in {<< >>, << "start" >>}, NEW answer \in {"error", "none"}
    PROVE  Over(Answered(trail, "none", answer))
<1>1. trail # << >> => Head(trail) = "start"
  OBVIOUS
<1>2. \A i \in DOMAIN trail : trail[i] # "success"
  OBVIOUS
<1>3. "success" \notin ToSet(trail)
  BY <1>2 DEF ToSet
<1> QED
  BY <1>1, <1>2, <1>3 DEF Over, Fits, Answered

(* A record with one: it comes last, and once.                              *)
LEMMA OutcomeFits ==
    ASSUME NEW trail \in Seq({"start", "used", "success"}), NEW n \in Nat \ {0},
           Len(trail) = n + 1, trail[1] = "start", trail[n + 1] = "success",
           \A i \in 1 .. n : trail[i] # "success"
    PROVE  /\ Over(Answered(trail, "ok", "ok"))
           /\ Over(Answered(trail, "error", "failed"))
<1>1. trail # << >> /\ Head(trail) = "start" /\ DOMAIN trail = 1 .. n + 1
  OBVIOUS
<1>2. \A i \in DOMAIN trail : trail[i] = "success" => i = Len(trail)
  BY <1>1
<1>3. "success" \in ToSet(trail)
  BY <1>1 DEF ToSet
<1> QED
  BY <1>1, <1>2, <1>3 DEF Over, Fits, Answered

LEMMA CallsStart == Init => CallsInv
BY NoOutcomeFits DEF Init, ServingInit, CallsInv, Idle

LEMMA BecomeKeepsCalls ==
    ASSUME CallsInv, NEW c \in Calls, NEW k, Waiting(k) \/ Over(k), Become(c, k)
    PROVE  CallsInv'
<1>1. call' = [call EXCEPT ![c] = k]
  BY DEF Become
<1> QED
  BY <1>1 DEF CallsInv

(* A call that ends without an outcome keeps what it recorded so far.      *)
LEMMA EndWithoutOutcome ==
    ASSUME CallsInv, NEW c \in Calls, InProgress(c), NEW answer \in {"error", "none"}
    PROVE  Over(Ended(c, answer))
<1>1. ~ Over(call[c])
  BY DEF InProgress, Over, Answered
<1>2. Waiting(call[c])
  BY <1>1 DEF CallsInv
<1>3. call[c].trail \in {<< >>, << "start" >>}
  BY <1>2 DEF Waiting, Pending
<1> QED
  BY <1>3, NoOutcomeFits DEF Ended

(* What is known of a call in each of its stages.                          *)
LEMMA Stages ==
    ASSUME CallsInv, NEW c \in Calls
    PROVE  /\ call[c].pc \in {"finding", "starting"} => call[c].trail = << >>
           /\ call[c].pc = "running" => call[c].trail = << "start" >>
           /\ call[c].pc \in {"starting", "running"} => call[c].skill \in Skills
<1>1. CASE Over(call[c])
  BY <1>1 DEF Over, Answered
<1>2. CASE Waiting(call[c])
  BY <1>2 DEF Waiting, Pending
<1> QED
  BY <1>1, <1>2 DEF CallsInv

LEMMA CallToolKeepsCalls ==
    ASSUME CallsInv, NEW c \in Calls, NEW tool, CallTool(c, tool)
    PROVE  CallsInv'
BY BecomeKeepsCalls DEF CallTool, Waiting

LEMMA FindKeepsCalls ==
    ASSUME SkillsInv, CacheInv, CallsInv, NEW c \in Calls, Find(c)
    PROVE  CallsInv'
<1> DEFINE id == IdOfTool(call[c].tool)
           error == Ended(c, "error")
           found(skill) == Pending("starting", call[c].tool, skill, call[c].trail)
<1>1. call[c].pc = "finding" /\ call[c].trail = << >>
  BY Stages DEF Find
<1>2. Over(error)
  BY <1>1, EndWithoutOutcome DEF InProgress
<1>3. \A skill \in Skills : Waiting(found(skill))
  BY <1>1 DEF Waiting
<1>4. /\ id \in SkillIds => CachedOrIndexed(id) = skills[id]
      /\ id \in SkillIds /\ skills[id] # NoSkill => skills[id] \in Skills
  BY DEF CachedOrIndexed, CacheInv, CacheAgrees, SkillsInv
<1>5. \/ Become(c, error)
      \/ \E skill \in Skills : Become(c, found(skill))
  BY <1>4 DEF Find
<1> HIDE DEF error, found
<1> QED
  BY <1>2, <1>3, <1>5, BecomeKeepsCalls

LEMMA UsesAreUses ==
    ASSUME NEW skill \in Skills
    PROVE  CapabilityUses(skill) \in Seq({"used"})
<1> DEFINE n == Cardinality(skill.capabilities_required)
<1>1. n \in Nat
  BY RegistryAssumption, FS_CardinalityType
<1> HIDE DEF n
<1>2. [i \in 1 .. n |-> "used"] \in Seq({"used"})
  BY <1>1
<1> QED
  BY <1>2 DEF CapabilityUses, n

(* The whole record of an external execution.                              *)
LEMMA ExternalFits ==
    ASSUME NEW uses \in Seq({"used"})
    PROVE  Over(Answered(<< "start" >> \o uses \o << "success" >>, "ok", "ok"))
<1> DEFINE trail == << "start" >> \o uses \o << "success" >>
           n == Len(uses) + 1
<1>1. /\ trail \in Seq({"start", "used", "success"})
      /\ n \in Nat \ {0} /\ Len(trail) = n + 1
      /\ trail[1] = "start" /\ trail[n + 1] = "success"
      /\ \A i \in 1 .. n : trail[i] # "success"
  OBVIOUS
<1> HIDE DEF trail, n
<1>2. Over(Answered(trail, "ok", "ok"))
  BY <1>1, OutcomeFits
<1> QED
  BY <1>2 DEF trail

LEMMA StartKeepsCalls ==
    ASSUME CallsInv, NEW c \in Calls, NEW record, Start(c, record)
    PROVE  CallsInv'
<1> DEFINE error == Ended(c, "error")
           started == Pending("running", call[c].tool, call[c].skill, << "start" >>)
           done == Answered(<< "start" >> \o CapabilityUses(call[c].skill)
                                \o << "success" >>, "ok", "ok")
<1>1. call[c].pc = "starting" /\ call[c].skill \in Skills
  BY Stages DEF Start
<1>2. Over(error)
  BY <1>1, EndWithoutOutcome DEF InProgress
<1>3. Waiting(started)
  BY <1>1 DEF Waiting
<1>4. Over(done)
  BY <1>1, UsesAreUses, ExternalFits
<1>5. Become(c, error) \/ Become(c, started) \/ Become(c, done)
  BY DEF Start
<1> HIDE DEF error, started, done
<1> QED
  BY <1>2, <1>3, <1>4, <1>5, BecomeKeepsCalls

LEMMA ReturnKeepsCalls ==
    ASSUME CallsInv, NEW c \in Calls, NEW status, ImplReturns(c, status)
    PROVE  CallsInv'
<1> DEFINE trail == Append(call[c].trail, "success")
<1>1. call[c].trail = << "start" >>
  BY Stages DEF ImplReturns
<1>2. /\ trail \in Seq({"start", "used", "success"}) /\ Len(trail) = 2
      /\ trail[1] = "start" /\ trail[2] = "success"
  BY <1>1
<1>3. Become(c, Answered(trail, "ok", "ok")) \/ Become(c, Answered(trail, "error", "failed"))
  BY DEF ImplReturns
<1> HIDE DEF trail
<1>4. Over(Answered(trail, "ok", "ok")) /\ Over(Answered(trail, "error", "failed"))
  <2>1. /\ 1 \in Nat \ {0} /\ Len(trail) = 1 + 1 /\ trail[1 + 1] = "success"
        /\ \A i \in 1 .. 1 : trail[i] # "success"
    BY <1>2
  <2> QED
    BY <1>2, <2>1, OutcomeFits
<1> QED
  BY <1>3, <1>4, BecomeKeepsCalls

LEMMA CallsKept == SkillsInv /\ CacheInv /\ CallsInv /\ [Next]_vars => CallsInv'
<1> SUFFICES ASSUME SkillsInv, CacheInv, CallsInv, [Next]_vars PROVE CallsInv'
  OBVIOUS
<1>1. ASSUME NEW c \in Calls, ImplFails(c) \/ Cancel(c) PROVE CallsInv'
  <2>1. /\ InProgress(c)
        /\ Become(c, Ended(c, "error")) \/ Become(c, Ended(c, "none"))
    BY <1>1 DEF ImplFails, Cancel, InProgress
  <2> QED
    BY <2>1, EndWithoutOutcome, BecomeKeepsCalls
<1>2. CASE UNCHANGED call
  BY <1>2 DEF CallsInv
<1> QED
  BY <1>1, <1>2, CallToolKeepsCalls, FindKeepsCalls, StartKeepsCalls, ReturnKeepsCalls
     DEF Next, vars, servingVars, Registering, RequestRefresh, Refresh

(***************************************************************************)
(* For any number of calls and capabilities, whatever order calls,         *)
(* cancellations, loads and refreshes come in: a call answered ok was      *)
(* recorded as a success, one that was refused, failed with Err or was     *)
(* cancelled never, and the metrics count the answers (executor.rs,        *)
(* mcp_export.rs).                                                         *)
(***************************************************************************)
THEOREM RecordsFitAnswers == Spec => []LedgerFitsAnswer
BY CacheStart, SkillsStart, CallsStart, CacheKept, SkillsKept, CallsKept, CallsBound, PTL
   DEF Spec

(***************************************************************************)
(* And the skill a call goes on with is the one registered when it looked, *)
(* found in the cache or not (registry.rs 153-166).                        *)
(***************************************************************************)
THEOREM LookupsAreCurrent == Spec => LookupIsCurrent
<1> DEFINE Current(c) == call[c].pc = "finding" /\ call'[c].pc = "starting"
                            => call'[c].skill = skills[IdOfTool(call[c].tool)]
<1>1. ASSUME CacheInv, CallsInv, NEW c \in Calls, Find(c) PROVE Current(c)
  <2> DEFINE id == IdOfTool(call[c].tool)
             found(skill) == Pending("starting", call[c].tool, skill, call[c].trail)
  <2>1. \/ Become(c, Ended(c, "error"))
        \/ id \in SkillIds /\ Become(c, found(CachedOrIndexed(id)))
        \/ id \in SkillIds /\ Become(c, found(skills[id]))
    BY <1>1 DEF Find
  <2>2. id \in SkillIds => CachedOrIndexed(id) = skills[id]
    BY <1>1 DEF CachedOrIndexed, CacheInv, CacheAgrees
  <2>3. \/ call'[c] = Ended(c, "error")
        \/ call'[c] = found(skills[id])
    BY <1>1, <2>1, <2>2 DEF Become, CallsInv
  <2>4. Ended(c, "error").pc = "idle" /\ found(skills[id]).skill = skills[id]
    BY DEF Ended, Answered, Pending
  <2> QED
    BY <2>3, <2>4
(* Every other step moves another call, or this one elsewhere.              *)
<1>2. ASSUME CallsInv, NEW c \in Calls, NEW d \in Calls, NEW k, Become(d, k),
             d = c => call[c].pc # "finding" \/ k.pc # "starting"
      PROVE  Current(c)
  BY <1>2 DEF Become, CallsInv
<1>3. ASSUME CacheInv, CallsInv, [Next]_vars, NEW c \in Calls PROVE Current(c)
  <2>1. CASE UNCHANGED call
    BY <2>1
  <2>2. ASSUME NEW d \in Calls, Find(d), d # c PROVE Current(c)
    <3>1. \E k : Become(d, k)
      BY <2>2 DEF Find
    <3> QED
      BY <1>2, <1>3, <2>2, <3>1
  <2>3. ASSUME NEW d \in Calls, NEW tool, CallTool(d, tool) PROVE Current(c)
    <3>1. Pending("finding", tool, NoSkill, << >>).pc # "starting"
      BY DEF Pending
    <3> QED
      BY <1>2, <1>3, <2>3, <3>1 DEF CallTool
  <2>4. ASSUME NEW d \in Calls, call[d].pc # "finding", \E k : Become(d, k) PROVE Current(c)
    BY <1>2, <1>3, <2>4
  <2>5. ASSUME NEW d \in Calls, NEW record, Start(d, record) PROVE Current(c)
    BY <2>4, <2>5 DEF Start
  <2>6. ASSUME NEW d \in Calls, NEW status, ImplReturns(d, status) PROVE Current(c)
    BY <2>4, <2>6 DEF ImplReturns
  <2>7. ASSUME NEW d \in Calls, ImplFails(d) \/ Cancel(d) PROVE Current(c)
    <3>1. Become(d, Ended(d, "error")) \/ Become(d, Ended(d, "none"))
      BY <2>7 DEF ImplFails, Cancel
    <3>2. Ended(d, "error").pc # "starting" /\ Ended(d, "none").pc # "starting"
      BY DEF Ended, Answered
    <3> QED
      BY <1>2, <1>3, <3>1, <3>2
  <2> QED
    BY <1>1, <1>3, <2>1, <2>2, <2>3, <2>5, <2>6, <2>7
       DEF Next, vars, servingVars, Registering, RequestRefresh, Refresh
<1>4. CacheInv /\ CallsInv /\ [Next]_vars => [\A c \in Calls : Current(c)]_vars
  BY <1>3
<1> QED
  BY <1>4, CacheStart, SkillsStart, CallsStart, CacheKept, SkillsKept, CallsKept, PTL
     DEF Spec, LookupIsCurrent
=============================================================================
