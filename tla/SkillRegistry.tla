--------------------------- MODULE SkillRegistry ---------------------------
(***************************************************************************)
(* SkillRegistry of crates/skills: the main index, two secondary indexes   *)
(* that hold identifiers, and an LRU cache behind a lock of its own.       *)
(* Methods that change the indexes take &mut self, so nobody holds the     *)
(* cache's lock meanwhile and their try_write succeeds; two lookups may    *)
(* meet, and the one that does not get the lock reads the main index.      *)
(***************************************************************************)
EXTENDS SkillLoader, Functions, Filtering

CONSTANTS Skills,            (* skills that loading or an embedder brings   *)
          NoSkill,           (* Option::None                                *)
          CacheCapacity,     (* 100 in the code                             *)
          MaxListed          (* bound: length of a secondary index's entry  *)

SkillIds == {s.skill_id : s \in Skills}
Categories == {s.category : s \in Skills}
Capabilities == UNION {s.capabilities_required : s \in Skills}

ASSUME RegistryAssumption ==
    /\ NoSkill \notin Skills
    /\ \A s \in Skills : IsFiniteSet(s.capabilities_required)
    /\ CacheCapacity \in Nat \ {0} /\ MaxListed \in Nat

VARIABLES skills,            (* [id -> Option<Skill>]                       *)
          byCategory, byCapability,
          cached, recency,   (* the cache: content, ids by latest use       *)
          loading            (* skills a load call has still to register    *)

registryVars == << skills, byCategory, byCapability, cached, recency, loading >>
indexVars == << skills, byCategory, byCapability >>
cacheVars == << cached, recency >>

RegistryInit ==
    /\ skills = [id \in SkillIds |-> NoSkill]
    /\ byCategory = [c \in Categories |-> << >>]
    /\ byCapability = [c \in Capabilities |-> << >>]
    /\ cached = [id \in SkillIds |-> NoSkill]
    /\ recency = << >>
    /\ loading = << >>

Without(seq, id) == Filter(seq, SkillIds \ {id})

(* LruCache: the ids after a use of id, the least recent beyond the        *)
(* capacity dropped; and the content that is left.                         *)
Touched(id) == LET order == << id >> \o Without(recency, id)
               IN  SubSeq(order, 1, IF Len(order) < CacheCapacity THEN Len(order)
                                                                  ELSE CacheCapacity)

(* Mutant: what is cached already stays as it is. *)
CachePutIfAbsent(skill) ==
    LET kept == Touched(skill.skill_id) IN
    /\ recency' = kept
    /\ cached' = [id \in SkillIds |->
                    IF id = skill.skill_id /\ cached[id] = NoSkill THEN skill
                    ELSE IF id \in ToSet(kept) THEN cached[id] ELSE NoSkill]

CachePut(skill) ==
    LET kept == Touched(skill.skill_id) IN
    /\ recency' = kept
    /\ cached' = [id \in SkillIds |->
                    IF id = skill.skill_id THEN skill
                    ELSE IF id \in ToSet(kept) THEN cached[id] ELSE NoSkill]

(* Mutant: remove forgets the cache. *)
KeepCached(id) == UNCHANGED cacheVars

CacheRemove(id) ==
    /\ recency' = Without(recency, id)
    /\ cached' = [cached EXCEPT ![id] = NoSkill]

-----------------------------------------------------------------------------

(* Mutant: a skill registered again is taken to be in the indexes.         *)
PushUnlessKnown(index, keys, id) ==
    [k \in DOMAIN index |-> IF k \in keys /\ skills[id] = NoSkill
                            THEN Append(index[k], id) ELSE index[k]]

Pushed(index, keys, id) ==
    [k \in DOMAIN index |-> IF k \in keys THEN Append(index[k], id) ELSE index[k]]

HasRoom(skill) ==
    /\ Len(byCategory[skill.category]) < MaxListed
    /\ \A c \in skill.capabilities_required : Len(byCapability[c]) < MaxListed

(* register_skill, past validation. *)
Insert(skill) ==
    /\ skills' = [skills EXCEPT ![skill.skill_id] = skill]
    /\ byCategory' = Pushed(byCategory, {skill.category}, skill.skill_id)
    /\ byCapability' = Pushed(byCapability, skill.capabilities_required, skill.skill_id)
    /\ CachePut(skill)

(* load_from_directory (a tree of one) and its recursive form: what the    *)
(* files hold is read first, and then registered one by one under the same *)
(* &mut self.                                                              *)
BeginLoad(read) ==
    /\ loading = << >>
    /\ loading' = read
    /\ UNCHANGED << indexVars, cacheVars >>

LoadNext ==
    /\ loading # << >> /\ ValidateStatic(Head(loading)) /\ HasRoom(Head(loading))
    /\ Insert(Head(loading))
    /\ loading' = Tail(loading)

(* A skill that parsed but is not valid ends the load with Err; what was   *)
(* registered before it stays.  (The bound on entries ends it as well.)    *)
LoadStops ==
    /\ loading # << >> /\ ~ (ValidateStatic(Head(loading)) /\ HasRoom(Head(loading)))
    /\ loading' = << >>
    /\ UNCHANGED << indexVars, cacheVars >>

Forgotten(index, keys, id) ==
    [k \in DOMAIN index |-> IF k \in keys THEN Without(index[k], id) ELSE index[k]]

RemoveSkill(id) ==
    LET skill == skills[id] IN
    /\ loading = << >> /\ skill # NoSkill
    /\ skills' = [skills EXCEPT ![id] = NoSkill]
    /\ byCategory' = Forgotten(byCategory, {skill.category}, id)
    /\ byCapability' = Forgotten(byCapability, skill.capabilities_required, id)
    /\ CacheRemove(id)
    /\ UNCHANGED loading

Clear ==
    /\ loading = << >>
    /\ skills' = [id \in SkillIds |-> NoSkill]
    /\ byCategory' = [c \in Categories |-> << >>]
    /\ byCapability' = [c \in Capabilities |-> << >>]
    /\ cached' = [id \in SkillIds |-> NoSkill]
    /\ recency' = << >>
    /\ UNCHANGED loading

(* The content of the answer of get and get_sync, with the cache's lock or *)
(* without it, and what the lookup does to the cache.                      *)
CachedOrIndexed(id) == IF cached[id] # NoSkill THEN cached[id] ELSE skills[id]

UseCache(id) ==
    /\ recency' = IF cached[id] # NoSkill THEN Touched(id) ELSE recency
    /\ UNCHANGED << cached, loading, indexVars >>

Listed(ids) ==
    LET present == Filter(ids, {id \in SkillIds : skills[id] # NoSkill})
    IN  [i \in DOMAIN present |-> skills[present[i]]]

ByCategory(category) == Listed(byCategory[category])

ByCapability(capability) == Listed(byCapability[capability])

-----------------------------------------------------------------------------

RegistryTypeOK ==
    /\ skills \in [SkillIds -> Skills \cup {NoSkill}]
    /\ byCategory \in [Categories -> Seq(SkillIds)]
    /\ byCapability \in [Capabilities -> Seq(SkillIds)]
    /\ cached \in [SkillIds -> Skills \cup {NoSkill}]

(* Whatever was registered, replaced, removed or evicted, a cached skill is*)
(* the registered one: get never serves a version that is gone.            *)
CacheAgrees ==
    \A id \in SkillIds : cached[id] # NoSkill => cached[id] = skills[id]

(* by_category and by_capability answer with every registered skill of the *)
(* category or capability, in its present version, also when it replaced   *)
(* another.                                                                *)
IndexesComplete ==
    \A id \in SkillIds : skills[id] # NoSkill =>
        /\ skills[id] \in Range(ByCategory(skills[id].category))
        /\ \A c \in skills[id].capabilities_required :
              skills[id] \in Range(ByCapability(c))
=============================================================================
