---------------------------- MODULE SkillLoader ----------------------------
(***************************************************************************)
(* From SKILL.md files to skills: FrontmatterParser, SkillLoader, and the  *)
(* checks of SkillValidator.  A document is a record of what its           *)
(* frontmatter says; identifiers and capabilities are sequences of the     *)
(* parts between their colons.  Text that nothing branches on (licence,    *)
(* tags, descriptions, schemas, platforms) is left out.                    *)
(*   spec_version, complete, yaml : BOOLEAN    id, skill_id : parts or << >>*)
(*   permissions, capabilities_required : sets of capabilities, or Absent  *)
(*   trust : a level, Absent, or else          category, name : texts      *)
(*   max_file_size, export_format : texts, the former or Absent            *)
(*   dependencies : [skills, tools, models], or [list], of [id, version]   *)
(*   triggers : [event, pattern]; policies : [id, rule], texts or Absent   *)
(***************************************************************************)
EXTENDS Naturals, Sequences, FiniteSets, SequencesExt

CONSTANT Absent     (* a key the frontmatter does not have: BadValue of YAML *)

(* TrustLevelRequired, from Unverified to Sovereign; as_f64 gives the lower*)
(* bounds of TrustLevel, so levels compare as scores do.                   *)
TrustLevelRequired == 0 .. 4

(* The document uses the vendor-neutral format. *)
IsVendorNeutral(doc) == doc.spec_version \/ doc.id # << >>

SkillIdOf(doc) ==
    IF IsVendorNeutral(doc) THEN << "skill" >> \o doc.id ELSE doc.skill_id

CapabilitiesOf(doc) ==
    LET listed == IF IsVendorNeutral(doc) THEN doc.permissions
                                          ELSE doc.capabilities_required
    IN  IF listed = Absent THEN {} ELSE listed

ParseTrustLevel(doc) ==
    IF doc.trust = Absent /\ IsVendorNeutral(doc) THEN 1 ELSE doc.trust

CategoryOf(doc) ==
    IF ~ IsVendorNeutral(doc) THEN doc.category
    ELSE IF Len(SkillIdOf(doc)) > 1 THEN SkillIdOf(doc)[2] ELSE "general"

(* parse answers Ok: there are delimiters and YAML, the identifier of the  *)
(* document's own format is there and starts with "skill:", and so are the *)
(* fields that have no default.                                            *)
Parses(doc) ==
    /\ doc.yaml /\ doc.complete
    /\ IF IsVendorNeutral(doc)
       THEN doc.id # << >>
       ELSE /\ Len(doc.skill_id) > 1 /\ Head(doc.skill_id) = "skill"
            /\ doc.capabilities_required # Absent
            /\ doc.category # Absent
    /\ ParseTrustLevel(doc) \in TrustLevelRequired

(* What a list names under a key, in its order; entries without are dropped*)
Having(key, list) == SelectSeq(list, LAMBDA entry : entry[key] # Absent)

Depends(kind, list) ==
    LET named == Having("id", list)
    IN  [i \in DOMAIN named |-> [kind |-> kind, ref |-> named[i].id]]

(* A mapping of lists, its tools folded into one dependency, or a list of  *)
(* entries of each kind.  A reference stays as it was written: no "skill:" *)
(* is put in front of it.                                                  *)
ParseDependencies(deps) ==
    IF "list" \in DOMAIN deps
    THEN LET known == SelectSeq(deps.list, LAMBDA d : d.kind \in {"skill", "system", "crate"})
         IN  [i \in DOMAIN known |-> [kind |-> known[i].kind, ref |-> known[i].id]]
    ELSE Depends("skill", deps.skills)
            \o (IF Having("version", Having("id", deps.tools)) = << >> THEN << >>
                ELSE << [kind |-> "system", ref |-> Absent] >>)
            \o Depends("crate", deps.models)

ParseTriggers(list) == Having("event", list)

ParsePolicies(list) == Having("id", Having("rule", list))

MaxFileSize(doc) == IF doc.max_file_size = Absent THEN "100MB" ELSE doc.max_file_size

ExportFormat(doc) == IF IsVendorNeutral(doc) THEN "mcp-tool" ELSE doc.export_format

SkillOf(doc) ==
    [skill_id |-> SkillIdOf(doc), name |-> doc.name, category |-> CategoryOf(doc),
     capabilities_required |-> CapabilitiesOf(doc),
     trust_level_minimum |-> ParseTrustLevel(doc),
     max_file_size |-> MaxFileSize(doc), export_format |-> ExportFormat(doc),
     dependencies |-> ParseDependencies(doc.dependencies),
     triggers |-> ParseTriggers(doc.triggers), policies |-> ParsePolicies(doc.policies)]

(* from_directory keeps what parses and warns about the rest. *)
FromDirectory(docs) ==
    LET parsed == SelectSeq(docs, Parses)
    IN  [i \in DOMAIN parsed |-> SkillOf(parsed[i])]

(* from_directory_recursive: the directories of a tree, in walking order.  *)
FromDirectoryRecursive(tree) == FlattenSeq([i \in DOMAIN tree |-> FromDirectory(tree[i])])

-----------------------------------------------------------------------------

ValidateFrontmatter(skill) ==
    skill.name # "" /\ skill.category # "" /\ skill.capabilities_required # {}

ValidateSkillId(id) ==
    Len(id) = 3 /\ id[1] = "skill" /\ id[2] # "" /\ id[3] # ""

ValidateCapabilities(caps) == \A cap \in caps : Len(cap) >= 2

(* An event is named, and a pattern is a regular expression. *)
ValidateTriggers(triggers) ==
    \A t \in ToSet(triggers) : t.event # "" /\ t.pattern # "not a regex"

ValidatePolicies(policies) == \A p \in ToSet(policies) : p.id # "" /\ p.rule # ""

ValidateStatic(skill) ==
    /\ ValidateFrontmatter(skill)
    /\ ValidateSkillId(skill.skill_id)
    /\ ValidateCapabilities(skill.capabilities_required)
    /\ ValidateTriggers(skill.triggers)
    /\ ValidatePolicies(skill.policies)

(* Capability::matches: the pattern may be shorter than the capability. *)
Matches(cap, pattern) ==
    IF "*" \in ToSet(pattern)
    THEN /\ Len(pattern) <= Len(cap)
         /\ \A i \in DOMAIN pattern : pattern[i] \in {"*", cap[i]}
    ELSE cap = pattern

(* has_capability asks whether what was granted matches what is required,  *)
(* the requirement taken as the pattern.                                   *)
HasCapability(granted, required) == \E cap \in granted : Matches(cap, required)

ValidateResourceLimits(skill) == skill.max_file_size # ""

(* validate_execution, up to the deadline: it is set 300 s ahead in the    *)
(* same turn of the task.  Limits are looked at only here.                 *)
ValidateExecution(skill, score, granted) ==
    /\ score >= skill.trust_level_minimum
    /\ \A cap \in skill.capabilities_required : HasCapability(granted, cap)
    /\ ValidateResourceLimits(skill)
=============================================================================
