--------------------------- MODULE MCSkillServing ---------------------------
(* Two identifiers, one of them with an underscore, and two versions of the*)
(* other that differ in all that the indexes and the export look at; one of*)
(* these is registered and can never be executed, for its empty limit.     *)
EXTENDS SkillServing

Native == [spec_version |-> FALSE, yaml |-> TRUE, complete |-> TRUE, id |-> << >>,
           skill_id |-> << "skill", "fs", "read" >>, name |-> "reader",
           permissions |-> Absent, capabilities_required |-> {<< "fs", "read" >>},
           trust |-> 1, category |-> "fs", export_format |-> "mcp-tool",
           max_file_size |-> Absent,
           dependencies |-> [list |-> << [kind |-> "other", id |-> Absent] >>],
           triggers |-> << [event |-> Absent, pattern |-> "not a regex"] >>,
           policies |-> << [id |-> Absent, rule |-> ""] >>]

Replaced == [Native EXCEPT !.category = "net", !.trust = 2, !.max_file_size = "",
                !.capabilities_required = {<< "fs", "read" >>, << "net", "http" >>}]

Vendor == [Native EXCEPT !.id = << "net", "web_get" >>, !.skill_id = << >>,
              !.name = "echo", !.category = Absent, !.trust = Absent,
              !.permissions = {<< "net", "http" >>},
              !.dependencies = [skills |-> << >>,
                                tools |-> << [id |-> "git", version |-> Absent] >>,
                                models |-> << >>]]

(* What parses and is refused by the validator, for a rule left empty.     *)
Invalid == [Vendor EXCEPT !.id = << "net", "lint" >>,
               !.triggers = << [event |-> "open", pattern |-> ".*"] >>,
               !.policies = << [id |-> "p1", rule |-> ""] >>]

(* A file that says both spec_version and skill_id has no identifier. *)
Mixed == [Native EXCEPT !.spec_version = TRUE]

MCTrees == {<< << Native, Mixed >>, << Vendor >> >>,
            << << Replaced, Invalid, Vendor >> >>}
MCSkills == {SkillOf(d) : d \in {Native, Replaced, Vendor}}
MCWords == [part \in {"fs", "read", "net", "web_get"} |->
                IF part = "web_get" THEN << "web", "get" >> ELSE << part >>]
(* No underscores: every name leads back to its skill. *)
MCPlainWords == [part \in {"fs", "read", "net", "web_get"} |-> << part >>]
MCScores == {0}
=============================================================================
