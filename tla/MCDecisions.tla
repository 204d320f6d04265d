----------------------------- MODULE MCDecisions -----------------------------
(***************************************************************************)
(* Policies with two priorities and up to two rules, each matching the     *)
(* first request only or the first two.                                    *)
(***************************************************************************)
EXTENDS Decisions

(* Up to two different dependencies, in either order. *)
MCDependencyLists == { << >> } \cup { << s >> : s \in Skills } \cup
    { << p[1], p[2] >> : p \in { q \in Skills \X Skills : q[1] # q[2] } }

q1 == [action |-> "file:write", place |-> "system"]
q2 == [action |-> "file:read", place |-> "workspace"]
MCRequests == {q1, q2, [action |-> "exec:run", place |-> "system"]}

MCRules == [matches : {{q1}, {q1, q2}}, effect : {"Allowed", "Denied"}]

MCPolicies ==
    LET allow == [matches |-> {q1}, effect |-> "Allowed"]
        deny == [matches |-> {q1, q2}, effect |-> "Denied"]
        every == [priority : {0, 1}, enabled : BOOLEAN, default : {"Denied"},
                  rules : { << >>, << allow, deny >> } \cup { << r >> : r \in MCRules }]
    IN  { p \in every : p.enabled \/ p.rules = << allow >> }

(* Addresses at the edges of the blocks, and the two special ones. *)
MCAddresses ==
    [family : {4}, parts : {<< a, b, 0, 1 >> : a \in {9, 10, 127, 128, 169, 172, 192},
                                               b \in {15, 16, 31, 32, 168, 169, 254}}]
    \cup [family : {6}, parts : {<< a, 0, 0, 0, 0, 0, 0, b >> :
                a \in {64511, 64512, 65023, 65024, 65151, 65152, 65215, 65216},
                b \in {1}}]
    \cup SpecialAddresses

MCTexts == {{}, {"ignore-previous"}, {"shell-injection", "role-manipulation"},
            {"data-exfiltration"}}

(* "a" + "re" + "x" and "ar" + "e" + "x" read the same joined. *)
MCAgents == { << "a" >>, << "a", "r" >> }
MCActions == { << "r", "e" >>, << "e" >> }
MCTargets == { << "x" >> }
MCJunk == << "junk" >>
=============================================================================
