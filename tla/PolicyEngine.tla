---------------------------- MODULE PolicyEngine -----------------------------
(***************************************************************************)
(* The policy engine of crates/kernel.  A request is an action on a target;*)
(* a rule is the set of requests its patterns match, and an effect; its    *)
(* condition is never read.  Policies are kept in a hash map: those of     *)
(* equal priority are sorted in any order.                                 *)
(***************************************************************************)
EXTENDS Integers, Sequences, FiniteSets

CONSTANTS PolicyNames,     (* "default-safety" is one of them              *)
          Requests,        (* records: an action and the place it is about *)
          Policies,        (* policies that may be added                   *)
          NoPolicy

ASSUME PolicyAssumption == \A p \in Policies : p.priority \in Int

VARIABLES policies,        (* PolicyNames -> policy or NoPolicy            *)
          verdict          (* the latest answer of evaluate                *)

policyVars == << policies, verdict >>

(* Policy::new and its builder. *)
Policy(priority, default, rules) ==
    [priority |-> priority, enabled |-> TRUE, default |-> default, rules |-> rules]

(* Policy::default_safety: its four rules, in their order. *)
DefaultSafety ==
    LET on(action, places) ==
            { r \in Requests : r.action = action /\ r.place \in places }
        rule(requests, effect) == [matches |-> requests, effect |-> effect]
    IN  Policy(100, "Denied",
            << rule(on("file:write", {"system"}), "Denied"),
               rule(on("network:connect", {"internal"}), "Denied"),
               rule(on("file:read", {"workspace"}), "Allowed"),
               rule({ r \in Requests : r.action = "exec:run" }, "Denied") >>)

(* What a policy file may say or leave out, as a set of at most one value. *)
PolicyHeader ==
    [priority : {{}, {1}}, enabled : {{}, {FALSE}}, default : {{}, {"Allowed"}}]

Given(option, default) == IF option = {} THEN default ELSE CHOOSE v \in option : TRUE

(* An engine with one policy, and none other. *)
Only(n, policy) == [m \in PolicyNames |-> IF m = n THEN policy ELSE NoPolicy]

WithDefaults == Only("default-safety", DefaultSafety)

FromToml(n, header, rules) ==
    Only(n, [Policy(Given(header.priority, 0), Given(header.default, "Denied"), rules)
                EXCEPT !.enabled = Given(header.enabled, TRUE)])

(* An engine starts empty, with the default policy or with that of a file. *)
PolicyInit ==
    /\ \/ policies = [n \in PolicyNames |-> NoPolicy]
       \/ policies = WithDefaults
       \/ \E n \in PolicyNames, header \in PolicyHeader, p \in Policies :
              policies = FromToml(n, header, p.rules)
    /\ verdict = "None"

(* A policy of the same name is replaced. *)
AddPolicy(n, p) ==
    /\ policies' = [policies EXCEPT ![n] = p]
    /\ UNCHANGED verdict

RemovePolicy(n) ==
    /\ policies[n] # NoPolicy
    /\ policies' = [policies EXCEPT ![n] = NoPolicy]
    /\ UNCHANGED verdict

Enabled == { n \in PolicyNames : policies[n] # NoPolicy /\ policies[n].enabled }

(* Mutant: lowest priority first. *)
PrecedesAscending(m, n) == policies[m].priority <= policies[n].priority

Precedes(m, n) == policies[m].priority >= policies[n].priority

(* The enabled policies as sort_by may leave them. *)
SortedPolicies ==
    LET k == Cardinality(Enabled)
    IN  { order \in [1 .. k -> Enabled] :
            /\ \A i, j \in 1 .. k : i # j => order[i] # order[j]
            /\ \A i, j \in 1 .. k : i < j => Precedes(order[i], order[j]) }

Matching(n, request) ==
    { i \in DOMAIN policies[n].rules : request \in policies[n].rules[i].matches }

Foremost(places) == CHOOSE i \in places : \A j \in places : i <= j

RuleEffect(n, request) == policies[n].rules[Foremost(Matching(n, request))].effect

(* evaluate, for one order of the policies *)
VerdictIn(order, request) ==
    LET deciding == { i \in DOMAIN order : Matching(order[i], request) # {} }
    IN  IF deciding # {} THEN RuleEffect(order[Foremost(deciding)], request)
        ELSE IF Len(order) > 0 THEN policies[order[1]].default
        ELSE "NoMatch"

Verdicts(request) == { VerdictIn(order, request) : order \in SortedPolicies }

Evaluate(request) ==
    /\ verdict' \in Verdicts(request)
    /\ UNCHANGED policies

PolicyNext ==
    \/ \E n \in PolicyNames :
        \/ RemovePolicy(n)
        \/ \E p \in Policies : AddPolicy(n, p)
    \/ \E request \in Requests : Evaluate(request)

-----------------------------------------------------------------------------

(***************************************************************************)
(* Whatever order the hash map gives, a request on which some enabled      *)
(* policy has a rule is decided by such a policy, and none with a matching *)
(* rule has a higher priority; the verdict depends on that order only when *)
(* two enabled policies of one priority stand above all others concerned.  *)
(***************************************************************************)
PriorityDecides ==
    \A request \in Requests :
        LET concerned == { n \in Enabled : Matching(n, request) # {} }
            candidates == IF concerned # {} THEN concerned ELSE Enabled
            highest == { n \in candidates : \A m \in candidates :
                            policies[m].priority <= policies[n].priority }
        IN  /\ concerned # {} =>
                  Verdicts(request) \subseteq { RuleEffect(n, request) : n \in highest }
            /\ Cardinality(highest) = 1 => Cardinality(Verdicts(request)) = 1
=============================================================================
