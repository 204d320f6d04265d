---------------------------- MODULE SkillServing ---------------------------
(***************************************************************************)
(* Skills served as MCP tools: AegisMcpServer and its DynamicSkillHandler, *)
(* SkillMcpHandler, SkillExecutor, over the registry.  Every client request*)
(* is a task.  call_tool_by_name holds the handler's read lock until the   *)
(* answer is there; refresh_skills takes its write lock, and tokio admits  *)
(* no reader past a writer that waits.  The registry's lock and the trust  *)
(* kernel's are taken and dropped on the way.  Loads, remove and clear of  *)
(* the registry are the embedder's.                                        *)
(***************************************************************************)
EXTENDS SkillRegistry

CONSTANTS Calls,          (* tasks that call tools, one call at a time      *)
          Trees,          (* directories within one, as their documents     *)
          Words,          (* [part of an id -> its words around underscores]*)
          Builtins,       (* names with a registered SkillImpl              *)
          Scores          (* trust levels the client agent may have         *)

(* What a load of each tree reads. *)
Contents == { FromDirectoryRecursive(tree) : tree \in Trees }

(* A load reads a list, and Skills names all of it that can be registered. *)
ASSUME ServingAssumption ==
    LET read == UNION { ToSet(list) : list \in Contents }
    IN  /\ Contents \subseteq Seq(read)
        /\ {skill \in read : ValidateStatic(skill)} \subseteq Skills

VARIABLES toolSchemas,    (* names of the tools listed to clients           *)
          refreshing,     (* refresh_skills waits for the write lock        *)
          call            (* per task: its call, with what it has recorded  *)

servingVars == << toolSchemas, refreshing, call >>
vars == << registryVars, servingVars >>

(* skill:category:name becomes category_name, and is made a skill          *)
(* identifier again by putting colons for the underscores.                 *)
SkillToToolName(id) == Words[id[2]] \o Words[id[3]]
IdOfTool(tool) == << "skill" >> \o tool

Exports(skill) == skill.export_format \in {"mcp-tool", "mcp"}

(* list_tools *)
ListTools ==
    {SkillToToolName(s.skill_id) :
        s \in {skills[id] : id \in {i \in SkillIds : skills[i] # NoSkill
                                                     /\ Exports(skills[i])}}}

(* A call in progress, and a task whose latest call is over.                *)
Pending(pc, tool, skill, trail) ==
    [pc |-> pc, tool |-> tool, skill |-> skill, trail |-> trail,
     metric |-> "none", answer |-> "none"]

Answered(trail, metric, answer) ==
    [pc |-> "idle", tool |-> << >>, skill |-> NoSkill, trail |-> trail,
     metric |-> metric, answer |-> answer]

Idle == Answered(<< >>, "none", "none")

ServingInit ==
    /\ toolSchemas = {}          (* empty until the first refresh_skills *)
    /\ refreshing = FALSE
    /\ call = [c \in Calls |-> Idle]

Init == RegistryInit /\ ServingInit

InProgress(c) == call[c].pc \in {"finding", "starting", "running"}

(* Mutant: readers pass a writer that waits. *)
ReaderMayBarge == TRUE

(* tokio's lock: a reader waits behind a writer that waits. *)
ReaderMayEnter == ~ refreshing

Ended(c, answer) == Answered(call[c].trail, "none", answer)

Become(c, record) ==
    /\ call' = [call EXCEPT ![c] = record]
    /\ UNCHANGED << toolSchemas, refreshing >>

-----------------------------------------------------------------------------

(* call_tool_by_name.  An unlisted tool is answered with an error at once. *)
CallTool(c, tool) ==
    /\ ~ InProgress(c) /\ ReaderMayEnter /\ tool \in toolSchemas
    /\ Become(c, Pending("finding", tool, NoSkill, << >>))
    /\ UNCHANGED registryVars

(* execute_skill's lookup, under the registry's read lock. *)
Find(c) ==
    LET id == IdOfTool(call[c].tool)
        found(skill) == IF skill = NoSkill THEN Ended(c, "error")
                        ELSE Pending("starting", call[c].tool, skill, call[c].trail)
    IN
    /\ call[c].pc = "finding" /\ loading = << >>
    /\ IF id \in SkillIds
       THEN \/ UseCache(id) /\ Become(c, found(CachedOrIndexed(id)))
            \/ UNCHANGED registryVars /\ Become(c, found(skills[id]))
       ELSE Become(c, Ended(c, "error")) /\ UNCHANGED registryVars

(* The score of "mcp-client": the trust kernel is the embedder's, who may  *)
(* have it anywhere; an agent without a record counts as 0.5, which is the *)
(* bottom of Standard.                                                     *)
TrustScore(record) == IF record = Absent THEN 2 ELSE record

(* execute_external, the whole of it: one record per capability. *)
CapabilityUses(skill) ==
    [i \in 1 .. Cardinality(skill.capabilities_required) |-> "used"]

(* The trust kernel is read, the context is given the capabilities that the*)
(* skill requires, the call validated (here and in execute) and its start  *)
(* recorded.  What no implementation is registered for is executed in the  *)
(* same turn of the task.                                                  *)
Start(c, record) ==
    LET skill == call[c].skill IN
    /\ call[c].pc = "starting"
    /\ Become(c,
         IF ~ ValidateExecution(skill, TrustScore(record), skill.capabilities_required)
         THEN Ended(c, "error")
         ELSE IF skill.name \in Builtins
         THEN Pending("running", call[c].tool, skill, << "start" >>)
         ELSE Answered(<< "start" >> \o CapabilityUses(skill) \o << "success" >>,
                       "ok", "ok"))
    /\ UNCHANGED registryVars

(* Mutant: the outcome is recorded on the way out, whatever happened. *)
ImplFailsRecorded(c) ==
    /\ call[c].pc = "running"
    /\ Become(c, Answered(Append(call[c].trail, "success"), "none", "error"))
    /\ UNCHANGED registryVars

(* A SkillImpl answers Ok with one of the four statuses: recorded as       *)
(* success whichever it is, and told apart by the metric and the answer.   *)
(* (What it records of its own accord is left out.)                        *)
ImplReturns(c, status) ==
    /\ call[c].pc = "running"
    /\ LET trail == Append(call[c].trail, "success") IN
       Become(c, IF status = "Success" THEN Answered(trail, "ok", "ok")
                                       ELSE Answered(trail, "error", "failed"))
    /\ UNCHANGED registryVars

(* It answers Err: the ? operator leaves before the outcome is recorded.   *)
ImplFails(c) ==
    /\ call[c].pc = "running"
    /\ Become(c, Ended(c, "error"))
    /\ UNCHANGED registryVars

(* The client goes away and the future is dropped. *)
Cancel(c) ==
    /\ InProgress(c)
    /\ Become(c, Ended(c, "none"))
    /\ UNCHANGED registryVars

-----------------------------------------------------------------------------

RequestRefresh ==
    /\ ~ refreshing /\ refreshing' = TRUE
    /\ UNCHANGED << registryVars, toolSchemas, call >>

(* refresh_tools, once the calls in progress gave their locks back. *)
Refresh ==
    /\ refreshing /\ loading = << >> /\ \A c \in Calls : ~ InProgress(c)
    /\ refreshing' = FALSE
    /\ toolSchemas' = ListTools
    /\ UNCHANGED << registryVars, call >>

Registering ==
    /\ \/ \E read \in Contents : BeginLoad(read)
       \/ LoadNext
       \/ LoadStops
       \/ \E id \in SkillIds : RemoveSkill(id)
       \/ Clear
    /\ UNCHANGED servingVars

Next ==
    \/ Registering
    \/ \E c \in Calls :
        \/ \E tool \in toolSchemas : CallTool(c, tool)
        \/ Find(c)
        \/ \E record \in Scores \cup {Absent} : Start(c, record)
        \/ \E status \in {"Success", "Failed", "Denied", "TimedOut"} : ImplReturns(c, status)
        \/ ImplFails(c)
        \/ Cancel(c)
    \/ RequestRefresh
    \/ Refresh

Spec == Init /\ [][Next]_vars

(* The runtime polls tasks that can go on, and what implements a skill     *)
(* answers some day.  tokio's RwLock is a queue: who waits for the         *)
(* registry gets in between two writers, however often they come (SF).     *)
Fairness ==
    /\ \A c \in Calls : /\ SF_vars(Find(c))
                        /\ WF_vars(Start(c, Absent))
                        /\ WF_vars(ImplReturns(c, "Success") \/ ImplFails(c))
    /\ WF_vars(LoadNext /\ UNCHANGED servingVars)
    /\ WF_vars(LoadStops /\ UNCHANGED servingVars)
    /\ SF_vars(Refresh)

FairSpec == Spec /\ Fairness

-----------------------------------------------------------------------------

(* Between the lookup of a call and anything the registry went through     *)
(* (replacements, removals, evictions, partial loads) the skill a call is  *)
(* given is the one registered at that moment, whichever way it was found. *)
LookupIsCurrent ==
    [][\A c \in Calls :
        call[c].pc = "finding" /\ call'[c].pc = "starting"
            => call'[c].skill = skills[IdOfTool(call[c].tool)]]_vars

(* What the ledger and the metrics hold of a call fits its answer: the     *)
(* record begins with the start; success is claimed at most once, as the   *)
(* last of it, always for a call answered ok and never for one that was    *)
(* refused, failed with Err or was cancelled; and the metrics count what   *)
(* the client was told.  (For an Ok that carries a failed status see       *)
(* RecordedOutcomeIsTrue.)                                                 *)
LedgerFitsAnswer ==
    \A c \in Calls :
        LET k == call[c] IN
        /\ k.trail # << >> => Head(k.trail) = "start"
        /\ \A i \in DOMAIN k.trail : k.trail[i] = "success" => i = Len(k.trail)
        /\ k.answer = "ok" => "success" \in ToSet(k.trail)
        /\ "success" \in ToSet(k.trail) => k.answer \in {"ok", "failed"}
        /\ k.metric = "ok" <=> k.answer = "ok"
        /\ k.metric = "error" <=> k.answer = "failed"

(* SKILL_SPECIFICATION.md:435-437, "Record Audit Entry: Action taken,      *)
(* Outcome": what is recorded of a call that failed is not a success.      *)
RecordedOutcomeIsTrue ==
    \A c \in Calls : call[c].answer = "failed" => "success" \notin ToSet(call[c].trail)

(* Calls keep coming and hold the handler's lock for as long as they run,  *)
(* and loads take the registry's, yet a refresh that was asked for is done *)
(* at last (so the calls it waits for end).                                *)
RefreshHappens == refreshing ~> ~ refreshing

(* tools.rs: a tool's name leads back to the skill it was made from. *)
ListedToolIsFound ==
    [][\A c \in Calls : \A id \in SkillIds :
        /\ call[c].pc = "finding" /\ call'[c].answer = "error"
        /\ skills[id] # NoSkill
        => SkillToToolName(id) # call[c].tool]_vars
=============================================================================
