------------------------------ MODULE A2aTasks -------------------------------
(***************************************************************************)
(* Tasks between agents (crates/a2a, task.rs).  Every method changes the   *)
(* task whatever state it is in; the sender's cancel and the receiver's    *)
(* start, complete and fail reach it in any order.  Transport is not       *)
(* implemented (send_task panics).  Of completed_at only whether it is set *)
(* is kept.                                                                *)
(***************************************************************************)
CONSTANTS Tasks,
          NoTask             (* no such task yet                            *)

VARIABLES tasks,       (* Tasks -> the task                                 *)
          results      (* Tasks -> states of the TaskResults handed out     *)

taskVars == << tasks, results >>

TasksInit ==
    /\ tasks = [t \in Tasks |-> NoTask]
    /\ results = [t \in Tasks |-> {}]

Exists(t) == tasks[t] # NoTask

SubmitTask(t) ==
    /\ ~Exists(t)
    /\ tasks' = [tasks EXCEPT ![t] = [state |-> "Submitted", completed_at |-> "None"]]
    /\ UNCHANGED results

StartTask(t) ==
    /\ Exists(t)
    /\ tasks' = [tasks EXCEPT ![t].state = "Working"]
    /\ UNCHANGED results

EndedAs(t, state) ==
    /\ Exists(t)
    /\ tasks' = [tasks EXCEPT ![t] = [state |-> state, completed_at |-> "Some"]]

CompleteTask(t) ==
    /\ EndedAs(t, "Completed")
    /\ results' = [results EXCEPT ![t] = @ \cup {"Completed"}]

FailTask(t) ==
    /\ EndedAs(t, "Failed")
    /\ results' = [results EXCEPT ![t] = @ \cup {"Failed"}]

CancelTask(t) == EndedAs(t, "Cancelled") /\ UNCHANGED results

TasksNext ==
    \E t \in Tasks :
        \/ SubmitTask(t) \/ StartTask(t)
        \/ CompleteTask(t) \/ FailTask(t) \/ CancelTask(t)

TasksSpec == TasksInit /\ [][TasksNext]_taskVars

-----------------------------------------------------------------------------

(***************************************************************************)
(* "Final task state" (task.rs:151, TaskResult.state), in the lifecycle    *)
(* "Submitted -> Working -> Completed / Cancelled / Failed" (lib.rs:33):   *)
(* once a result was handed out, the task is and stays in the state the    *)
(* result names.                                                           *)
(***************************************************************************)
ResultIsFinal ==
    \A t \in Tasks : results[t] # {} => results[t] = {tasks[t].state}
=============================================================================
