------------------------------ MODULE AgentTasks ------------------------------
(* Tasks of the agent: create_task answers at once and plans in the background. *)
EXTENDS Clock

CONSTANTS
  TaskId,      \* the random ids
  PlanningTime \* sleep of the background task (1 s)

ASSUME TasksAssumption == PlanningTime \in Nat

VARIABLE tasks   \* the tasks by id: status, and when the sleep of its task is over

TasksInit == tasks = <<>>

\* The entry is made before its background task is spawned.
CreateTask ==
  \E i \in TaskId \ DOMAIN tasks :
    tasks' = [k \in DOMAIN tasks \cup {i} |->
      IF k = i THEN [status |-> "processing", wake |-> now + PlanningTime] ELSE tasks[k]]

\* Mutant: the plan is stored, the status is not.
PlanOnly(i) ==
  /\ i \in DOMAIN tasks /\ tasks[i].status = "processing" /\ tasks[i].wake <= now
  /\ UNCHANGED tasks

\* The plan is stored and the task completed, under one lock.
PlanTask(i) ==
  /\ i \in DOMAIN tasks /\ tasks[i].status = "processing" /\ tasks[i].wake <= now
  /\ tasks' = [tasks EXCEPT ![i].status = "completed"]

\* get_task: "unknown" stands for its error.
StatusOf(i) == IF i \in DOMAIN tasks THEN tasks[i].status ELSE "unknown"

TasksRestart == tasks' = <<>>

-----------------------------------------------------------------------------
(* Properties *)

TasksTypeOK ==
  /\ DOMAIN tasks \subseteq TaskId
  /\ \A i \in DOMAIN tasks : tasks[i] \in [status : {"processing", "completed"}, wake : Nat]
=============================================================================
