-------------------------------- MODULE Server --------------------------------
(***************************************************************************)
(* One process: what main spawns when it starts, what the services keep in *)
(* memory, and what a restart leaves of it.                                *)
(***************************************************************************)
EXTENDS SystemStats, DeviceCodes, AgentTasks

CONSTANTS
  MaxRequests,  \* bound: codes issued and tasks created
  MaxRestarts   \* bound

ASSUME ServerAssumption == MaxRequests \in Nat /\ MaxRestarts \in Nat

VARIABLES requests, restarts

counters == <<requests, restarts>>
vars == <<now, statsVars, codeVars, tasks, counters>>

Init ==
  /\ ClockInit /\ StatsInit /\ CodesInit /\ TasksInit
  /\ requests = 0 /\ restarts = 0

Collect ==
  /\ Round \/ InsertRow
  /\ UNCHANGED <<now, codeVars, tasks, counters>>

Disks ==
  /\ DiskIsRead \/ DiskIsTaken
  /\ UNCHANGED <<now, codeVars, tasks, counters>>

Request == requests < MaxRequests /\ requests' = requests + 1 /\ UNCHANGED <<now, statsVars, restarts>>

Codes ==
  \/ Request /\ IssueCode /\ UNCHANGED tasks
  \/ \E c \in Code : Authorize(c) /\ UNCHANGED <<now, statsVars, tasks, counters>>

\* A task whose sleep ends beyond the bound on time is not begun.
Begin == Request /\ now + PlanningTime <= MaxTime /\ CreateTask /\ UNCHANGED codeVars
Plan == \E i \in TaskId : PlanTask(i) /\ UNCHANGED <<now, statsVars, codeVars, counters>>

\* The process stops and starts again.  (If the host does too, the counters of its
\* disks start again: DiskIsTaken.)
Restart ==
  /\ restarts < MaxRestarts /\ restarts' = restarts + 1
  /\ StatsRestart /\ CodesRestart /\ TasksRestart
  /\ UNCHANGED <<now, requests>>

TimePasses == Tick /\ UNCHANGED <<statsVars, codeVars, tasks, counters>>

Next == TimePasses \/ Disks \/ Collect \/ Codes \/ Begin \/ Plan \/ Restart

\* Timers that are due are run.
Spec == Init /\ [][Next]_vars /\ WF_vars(TimePasses) /\ WF_vars(Collect) /\ WF_vars(Plan)

-----------------------------------------------------------------------------
(* Properties *)

\* The types of all that the process keeps.
TypeOK ==
  /\ now \in Nat /\ counters \in Nat \X Nat
  /\ StatsTypeOK /\ CodesTypeOK /\ TasksTypeOK

\* A task a client has been told of is completed, or forgotten by a restart: no
\* client polls "processing" for ever.
TasksSettle == \A i \in TaskId : StatusOf(i) = "processing" ~> StatusOf(i) # "processing"
=============================================================================
