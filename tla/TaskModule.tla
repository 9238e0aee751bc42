----------------------------- MODULE TaskModule -----------------------------
(***************************************************************************)
(* A module with a task of its own (CanOutput, SbusInput, RobotRuntime):   *)
(* task_spawn, the thread entry run_trampoline, exit_and_cleanup, and the  *)
(* termination of a task that does not end.                                *)
(***************************************************************************)
EXTENDS ModuleBase

VARIABLES
  task,   \* "none", "instantiate", "created", "run" or "cleanup"
  lost    \* objects of tasks terminated before they stored them

taskVars == <<task, lost>>

TaskInit == task = [i \in Id |-> "none"] /\ lost = {}

TaskAt(i, l) == task' = [task EXCEPT ![i] = l]

\* task_create may fail; the new task may run before its id is stored.
Spawn(c) ==
  /\ pc[c] = "spawn" /\ kind = "task"
  /\ \/ /\ mutex' = Null /\ Goto(c, "idle")
        /\ UNCHANGED <<held, task>>
     \/ /\ \E i \in Id \ alive : /\ task[i] = "none"
                                 /\ TaskAt(i, "instantiate") /\ Hold(c, i)
        /\ Goto(c, "spawned") /\ UNCHANGED mutex
  /\ UNCHANGED <<kind, object, taskId, stopInProgress, alive, exitFlag, lost>>

StoreTaskId(c) ==
  /\ pc[c] = "spawned"
  /\ taskId' = held[c] /\ Hold(c, Null)
  /\ Goto(c, "starting")
  /\ UNCHANGED <<kind, object, stopInProgress, mutex, alive, exitFlag, taskVars>>

\* wait_until_running: the object appeared, or 1 s passed.
StartEnd_NoTimeout(c) ==
  /\ pc[c] = "starting" /\ (object # Null \/ ~IsRunning)
  /\ mutex' = Null /\ Goto(c, "idle")
  /\ UNCHANGED <<kind, object, taskId, stopInProgress, alive, exitFlag, held, taskVars>>
StartEnd(c) ==
  /\ pc[c] = "starting"
  /\ mutex' = Null /\ Goto(c, "idle")
  /\ UNCHANGED <<kind, object, taskId, stopInProgress, alive, exitFlag, held, taskVars>>

\* instantiate() succeeds or fails; a failure stores nullptr.
Instantiate(i) ==
  /\ task[i] = "instantiate"
  /\ \/ TaskAt(i, "created") /\ alive' = alive \cup {i} /\ UNCHANGED object
     \/ TaskAt(i, "cleanup") /\ object' = Null /\ UNCHANGED alive
  /\ UNCHANGED <<kind, taskId, stopInProgress, mutex, exitFlag, clientVars, lost>>

\* The store is not under the mutex: the starter holds it while it waits.
StoreObject(i) ==
  /\ task[i] = "created"
  /\ object' = i /\ TaskAt(i, "run")
  /\ UNCHANGED <<kind, taskId, stopInProgress, mutex, alive, exitFlag, clientVars, lost>>

\* run() returns when it sees the exit flag; it may also never return.
RunReturns(i) ==
  /\ task[i] = "run" /\ i \in exitFlag
  /\ TaskAt(i, "cleanup")
  /\ UNCHANGED <<kind, moduleVars, clientVars, lost>>

ExitAndCleanup(i) ==
  /\ task[i] = "cleanup" /\ mutex = Null
  /\ Delete(object) /\ object' = Null /\ taskId' = NotRunning
  /\ TaskAt(i, "none")
  /\ UNCHANGED <<kind, stopInProgress, mutex, clientVars, lost>>

\* task_delete of the task that runs now, whichever it is.
Terminate_DeletesOnly(c) == Terminated(c) /\ UNCHANGED taskVars
Terminate(c) ==
  /\ Terminated(c)
  /\ IF taskId \in Id THEN TaskAt(taskId, "none") ELSE UNCHANGED task
  /\ lost' = lost \cup {i \in {taskId} \cap Id : task[i] = "created"}

SpawnTask(c) == Spawn(c) \/ StoreTaskId(c) \/ StartEnd(c)

Trampoline(i) == Instantiate(i) \/ StoreObject(i) \/ RunReturns(i) \/ ExitAndCleanup(i)
=============================================================================
