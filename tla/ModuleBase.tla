----------------------------- MODULE ModuleBase -----------------------------
(***************************************************************************)
(* The commands every module answers (robot/common/ModuleBase.hpp): start, *)
(* stop and status/custom commands, called by the clients of NSH (the boot *)
(* script, consoles), under the lifecycle mutex of the module class.       *)
(*                                                                         *)
(* task_spawn differs between the two kinds of module: TaskModule and      *)
(* WorkModule take over at pc "spawn", and WorkModule at pc "detach".      *)
(* Time-outs (1 s in start, 5 s in stop) may expire at any moment: run()   *)
(* and instantiate() take as long as they like.                            *)
(***************************************************************************)

CONSTANTS Client,
          Id,               \* instances: the task and its object
          Null,             \* nullptr
          NotRunning,       \* _taskId -1
          WorkQueueTaskId   \* _taskId -2

ASSUME ModuleAssumption ==
  /\ Null \notin Id /\ NotRunning \notin Id /\ WorkQueueTaskId \notin Id
  /\ NotRunning # WorkQueueTaskId /\ Null \notin Client

VARIABLES
  kind,             \* "task" or "queue": the base class of the module
  object,           \* _object
  taskId,           \* _taskId
  stopInProgress,
  mutex,            \* the client or task that holds module_mutex(), or Null
  pc,               \* where each client is
  held,             \* the local object or task of each client
  alive,            \* objects that are constructed and not deleted
  exitFlag          \* objects whose _taskShouldExit is set

moduleVars == <<object, taskId, stopInProgress, mutex, alive, exitFlag>>
clientVars == <<pc, held>>
baseVars == <<kind, moduleVars, clientVars>>

BaseInit ==
  /\ kind \in {"task", "queue"}
  /\ object = Null /\ taskId = NotRunning /\ stopInProgress = FALSE
  /\ mutex = Null
  /\ pc = [c \in Client |-> "idle"] /\ held = [c \in Client |-> Null]
  /\ alive = {} /\ exitFlag = {}

IsRunning == taskId # NotRunning

Goto(c, l) == pc' = [pc EXCEPT ![c] = l]
Hold(c, x) == held' = [held EXCEPT ![c] = x]

\* delete of an object, nullptr included.
Delete(o) == alive' = alive \ {o} /\ exitFlag' = exitFlag \ {o}

-----------------------------------------------------------------------------
(* start                                                                   *)

StartAllowed == ~IsRunning /\ ~stopInProgress

\* A refused start changes nothing.
StartCommand(c) ==
  /\ pc[c] = "idle" /\ mutex = Null
  /\ StartAllowed
  /\ mutex' = c /\ Goto(c, "spawn")
  /\ UNCHANGED <<kind, object, taskId, stopInProgress, alive, exitFlag, held>>

-----------------------------------------------------------------------------
(* stop                                                                    *)

\* A work queue module is stopped by WorkModule, with the mutex released; a
\* task is asked to end.
StopCommand(c) ==
  /\ pc[c] = "idle" /\ mutex = Null
  /\ IsRunning /\ ~stopInProgress
  /\ stopInProgress' = TRUE
  /\ IF taskId = WorkQueueTaskId
       THEN Goto(c, "detach") /\ Hold(c, object) /\ UNCHANGED exitFlag
       ELSE /\ Goto(c, "poll") /\ exitFlag' = exitFlag \cup ({object} \ {Null})
            /\ UNCHANGED held
  /\ UNCHANGED <<kind, object, taskId, mutex, alive>>

\* The polling loop looks at _taskId without the mutex.
PollRunning(c) ==
  /\ pc[c] = "poll" /\ IsRunning
  /\ Goto(c, "request")
  /\ UNCHANGED <<kind, moduleVars, held>>

\* Asked again: the object may not have existed before.
RequestStop(c) ==
  /\ pc[c] = "request" /\ mutex = Null
  /\ exitFlag' = exitFlag \cup ({object} \ {Null})
  /\ Goto(c, "poll")
  /\ UNCHANGED <<kind, object, taskId, stopInProgress, mutex, alive, held>>

PollEnded(c) ==
  /\ pc[c] = "poll" /\ ~IsRunning
  /\ Goto(c, "done")
  /\ UNCHANGED <<kind, moduleVars, held>>

\* After 5 s, still running.
PollTimeout(c) ==
  /\ pc[c] = "poll" /\ IsRunning
  /\ Goto(c, "giveup")
  /\ UNCHANGED <<kind, moduleVars, held>>

\* The flag is cleared and the mutex released before it is taken again to
\* terminate the task.
GiveUp(c) ==
  /\ pc[c] = "giveup" /\ mutex = Null
  /\ stopInProgress' = FALSE
  /\ Goto(c, "terminate")
  /\ UNCHANGED <<kind, object, taskId, mutex, alive, exitFlag, held>>

\* What follows the termination of the task (TaskModule).
Terminated(c) ==
  /\ pc[c] = "terminate" /\ mutex = Null
  /\ Delete(object)
  /\ object' = Null /\ taskId' = NotRunning /\ stopInProgress' = FALSE
  /\ Goto(c, "idle")
  /\ UNCHANGED <<kind, mutex, held>>

StopDone(c) ==
  /\ pc[c] = "done" /\ mutex = Null
  /\ stopInProgress' = FALSE
  /\ Goto(c, "idle")
  /\ UNCHANGED <<kind, object, taskId, mutex, alive, exitFlag, held>>

-----------------------------------------------------------------------------
(* status and the custom commands use the object under the mutex           *)

UseBegin(c) ==
  /\ pc[c] = "idle" /\ mutex = Null
  /\ object # Null
  /\ mutex' = c /\ Goto(c, "use")
  /\ UNCHANGED <<kind, object, taskId, stopInProgress, alive, exitFlag, held>>

UseEnd(c) ==
  /\ pc[c] = "use"
  /\ mutex' = Null /\ Goto(c, "idle")
  /\ UNCHANGED <<kind, object, taskId, stopInProgress, alive, exitFlag, held>>

\* The steps of a client that belong to neither kind of module.
Command(c) ==
  \/ StartCommand(c) \/ StopCommand(c) \/ PollRunning(c) \/ RequestStop(c)
  \/ PollEnded(c) \/ PollTimeout(c) \/ GiveUp(c) \/ StopDone(c)
  \/ UseBegin(c) \/ UseEnd(c)
=============================================================================
