----------------------------- MODULE WorkModule -----------------------------
(***************************************************************************)
(* A module on a work queue (robot/common/WorkQueueModuleBase.hpp): how it *)
(* is created, registers for its topics, is activated, runs, and is        *)
(* stopped.  Its queue is RunQueue, which WorkQueue implements; StopAndWait *)
(* waits for the Run() in flight or gives up.                              *)
(***************************************************************************)
EXTENDS ModuleBase, Topic

VARIABLES
  attached, enabled, pending, running,   \* see RunQueue
  reads                                  \* topics that Run() has yet to read

Q == INSTANCE RunQueue WITH Item <- Id, Nobody <- Null

queueVars == <<attached, enabled, pending, running>>
workVars == <<queueVars, reads>>

WorkInit == Q!QueueInit /\ reads = {}

Registered(o) == {t \in Topics : <<t, o>> \in callbacks}

-----------------------------------------------------------------------------
(* task_spawn, under the lifecycle mutex                                   *)

\* instantiate() and InitSchedule() may fail.
CreateFails(c) ==
  /\ pc[c] = "spawn" /\ kind = "queue"
  /\ mutex' = Null /\ Goto(c, "idle")
  /\ UNCHANGED <<kind, object, taskId, stopInProgress, alive, exitFlag, held,
                 workVars, topicVars>>

Create(c) ==
  /\ pc[c] = "spawn" /\ kind = "queue"
  /\ \E o \in Id \ alive :
       /\ Hold(c, o) /\ alive' = alive \cup {o}
       /\ Q!Attach(o) /\ Subscribe(o)
  /\ Goto(c, "init")
  /\ UNCHANGED <<kind, object, taskId, stopInProgress, mutex, exitFlag, reads,
                 advertised, callbacks, publisher, todo>>

\* initWorkQueue registers the subscriptions one after the other.
RegisterNext(c) ==
  /\ pc[c] = "init"
  /\ \E t \in Topics \ Registered(held[c]) : Register(t, held[c])
  /\ UNCHANGED <<baseVars, workVars>>

\* A callback list is full.
RegisterFails(c) ==
  /\ pc[c] = "init" /\ Registered(held[c]) # Topics
  /\ Goto(c, "undo")
  /\ UNCHANGED <<kind, moduleVars, held, workVars, topicVars>>

\* The object of a failed start goes, whatever StopAndWait answered.
Discard(c) ==
  /\ pc[c] = "discard"
  /\ Delete(held[c]) /\ unread' = unread \ (Topics \X {held[c]})
  /\ mutex' = Null /\ Hold(c, Null) /\ Goto(c, "idle")
  /\ UNCHANGED <<kind, object, taskId, stopInProgress, workVars,
                 advertised, callbacks, publisher, todo>>

Install(c) ==
  /\ pc[c] = "init" /\ Registered(held[c]) = Topics
  /\ object' = held[c] /\ taskId' = WorkQueueTaskId
  /\ Goto(c, "activate")
  /\ UNCHANGED <<kind, stopInProgress, mutex, alive, exitFlag, held, workVars, topicVars>>

\* ScheduleOnInterval.
Activate(c) ==
  /\ pc[c] = "activate"
  /\ Q!Enable(held[c])
  /\ Goto(c, "kick")
  /\ UNCHANGED <<kind, moduleVars, held, reads, topicVars>>

\* ScheduleNow: messages that came before the activation are read now.
Kick_Skipped(c) ==
  /\ pc[c] = "kick"
  /\ mutex' = Null /\ Hold(c, Null) /\ Goto(c, "idle")
  /\ UNCHANGED <<kind, object, taskId, stopInProgress, alive, exitFlag, workVars, topicVars>>
Kick(c) ==
  /\ pc[c] = "kick"
  /\ Q!Request(held[c])
  /\ mutex' = Null /\ Hold(c, Null) /\ Goto(c, "idle")
  /\ UNCHANGED <<kind, object, taskId, stopInProgress, alive, exitFlag, reads, topicVars>>

-----------------------------------------------------------------------------
(* stop_work_queue, without the mutex, and the undoing of a failed start,  *)
(* with it: unregisterCallbacks and StopAndWait                            *)

Stopping(c) == pc[c] \in {"detach", "undo"}
Waiting(c) == pc[c] \in {"wait", "undoWait"}

UnregisterNext(c) ==
  /\ Stopping(c)
  /\ \E t \in Registered(held[c]) : Unregister(t, held[c])
  /\ UNCHANGED <<baseVars, workVars>>

\* StopAndWait begins: no Run() is started any more.
DetachBegin(c) ==
  /\ Stopping(c) /\ Registered(held[c]) = {}
  /\ Q!Disable(held[c])
  /\ Goto(c, IF pc[c] = "undo" THEN "undoWait" ELSE "wait")
  /\ UNCHANGED <<kind, moduleVars, held, reads, topicVars>>

DetachEnd_NoWait(c) ==
  /\ Waiting(c)
  /\ attached' = attached \ {held[c]}
  /\ Goto(c, IF pc[c] = "undoWait" THEN "discard" ELSE "delete")
  /\ UNCHANGED <<kind, moduleVars, held, enabled, pending, running, reads, topicVars>>
DetachEnd(c) ==
  /\ Waiting(c)
  /\ Q!Detach(held[c])
  /\ Goto(c, IF pc[c] = "undoWait" THEN "discard" ELSE "delete")
  /\ UNCHANGED <<kind, moduleVars, held, reads, topicVars>>

DetachTimeout(c) ==
  /\ Waiting(c) /\ running = held[c]
  /\ Goto(c, IF pc[c] = "undoWait" THEN "discard" ELSE "retain")
  /\ UNCHANGED <<kind, moduleVars, held, workVars, topicVars>>

DeleteObject(c) ==
  /\ pc[c] = "delete" /\ mutex = Null
  /\ Delete(held[c]) /\ unread' = unread \ (Topics \X {held[c]})
  /\ object' = Null /\ taskId' = NotRunning /\ stopInProgress' = FALSE
  /\ Hold(c, Null) /\ Goto(c, "idle")
  /\ UNCHANGED <<kind, mutex, workVars, advertised, callbacks, publisher, todo>>

\* A stop that timed out keeps the disabled object for a later stop.
Retain(c) ==
  /\ pc[c] = "retain" /\ mutex = Null
  /\ stopInProgress' = FALSE
  /\ Hold(c, Null) /\ Goto(c, "idle")
  /\ UNCHANGED <<kind, object, taskId, mutex, alive, exitFlag, workVars, topicVars>>

-----------------------------------------------------------------------------
(* The worker of the queue, and the publishers                             *)

StartRun(o) == /\ Q!Start(o) /\ reads' = Topics
               /\ UNCHANGED <<baseVars, topicVars>>

SelectPending == \E o \in pending : StartRun(o)

\* The period of the item is due.
SelectPeriodic == \E o \in enabled : StartRun(o)

ReadTopic(t) ==
  /\ t \in reads /\ reads' = reads \ {t}
  /\ Update(t, running)
  /\ UNCHANGED <<baseVars, queueVars>>

RunEnd == /\ reads = {} /\ Q!Finish
          /\ UNCHANGED <<baseVars, reads, topicVars>>

Publish(t) == Store(t, alive) /\ UNCHANGED <<baseVars, workVars>>

PublishNotify(t) == /\ NotifyBegin(t) \/ NotifyEnd(t)
                    /\ UNCHANGED <<baseVars, workVars>>

\* onTopicUpdate only asks the queue for a run.
OnTopicUpdate(t, o) ==
  /\ Notify(t, o) /\ Q!Request(o)
  /\ UNCHANGED <<baseVars, reads>>

SpawnWork(c) == \/ CreateFails(c) \/ Create(c) \/ RegisterNext(c) \/ RegisterFails(c)
                \/ Discard(c) \/ Install(c) \/ Activate(c) \/ Kick(c)

StopWork(c) == \/ UnregisterNext(c) \/ DetachBegin(c) \/ DetachEnd(c)
               \/ DetachTimeout(c) \/ DeleteObject(c) \/ Retain(c)

Worker == SelectPending \/ SelectPeriodic \/ (\E t \in Topics : ReadTopic(t)) \/ RunEnd

Publisher(t) == PublishNotify(t) \/ \E o \in Id : OnTopicUpdate(t, o)
=============================================================================
