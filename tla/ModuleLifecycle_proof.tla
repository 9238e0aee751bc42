----------------------- MODULE ModuleLifecycle_proof -----------------------
(* Theorems of ModuleLifecycle, for every set of clients, instances and     *)
(* topics.                                                                  *)
EXTENDS ModuleLifecycle, TLAPS

USE ModuleAssumption

-----------------------------------------------------------------------------
(* Types                                                                   *)

\* No step takes a variable out of its type.
LEMMA TypeStep == IInv /\ [Next]_lifeVars => TypeOK'
<1> SUFFICES ASSUME IInv, [Next]_lifeVars PROVE TypeOK' OBVIOUS
<1>a. TypeOK BY DEF IInv
<1>b. ASSUME NEW c \in Client
      PROVE  /\ pc[c] = "spawned" => held[c] \in Id
             /\ pc[c] = "init" => held[c] \in Id
  BY <1>a DEF IInv, TypeOK, TaskLife, WorkLife, Building, Ending
<1> USE <1>a
<1> USE DEF TypeOK, Goto, Hold, Delete, TaskAt, moduleVars, clientVars, baseVars, taskVars,
            queueVars, workVars, topicVars
<1> USE DEF Places, Locked, Ending, Building
<1>1. ASSUME NEW c \in Client, Command(c), UNCHANGED <<taskVars, workVars, topicVars>>
      PROVE  TypeOK'
  <2> USE <1>1
  <2>1. CASE StartCommand(c) BY <2>1 DEF StartCommand
  <2>2. CASE StopCommand(c) BY <2>2 DEF StopCommand
  <2>3. CASE PollRunning(c) \/ PollEnded(c) \/ PollTimeout(c)
    BY <2>3 DEF PollRunning, PollEnded, PollTimeout
  <2>4. CASE RequestStop(c) BY <2>4 DEF RequestStop
  <2>5. CASE GiveUp(c) \/ StopDone(c) BY <2>5 DEF GiveUp, StopDone
  <2>6. CASE UseBegin(c) \/ UseEnd(c) BY <2>6 DEF UseBegin, UseEnd
  <2> QED BY <2>1, <2>2, <2>3, <2>4, <2>5, <2>6 DEF Command
<1>2. ASSUME NEW c \in Client, SpawnTask(c) \/ Terminate(c),
             UNCHANGED <<workVars, topicVars>>
      PROVE  TypeOK'
  <2> USE <1>2
  <2>1. CASE Spawn(c) BY <2>1 DEF Spawn
  <2>2. CASE StoreTaskId(c) BY <1>b, <2>2 DEF StoreTaskId
  <2>3. CASE StartEnd(c) BY <2>3 DEF StartEnd
  <2>4. CASE Terminate(c) BY <2>4 DEF Terminate, Terminated
  <2> QED BY <2>1, <2>2, <2>3, <2>4 DEF SpawnTask
<1>3. ASSUME NEW c \in Client, SpawnWork(c), UNCHANGED taskVars PROVE TypeOK'
  <2> USE <1>3
  <2>1. CASE CreateFails(c) BY <2>1 DEF CreateFails
  <2>2. CASE Create(c) BY <2>2 DEF Create, Q!Attach, Subscribe
  <2>3. CASE RegisterNext(c) \/ RegisterFails(c)
    BY <1>b, <2>3 DEF RegisterNext, Register, RegisterFails
  <2>4. CASE Discard(c) BY <2>4 DEF Discard
  <2>5. CASE Install(c) BY <2>5 DEF Install
  <2>6. CASE Activate(c) BY <2>6 DEF Activate, Q!Enable
  <2>7. CASE Kick(c) BY <2>7 DEF Kick, Q!Request
  <2> QED BY <2>1, <2>2, <2>3, <2>4, <2>5, <2>6, <2>7 DEF SpawnWork
<1>4. ASSUME NEW c \in Client, StopWork(c), UNCHANGED taskVars PROVE TypeOK'
  <2> USE <1>4
  <2>1. CASE UnregisterNext(c) BY <2>1 DEF UnregisterNext, Unregister
  <2>2. CASE DetachBegin(c) BY <2>2 DEF DetachBegin, Q!Disable
  <2>3. CASE DetachEnd(c) BY <2>3 DEF DetachEnd, Q!Detach
  <2>4. CASE DetachTimeout(c) BY <2>4 DEF DetachTimeout
  <2>5. CASE DeleteObject(c) BY <2>5 DEF DeleteObject
  <2>6. CASE Retain(c) BY <2>6 DEF Retain
  <2> QED BY <2>1, <2>2, <2>3, <2>4, <2>5, <2>6 DEF StopWork
<1>5. ASSUME NEW i \in Id, Trampoline(i), UNCHANGED <<workVars, topicVars>>
      PROVE  TypeOK'
  <2> USE <1>5
  <2>1. CASE Instantiate(i) BY <2>1 DEF Instantiate
  <2>2. CASE StoreObject(i) BY <2>2 DEF StoreObject
  <2>3. CASE RunReturns(i) BY <2>3 DEF RunReturns
  <2>4. CASE ExitAndCleanup(i) BY <2>4 DEF ExitAndCleanup
  <2> QED BY <2>1, <2>2, <2>3, <2>4 DEF Trampoline
<1>6. CASE Worker /\ UNCHANGED taskVars
  <2> USE <1>6
  <2>1. ASSUME NEW o \in Id, StartRun(o) PROVE TypeOK'
    BY <2>1 DEF StartRun, Q!Start
  <2>2. ASSUME NEW t \in Topics, ReadTopic(t) PROVE TypeOK'
    BY <2>2 DEF ReadTopic, Update
  <2>3. CASE RunEnd BY <2>3 DEF RunEnd, Q!Finish
  <2> QED BY <2>1, <2>2, <2>3 DEF Worker, SelectPending, SelectPeriodic
<1>7. ASSUME NEW t \in Topics, Publish(t) \/ Publisher(t), UNCHANGED taskVars
      PROVE  TypeOK'
  <2> USE <1>7
  <2>1. CASE Publish(t) BY <2>1 DEF Publish, Store, PublisherAt
  <2>2. CASE NotifyBegin(t) /\ UNCHANGED <<baseVars, workVars>>
    <3>1. {p[2] : p \in {q \in callbacks : q[1] = t}} \subseteq Id OBVIOUS
    <3> QED BY <2>2, <3>1 DEF NotifyBegin, PublisherAt
  <2>3. CASE NotifyEnd(t) /\ UNCHANGED <<baseVars, workVars>>
    BY <2>3 DEF NotifyEnd, PublisherAt
  <2>4. ASSUME NEW o \in Id, OnTopicUpdate(t, o) PROVE TypeOK'
    BY <2>4 DEF OnTopicUpdate, Notify, Q!Request
  <2> QED BY <2>1, <2>2, <2>3, <2>4 DEF Publisher, PublishNotify
<1>8. CASE UNCHANGED lifeVars BY <1>8 DEF lifeVars
<1> QED BY <1>1, <1>2, <1>3, <1>4, <1>5, <1>6, <1>7, <1>8 DEF Next, Step, Message

-----------------------------------------------------------------------------
(* Which steps each kind of module has                                     *)

\* A module keeps its base class.
LEMMA SameKind == [Next]_lifeVars => kind' = kind
BY DEF Next, Step, Message, Command, StartCommand, StopCommand, PollRunning,
       RequestStop, PollEnded, PollTimeout, GiveUp, StopDone, UseBegin, UseEnd,
       SpawnTask, Spawn, StoreTaskId, StartEnd, Terminate, Terminated, SpawnWork,
       CreateFails, Create, RegisterNext, RegisterFails, Discard, Install, Activate,
       Kick, StopWork, UnregisterNext, DetachBegin, DetachEnd, DetachTimeout,
       DeleteObject, Retain, Trampoline, Instantiate, StoreObject, RunReturns,
       ExitAndCleanup, Worker, SelectPending, SelectPeriodic, StartRun, ReadTopic,
       RunEnd, Publish, Publisher, PublishNotify, OnTopicUpdate, lifeVars, baseVars

\* A module with a task has no item and no callback.
LEMMA TaskSteps ==
  ASSUME IInv, kind = "task", [Next]_lifeVars
  PROVE  \/ \E c \in Client : Command(c) /\ UNCHANGED <<taskVars, workVars, topicVars>>
         \/ \E c \in Client : /\ SpawnTask(c) \/ Terminate(c)
                              /\ UNCHANGED <<workVars, topicVars>>
         \/ \E i \in Id : Trampoline(i) /\ UNCHANGED <<workVars, topicVars>>
         \/ UNCHANGED <<baseVars, taskVars, queueVars, callbacks, todo>>
<1> USE DEF IInv, TypeOK, TaskLife
<1>1. ASSUME NEW c \in Client, SpawnWork(c) \/ StopWork(c) PROVE FALSE
  BY <1>1 DEF SpawnWork, CreateFails, Create, RegisterNext, RegisterFails, Discard,
              Install, Activate, Kick, StopWork, UnregisterNext, DetachBegin, DetachEnd,
              DetachTimeout, DeleteObject, Retain, Stopping, Waiting
<1>2. ASSUME Worker, UNCHANGED taskVars
      PROVE  UNCHANGED <<baseVars, taskVars, queueVars, callbacks, todo>>
  BY <1>2 DEF Worker, SelectPending, SelectPeriodic, ReadTopic, Update, RunEnd, Q!Finish
<1>3. ASSUME NEW t \in Topics, Publisher(t), UNCHANGED taskVars
      PROVE  UNCHANGED <<baseVars, taskVars, queueVars, callbacks, todo>>
  <2>1. CASE NotifyBegin(t) /\ UNCHANGED <<baseVars, workVars>>
    <3>1. {p[2] : p \in {q \in callbacks : q[1] = t}} = {} OBVIOUS
    <3>2. todo' = todo BY <2>1, <3>1 DEF NotifyBegin
    <3> QED BY <1>3, <2>1, <3>2 DEF NotifyBegin, workVars
  <2>2. CASE NotifyEnd(t) /\ UNCHANGED <<baseVars, workVars>>
    BY <1>3, <2>2 DEF NotifyEnd, workVars
  <2>3. ASSUME NEW o \in Id, OnTopicUpdate(t, o) PROVE FALSE
    BY <2>3 DEF OnTopicUpdate, Notify
  <2> QED BY <1>3, <2>1, <2>2, <2>3 DEF Publisher, PublishNotify
<1>4. ASSUME UNCHANGED lifeVars
      PROVE  UNCHANGED <<baseVars, taskVars, queueVars, callbacks, todo>>
  BY <1>4 DEF lifeVars, workVars, topicVars
<1> QED BY <1>1, <1>2, <1>3, <1>4 DEF Next, Step, Message

\* A module on a work queue has no task.
LEMMA WorkSteps ==
  ASSUME IInv, kind = "queue", [Next]_lifeVars
  PROVE  \/ \E c \in Client : /\ StartCommand(c) \/ StopCommand(c)
                                 \/ UseBegin(c) \/ UseEnd(c)
                              /\ UNCHANGED <<taskVars, workVars, topicVars>>
         \/ \E c \in Client : (SpawnWork(c) \/ StopWork(c)) /\ UNCHANGED taskVars
         \/ Worker /\ UNCHANGED taskVars
         \/ \E t \in Topics : (Publish(t) \/ Publisher(t)) /\ UNCHANGED taskVars
         \/ UNCHANGED lifeVars
<1> USE DEF IInv, TypeOK, WorkLife, Building, Ending
<1>1. ASSUME NEW c \in Client, SpawnTask(c) \/ Terminate(c) PROVE FALSE
  BY <1>1 DEF SpawnTask, Spawn, StoreTaskId, StartEnd, Terminate, Terminated
<1>2. ASSUME NEW i \in Id, Trampoline(i) PROVE FALSE
  BY <1>2 DEF Trampoline, Instantiate, StoreObject, RunReturns, ExitAndCleanup
<1>3. ASSUME NEW c \in Client, Command(c)
      PROVE  StartCommand(c) \/ StopCommand(c) \/ UseBegin(c) \/ UseEnd(c)
  BY <1>3 DEF Command, PollRunning, RequestStop, PollEnded, PollTimeout, GiveUp, StopDone
<1> QED BY <1>1, <1>2, <1>3 DEF Next, Step, Message

-----------------------------------------------------------------------------
(* The lifecycle mutex                                                     *)

\* The mutex is taken and released with the place of its holder.
LEMMA ExclusiveStep == IInv /\ [Next]_lifeVars => Exclusive'
<1> SUFFICES ASSUME IInv, [Next]_lifeVars PROVE Exclusive' OBVIOUS
<1>a. TypeOK /\ Exclusive BY DEF IInv
<1>b. ASSUME UNCHANGED <<pc, mutex, object>> PROVE Exclusive'
  BY <1>a, <1>b DEF Exclusive
<1> USE DEF TypeOK, Exclusive, Goto, Hold, moduleVars, clientVars, baseVars,
            Locked, Building, Ending
<1>1. ASSUME NEW c \in Client, Command(c) PROVE Exclusive'
  <2> USE <1>a, <1>1
  <2>1. CASE StartCommand(c) BY <2>1 DEF StartCommand
  <2>2. CASE StopCommand(c) BY <2>2 DEF StopCommand
  <2>3. CASE PollRunning(c) \/ PollEnded(c) \/ PollTimeout(c)
    BY <2>3 DEF PollRunning, PollEnded, PollTimeout
  <2>4. CASE RequestStop(c) BY <2>4 DEF RequestStop
  <2>5. CASE GiveUp(c) \/ StopDone(c) BY <2>5 DEF GiveUp, StopDone
  <2>6. CASE UseBegin(c) \/ UseEnd(c) BY <2>6 DEF UseBegin, UseEnd
  <2> QED BY <2>1, <2>2, <2>3, <2>4, <2>5, <2>6 DEF Command
<1>2. ASSUME NEW c \in Client, SpawnTask(c) \/ Terminate(c) PROVE Exclusive'
  <2> USE <1>a, <1>2
  <2>1. CASE Spawn(c) BY <2>1 DEF Spawn
  <2>2. CASE StoreTaskId(c) BY <2>2 DEF StoreTaskId
  <2>3. CASE StartEnd(c) BY <2>3 DEF StartEnd
  <2>4. CASE Terminate(c) BY <2>4 DEF Terminate, Terminated
  <2> QED BY <2>1, <2>2, <2>3, <2>4 DEF SpawnTask
<1>3. ASSUME NEW c \in Client, SpawnWork(c) PROVE Exclusive'
  <2> USE <1>a, <1>3
  <2>1. CASE CreateFails(c) BY <2>1 DEF CreateFails
  <2>2. CASE Create(c) BY <2>2 DEF Create
  <2>3. CASE RegisterNext(c) \/ RegisterFails(c) BY <2>3 DEF RegisterNext, RegisterFails
  <2>4. CASE Discard(c) BY <2>4 DEF Discard
  <2>5. CASE Install(c) BY <2>5 DEF Install
  <2>6. CASE Activate(c) BY <2>6 DEF Activate
  <2>7. CASE Kick(c) BY <2>7 DEF Kick
  <2> QED BY <2>1, <2>2, <2>3, <2>4, <2>5, <2>6, <2>7 DEF SpawnWork
<1>4. ASSUME NEW c \in Client, StopWork(c) PROVE Exclusive'
  <2> USE <1>a, <1>4
  <2>1. CASE UnregisterNext(c) BY <2>1 DEF UnregisterNext
  <2>2. CASE DetachBegin(c) BY <2>2 DEF DetachBegin, Stopping
  <2>3. CASE DetachEnd(c) \/ DetachTimeout(c) BY <2>3 DEF DetachEnd, DetachTimeout, Waiting
  <2>4. CASE DeleteObject(c) BY <2>4 DEF DeleteObject
  <2>5. CASE Retain(c) BY <2>5 DEF Retain
  <2> QED BY <2>1, <2>2, <2>3, <2>4, <2>5 DEF StopWork
<1>5. ASSUME NEW i \in Id, Trampoline(i) PROVE Exclusive'
  <2>1. CASE Instantiate(i)
    <3>1. object' = object \/ object = Null
      BY <2>1 DEF Instantiate, IInv, TaskLife, WorkLife
    <3> QED BY <1>a, <2>1, <3>1 DEF Instantiate
  <2>2. CASE StoreObject(i) BY <1>a, <2>2 DEF StoreObject
  <2>3. CASE RunReturns(i) BY <1>b, <2>3 DEF RunReturns
  <2>4. CASE ExitAndCleanup(i) BY <1>a, <2>4 DEF ExitAndCleanup
  <2> QED BY <1>5, <2>1, <2>2, <2>3, <2>4 DEF Trampoline
<1>6. CASE Worker
  BY <1>b, <1>6 DEF Worker, SelectPending, SelectPeriodic, StartRun, ReadTopic, RunEnd
<1>7. ASSUME NEW t \in Topics, Publish(t) \/ Publisher(t) PROVE Exclusive'
  BY <1>b, <1>7 DEF Publish, Publisher, PublishNotify, OnTopicUpdate
<1>8. CASE UNCHANGED lifeVars BY <1>b, <1>8 DEF lifeVars
<1> QED BY <1>1, <1>2, <1>3, <1>4, <1>5, <1>6, <1>7, <1>8 DEF Next, Step, Message

-----------------------------------------------------------------------------
(* A module with a task                                                    *)

\* A task is known by _taskId, unless a client has just created it; nobody
\* holds the mutex then but that client.
LEMMA TaskStep == IInv /\ [Next]_lifeVars => TaskLife'
<1> SUFFICES ASSUME IInv, [Next]_lifeVars, kind' = "task" PROVE TaskLife'
  BY DEF TaskLife
<1>a. kind = "task" /\ TypeOK /\ Exclusive /\ TaskLife BY SameKind DEF IInv
<1> USE DEF TypeOK, Exclusive, TaskLife, Goto, Hold, Delete, TaskAt, moduleVars, clientVars,
            baseVars, taskVars, queueVars, workVars, topicVars, Locked, Building
<1> USE <1>a
<1>1. ASSUME NEW c \in Client, Command(c), UNCHANGED <<taskVars, workVars, topicVars>>
      PROVE  TaskLife'
  <2> USE <1>1
  <2>1. CASE StartCommand(c) BY <2>1 DEF StartCommand, StartAllowed, IsRunning
  <2>2. CASE StopCommand(c) BY <2>2 DEF StopCommand, IsRunning
  <2>3. CASE PollRunning(c) \/ PollEnded(c) \/ PollTimeout(c)
    BY <2>3 DEF PollRunning, PollEnded, PollTimeout
  <2>4. CASE RequestStop(c) BY <2>4 DEF RequestStop
  <2>5. CASE GiveUp(c) \/ StopDone(c) BY <2>5 DEF GiveUp, StopDone
  <2>6. CASE UseBegin(c) \/ UseEnd(c) BY <2>6 DEF UseBegin, UseEnd
  <2> QED BY <2>1, <2>2, <2>3, <2>4, <2>5, <2>6 DEF Command
<1>2. ASSUME NEW c \in Client, SpawnTask(c) \/ Terminate(c),
             UNCHANGED <<workVars, topicVars>>
      PROVE  TaskLife'
  <2> USE <1>2
  <2>1. CASE Spawn(c) BY <2>1 DEF Spawn
  <2>2. CASE StoreTaskId(c) BY <2>2 DEF StoreTaskId
  <2>3. CASE StartEnd(c) BY <2>3 DEF StartEnd
  <2>4. CASE Terminate(c) BY <2>4 DEF Terminate, Terminated
  <2> QED BY <2>1, <2>2, <2>3, <2>4 DEF SpawnTask
<1>3. ASSUME NEW i \in Id, Trampoline(i), UNCHANGED <<workVars, topicVars>>
      PROVE  TaskLife'
  <2> USE <1>3
  <2>1. CASE Instantiate(i) BY <2>1 DEF Instantiate
  <2>2. CASE StoreObject(i) BY <2>2 DEF StoreObject
  <2>3. CASE RunReturns(i) BY <2>3 DEF RunReturns
  <2>4. CASE ExitAndCleanup(i) BY <2>4 DEF ExitAndCleanup
  <2> QED BY <2>1, <2>2, <2>3, <2>4 DEF Trampoline
<1>4. CASE UNCHANGED <<baseVars, taskVars, queueVars, callbacks, todo>> BY <1>4
<1> QED BY <1>1, <1>2, <1>3, <1>4, TaskSteps

-----------------------------------------------------------------------------
(* A module on a work queue                                                *)

\* The object belongs to the client that builds it until it is installed, and is
\* deleted by the one client whose stop is in progress.
LEMMA WorkStep == IInv /\ [Next]_lifeVars => WorkLife'
<1> SUFFICES ASSUME IInv, [Next]_lifeVars, kind' = "queue" PROVE WorkLife'
  BY DEF WorkLife
<1>a. kind = "queue" /\ TypeOK /\ Exclusive /\ WorkLife BY SameKind DEF IInv
<1> USE DEF TypeOK, Exclusive, WorkLife, Goto, Hold, Delete, moduleVars, clientVars,
            baseVars, taskVars, Locked, Building, Ending
<1> USE <1>a
<1>1. ASSUME NEW c \in Client, UNCHANGED <<taskVars, workVars, topicVars>>,
             StartCommand(c) \/ StopCommand(c) \/ UseBegin(c) \/ UseEnd(c)
      PROVE  WorkLife'
  <2> USE <1>1
  <2>1. CASE StartCommand(c) BY <2>1 DEF StartCommand, StartAllowed, IsRunning
  <2>2. CASE StopCommand(c) BY <2>2 DEF StopCommand, IsRunning
  <2>3. CASE UseBegin(c) \/ UseEnd(c) BY <2>3 DEF UseBegin, UseEnd
  <2> QED BY <2>1, <2>2, <2>3
<1>2. ASSUME NEW c \in Client, SpawnWork(c), UNCHANGED taskVars PROVE WorkLife'
  <2> USE <1>2
  <2>1. CASE CreateFails(c) BY <2>1 DEF CreateFails
  <2>2. CASE Create(c) BY <2>2 DEF Create
  <2>3. CASE RegisterNext(c) \/ RegisterFails(c) BY <2>3 DEF RegisterNext, RegisterFails
  <2>4. CASE Discard(c) BY <2>4 DEF Discard
  <2>5. CASE Install(c) BY <2>5 DEF Install
  <2>6. CASE Activate(c) BY <2>6 DEF Activate
  <2>7. CASE Kick(c) BY <2>7 DEF Kick
  <2> QED BY <2>1, <2>2, <2>3, <2>4, <2>5, <2>6, <2>7 DEF SpawnWork
<1>3. ASSUME NEW c \in Client, StopWork(c), UNCHANGED taskVars PROVE WorkLife'
  <2> USE <1>3
  <2>1. CASE UnregisterNext(c) BY <2>1 DEF UnregisterNext
  <2>2. CASE DetachBegin(c) BY <2>2 DEF DetachBegin, Stopping
  <2>3. CASE DetachEnd(c) BY <2>3 DEF DetachEnd, Waiting
  <2>4. CASE DetachTimeout(c) BY <2>4 DEF DetachTimeout, Waiting
  <2>5. CASE DeleteObject(c) BY <2>5 DEF DeleteObject
  <2>6. CASE Retain(c) BY <2>6 DEF Retain
  <2> QED BY <2>1, <2>2, <2>3, <2>4, <2>5, <2>6 DEF StopWork
<1>b. ASSUME UNCHANGED <<baseVars, taskVars>> PROVE WorkLife' BY <1>b
<1>4. CASE Worker /\ UNCHANGED taskVars
  BY <1>b, <1>4 DEF Worker, SelectPending, SelectPeriodic, StartRun, ReadTopic, RunEnd
<1>5. ASSUME NEW t \in Topics, Publish(t) \/ Publisher(t), UNCHANGED taskVars
      PROVE  WorkLife'
  BY <1>b, <1>5 DEF Publish, Publisher, PublishNotify, OnTopicUpdate
<1>6. CASE UNCHANGED lifeVars BY <1>b, <1>6 DEF lifeVars
<1> QED BY <1>1, <1>2, <1>3, <1>4, <1>5, <1>6, WorkSteps

\* An object leaves the queue before it is deleted, and enters Run() only after
\* its activation.
LEMMA QueueStep == IInv /\ [Next]_lifeVars => QueueLife'
<1> SUFFICES ASSUME IInv, [Next]_lifeVars PROVE QueueLife' OBVIOUS
<1>t. CASE kind = "task"
  <2>1. kind' = "task" /\ TaskLife' /\ TypeOK' BY <1>t, SameKind, TaskStep, TypeStep
  <2> QED BY <2>1 DEF TypeOK, TaskLife, QueueLife, Building
<1>q. CASE kind = "queue"
  <2>a. kind = "queue" /\ TypeOK /\ Exclusive /\ WorkLife /\ QueueLife
    BY <1>q DEF IInv
  <2> USE DEF TypeOK, Exclusive, WorkLife, QueueLife, Goto, Hold, Delete, moduleVars,
              clientVars, baseVars, queueVars, workVars, Locked, Building, Ending
  <2> USE <2>a
  <2>1. ASSUME NEW c \in Client, UNCHANGED <<taskVars, workVars, topicVars>>,
               StartCommand(c) \/ StopCommand(c) \/ UseBegin(c) \/ UseEnd(c)
        PROVE  QueueLife'
    BY <2>1 DEF StartCommand, StopCommand, UseBegin, UseEnd
  <2>2. ASSUME NEW c \in Client, SpawnWork(c) PROVE QueueLife'
    <3> USE <2>2
    <3>1. CASE CreateFails(c) BY <3>1 DEF CreateFails
    <3>2. CASE Create(c) BY <3>2 DEF Create, Q!Attach
    <3>3. CASE RegisterNext(c) \/ RegisterFails(c)
      BY <3>3 DEF RegisterNext, RegisterFails
    <3>4. CASE Discard(c) BY <3>4 DEF Discard
    <3>5. CASE Install(c) BY <3>5 DEF Install
    <3>6. CASE Activate(c) BY <3>6 DEF Activate, Q!Enable
    <3>7. CASE Kick(c) BY <3>7 DEF Kick, Q!Request
    <3> QED BY <3>1, <3>2, <3>3, <3>4, <3>5, <3>6, <3>7 DEF SpawnWork
  <2>3. ASSUME NEW c \in Client, StopWork(c) PROVE QueueLife'
    <3> USE <2>3
    <3>1. CASE UnregisterNext(c) BY <3>1 DEF UnregisterNext
    <3>2. CASE DetachBegin(c) BY <3>2 DEF DetachBegin, Q!Disable, Stopping
    <3>3. CASE DetachEnd(c) BY <3>3 DEF DetachEnd, Q!Detach, Waiting
    <3>4. CASE DetachTimeout(c) BY <3>4 DEF DetachTimeout, Waiting
    <3>5. CASE DeleteObject(c) BY <3>5 DEF DeleteObject
    <3>6. CASE Retain(c) BY <3>6 DEF Retain
    <3> QED BY <3>1, <3>2, <3>3, <3>4, <3>5, <3>6 DEF StopWork
  <2>b. ASSUME UNCHANGED <<baseVars, queueVars>> PROVE QueueLife' BY <2>b
  <2>4. CASE Worker
    <3>1. ASSUME NEW o \in Id, StartRun(o) PROVE QueueLife'
      BY <3>1 DEF StartRun, Q!Start
    <3>2. ASSUME NEW t \in Topics, ReadTopic(t) PROVE QueueLife'
      BY <2>b, <3>2 DEF ReadTopic
    <3>3. CASE RunEnd BY <3>3 DEF RunEnd, Q!Finish
    <3> QED BY <2>4, <3>1, <3>2, <3>3 DEF Worker, SelectPending, SelectPeriodic
  <2>5. ASSUME NEW t \in Topics, Publish(t) \/ Publisher(t) PROVE QueueLife'
    <3>1. ASSUME NEW o \in Id, OnTopicUpdate(t, o) PROVE QueueLife'
      BY <3>1 DEF OnTopicUpdate, Q!Request
    <3> QED BY <2>b, <2>5, <3>1 DEF Publish, Publisher, PublishNotify
  <2>6. CASE UNCHANGED lifeVars BY <2>b, <2>6 DEF lifeVars
  <2> QED BY <2>1, <2>2, <2>3, <2>4, <2>5, <2>6, WorkSteps
<1> QED BY <1>t, <1>q DEF IInv, TypeOK

\* A callback is unregistered when no publisher is about to call it, and none is
\* left when StopAndWait begins.
LEMMA TopicStep == IInv /\ [Next]_lifeVars => TopicLife'
<1> SUFFICES ASSUME IInv, [Next]_lifeVars PROVE TopicLife' OBVIOUS
<1>t. CASE kind = "task"
  <2>1. kind' = "task" /\ TaskLife' /\ TypeOK' BY <1>t, SameKind, TaskStep, TypeStep
  <2> QED BY <2>1 DEF TypeOK, TaskLife, TopicLife
<1>q. CASE kind = "queue"
  <2>a. kind = "queue" /\ TypeOK /\ Exclusive /\ WorkLife /\ TopicLife
    BY <1>q DEF IInv
  <2>c. \A p \in callbacks : p = <<p[1], p[2]>> /\ p[1] \in Topics /\ p[2] \in Id
    BY <2>a DEF TypeOK
  <2> USE DEF TypeOK, Exclusive, WorkLife, TopicLife, Goto, Hold, Delete, moduleVars,
              clientVars, baseVars, workVars, topicVars, Locked, Building, Ending
  <2> USE <2>a
  <2>1. ASSUME NEW c \in Client, UNCHANGED <<taskVars, workVars, topicVars>>,
               StartCommand(c) \/ StopCommand(c) \/ UseBegin(c) \/ UseEnd(c)
        PROVE  TopicLife'
    BY <2>1 DEF StartCommand, StopCommand, UseBegin, UseEnd
  <2>2. ASSUME NEW c \in Client, SpawnWork(c) PROVE TopicLife'
    <3> USE <2>2
    <3>1. CASE CreateFails(c) BY <3>1 DEF CreateFails
    <3>2. CASE Create(c) BY <3>2 DEF Create, Subscribe
    <3>3. CASE RegisterNext(c) BY <2>c, <3>3 DEF RegisterNext, Register
    <3>4. CASE RegisterFails(c) BY <3>4 DEF RegisterFails
    <3>5. CASE Discard(c) BY <2>c, <3>5 DEF Discard
    <3>6. CASE Install(c) BY <3>6 DEF Install
    <3>7. CASE Activate(c) BY <3>7 DEF Activate
    <3>8. CASE Kick(c) BY <3>8 DEF Kick
    <3> QED BY <3>1, <3>2, <3>3, <3>4, <3>5, <3>6, <3>7, <3>8 DEF SpawnWork
  <2>3. ASSUME NEW c \in Client, StopWork(c) PROVE TopicLife'
    <3> USE <2>3
    <3>1. CASE UnregisterNext(c)
      BY <2>c, <3>1 DEF UnregisterNext, Unregister, CallbackMutexFree, Stopping
    <3>2. CASE DetachBegin(c) BY <3>2 DEF DetachBegin, Stopping, Registered
    <3>3. CASE DetachEnd(c) BY <3>3 DEF DetachEnd, Waiting
    <3>4. CASE DetachTimeout(c) BY <3>4 DEF DetachTimeout, Waiting
    <3>5. CASE DeleteObject(c) BY <2>c, <3>5 DEF DeleteObject
    <3>6. CASE Retain(c) BY <3>6 DEF Retain
    <3> QED BY <3>1, <3>2, <3>3, <3>4, <3>5, <3>6 DEF StopWork
  <2>b. ASSUME UNCHANGED <<baseVars, callbacks, publisher, todo>> PROVE TopicLife'
    BY <2>b
  <2>4. CASE Worker
    BY <2>b, <2>4 DEF Worker, SelectPending, SelectPeriodic, StartRun, ReadTopic, Update,
                      RunEnd
  <2>5. ASSUME NEW t \in Topics, Publish(t) \/ Publisher(t) PROVE TopicLife'
    <3>1. CASE Publish(t) BY <3>1 DEF Publish, Store, PublisherAt
    <3>2. CASE NotifyBegin(t) /\ UNCHANGED <<baseVars, workVars>>
      <4>1. \A o \in {p[2] : p \in {q \in callbacks : q[1] = t}} : <<t, o>> \in callbacks
        BY <2>c
      <4> QED BY <3>2, <4>1 DEF NotifyBegin, PublisherAt
    <3>3. CASE NotifyEnd(t) /\ UNCHANGED <<baseVars, workVars>>
      BY <3>3 DEF NotifyEnd, PublisherAt
    <3>4. ASSUME NEW o \in Id, OnTopicUpdate(t, o) PROVE TopicLife'
      BY <3>4 DEF OnTopicUpdate, Notify
    <3> QED BY <2>5, <3>1, <3>2, <3>3, <3>4 DEF Publisher, PublishNotify
  <2>6. CASE UNCHANGED lifeVars BY <2>b, <2>6 DEF lifeVars
  <2> QED BY <2>1, <2>2, <2>3, <2>4, <2>5, <2>6, WorkSteps
<1> QED BY <1>t, <1>q DEF IInv, TypeOK

-----------------------------------------------------------------------------
(* The theorems                                                            *)

\* No object exists at first, and nobody is inside a command.
LEMMA InitIInv == Init => IInv
<1> SUFFICES ASSUME Init PROVE IInv OBVIOUS
<1> USE DEF Init, BaseInit, TaskInit, WorkInit, Q!QueueInit, TopicInit
<1>1. TypeOK BY DEF TypeOK, Places
<1>2. Exclusive BY DEF Exclusive, Locked, Building
<1>3. TaskLife BY DEF TaskLife
<1>4. WorkLife BY DEF WorkLife, Building, Ending
<1>5. QueueLife /\ TopicLife BY DEF QueueLife, TopicLife, Building
<1> QED BY <1>1, <1>2, <1>3, <1>4, <1>5 DEF IInv

\* The inductive invariant holds in every reachable state.
THEOREM Invariance == Spec => []IInv
<1>1. IInv /\ [Next]_lifeVars => IInv'
  BY TypeStep, ExclusiveStep, TaskStep, WorkStep, QueueStep, TopicStep DEF IInv
<1> QED BY InitIInv, <1>1, PTL DEF Spec

\* Every variable stays in its type.
THEOREM TypeCorrect == Spec => []TypeOK
BY Invariance, PTL DEF IInv

\* No task, worker or command uses an object after its delete.
THEOREM UsesSafe == Spec => []UsesLive
<1>1. ASSUME IInv PROVE UsesLive
  <2> USE <1>1 DEF IInv, TypeOK
  <2>1. CASE kind = "task"
    BY <2>1 DEF UsesLive, TaskLife, Exclusive
  <2>2. CASE kind = "queue"
    BY <2>2 DEF UsesLive, WorkLife, QueueLife, Exclusive, Building, Ending
  <2> QED BY <2>1, <2>2
<1> QED BY <1>1, Invariance, PTL

\* No publisher calls back an object that is gone.
THEOREM CallbacksSafe == Spec => []CallbacksLive
<1>1. ASSUME IInv PROVE CallbacksLive
  <2>1. ASSUME NEW t \in Topics, NEW o \in todo[t] PROVE o \in alive
    <3>1. <<t, o>> \in callbacks BY <1>1, <2>1 DEF IInv, TopicLife
    <3> QED BY <1>1, <3>1 DEF IInv, TopicLife
  <2> QED BY <1>1, <2>1 DEF IInv, TopicLife, CallbacksLive
<1> QED BY <1>1, Invariance, PTL

\* A module exists once, whatever its clients do and however often a stop gives up.
THEOREM SoleSafe == Spec => []SoleInstance
<1>1. ASSUME IInv PROVE SoleInstance
  <2> USE <1>1 DEF IInv, TypeOK, Exclusive, Locked, Building
  <2>1. CASE kind = "task"
    <3>1. ASSUME NEW i \in Id, NEW j \in Id, task[i] # "none", task[j] # "none"
          PROVE  i = j
      BY <2>1, <3>1 DEF TaskLife
    <3>2. ASSUME NEW o \in alive \ lost, NEW p \in alive \ lost PROVE o = p
      BY <2>1, <3>1, <3>2 DEF TaskLife
    <3> QED BY <3>1, <3>2 DEF SoleInstance
  <2>2. CASE kind = "queue"
    <3>1. ASSUME NEW o \in alive, NEW p \in alive PROVE o = p
      BY <2>2, <3>1 DEF WorkLife
    <3> QED BY <2>2, <3>1 DEF WorkLife, SoleInstance
  <2> QED BY <2>1, <2>2
<1> QED BY <1>1, Invariance, PTL
=============================================================================
