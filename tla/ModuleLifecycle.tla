-------------------------- MODULE ModuleLifecycle --------------------------
(***************************************************************************)
(* The life of a module of either kind, seen from all who take part: the   *)
(* clients of NSH, the module's task, the worker of its queue, and the     *)
(* publishers of the topics it has callbacks on.                           *)
(***************************************************************************)
EXTENDS TaskModule, WorkModule

lifeVars == <<baseVars, taskVars, workVars, topicVars>>

Init == BaseInit /\ TaskInit /\ WorkInit /\ TopicInit

\* The steps of a client.
Step(c) ==
  \/ Command(c) /\ UNCHANGED <<taskVars, workVars, topicVars>>
  \/ (SpawnTask(c) \/ Terminate(c)) /\ UNCHANGED <<workVars, topicVars>>
  \/ (SpawnWork(c) \/ StopWork(c)) /\ UNCHANGED taskVars

\* Topics matter to the modules with callbacks only.
Message(t) == kind = "queue" /\ Publish(t) /\ UNCHANGED taskVars

Next == \/ \E c \in Client : Step(c)
        \/ \E i \in Id : Trampoline(i) /\ UNCHANGED <<workVars, topicVars>>
        \/ Worker /\ UNCHANGED taskVars
        \/ \E t \in Topics : Message(t) \/ (Publisher(t) /\ UNCHANGED taskVars)

Spec == Init /\ [][Next]_lifeVars

\* A command that was begun goes on and its mutexes are handed over in the end;
\* stop counts its 5 s.  Publishers go on, and the worker runs what is pending.
\* Nothing is assumed of instantiate(), run() and Run(), which may hang, and no
\* client has to begin a command.
Fairness ==
  /\ \A c \in Client :
       /\ SF_lifeVars(pc[c] # "idle" /\ Step(c))
       /\ SF_lifeVars(PollTimeout(c) /\ UNCHANGED <<taskVars, workVars, topicVars>>)
  /\ \A t \in Topics : WF_lifeVars(Publisher(t) /\ UNCHANGED taskVars)
  /\ WF_lifeVars(SelectPending /\ UNCHANGED taskVars)

FairSpec == Spec /\ Fairness

-----------------------------------------------------------------------------
(* Properties                                                              *)

\* No object is used after its delete: not by the task or the worker that runs
\* it, nor through _object by a command that holds the mutex, nor by the stop that
\* waits for it.
UsesLive ==
  /\ \A i \in Id : task[i] = "run" => i \in alive
  /\ running \in alive \cup {Null} /\ attached \subseteq alive
  /\ object \in alive \cup {Null}
  /\ \A c \in Client : /\ pc[c] = "use" => object # Null
                       /\ pc[c] \in {"wait", "undoWait", "delete"} => held[c] \in alive

\* No publisher calls back an object that is gone: unregisterCallback waits for
\* the notification in flight (uORB.hpp:55), whether the module is stopped or its
\* start failed half-way.
CallbacksLive ==
  /\ \A t \in Topics : todo[t] \subseteq alive
  /\ \A p \in callbacks : p[2] \in alive

\* A module never exists twice, whatever starts and stops overlap, time out or
\* are refused: two can_output tasks would drive one bus.
SoleInstance ==
  /\ \A i, j \in Id : task[i] # "none" /\ task[j] # "none" => i = j
  /\ \A o, p \in alive \ lost : o = p

\* Every command returns, although start polls under the mutex, stop releases
\* and takes it again and waits for publishers, and run(), Run() and
\* instantiate() may never return.
CommandsReturn == \A c \in Client : pc[c] # "idle" ~> pc[c] = "idle"

\* A message published while a module is active is read by a Run(), without the
\* help of the period, if Run()s end: neither one that came before the activation
\* nor one that came during a Run() is lost.
NoLostMessage ==
  []<>(running = Null) =>
    \A t \in Topics, o \in Id :
      <<t, o>> \in unread /\ <<t, o>> \in callbacks /\ o \in enabled
        ~> <<t, o>> \notin unread \/ o \notin enabled

-----------------------------------------------------------------------------
(* The inductive invariant behind the safety theorems                      *)
(* (ModuleLifecycle_proof)                                                 *)

\* Where a client is: with the lifecycle mutex, which building a work queue module
\* is part of; stopping such a module; stopping a task; or outside.
Building == {"init", "undo", "undoWait", "discard"}
Locked == {"spawn", "spawned", "starting", "use", "activate", "kick"} \cup Building
Ending == {"detach", "wait", "delete", "retain"}
Places == {"idle", "poll", "request", "done", "giveup", "terminate"} \cup Locked \cup Ending

\* Every variable stays in its type.
TypeOK ==
  /\ kind \in {"task", "queue"} /\ object \in Id \cup {Null}
  /\ taskId \in Id \cup {NotRunning, WorkQueueTaskId}
  /\ stopInProgress \in BOOLEAN /\ mutex \in Client \cup {Null}
  /\ pc \in [Client -> Places] /\ held \in [Client -> Id \cup {Null}]
  /\ alive \subseteq Id /\ exitFlag \subseteq Id
  /\ task \in [Id -> {"none", "instantiate", "created", "run", "cleanup"}]
  /\ lost \subseteq Id
  /\ attached \subseteq Id /\ enabled \subseteq Id /\ pending \subseteq Id
  /\ running \in Id \cup {Null} /\ reads \subseteq Topics
  /\ advertised \subseteq Topics /\ unread \subseteq Topics \X Id
  /\ callbacks \subseteq Topics \X Id
  /\ publisher \in [Topics -> {"idle", "stored", "notify"}]
  /\ todo \in [Topics -> SUBSET Id]

\* One client at a time holds it, and who uses the object has one.
Exclusive == \A c \in Client : /\ pc[c] \in Locked <=> mutex = c
                               /\ pc[c] = "use" => object # Null

\* A module with a task: there is one task, known by _taskId or to the client
\* that has just created it, and one object, that of the task; what a termination
\* left behind apart.
TaskLife ==
  kind = "task" =>
    /\ attached = {} /\ enabled = {} /\ pending = {} /\ running = Null
    /\ callbacks = {} /\ \A t \in Topics : todo[t] = {}
    /\ taskId \in Id \cup {NotRunning}
    /\ taskId \in Id => task[taskId] # "none"
    /\ \A c \in Client :
         /\ pc[c] \in {"idle", "spawn", "spawned", "starting", "use", "poll",
                       "request", "done", "giveup", "terminate"}
         /\ pc[c] \in {"spawn", "spawned"} => taskId = NotRunning
         /\ pc[c] = "spawned" => held[c] \in Id /\ task[held[c]] # "none"
    /\ \A i \in Id : task[i] # "none" =>
         i = taskId \/ \E c \in Client : pc[c] = "spawned" /\ held[c] = i
    /\ \A i \in Id : task[i] \in {"instantiate", "created"} => object = Null
    /\ \A i \in Id : task[i] = "created" => i \in alive
    /\ \A i \in Id : task[i] = "run" => object = i
    /\ object # Null => object \in alive /\ task[object] \in {"run", "cleanup"}
    /\ \A o \in alive \ lost : task[o] = "created" \/ object = o
    /\ lost \subseteq alive /\ \A i \in lost : task[i] = "none"

\* A module on a work queue: the only object is the one in _object, or that of
\* the client that builds it.
WorkLife ==
  kind = "queue" =>
    /\ lost = {} /\ \A i \in Id : task[i] = "none"
    /\ object = Null => taskId = NotRunning
    /\ object # Null => taskId = WorkQueueTaskId /\ object \in alive
    /\ \A o \in alive :
         o = object \/ \E c \in Client : pc[c] \in Building /\ held[c] = o
    /\ \A c \in Client :
         /\ pc[c] \in {"idle", "spawn", "use", "activate", "kick"} \cup Building \cup Ending
         /\ pc[c] \in {"spawn"} \cup Building => object = Null
         /\ pc[c] \in Building => held[c] \in alive
         /\ pc[c] \in {"activate", "kick"} => held[c] = object /\ object # Null
         /\ pc[c] \in Ending => stopInProgress /\ held[c] = object /\ object # Null
    /\ \A c, d \in Client : pc[c] \in Ending /\ pc[d] \in Ending => c = d

\* The queue knows objects that exist; one that is not installed never ran.
QueueLife ==
  /\ attached \subseteq alive /\ enabled \subseteq attached /\ pending \subseteq enabled
  /\ running # Null => running \in attached
  /\ \A c \in Client :
       /\ pc[c] \in Building => held[c] \notin enabled /\ held[c] # running
       /\ pc[c] \in {"discard", "delete"} => held[c] \notin attached

\* So do the topics, up to the moment StopAndWait begins.
TopicLife ==
  /\ \A p \in callbacks : p[2] \in alive
  /\ \A t \in Topics : /\ \A o \in todo[t] : <<t, o>> \in callbacks
                       /\ publisher[t] # "notify" => todo[t] = {}
  /\ \A c \in Client : pc[c] \in {"undoWait", "discard", "wait", "delete", "retain"}
       => \A t \in Topics : <<t, held[c]>> \notin callbacks

IInv == TypeOK /\ Exclusive /\ TaskLife /\ WorkLife /\ QueueLife /\ TopicLife
=============================================================================
