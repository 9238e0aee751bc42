----------------------------- MODULE WorkQueue -----------------------------
(***************************************************************************)
(* One work queue (robot/work_queue/WorkQueue.cpp): a worker that runs the *)
(* attached items when they are due, the owners that attach, activate and  *)
(* detach them, the callbacks that schedule them, and the shutdown.        *)
(*                                                                         *)
(* Every operation runs under _mutex and is one action; what happens       *)
(* without it is separate: Run() between Select and RunEnd, Attach between *)
(* its Start() and its own lock, and every wait on the condition variable. *)
(* A waiting process is in asleep until a broadcast (or a spurious wakeup, *)
(* or its timer) takes it out; then it looks at the state again.           *)
(*                                                                         *)
(* Times are relative to now: deadline, periodic and earliest are counted  *)
(* down by Tick and saturate at -MaxLate.  Infinite stands for a deadline  *)
(* that is not pending and for a period of zero.                           *)
(***************************************************************************)
EXTENDS Integers

CONSTANTS Item,
          Interval,   \* Interval[i]: _minimumInterval of item i
          Period,     \* periods ScheduleOnInterval is called with, but 0
          Delay,      \* delays ScheduleDelayed is called with
          Timeout,    \* of Detach, in ticks
          MaxLate,    \* lateness past which deadlines are not told apart
          Infinite,   \* a time that never comes
          Nobody      \* no item

ASSUME QueueAssumption ==
  /\ Nobody \notin Item
  /\ Infinite \in Nat /\ \A i \in Item : Interval[i] < Infinite
  /\ \A d \in Delay : d < Infinite
  /\ Interval \in [Item -> Nat \ {0}]
  /\ Period \subseteq Nat \ {0} /\ \A p \in Period : p < Infinite
  /\ Delay \subseteq Nat /\ Timeout \in Nat /\ MaxLate \in Nat

VARIABLES
  attached,   \* the items in the list _items
  before,     \* <<i, j>>: i precedes j in the list
  enabled, stopping,
  deadline,   \* _deadline, or Infinite when ~_pending
  period,     \* _period, with Infinite for 0
  periodic,   \* _nextPeriodic, or Infinite when _period = 0
  earliest,   \* _lastStart + _minimumInterval
  running,    \* the item whose _running is set
  started, exit,
  worker,     \* "none", "loop", "run" or "exited"
  owner,      \* the owner of each item: "idle", "attach" or "detach"
  timer,      \* ticks left to the owner's Detach
  shutter,    \* a Shutdown under way: "idle" or "wait"
  asleep,     \* processes waiting on _condition
  alarm       \* nextWake of the worker's timed wait

itemVars == <<attached, before, enabled, stopping, deadline, period,
              periodic, earliest>>
workerVars == <<running, worker, alarm>>
queueVars == <<started, exit>>
ownerVars == <<owner, timer>>
vars == <<itemVars, workerVars, queueVars, ownerVars, shutter, asleep>>

Never == -MaxLate

Earlier(s, t) == IF s < t THEN s ELSE t
Later(s, t) == IF s < t THEN t ELSE s

Processes == Item \cup {"worker", "shutdown"}

Init ==
  /\ attached = {} /\ before = {}
  /\ enabled = [i \in Item |-> FALSE] /\ stopping = [i \in Item |-> FALSE]
  /\ deadline = [i \in Item |-> Infinite] /\ period = [i \in Item |-> Infinite]
  /\ periodic = [i \in Item |-> Infinite]
  /\ earliest = [i \in Item |-> Never]
  /\ running = Nobody /\ started = FALSE /\ exit = FALSE /\ worker = "none"
  /\ owner = [i \in Item |-> "idle"] /\ timer = [i \in Item |-> 0]
  /\ shutter = "idle" /\ asleep = {} /\ alarm = Infinite

Broadcast == asleep' = {}

\* The list: insertion at the tail, removal.
Insert(i) == /\ attached' = attached \cup {i}
             /\ before' = before \cup (attached \X {i})
Unlink(i) == /\ attached' = attached \ {i}
             /\ before' = {p \in before : p[1] # i /\ p[2] # i}

-----------------------------------------------------------------------------
(* Owners: Attach, SetInterval, Detach                                     *)

SetPeriod(i, p) == /\ period' = [period EXCEPT ![i] = p]
                   /\ periodic' = [periodic EXCEPT ![i] = p]
NoPeriod(i) == SetPeriod(i, Infinite)

StartWorker ==
  /\ started' = TRUE
  /\ IF started THEN UNCHANGED <<exit, worker>>
                ELSE exit' = FALSE /\ worker' = "loop"

\* WorkQueueManager::Initialize.
Start ==
  /\ StartWorker
  /\ UNCHANGED <<itemVars, running, alarm, ownerVars, shutter, asleep>>

\* Attach calls Start() first, which takes and releases the mutex; spawning
\* the worker may fail.
AttachBegin(i) ==
  /\ owner[i] = "idle" /\ i \notin attached
  /\ owner' = [owner EXCEPT ![i] = "attach"]
  /\ StartWorker
  /\ UNCHANGED <<itemVars, running, alarm, timer, shutter, asleep>>

\* The queue may have been shut down since, and then _exit is still set.
AttachEnd_Unchecked(i) ==
  /\ owner[i] = "attach" /\ owner' = [owner EXCEPT ![i] = "idle"]
  /\ Insert(i)
  /\ enabled' = [enabled EXCEPT ![i] = FALSE]
  /\ stopping' = [stopping EXCEPT ![i] = FALSE]
  /\ deadline' = [deadline EXCEPT ![i] = Infinite]
  /\ NoPeriod(i)
  /\ earliest' = [earliest EXCEPT ![i] = Never]
  /\ UNCHANGED <<workerVars, queueVars, timer, shutter, asleep>>
AttachEnd(i) ==
  /\ owner[i] = "attach" /\ owner' = [owner EXCEPT ![i] = "idle"]
  /\ IF exit THEN UNCHANGED itemVars
     ELSE /\ Insert(i)
          /\ enabled' = [enabled EXCEPT ![i] = FALSE]
          /\ stopping' = [stopping EXCEPT ![i] = FALSE]
          /\ deadline' = [deadline EXCEPT ![i] = Infinite]
          /\ NoPeriod(i)
          /\ earliest' = [earliest EXCEPT ![i] = Never]
  /\ UNCHANGED <<workerVars, queueVars, timer, shutter, asleep>>

\* Activation; refused once a stop was requested.
SetInterval_WhileStopping(i) ==
  /\ i \in attached
  /\ enabled' = [enabled EXCEPT ![i] = TRUE]
  /\ \E p \in Period \cup {Infinite} : SetPeriod(i, p)
  /\ Broadcast
  /\ UNCHANGED <<attached, before, stopping, deadline, earliest, workerVars, queueVars,
                 ownerVars, shutter>>
SetInterval(i) ==
  /\ i \in attached /\ ~stopping[i]
  /\ enabled' = [enabled EXCEPT ![i] = TRUE]
  /\ \E p \in Period \cup {Infinite} : SetPeriod(i, p)
  /\ Broadcast
  /\ UNCHANGED <<attached, before, stopping, deadline, earliest, workerVars, queueVars,
                 ownerVars, shutter>>

\* Detach up to its wait loop.  (From the worker itself it returns false and
\* changes nothing.)
DetachBegin(i) ==
  /\ owner[i] = "idle" /\ i \in attached
  /\ owner' = [owner EXCEPT ![i] = "detach"]
  /\ timer' = [timer EXCEPT ![i] = Timeout]
  /\ enabled' = [enabled EXCEPT ![i] = FALSE]
  /\ stopping' = [stopping EXCEPT ![i] = TRUE]
  /\ deadline' = [deadline EXCEPT ![i] = Infinite]
  /\ NoPeriod(i)
  /\ Broadcast
  /\ UNCHANGED <<attached, before, earliest, workerVars, queueVars, shutter>>

\* One turn of the wait loop: the item is still running, and there is time.
DetachWait_NoDeadline(i) ==
  /\ owner[i] = "detach" /\ i \notin asleep
  /\ running = i
  /\ asleep' = asleep \cup {i}
  /\ UNCHANGED <<itemVars, workerVars, queueVars, ownerVars, shutter>>
DetachWait(i) ==
  /\ owner[i] = "detach" /\ i \notin asleep
  /\ running = i /\ timer[i] > 0
  /\ asleep' = asleep \cup {i}
  /\ UNCHANGED <<itemVars, workerVars, queueVars, ownerVars, shutter>>

\* Detach returns false: the item stays attached, disabled and stopping.
DetachTimeout_Unlinks(i) ==
  /\ owner[i] = "detach" /\ i \notin asleep
  /\ running = i /\ timer[i] = 0
  /\ owner' = [owner EXCEPT ![i] = "idle"] /\ Unlink(i)
  /\ UNCHANGED <<enabled, stopping, deadline, period, periodic,
                 earliest, workerVars,
                 queueVars, timer, shutter, asleep>>
DetachTimeout(i) ==
  /\ owner[i] = "detach" /\ i \notin asleep
  /\ running = i /\ timer[i] = 0
  /\ owner' = [owner EXCEPT ![i] = "idle"]
  /\ UNCHANGED <<itemVars, workerVars, queueVars, timer, shutter, asleep>>

\* Detach returns true: from here on the owner may delete the item.
DetachEnd(i) ==
  /\ owner[i] = "detach" /\ i \notin asleep /\ running # i
  /\ owner' = [owner EXCEPT ![i] = "idle"] /\ timer' = [timer EXCEPT ![i] = 0]
  /\ Unlink(i)
  /\ UNCHANGED <<enabled, stopping, deadline, period, periodic,
                 earliest, workerVars,
                 queueVars, shutter, asleep>>

-----------------------------------------------------------------------------
(* Callbacks and other tasks: Schedule, Clear                              *)

\* Requests coalesce into the earlier deadline, never sooner than the minimum
\* interval allows.
Schedule_NoWake(i) ==
  /\ enabled[i]
  /\ \E d \in Delay :
       deadline' = [deadline EXCEPT ![i] = Earlier(@, Later(d, earliest[i]))]
  /\ UNCHANGED <<attached, before, enabled, stopping, period, periodic, earliest, workerVars,
                 queueVars, ownerVars, shutter, asleep>>
Schedule(i) ==
  /\ enabled[i]
  /\ \E d \in Delay :
       deadline' = [deadline EXCEPT ![i] = Earlier(@, Later(d, earliest[i]))]
  /\ Broadcast
  /\ UNCHANGED <<attached, before, enabled, stopping, period, periodic, earliest, workerVars,
                 queueVars, ownerVars, shutter>>

Clear(i) ==
  /\ i \in attached
  /\ deadline' = [deadline EXCEPT ![i] = Infinite]
  /\ NoPeriod(i)
  /\ Broadcast
  /\ UNCHANGED <<attached, before, enabled, stopping, earliest, workerVars, queueVars,
                 ownerVars, shutter>>

-----------------------------------------------------------------------------
(* The worker                                                              *)

\* When item i is due, relative to now.
Due_NoRateLimit(i) == Earlier(deadline[i], periodic[i])
Due(i) == IF deadline[i] = Infinite /\ periodic[i] = Infinite THEN Infinite
          ELSE Later(Earlier(deadline[i], periodic[i]), earliest[i])

Candidates == {i \in attached : enabled[i] /\ Due(i) < Infinite}

First_AttachOrder(i) ==
  /\ i \in Candidates /\ Due(i) <= 0
  /\ \A j \in Candidates \ {i} : Due(j) <= 0 => <<i, j>> \in before
\* The earliest of the due items; attach order breaks ties.
First(i) == /\ i \in Candidates /\ Due(i) <= 0
            /\ \A j \in Candidates \ {i} :
                 \/ Due(i) < Due(j)
                 \/ Due(i) = Due(j) /\ <<i, j>> \in before

AtLoop == worker = "loop" /\ "worker" \notin asleep

Select ==
  /\ AtLoop /\ ~exit
  /\ \E i \in attached :
       /\ First(i)
       /\ running' = i
       /\ deadline' = [deadline EXCEPT ![i] = Infinite]
       /\ earliest' = [earliest EXCEPT ![i] = Interval[i]]
       /\ periodic' = [periodic EXCEPT ![i] = period[i]]
  /\ worker' = "run"
  /\ UNCHANGED <<attached, before, enabled, stopping, period, alarm, queueVars, ownerVars,
                 shutter, asleep>>

\* Nothing is due: wait for a change, or for the next deadline.
Sleep ==
  /\ AtLoop /\ ~exit
  /\ \A i \in Candidates : Due(i) > 0
  /\ \E t \in {Infinite} \cup {Due(i) : i \in Candidates} :
       /\ \A i \in Candidates : t <= Due(i)
       /\ alarm' = t
  /\ asleep' = asleep \cup {"worker"}
  /\ UNCHANGED <<itemVars, running, worker, queueVars, ownerVars, shutter>>

RunEnd ==
  /\ worker = "run" /\ worker' = "loop" /\ running' = Nobody
  /\ Broadcast
  /\ UNCHANGED <<itemVars, alarm, queueVars, ownerVars, shutter>>

WorkerExit_Silent ==
  /\ AtLoop /\ exit /\ worker' = "exited"
  /\ UNCHANGED <<itemVars, running, alarm, queueVars, ownerVars, shutter, asleep>>
WorkerExit ==
  /\ AtLoop /\ exit /\ worker' = "exited"
  /\ Broadcast
  /\ UNCHANGED <<itemVars, running, alarm, queueVars, ownerVars, shutter>>

-----------------------------------------------------------------------------
(* Shutdown, time, wakeups                                                 *)

\* Refused while an item is attached; a second caller is not modelled.
ShutdownBegin ==
  /\ shutter = "idle" /\ attached = {} /\ started
  /\ exit' = TRUE /\ shutter' = "wait" /\ Broadcast
  /\ UNCHANGED <<itemVars, workerVars, started, ownerVars>>

ShutdownWait ==
  /\ shutter = "wait" /\ "shutdown" \notin asleep /\ worker # "exited"
  /\ asleep' = asleep \cup {"shutdown"}
  /\ UNCHANGED <<itemVars, workerVars, queueVars, ownerVars, shutter>>

ShutdownEnd ==
  /\ shutter = "wait" /\ "shutdown" \notin asleep /\ worker = "exited"
  /\ shutter' = "idle" /\ started' = FALSE
  /\ UNCHANGED <<itemVars, workerVars, exit, ownerVars, asleep>>

Sooner(t) == IF t = Infinite THEN Infinite ELSE IF t > Never THEN t - 1 ELSE t

Tick ==
  /\ deadline' = [i \in Item |-> Sooner(deadline[i])]
  /\ periodic' = [i \in Item |-> Sooner(periodic[i])]
  /\ earliest' = [i \in Item |-> Sooner(earliest[i])]
  /\ alarm' = Sooner(alarm)
  /\ timer' = [i \in Item |-> IF timer[i] = 0 THEN 0 ELSE timer[i] - 1]
  /\ UNCHANGED <<attached, before, enabled, stopping, period, running, worker, queueVars, owner,
                 shutter, asleep>>

\* pthread_cond_timedwait ends at its deadline.
Alarm ==
  /\ \/ "worker" \in asleep /\ alarm <= 0 /\ asleep' = asleep \ {"worker"}
     \/ \E i \in Item : /\ i \in asleep /\ timer[i] = 0
                        /\ asleep' = asleep \ {i}
  /\ UNCHANGED <<itemVars, workerVars, queueVars, ownerVars, shutter>>

Spurious ==
  /\ \E p \in asleep : asleep' = asleep \ {p}
  /\ UNCHANGED <<itemVars, workerVars, queueVars, ownerVars, shutter>>

Owner(i) == \/ AttachBegin(i) \/ AttachEnd(i) \/ SetInterval(i)
            \/ DetachBegin(i) \/ DetachWait(i) \/ DetachTimeout(i) \/ DetachEnd(i)

Worker == Select \/ Sleep \/ RunEnd \/ WorkerExit

Shutdown == ShutdownBegin \/ ShutdownWait \/ ShutdownEnd

Next == \/ \E i \in Item : Owner(i) \/ Schedule(i) \/ Clear(i)
        \/ Start \/ Worker \/ Shutdown \/ Tick \/ Alarm \/ Spurious

Spec == Init /\ [][Next]_vars

-----------------------------------------------------------------------------
(* Fairness and time for the liveness properties                           *)

\* Owners use the queue as WorkQueueModuleBase does: activation once.
Activate(i) == ~enabled[i] /\ SetInterval(i)

UntimedNext == \/ \E i \in Item : \/ AttachBegin(i) \/ AttachEnd(i) \/ Activate(i)
                                  \/ DetachBegin(i) \/ DetachWait(i)
                                  \/ DetachTimeout(i) \/ DetachEnd(i)
                                  \/ Schedule(i) \/ Clear(i)
               \/ Start \/ Worker \/ Shutdown \/ Alarm \/ Spurious

\* A worker that can go on (or whose timer expired) does so before the next
\* tick: it is a real-time task.
PromptTick ==
  /\ ~AtLoop /\ ("worker" \in asleep => alarm > 0)
  /\ Tick

\* The worker and the owners are real-time threads that get the processor;
\* timers fire and time passes.  Nothing is assumed of Run(): it may hang.
Fairness ==
  /\ WF_vars(Select \/ Sleep \/ WorkerExit)
  /\ \A i \in Item : /\ WF_vars(AttachEnd(i)) /\ WF_vars(DetachWait(i))
                     /\ WF_vars(DetachTimeout(i)) /\ WF_vars(DetachEnd(i))
  /\ WF_vars(ShutdownWait) /\ WF_vars(ShutdownEnd)
  /\ WF_vars(Alarm) /\ SF_vars(PromptTick)

LifeSpec == Init /\ [][UntimedNext \/ PromptTick]_vars /\ Fairness

\* What the queue asks of its modules (WorkItem.hpp:8): a Run() ends, within
\* MaxRun ticks.  No lateness then reaches MaxLate = 2.
MaxRun == 1
ShortRuns == /\ [](running # Nobody => Interval[running] - earliest[running] <= MaxRun)
             /\ []<>(running = Nobody)

-----------------------------------------------------------------------------
(* Properties                                                              *)

Time == Never..Infinite

\* Every variable stays in its type.
TypeOK ==
  /\ attached \subseteq Item /\ before \subseteq attached \X attached
  /\ enabled \in [Item -> BOOLEAN] /\ stopping \in [Item -> BOOLEAN]
  /\ deadline \in [Item -> Time] /\ periodic \in [Item -> Time]
  /\ earliest \in [Item -> Time] /\ alarm \in Time
  /\ period \in [Item -> Period \cup {Infinite}]
  /\ running \in Item \cup {Nobody}
  /\ started \in BOOLEAN /\ exit \in BOOLEAN
  /\ worker \in {"none", "loop", "run", "exited"}
  /\ owner \in [Item -> {"idle", "attach", "detach"}]
  /\ timer \in [Item -> 0..Timeout]
  /\ shutter \in {"idle", "wait"} /\ asleep \subseteq Processes

\* The queue keeps what RunQueue promises to the modules, through its waits,
\* time-outs, deadlines and shutdowns: among others that an item is detached
\* only with no Run() in flight and enabled only while attached.
Q == INSTANCE RunQueue
       WITH enabled <- {i \in Item : enabled[i]},
            pending <- {i \in Item : deadline[i] # Infinite}

ImplementsRunQueue == Q!QueueSpec

\* Run() executes only on an attached item: once Detach returned true the
\* owner may delete the object (WorkItem.hpp:18).
RunningIsAttached == running # Nobody => running \in attached

\* An attached item always has a live worker, although Attach releases the
\* mutex between Start() and its own lock while Shutdown may run.
AttachedHasWorker ==
  attached # {} => started /\ ~exit /\ worker \in {"loop", "run"}

\* Once a stop was requested the item is never started again, whether Detach
\* succeeded, timed out or still waits, and whoever schedules or activates it.
NeverAfterStop ==
  [][\A i \in Item : Select /\ running' = i => ~stopping[i] /\ owner[i] # "detach"]_vars

\* Two starts of an item are its minimum interval apart, whatever mixture of
\* schedules and periods asked for them.
RateLimited ==
  [][\A i \in Item : Select /\ running' = i => earliest[i] <= 0]_vars

\* A request is never lost: an item scheduled while active is run, unless it
\* is stopped.
NoLostSchedule ==
  ShortRuns => \A i \in Item : (enabled[i] /\ deadline[i] # Infinite)
                                  ~> (~enabled[i] \/ deadline[i] = Infinite)

\* An active periodic item runs again and again: the other items of the queue
\* cannot starve it.
PeriodicRuns ==
  ShortRuns => \A i \in Item : <>[](enabled[i] /\ periodic[i] # Infinite)
                                  => []<>(running = i)

\* Detach returns, even if Run() never does.
DetachReturns == \A i \in Item : owner[i] = "detach" ~> owner[i] = "idle"

\* Shutdown returns once the worker saw _exit.
ShutdownReturns == shutter = "wait" ~> shutter = "idle"

-----------------------------------------------------------------------------
(* The inductive invariant behind the safety theorems (WorkQueue_proof)    *)

\* The life of the worker, seen from _started and _exit.
WorkerLife ==
  /\ worker = "run" <=> running # Nobody
  /\ started /\ ~exit => worker \in {"loop", "run"}
  /\ ~started => worker \in {"none", "exited"}
  /\ started /\ exit => shutter = "wait"
  /\ shutter = "wait" => started /\ exit
  /\ exit => attached = {}
  /\ attached # {} => started

\* What an owner knows while it is inside Attach or Detach.
OwnerLife ==
  \A i \in Item :
    /\ owner[i] = "attach" => i \notin attached
    /\ owner[i] = "attach" /\ ~exit => started
    /\ owner[i] = "detach" => i \in attached /\ stopping[i]
    /\ stopping[i] => ~enabled[i]

IInv == TypeOK /\ RunningIsAttached /\ WorkerLife /\ OwnerLife
=============================================================================
