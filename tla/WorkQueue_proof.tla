-------------------------- MODULE WorkQueue_proof --------------------------
(* Theorems of WorkQueue, for every set of items and all intervals, delays  *)
(* and timeouts.                                                            *)
EXTENDS WorkQueue, TLAPS

USE QueueAssumption

\* The constants of time lie in the range of times.
LEMMA TimeFacts ==
  /\ Infinite \in Time /\ Never \in Time /\ 0 \in Time
  /\ \A i \in Item : Interval[i] \in Time
  /\ \A p \in Period : p \in Time
  /\ \A d \in Delay : d \in Time
BY DEF Time, Never

\* The earlier and the later of two times are times.
LEMMA EarlierLater ==
  ASSUME NEW s \in Time, NEW t \in Time
  PROVE  Earlier(s, t) \in Time /\ Later(s, t) \in Time
BY DEF Time, Never, Earlier, Later

\* A time that comes nearer stays a time.
LEMMA SoonerType == ASSUME NEW t \in Time PROVE Sooner(t) \in Time
BY DEF Time, Never, Sooner

\* No step takes a variable out of its type.
LEMMA TypeStep == TypeOK /\ [Next]_vars => TypeOK'
<1> SUFFICES ASSUME TypeOK, [Next]_vars PROVE TypeOK' OBVIOUS
<1> USE DEF TypeOK, itemVars, workerVars, queueVars, ownerVars, Processes,
            StartWorker, Insert, Unlink, NoPeriod, SetPeriod, Broadcast
<1> USE TimeFacts
<1>1. ASSUME NEW i \in Item, AttachBegin(i) PROVE TypeOK'
  <2>1. worker' \in {"none", "loop", "run", "exited"} /\ exit' \in BOOLEAN
        /\ started' \in BOOLEAN
    BY <1>1 DEF AttachBegin
  <2> QED BY <1>1, <2>1 DEF AttachBegin
<1>2. ASSUME NEW i \in Item, AttachEnd(i) PROVE TypeOK'
  <2>1. attached' \subseteq Item /\ before' \subseteq attached' \X attached'
    BY <1>2 DEF AttachEnd
  <2>2. enabled' \in [Item -> BOOLEAN] /\ stopping' \in [Item -> BOOLEAN]
    BY <1>2 DEF AttachEnd
  <2>3. deadline' \in [Item -> Time] /\ periodic' \in [Item -> Time]
        /\ earliest' \in [Item -> Time]
    BY <1>2 DEF AttachEnd
  <2>4. period' \in [Item -> Period \cup {Infinite}]
    BY <1>2 DEF AttachEnd
  <2> QED BY <1>2, <2>1, <2>2, <2>3, <2>4 DEF AttachEnd
<1>3. ASSUME NEW i \in Item, SetInterval(i) PROVE TypeOK'
  BY <1>3 DEF SetInterval
<1>4. ASSUME NEW i \in Item, DetachBegin(i) PROVE TypeOK'
  BY <1>4 DEF DetachBegin
<1>5. ASSUME NEW i \in Item, DetachWait(i) PROVE TypeOK'
  BY <1>5 DEF DetachWait
<1>6. ASSUME NEW i \in Item, DetachTimeout(i) PROVE TypeOK'
  BY <1>6 DEF DetachTimeout
<1>7. ASSUME NEW i \in Item, DetachEnd(i) PROVE TypeOK'
  BY <1>7 DEF DetachEnd
<1>8. ASSUME NEW i \in Item, Schedule(i) PROVE TypeOK'
  <2>1. ASSUME NEW d \in Delay
        PROVE  Earlier(deadline[i], Later(d, earliest[i])) \in Time
    BY EarlierLater
  <2>2. PICK d \in Delay :
          deadline' = [deadline EXCEPT
                         ![i] = Earlier(deadline[i], Later(d, earliest[i]))]
    BY <1>8 DEF Schedule
  <2>3. deadline' \in [Item -> Time] BY <2>1, <2>2
  <2> QED BY <1>8, <2>3 DEF Schedule
<1>9. ASSUME NEW i \in Item, Clear(i) PROVE TypeOK'
  BY <1>9 DEF Clear
<1>10. CASE Start
  <2>1. worker' \in {"none", "loop", "run", "exited"} /\ exit' \in BOOLEAN
        /\ started' \in BOOLEAN
    BY <1>10 DEF Start
  <2> QED BY <1>10, <2>1 DEF Start
<1>11. CASE Select
  <2>1. PICK i \in attached :
          /\ running' = i
          /\ deadline' = [deadline EXCEPT ![i] = Infinite]
          /\ earliest' = [earliest EXCEPT ![i] = Interval[i]]
          /\ periodic' = [periodic EXCEPT ![i] = period[i]]
    BY <1>11 DEF Select
  <2>2. i \in Item /\ Interval[i] \in Time /\ period[i] \in Time OBVIOUS
  <2>3. deadline' \in [Item -> Time] /\ earliest' \in [Item -> Time]
        /\ periodic' \in [Item -> Time]
    BY <2>1, <2>2
  <2> QED BY <1>11, <2>1, <2>2, <2>3 DEF Select
<1>12. CASE Sleep
  <2>1. ASSUME NEW i \in Item PROVE Due(i) \in Time BY EarlierLater DEF Due
  <2>2. alarm' \in Time BY <1>12, <2>1 DEF Sleep, Candidates
  <2> QED BY <1>12, <2>2 DEF Sleep
<1>13. CASE RunEnd BY <1>13 DEF RunEnd
<1>14. CASE WorkerExit BY <1>14 DEF WorkerExit
<1>15. CASE Shutdown
  BY <1>15 DEF Shutdown, ShutdownBegin, ShutdownWait, ShutdownEnd
<1>16. CASE Tick
  <2>1. /\ deadline' \in [Item -> Time] /\ periodic' \in [Item -> Time]
        /\ earliest' \in [Item -> Time] /\ alarm' \in Time
    BY <1>16, SoonerType DEF Tick
  <2>2. timer' \in [Item -> 0..Timeout] BY <1>16 DEF Tick
  <2> QED BY <1>16, <2>1, <2>2 DEF Tick
<1>17. CASE Alarm BY <1>17 DEF Alarm
<1>18. CASE Spurious BY <1>18 DEF Spurious
<1>19. CASE UNCHANGED vars BY <1>19 DEF vars
<1> QED BY <1>1, <1>2, <1>3, <1>4, <1>5, <1>6, <1>7, <1>8, <1>9, <1>10, <1>11,
           <1>12, <1>13, <1>14, <1>15, <1>16, <1>17, <1>18, <1>19
        DEF Next, Owner, Worker

\* DetachEnd waits for the item it unlinks.
LEMMA RunStep == IInv /\ [Next]_vars => RunningIsAttached'
<1> SUFFICES ASSUME IInv, [Next]_vars PROVE RunningIsAttached' OBVIOUS
<1> USE DEF IInv, TypeOK, RunningIsAttached, WorkerLife, OwnerLife, itemVars, workerVars, queueVars, ownerVars,
            StartWorker, Insert, Unlink, NoPeriod, SetPeriod, Broadcast
<1>1. ASSUME NEW i \in Item, AttachBegin(i) PROVE RunningIsAttached' BY <1>1 DEF AttachBegin
<1>2. ASSUME NEW i \in Item, AttachEnd(i) PROVE RunningIsAttached' BY <1>2 DEF AttachEnd
<1>3. ASSUME NEW i \in Item, SetInterval(i) PROVE RunningIsAttached' BY <1>3 DEF SetInterval
<1>4. ASSUME NEW i \in Item, DetachBegin(i) PROVE RunningIsAttached' BY <1>4 DEF DetachBegin
<1>5. ASSUME NEW i \in Item, DetachWait(i) PROVE RunningIsAttached' BY <1>5 DEF DetachWait
<1>6. ASSUME NEW i \in Item, DetachTimeout(i) PROVE RunningIsAttached' BY <1>6 DEF DetachTimeout
<1>7. ASSUME NEW i \in Item, DetachEnd(i) PROVE RunningIsAttached' BY <1>7 DEF DetachEnd
<1>8. ASSUME NEW i \in Item, Schedule(i) PROVE RunningIsAttached' BY <1>8 DEF Schedule
<1>9. ASSUME NEW i \in Item, Clear(i) PROVE RunningIsAttached' BY <1>9 DEF Clear
<1>10. CASE Start BY <1>10 DEF Start
<1>11. CASE Select BY <1>11 DEF Select, First, Candidates
<1>12. CASE Sleep BY <1>12 DEF Sleep
<1>13. CASE RunEnd BY <1>13 DEF RunEnd
<1>14. CASE WorkerExit BY <1>14 DEF WorkerExit
<1>15. CASE ShutdownBegin BY <1>15 DEF ShutdownBegin
<1>16. CASE ShutdownWait BY <1>16 DEF ShutdownWait
<1>17. CASE ShutdownEnd BY <1>17 DEF ShutdownEnd
<1>18. CASE Tick BY <1>18 DEF Tick
<1>19. CASE Alarm BY <1>19 DEF Alarm
<1>20. CASE Spurious BY <1>20 DEF Spurious
<1>21. CASE UNCHANGED vars BY <1>21 DEF vars
<1> QED BY <1>1, <1>2, <1>3, <1>4, <1>5, <1>6, <1>7, <1>8, <1>9, <1>10,
           <1>11, <1>12, <1>13, <1>14, <1>15, <1>16, <1>17, <1>18, <1>19, <1>20, <1>21
        DEF Next, Owner, Worker, Shutdown

\* _exit is set with an empty list only, stays set until the next Start(), and
\* keeps Attach out.
LEMMA WorkerStep == IInv /\ [Next]_vars => WorkerLife'
<1> SUFFICES ASSUME IInv, [Next]_vars PROVE WorkerLife' OBVIOUS
<1> USE DEF IInv, TypeOK, RunningIsAttached, WorkerLife, OwnerLife, itemVars, workerVars, queueVars, ownerVars,
            StartWorker, Insert, Unlink, NoPeriod, SetPeriod, Broadcast
<1>1. ASSUME NEW i \in Item, AttachBegin(i) PROVE WorkerLife' BY <1>1 DEF AttachBegin
<1>2. ASSUME NEW i \in Item, AttachEnd(i) PROVE WorkerLife' BY <1>2 DEF AttachEnd
<1>3. ASSUME NEW i \in Item, SetInterval(i) PROVE WorkerLife' BY <1>3 DEF SetInterval
<1>4. ASSUME NEW i \in Item, DetachBegin(i) PROVE WorkerLife' BY <1>4 DEF DetachBegin
<1>5. ASSUME NEW i \in Item, DetachWait(i) PROVE WorkerLife' BY <1>5 DEF DetachWait
<1>6. ASSUME NEW i \in Item, DetachTimeout(i) PROVE WorkerLife' BY <1>6 DEF DetachTimeout
<1>7. ASSUME NEW i \in Item, DetachEnd(i) PROVE WorkerLife' BY <1>7 DEF DetachEnd
<1>8. ASSUME NEW i \in Item, Schedule(i) PROVE WorkerLife' BY <1>8 DEF Schedule
<1>9. ASSUME NEW i \in Item, Clear(i) PROVE WorkerLife' BY <1>9 DEF Clear
<1>10. CASE Start BY <1>10 DEF Start
<1>11. CASE Select BY <1>11 DEF Select, First, Candidates
<1>12. CASE Sleep BY <1>12 DEF Sleep
<1>13. CASE RunEnd BY <1>13 DEF RunEnd
<1>14. CASE WorkerExit BY <1>14 DEF WorkerExit
<1>15. CASE ShutdownBegin BY <1>15 DEF ShutdownBegin
<1>16. CASE ShutdownWait BY <1>16 DEF ShutdownWait
<1>17. CASE ShutdownEnd BY <1>17 DEF ShutdownEnd
<1>18. CASE Tick BY <1>18 DEF Tick
<1>19. CASE Alarm BY <1>19 DEF Alarm
<1>20. CASE Spurious BY <1>20 DEF Spurious
<1>21. CASE UNCHANGED vars BY <1>21 DEF vars
<1> QED BY <1>1, <1>2, <1>3, <1>4, <1>5, <1>6, <1>7, <1>8, <1>9, <1>10,
           <1>11, <1>12, <1>13, <1>14, <1>15, <1>16, <1>17, <1>18, <1>19, <1>20, <1>21
        DEF Next, Owner, Worker, Shutdown

\* A stop requested is undone by the next Attach only.
LEMMA OwnerStep == IInv /\ [Next]_vars => OwnerLife'
<1> SUFFICES ASSUME IInv, [Next]_vars PROVE OwnerLife' OBVIOUS
<1> USE DEF IInv, TypeOK, RunningIsAttached, WorkerLife, OwnerLife, itemVars, workerVars, queueVars, ownerVars,
            StartWorker, Insert, Unlink, NoPeriod, SetPeriod, Broadcast
<1>1. ASSUME NEW i \in Item, AttachBegin(i) PROVE OwnerLife' BY <1>1 DEF AttachBegin
<1>2. ASSUME NEW i \in Item, AttachEnd(i) PROVE OwnerLife' BY <1>2 DEF AttachEnd
<1>3. ASSUME NEW i \in Item, SetInterval(i) PROVE OwnerLife' BY <1>3 DEF SetInterval
<1>4. ASSUME NEW i \in Item, DetachBegin(i) PROVE OwnerLife' BY <1>4 DEF DetachBegin
<1>5. ASSUME NEW i \in Item, DetachWait(i) PROVE OwnerLife' BY <1>5 DEF DetachWait
<1>6. ASSUME NEW i \in Item, DetachTimeout(i) PROVE OwnerLife' BY <1>6 DEF DetachTimeout
<1>7. ASSUME NEW i \in Item, DetachEnd(i) PROVE OwnerLife' BY <1>7 DEF DetachEnd
<1>8. ASSUME NEW i \in Item, Schedule(i) PROVE OwnerLife' BY <1>8 DEF Schedule
<1>9. ASSUME NEW i \in Item, Clear(i) PROVE OwnerLife' BY <1>9 DEF Clear
<1>10. CASE Start BY <1>10 DEF Start
<1>11. CASE Select BY <1>11 DEF Select, First, Candidates
<1>12. CASE Sleep BY <1>12 DEF Sleep
<1>13. CASE RunEnd BY <1>13 DEF RunEnd
<1>14. CASE WorkerExit BY <1>14 DEF WorkerExit
<1>15. CASE ShutdownBegin BY <1>15 DEF ShutdownBegin
<1>16. CASE ShutdownWait BY <1>16 DEF ShutdownWait
<1>17. CASE ShutdownEnd BY <1>17 DEF ShutdownEnd
<1>18. CASE Tick BY <1>18 DEF Tick
<1>19. CASE Alarm BY <1>19 DEF Alarm
<1>20. CASE Spurious BY <1>20 DEF Spurious
<1>21. CASE UNCHANGED vars BY <1>21 DEF vars
<1> QED BY <1>1, <1>2, <1>3, <1>4, <1>5, <1>6, <1>7, <1>8, <1>9, <1>10,
           <1>11, <1>12, <1>13, <1>14, <1>15, <1>16, <1>17, <1>18, <1>19, <1>20, <1>21
        DEF Next, Owner, Worker, Shutdown

-----------------------------------------------------------------------------
(* The theorems                                                            *)

\* The queue starts empty, without a worker.
LEMMA InitIInv == Init => IInv
<1> SUFFICES ASSUME Init PROVE IInv OBVIOUS
<1>1. TypeOK
  <2>1. deadline \in [Item -> Time] /\ periodic \in [Item -> Time]
        /\ earliest \in [Item -> Time]
    BY TimeFacts DEF Init
  <2>2. alarm \in Time /\ timer \in [Item -> 0..Timeout]
    BY TimeFacts DEF Init
  <2>3. enabled \in [Item -> BOOLEAN] /\ stopping \in [Item -> BOOLEAN]
    BY DEF Init
  <2>4. period \in [Item -> Period \cup {Infinite}] BY DEF Init
  <2> QED BY <2>1, <2>2, <2>3, <2>4 DEF Init, TypeOK
<1>2. RunningIsAttached /\ WorkerLife /\ OwnerLife
  BY DEF Init, RunningIsAttached, WorkerLife, OwnerLife
<1> QED BY <1>1, <1>2 DEF IInv

\* The inductive invariant holds in every reachable state.
THEOREM Invariance == Spec => []IInv
<1>1. IInv /\ [Next]_vars => IInv'
  BY TypeStep, RunStep, WorkerStep, OwnerStep DEF IInv
<1> QED BY InitIInv, <1>1, PTL DEF Spec

\* Every variable stays in its type.
THEOREM TypeCorrect == Spec => []TypeOK
BY Invariance, PTL DEF IInv

\* Run() never executes on an item its owner may have deleted.
THEOREM RunSafe == Spec => []RunningIsAttached
BY Invariance, PTL DEF IInv

\* A module attached to a queue has a worker that will look at it.
THEOREM WorkerSafe == Spec => []AttachedHasWorker
<1>1. IInv => AttachedHasWorker
  BY DEF IInv, WorkerLife, AttachedHasWorker
<1> QED BY <1>1, Invariance, PTL

\* After a stop request, successful or timed out, Run() is not started again.
THEOREM StopSafe == Spec => NeverAfterStop
<1>1. ASSUME IInv, Select, NEW i \in Item, running' = i
      PROVE  ~stopping[i] /\ owner[i] # "detach"
  <2>1. enabled[i] BY <1>1 DEF Select, First, Candidates
  <2> QED BY <1>1, <2>1 DEF IInv, OwnerLife
<1>2. IInv /\ [Next]_vars =>
        [\A i \in Item : Select /\ running' = i
           => ~stopping[i] /\ owner[i] # "detach"]_vars
  BY <1>1
<1> QED BY <1>2, Invariance, PTL DEF Spec, NeverAfterStop

\* Whatever mixture of schedules and periods asks for it, an item is not started
\* before its minimum interval is over.
THEOREM RateSafe == Spec => RateLimited
<1>1. ASSUME IInv, Select, NEW i \in Item, running' = i PROVE earliest[i] <= 0
  <2>1. First(i) /\ i \in Candidates BY <1>1 DEF Select, First
  <2>2. Due(i) <= 0 /\ Due(i) < Infinite BY <2>1 DEF First, Candidates
  <2>3. deadline[i] \in Time /\ periodic[i] \in Time /\ earliest[i] \in Time
    BY <1>1 DEF IInv, TypeOK
  <2>4. Due(i) = Later(Earlier(deadline[i], periodic[i]), earliest[i])
    BY <2>2, <2>3, TimeFacts DEF Due, Time
  <2>5. Earlier(deadline[i], periodic[i]) \in Time BY <2>3, EarlierLater
  <2> QED BY <2>2, <2>3, <2>4, <2>5 DEF Later, Time, Never
<1>2. IInv /\ [Next]_vars =>
        [\A i \in Item : Select /\ running' = i => earliest[i] <= 0]_vars
  BY <1>1
<1> QED BY <1>2, Invariance, PTL DEF Spec, RateLimited

-----------------------------------------------------------------------------
(* The refinement of RunQueue                                              *)

\* What a change of one item's flag or deadline does to the abstract sets.
LEMMA EnabledSet ==
  ASSUME TypeOK, NEW i \in Item, NEW b \in BOOLEAN, enabled' = [enabled EXCEPT ![i] = b]
  PROVE  {j \in Item : enabled'[j]} =
           IF b THEN {j \in Item : enabled[j]} \cup {i}
                ELSE {j \in Item : enabled[j]} \ {i}
BY DEF TypeOK
LEMMA PendingSet ==
  ASSUME TypeOK, NEW i \in Item, NEW t, deadline' = [deadline EXCEPT ![i] = t]
  PROVE  {j \in Item : deadline'[j] # Infinite} =
           IF t # Infinite THEN {j \in Item : deadline[j] # Infinite} \cup {i}
                           ELSE {j \in Item : deadline[j] # Infinite} \ {i}
BY DEF TypeOK

QueueStep == [Q!QueueNext]_<<attached, {i \in Item : enabled[i]},
                             {i \in Item : deadline[i] # Infinite}, running>>

\* A step of the code is one of RunQueue, or none that a module notices.
LEMMA QueueSimulation == IInv /\ [Next]_vars => QueueStep
<1> SUFFICES ASSUME IInv, [Next]_vars PROVE QueueStep OBVIOUS
<1> USE DEF QueueStep, Q!QueueNext
<1>0. TypeOK /\ WorkerLife /\ OwnerLife BY DEF IInv
<1>1. ASSUME NEW i \in Item, AttachBegin(i) PROVE QueueStep
  BY <1>1 DEF AttachBegin, itemVars
<1>2. ASSUME NEW i \in Item, AttachEnd(i) PROVE QueueStep
  <2>1. CASE exit BY <1>2, <2>1 DEF AttachEnd, workerVars, itemVars
  <2>2. CASE ~exit
    <3>1. Q!Attach(i)
      BY <1>0, <1>2, <2>2, EnabledSet, PendingSet
      DEF AttachEnd, Insert, workerVars, OwnerLife, Q!Attach
    <3> QED BY <3>1
  <2> QED BY <2>1, <2>2
<1>3. ASSUME NEW i \in Item, SetInterval(i) PROVE QueueStep
  <2>1. Q!Enable(i)
    BY <1>0, <1>3, EnabledSet DEF SetInterval, workerVars, Q!Enable
  <2> QED BY <2>1
<1>4. ASSUME NEW i \in Item, DetachBegin(i) PROVE QueueStep
  <2>1. Q!Disable(i)
    BY <1>0, <1>4, EnabledSet, PendingSet DEF DetachBegin, workerVars, Q!Disable
  <2> QED BY <2>1
<1>5. ASSUME NEW i \in Item, DetachWait(i) \/ DetachTimeout(i) PROVE QueueStep
  BY <1>5 DEF DetachWait, DetachTimeout, itemVars, workerVars
<1>6. ASSUME NEW i \in Item, DetachEnd(i) PROVE QueueStep
  <2>1. i \in attached /\ ~enabled[i] /\ running # i
    BY <1>0, <1>6 DEF DetachEnd, OwnerLife
  <2>2. Q!Detach(i) BY <1>6, <2>1 DEF DetachEnd, Unlink, workerVars, Q!Detach
  <2> QED BY <2>2
<1>7. ASSUME NEW i \in Item, Schedule(i) PROVE QueueStep
  <2>1. PICK t : deadline' = [deadline EXCEPT ![i] = t] BY <1>7 DEF Schedule
  <2>2. enabled[i] /\ UNCHANGED <<attached, enabled, running>>
    BY <1>7 DEF Schedule, workerVars
  <2>3. CASE t # Infinite
    <3>1. {j \in Item : deadline'[j] # Infinite}
            = {j \in Item : deadline[j] # Infinite} \cup {i}
      BY <1>0, <2>1, <2>3 DEF TypeOK
    <3>2. {i} \cap {j \in Item : enabled[j]} = {i} BY <2>2
    <3>3. Q!Request(i) BY <2>2, <3>1, <3>2 DEF Q!Request
    <3> QED BY <3>3
  <2>4. CASE t = Infinite
    <3>1. Q!Cancel(i) BY <1>0, <2>1, <2>2, <2>4, PendingSet DEF Q!Cancel
    <3> QED BY <3>1
  <2> QED BY <2>3, <2>4
<1>8. ASSUME NEW i \in Item, Clear(i) PROVE QueueStep
  <2>1. Q!Cancel(i) BY <1>0, <1>8, PendingSet DEF Clear, workerVars, Q!Cancel
  <2> QED BY <2>1
<1>9. CASE Select
  <2>1. PICK i \in attached : /\ First(i) /\ running' = i
                              /\ deadline' = [deadline EXCEPT ![i] = Infinite]
    BY <1>9 DEF Select
  <2>2. i \in Item /\ enabled[i] BY <1>0, <2>1 DEF First, Candidates, TypeOK
  <2>3. running = Nobody BY <1>0, <1>9 DEF Select, AtLoop, WorkerLife
  <2>4. Q!Start(i)
    BY <1>0, <1>9, <2>1, <2>2, <2>3, PendingSet DEF Select, Q!Start
  <2> QED BY <2>2, <2>4
<1>10. CASE RunEnd
  <2>1. Q!Finish BY <1>0, <1>10 DEF RunEnd, WorkerLife, itemVars, Q!Finish
  <2> QED BY <2>1
<1>11. CASE Tick
  <2>1. \A i \in Item : Sooner(deadline[i]) = Infinite <=> deadline[i] = Infinite
    BY <1>0 DEF Sooner, Time, Never, TypeOK
  <2>2. UNCHANGED {i \in Item : deadline[i] # Infinite} BY <1>11, <2>1 DEF Tick
  <2> QED BY <1>11, <2>2 DEF Tick, workerVars
<1>12. CASE Start \/ Sleep \/ WorkerExit \/ Shutdown \/ Alarm \/ Spurious
  BY <1>12 DEF Start, Sleep, WorkerExit, Shutdown, ShutdownBegin, ShutdownWait,
               ShutdownEnd, Alarm, Spurious, itemVars, workerVars
<1>13. CASE UNCHANGED vars BY <1>13 DEF vars, itemVars, workerVars
<1> QED BY <1>1, <1>2, <1>3, <1>4, <1>5, <1>6, <1>7, <1>8, <1>9, <1>10, <1>11,
           <1>12, <1>13 DEF Next, Owner, Worker

\* So a module may rely on RunQueue, whatever the times and the time-outs are.
THEOREM Implements == Spec => ImplementsRunQueue
<1>1. Init => Q!QueueInit BY DEF Init, Q!QueueInit
<1> QED BY <1>1, QueueSimulation, Invariance, PTL
        DEF Spec, ImplementsRunQueue, Q!QueueSpec, QueueStep

=============================================================================
