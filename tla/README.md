# Verification of the dual-magnetic-wheel robot firmware

TLA+ models of the robot program under `src/robot` (with the part of
`src/protocol` it drives), the TLC runs that check them on small instances, and
TLAPS proofs of the properties that matter most for every value of the constants.

The firmware reads an SBUS remote control, decides whether the outputs may be
armed, turns the sticks into wheel speeds and sends them as CAN frames to Damiao
motors. Motors have their own supply: a motor that took an enable frame stays
energised until it takes a disable frame, whatever happens to the MCU, and any
frame may be refused by a full transmit queue or lost bus. Most of the hard
behaviour follows from that, from the number of tasks, and from parameters that
may change and be saved at any time, down to a power loss during a flash erase.

## 1. Inventory

### Tasks and what runs where

| task (priority) | runs | period |
|---|---|---|
| `sbus_input` (120) | SbusInput | 2 ms |
| `can_output` (115) | CanOutput with its MixingOutput | 5 ms |
| `wq_safety` (110) | RcUpdate, Command | 10 ms, 20 ms and callbacks |
| `wq_control` (105) | Failsafe, RobotControl, ControlAllocator | callbacks and periods |
| `robot_core` (100) | RobotRuntime: autosave poll | 100 ms |
| NSH | `param`, `command`, `can_output`, `<module> start/stop` | on demand |

Data flow: `input_rc` → RcUpdate → `manual_control_setpoint`,
`manual_control_switches` → Command (`actuator_armed`), Failsafe
(`failsafe_status`) and RobotControl (setpoints) → ControlAllocator
(`actuator_motors`, `actuator_servos`) → MixingOutput in CanOutput → CAN frames.
`parameter_update` goes to every module.

### Components

For each: **state**; *operations*; what it interacts with; what is hard; what
makes it correct.

* **CAN output driver** (`output/CanOutput`). **State**: channel table,
  `_parametersValid`, `_reloadPending`, `_disablePending`, `_protocolArmed`, the
  output mutex. *Operations*: the run loop, `updateOutputs(stop)` with its frame
  loops, reload, destructor, NSH `zero`, `clear`, `enable`, `disable`, `status`.
  Called by MixingOutput; shares the mutex with NSH. Hard: a frame may fail in
  the middle of a loop over channels; a reload may replace the address of an
  energised motor; NSH acts between two frames. Correct when the driver never
  forgets an energised motor, never drives a half-enabled set, and changes
  addresses only when everything is off.
* **Mixing of outputs** (`output/MixingOutput`). **State**: output functions,
  `_stopped`, `_lastOutput`, `_dataFaultSince`. *Operations*: `update`,
  `updateParamsImpl`. Hard: three early returns that rest on what the driver said
  some turns before; the fault timer against the output period. Correct when
  `_stopped` is true of the motors, when a data fault passes through neutral, and
  when every loss of permission or data ends in a stop.
* **Work queue** (`work_queue/`). **State**: list of attached items (enabled,
  stopping, deadline, period, minimum interval), `_running`, `_started`, `_exit`.
  *Operations*: Start, Attach, SetInterval, Schedule, ScheduleDelayed, Clear,
  Detach with time-out, Shutdown, the worker loop. Hard: `Run()` executes without
  the mutex while owners detach and delete; Attach releases the mutex between
  Start and its own lock; lost wakeups. Correct when no `Run()` uses a deleted
  item, no item is without a worker, no request is lost, and Detach returns.
* **RC input** (`modules/SbusInput`, `modules/RcUpdate`, `modules/RcConfig`).
  **State**: time of the last signal, whether a loss was published, stable-frame
  counter, previous channel count. *Operations*: frame, loss, processInput,
  time-out, calibration, start and stop of both (that of RcUpdate may time out).
  Hard: either may be restarted while the topic keeps its last message; a loss is
  told once. Correct when a valid message never tells a switch position older than
  its sample time, a lost link always ends invalid or too old, and a steady link
  becomes valid again.
* **Arming** (`modules/Command`, `control/ArmSafety`). **State**: interlock
  state, `_armSwitch`, the process-wide `_outputInhibited`, `actuator_armed`.
  *Operations*: Run, change of `CA_ARM_SW`, enable/disable from NSH, start, stop
  (also one that times out). Hard: the switch in use may change under an armed
  robot; topics outlive the module. Correct when nothing arms before the switch in
  use was seen OFF, only a fresh ON arms (or the end of an inhibit that held back an
  armed interlock), and leaving ON disarms.
* **Parameter store** (`params/ParamManager`, `params/FlashParamStorage`).
  **State**: values, defaults, dirty flag, generation, sequence number, two flash
  pages, `_activeSlot`. *Operations*: set, reset, set-default, save, load,
  autosave, initialize. Hard: power loss at any flash operation; the mutex is
  released while flash is written; two tasks save. Correct when the next boot finds
  what was last saved, when "clean" means stored, and when changes are saved.
* **Module parameters** (`params/ModuleParams`): tree of parameter holders;
  `updateParams` calls children.
* **Module lifecycle** (`common/ModuleBase`, `common/WorkQueueModuleBase`).
  **State**: per class `_object`, `_taskId`, `_stopInProgress`, the lifecycle mutex;
  per object the exit flag. *Operations*: start, stop, status and custom commands of
  NSH clients; `run_trampoline` and `exit_and_cleanup` of a task; creation,
  registration, activation and deletion of a work queue module. Hard: start polls
  while it holds the mutex; stop waits without it, gives up after 5 s and deletes a
  task wherever that is; the object of a work queue module is known to publishers and
  to the worker. Correct when nobody uses a deleted object, a module exists once,
  and every command returns.
* **Topics** (`orb/`). **State**: last message and generation under one lock, the
  callback list under another. *Operations*: publish, update, copy, register,
  unregister. Hard: unregistering against a notification in flight, and messages
  that come before an item is active or while it runs. Correct when no callback
  reaches a deleted object and no message stays unread.
* **SBUS decoder** (`drivers/rc/sbus.cpp`). **State**: `_buffer`, `_count`.
  *Operations*: feed, decode, recovery, reset. Hard: no checksum and no time-out
  between bytes, and a payload may contain start and end bytes. Correct when the
  parser stays inside its buffer and delivers exactly the whole frames again soon
  after a byte was lost.
* **Failsafe**, **RobotControl**, **ControlAllocator** (`modules/`,
  `control/`). **State**: last messages, `_haveValidInput`, `_lastValidManual`, the
  failsafe policy, `_modelValid`. *Operations*: Run, start, stop (also one that times
  out). Hard: each trusts the publication time of its predecessor up to a limit of
  its own, and any of them may stall, stop or restart; RcUpdate preempts them.
  Correct when a dead link stops driving in bounded time, a loss follows the policy
  without cutting the targets, and the stick drives again after it.
* **RobotRuntime**: start-up check of required modules, autosave poll.
  **Damiao protocol** (`protocol/can`): frame address and encoding, feedback.
  **OS wrappers** (`os/`), **parameter definitions**, **messages**, **boot
  scripts**, **board support and tools**.

Section 4 of `docs/10.13修改文档.md` lists the guarantees of scheduling and stop;
`docs/step4-rc-input.md`, `docs/step5-parameters.md` and
`docs/step6-damiao-motor-framework.md` those of RC, parameters and motors.

## 2. Modules

| module | models | state ↔ code |
|---|---|---|
| `CanOutput` | `can_output` task, driver, destructor, NSH zero/clear | `pc`, `ret`, `cmd`, `idx`, `ok`: where the task is in `run`, `updateOutputs`, `~CanOutput`, and its locals; `addr`, `func`: `_channels`, `_functions`; flags by name; `motorOn`, `link`: the physical motors and the bus |
| `OutputTiming` | the time limits of MixingOutput | ages in ticks, saturating one past their limit |
| `MixingOutput` | `MixingOutput::update` | `stopped`, `lastOutput`, `faultSince` as ages; `call`: the driver call under way; `outputs`: its argument |
| `OutputChain` | both, composed, with topics and clock | `MixUpdate`, `DriveReturned`, `StopReturned` replace the driver's open decision |
| `RunQueue` | what a queue promises to its modules (abstract) | sets of items, without times, waits and threads |
| `WorkQueue` | one queue; implements `RunQueue` | times relative to now; `asleep`: waiting on `_condition`; `owner`, `shutter`: threads inside Attach, Detach, Shutdown |
| `ManualControl` | what the control messages promise (abstract) | `controls`, `controlsAge`; `offAge`, `onAge`: what the operator showed |
| `RcLink` | SbusInput and RcUpdate; implements `ManualControl` | counters and flags by name; times as ages |
| `Arming` | Command and ArmSafety on top of `ManualControl` | `safety`: `ArmSafety::_state`; `published`: `actuator_armed`; `cmd`: life of the module |
| `RcArming` | SbusInput, RcUpdate and Command composed | that of `RcLink` and `Arming`, which share the two control topics |
| `TargetChain` | Failsafe, RobotControl, ControlAllocator with start and stop | `lost`, `setpoint`, `targets`: their topics with ages; `running`, `late`: RobotControl between its now and its reads; `goodAge`: the newest valid sample ever published |
| `ParamStore` | ParamManager, FlashParamStorage, boot | `pc`, `snap`, `target`: each task inside save/load; `page`: content of each flash page |
| `ModuleBase` | the commands of a module under its lifecycle mutex | `pc`, `held`: where each client is, and its local `object` or task; the statics by name; `alive`, `exitFlag`: per object |
| `TaskModule` | a module with a task | `task`: where the task is in `run_trampoline`; `lost`: objects of tasks deleted before they were stored |
| `Topic` | topics with callbacks, as one module sees them | `unread`: a generation behind that of the topic; `publisher`: inside `publish`; `todo`: callbacks it has yet to call |
| `WorkModule` | a module on a work queue | `attached`, `enabled`, `pending`, `running`: its item in a `RunQueue`; `reads`: the topics `Run()` has yet to read |
| `ModuleLifecycle` | both kinds with clients, task, worker and publishers | |
| `SbusDecoder` | the parser, with the receiver and the line | `buffer`: `_buffer` up to `_count`; `output`: what `feed` returned; `frame`, `position`, `damage`: the sender and what the line did to the frame |
| `*_proof` | theorems of the module; those of a composition hold its parts' too | |
| `MC*` | instances for TLC | |

How they compose: `OutputChain` extends `CanOutput` and instantiates
`MixingOutput` with the shared output functions and `actuator_armed`; it refines
`CanOutput!Spec`. `RcLink` and `Arming` both extend `ManualControl`: the first
implements it, the second assumes it, so that no run has to hold both; `RcArming` puts
them together, and what was shown of each alone is proved to hold of the composition.
`ModuleLifecycle` extends `TaskModule` and `WorkModule`, both on top of `ModuleBase`,
the second on `Topic` too. `WorkModule` instantiates `RunQueue`, the abstract queue,
which `WorkQueue` implements: an item is attached, enabled, requested, run and detached
there by the very actions the refinement of `WorkQueue` allows, so that the big model of
the queue and the big model of its users never have to be held by one run.

### What is abstracted

* Values: an output is live (targets), neutral (all zero) or a stop; a target is
  good or bad and has an age; calibration arithmetic is whether the configuration
  is valid; the parameter table is one value in `ParamStore` and one of a few
  parameter sets in `CanOutput`.
* Time: ticks. Limits are small numbers in their order of size (20 ms output
  period below 500 ms neutral phase).
* A parameter read is atomic; `param set` sets and publishes in one action;
  `manual_control_setpoint` and `manual_control_switches` are one message, since
  one `Run()` publishes both and their readers run on the same queue, or test
  them alike.
* `MixingOutput::update` reads its topics at one instant (their publishers are
  independent, so every combination is also published at some instant).
* Mutex and thread creation do not fail; a second concurrent Shutdown, and Detach
  called from the worker itself (returns false, changes nothing), are left out.
* `set-default` is called by the boot script only. The 1 s delay before an
  autosave is left out: an autosave may start at any poll.
* In `ModuleLifecycle` time-outs may expire at any moment, and a topic's generation
  is abstracted to whether the object has read the last message.
* In `SbusDecoder` a frame is its bytes: the channels and flags unpacked from them,
  and the counters, are left out.

## 3. Runs

| run | instance | what it shows |
|---|---|---|
| `can_output` | 2 channels, 2 addresses, 4 parameter sets (both driven; only the second, at the other's address; one the loader refuses; one with an illegal function) | `KnowsWhatIsOn`, `OnlyConfigured`, `DriveOnlyWhenAllOn`, `ZeroOnlyWhenOff` under any loss of frames, reload and NSH command |
| `can_output_exit` | same | **violated** `ExitLeavesOff`: the destructor skips a disable still owed |
| `output_chain` | 1 channel, 2 addresses, 1 source, period 1, neutral phase 2, no console operator | `StoppedMeansOff`, `NeutralFirst`, refinement `ImplementsCanOutput`; `DisarmTurnsOff`, `FaultTurnsOff`, `ArmTurnsOn`, `ReloadHappens` |
| `work_queue` | 2 items with intervals 1 and 2, period 1, delays 0 and 2, time-out 1, lateness told apart up to 2 | `ImplementsRunQueue`, `AttachedHasWorker`, `NeverAfterStop`, `RateLimited`; `DetachReturns`, `ShutdownReturns`, `NoLostSchedule`, `PeriodicRuns` |
| `module_lifecycle` | 2 clients, 2 instances, 2 topics, either kind of module | `UsesLive`, `CallbacksLive`, `SoleInstance`, `CommandsReturn`, `NoLostMessage` |
| `sbus_decoder` | frames of 5 bytes, 3 bytes (start, end, another) | `TypeOK` (no byte beyond the buffer), `InStep` |
| `rc_link` | 1 switch, limit 1 tick | `KeepsPromise` (refines `ManualControl`), `LossInvalidates`, `SteadyLinkValidates` |
| `arming` | 2 switches and an illegal `CA_ARM_SW`, limits below one tick | `ArmedAfterOff`, `ArmedByOn`, `SwitchDisarms`, `SwitchArms` |
| `target_chain` | time-out 1, limits 1, 1 and 0 ticks, 2 failsafe actions | `LinkAlive`, `LossFollowsPolicy`, `StickDrives` |
| `param_store` | 3 values (firmware default, airframe default, another), sequence numbers modulo 4, one save at a time | `Durable`, `CleanMeansStored`, `CrashKeeps`, `AutoSaves` with failing flash and power loss at every operation |
| `param_overlap` | saves of two tasks overlap, flash never fails | **violated** `OtherPageLoads`: the page one task has just committed is erased by the other, and no page with a valid snapshot is left |
| `param_default` | any value may be set, the operator saves the firmware default, the profile has another default | **violated** `SavedWins` |

Why these bounds are enough. Two channels are what it takes for one frame of a
loop to succeed and another to fail, and two addresses for a reload to move or
drop a motor. The chain has one channel because the driver's loop is covered by
`can_output`, which it refines; its time limits are the smallest with an output
period below the neutral phase, so that both orders of "period passed" and "fault
too old" occur. Two items make the worker choose, with ties in deadline and
attach order; a delay of 2 lies beyond one interval and at the other. The console
operator, whom `output_chain` leaves out because the liveness properties exclude him,
is in `can_output`, and the three safety properties of the run are proved with him.
In `module_lifecycle` two clients are what a start, stop or use needs to meet another
in progress; two instances suffice because a third would need two that exist at the
same time, which `SoleInstance` excludes; two topics let a registration fail after
another succeeded. A frame of 5 bytes has three of payload, so that a start and an end
byte may stand in any order in it and a recovered buffer may hold one more start byte;
the three values are the only ones the parser tells apart. Sequence
numbers modulo 4 wrap within a few saves and still satisfy the only fact the
code uses: the two pages differ by one. Lateness is told apart up to two ticks, which
no `Run()` of at most one tick reaches. In `arming`, 500 ms are less than a tick: only the present counts as
fresh, which is the case where a change of switch matters. In `target_chain` 500 ms
are one tick for the modules, more than their period, so that every age below, at
and beyond a limit occurs; those of MixingOutput, which only `LinkAlive` mentions, are
zero to keep the instance small. `LinkAlive` is proved for any limits. The type
invariants of every component but `SbusDecoder`, and `ReloadOnlyWhenOff`, are proved
(section 4) and in no run. Every safety and action property of the runs that pass is
also proved, so that for these the bounds matter only as a test of the model; they
matter for the liveness properties.

### Fairness

* `output_chain`: strong fairness of a task turn. `can_output` (115) has
  the highest priority of the tasks that take the output mutex and a mutex
  release hands over to it; the other takers hold it for one frame only. Time
  passes (weak fairness of Tick), and a turn is completed within a tick (5 ms
  sleep against 20 ms). Nothing is assumed of the bus: the properties ask for a
  working bus explicitly. Their other hypotheses are about what MixingOutput sees
  when it looks (`Sees`), so that messages may age and be published again.
* `work_queue`: the worker and the owners are real-time threads that get
  the processor (weak fairness of each step of theirs); timers fire. Nothing is
  assumed of `Run()`; `NoLostSchedule` and `PeriodicRuns` have the hypothesis
  `ShortRuns` (each `Run()` ends within a tick), which `WorkItem.hpp` asks of the
  modules, and `DetachReturns` does not need it.
* `rc_link`: Loss, RcProcess, RcTimeout and the clock; SBUS and the safety queue
  are timer-driven and the highest priorities. Frames and commands may never come,
  and a `Run()` that kept a stop waiting until it timed out may never end.
* `arming`: weak fairness of `Run()` of Command (20 ms timer), and strong fairness
  of a `Run()` while a message is fresh (20 ms against 500 ms).
* `target_chain`: strong fairness of `Run()` of Failsafe and of the allocator, weak
  fairness of both steps of RobotControl: each has a period of 20 ms on a queue that
  starves none of its items (`PeriodicRuns` of WorkQueue), although a `Run()` waits
  for that of another item. Strong fairness of the clock, which the model stops
  during a `Run()`. The liveness properties have the hypothesis `Paced`: from some
  time on every module runs at least once per tick (20 ms against 500 ms).
* `module_lifecycle`: strong fairness of the steps of a command that was begun (the
  mutexes are handed over, and their holders leave them) and of the 5 s of stop; weak
  fairness of a publisher inside `publish` and of the worker while an item is pending
  (which `NoLostSchedule` of WorkQueue grants).
  Nothing is assumed of `instantiate()`, `run()` and `Run()`, which may hang, and no
  client has to begin a command. `NoLostMessage` has the hypothesis that `Run()`s end.
* `param_store`: a save of `robot_core` goes on and starts again while dirty
  (100 ms poll); a command of NSH, once begun, goes on.

### Where code and documents disagree

The three violated runs are counterexamples to statements quoted in
`PROJECT.json`: the destructor of CanOutput (`CanOutput.cpp:76-81`), overlapping saves
(`FlashParamStorage.cpp:104`), and set-default over a saved value
(`ParamManager.cpp:476`). The last is latent at this commit: every `set-default` of the
only profile, `startup/etc/robots/1_dual_magneticwheel`, repeats the firmware default
of `ParamDefinitions.cpp`. It takes a second profile, which
`docs/step6-damiao-motor-framework.md:140-142` describes how to add, or a
`param set-default` of the operator. Observed while reading, without a run of their own:

* `docs/step6-damiao-motor-framework.md:71-74` says that a lost link or invalid input
  publishes disarmed; `ArmSafety.hpp:43` keeps the interlock armed meanwhile, as
  `modules/README.md:12` describes. `LossFollowsPolicy` is what holds instead.
* RobotControl keeps the last valid sample it has read. If a valid sample is
  overwritten by an invalid message before it runs, but after Failsafe has read it,
  it publishes one setpoint without failsafe from the sample before, for at most one
  period (`RobotControl.cpp:99-125`).
* A `rc_update stop` that times out (a `Run()` still waits for `_stateMutex`) and is not
  repeated leaves the last messages as they are, valid perhaps, and nobody publishes
  the loss of the link any more (`WorkQueueModuleBase.hpp:44-46`), a case
  `docs/step4-rc-input.md:54` does not think of. Only their age tells, which Command
  and Failsafe test: this is the exception in `LossInvalidates`.
* `docs/step4-rc-input.md:23` asks for three stable frames before the controls
  are valid; after a time-out `_previousChannelCount` is kept, so two are enough,
  and after a lost-signal message the first frame is valid at once
  (`RcUpdate.cpp:151-163,197-198`).
* `ModuleBase.hpp:344` says that `_stopInProgress` keeps a start out while a stop
  waits. A stop that gives up clears it and releases the lock before it terminates the
  task (`ModuleBase.hpp:284-297`): the task may end by itself and a new start, accepted
  in between, is then killed. `SoleInstance` and `UsesLive` hold all the same. A
  task killed between the construction of its object and its store leaks the object
  (`lost` in `TaskModule`).
* SBUS has no checksum: two bytes lost from a frame and its successor may pass as one
  frame, and a parser that locks on a start byte in the payload stays there as long as
  the payloads of all frames mislead it (`Misleads` in `SbusDecoder`; moving sticks
  end it). `InStep` says what holds otherwise.
* A load that overlaps a save may set `_storageSequence` back, so that the next
  snapshot has the sequence number of the page it should supersede.
* `docs/step6-damiao-motor-framework.md:75` has MixingOutput test the sampling
  time of targets; `MixingOutput.cpp:100-105` tests the time of publication.

## 4. Proofs

Every safety invariant, action property and refinement that a passing run checks is
a theorem here. The theorems hold for every value of the constants that satisfies the
module's named assumption (`CanAssumption`, `TimingAssumption`, `QueueAssumption`,
`ModuleAssumption`, `ControlAssumption`, `ArmingAssumption`, `TargetAssumption`,
`StoreAssumption`, `DecoderAssumption`); only those of `ParamStore` have further
hypotheses, which two of the violated runs show to be needed.

* **`OutputChain_proof`**, first part, the driver alone: `TypeOK`, `KnowsWhatIsOn`,
  `OnlyConfigured`, `DriveOnlyWhenAllOn`, `ZeroOnlyWhenOff`, `ReloadOnlyWhenOff`. The
  inductive invariant `IInv` adds to them: `Locking` (who holds the mutex, seen from
  `pc` and `nsh`), `Calls` (what the driver's flags are at each return point), `Frames`
  (during a frame loop with no failure so far, the channels already visited are
  off, or on) and `ArmedMeansOn` (armed and nothing owed: every motor with a
  function is on). `Frames` is what carries the
  result of a loop over any number of channels, frame by frame.
* **`OutputChain_proof`**, second part: the composition refines both of its halves.
  `ImplementsCanOutput` is step simulation: `Dispatch` makes one of the calls the open
  driver allows. `ImplementsMixing` maps the driver's answers to those of the open
  driver of `MixingOutput`, which carries `NeutralFirst` over from `MixingOutput_proof`
  without a new invariant. `StoppedMeansOff` follows from `StoppedMeansClear` (between
  calls, `_stopped` means that both flags of the driver are clear) and `KnowsWhatIsOn`
  of the first part; it needs `CallSites` (which call of MixingOutput is under way, seen
  from the driver's `pc` and return point) and `StopTells` (what a stop that
  succeeded says of the flags).
* **`MixingOutput_proof`**: type correctness, whatever the driver answers, and
  `NeutralBeforeStop` under `PacedSpec`, from `FaultYoungerThanLive`: while the last
  outputs were live, a fault is younger than they are, and they are younger than the
  output period at each turn; the period is below the neutral phase
  (`TimingAssumption`), so the stop finds neutral outputs. Without pacing it does
  not hold: a loop that sleeps through the whole neutral phase stops straight.
* **`WorkQueue_proof`**: `TypeOK`, `RunningIsAttached` (no `Run()` on an item that was
  detached; in no run, since a type error apart it follows from `ImplementsRunQueue`),
  `AttachedHasWorker`, `NeverAfterStop`, `RateLimited`, and `ImplementsRunQueue`: step
  simulation, one operation of the queue being one of `RunQueue` and waits, time-outs and
  the clock being invisible to it; all from `WorkerLife` (the worker seen from `_started`,
  `_exit`, and a shutdown under way) and `OwnerLife` (what an owner knows inside Attach
  and Detach; a stopping item is not enabled).
* **`ModuleLifecycle_proof`**: `TypeOK`, `UsesLive`, `CallbacksLive`, `SoleInstance`, from
  `Exclusive` (who holds the lifecycle mutex, seen from `pc`), `TaskLife` (the one task is
  known by `_taskId`, or to the client that has just created it and still holds the mutex;
  the one object is that of the task), `WorkLife` (the object belongs to its builder until
  `_object` is set, and to one stop at a time after), `QueueLife` (what is attached exists;
  what is not installed never ran, so that the stop of a failed start cannot time out)
  and `TopicLife` (who is about to be called back is registered; nobody is once
  StopAndWait begins). The proof takes the two kinds of module apart first.
* **`RcArming_proof`**. Of the halves: `LinkTypeOK` and `KeepsPromise`, step simulation of
  `ManualControl` under `InputShown` (what `input_rc` tells was shown by the operator
  no longer ago than its time stamp says); `ArmingTypeOK`, `ArmedAfterOff` and
  `ArmedByOn`, from `ControlsShown`, `OffCounts` (an interlock past "wait", or an OFF it
  may still read, was seen since the reset) and `ArmedTold` (an armed interlock was published, unless the inhibit
  holds it back: the case of `command enable`). Of the composition: `ImplementsLink` and `ImplementsArming`. A step of the link is, for the arming, a
  message, the passing of time or nothing, because `InputShown` makes the message one
  that `ManualControl` allows; a step of Command is nothing to the link. Fairness is part
  of both statements: that of a half is literally that of the composition, so that the
  liveness properties of the runs `rc_link` and `arming` hold of the composition as
  well. `ArmedAfterOff` then speaks of frames the receiver sent, and no longer of
  messages assumed to be true (`ReceiverInterlock`, `ReceiverArms`).
* **`TargetChain_proof`**: `TypeOK` and `LinkAlive`, from four facts, one per message
  of the chain (`ManualGood`, `StatusGood`, `SetpointGood`, `TargetsGood`): how long
  ago the newest valid sample was, as long as the message still counts. Each step
  adds the limit of one module; the sum is `Reach`. `Tick` needs that no age grows
  faster than that of the sample.
* **`ParamStore_proof`**: `TypeOK` for any saves and loads, overlapping or not; `Durable`
  and `CrashKeeps` if they do not overlap (`~Overlap`; the run `param_overlap` shows what
  happens if they do), from `StoreInv`: what was kept is on one page and the other page
  does not hide it (`Pages`), `_activeSlot` is that page (`ActivePage`), and a save is on
  the other one, which holds exactly what its last flash operation left (`SaveLife`).
  The numbers of the two pages differ by one, whatever the width they wrap at, which
  makes the later one `Newer`. `CleanMeansStored` if moreover the operator does not set
  the firmware default (`Firmware \notin Settable`; the run `param_default` shows what
  happens if he does), from `CleanInv`: no data is the firmware default, clean
  values are those kept, and values unchanged since a snapshot are those of the snapshot.
* **`SbusDecoder_proof`**: `TypeOK` and `InStep`, for any frame size above 2 and any set
  of bytes. A recovery drops bytes at the front of the buffer, so that `DecoderInv`
  counts from its end: `Received` (the last bytes are those of the frame so far,
  without the one that is missing), `Whole` (a frame without damage is in the buffer
  from its first byte on: a recovery goes no further than its start byte) and `Clean` (a
  start byte from the frame before has no end byte where the parser will look for one,
  in whichever of the two frames a byte is missing). `FeedShifts` and `FeedKeepsStart`
  say what a byte does to the end of the buffer, `Boundary` what one frame leaves
  to the next. That the search of the recovery finds the first start byte rests on
  the library's theorem that strict inclusion of finite sets is well-founded
  (`Smallest`).

The strengthened invariants were checked by TLC on the instances of the runs before they
were proved. `RcArming` was checked with one switch, a time-out below one tick and no
lateness (4.1 million states); it is too large to be a run of its own, and its
refinements are proved.

Only model-checked: the liveness properties (`DisarmTurnsOff`, `FaultTurnsOff`,
`ArmTurnsOn`, `ReloadHappens`, `DetachReturns`, `ShutdownReturns`, `NoLostSchedule`,
`PeriodicRuns`, `CommandsReturn`, `NoLostMessage`, `LossInvalidates`,
`SteadyLinkValidates`, `SwitchDisarms`, `SwitchArms`, `LossFollowsPolicy`, `StickDrives`,
`AutoSaves`): fairness and ENABLED are out of the prover's reach. Induction over data is
also out of reach; the models avoid it by making a loop a sequence of steps, and no
module has a RECURSIVE operator.

## 5. Not modelled

* Floating point: calibration, allocation matrix, encoding of Damiao values.
* Feedback and `actuator_status`, `status`/`map` output: no effect on the outputs.
* The start-up check of RobotRuntime and `robot ready`: they print what is missing
  and change no other state. A module that starts before another finds its topics
  unpublished, which the models of the modules allow.
* `os::Thread` and `os::Semaphore`, which no module uses; the other wrappers beyond
  task creation, mutexes and time.
* Board support, scripts of the build, generated messages, the table of parameter
  definitions: no control logic of their own.
* A restart of `can_output` with the same ids, or a reset of the MCU, is among the initial
  states of `CanOutput` (any motor energised, a disable owed).
* A change of `RC_MAP_SWn`, the count of stable frames, the pair of motor and servo
  topics, and the restart of `can_output` with other ids: listed as hazards in
  `PROJECT.json`, open in section 6. (A restart with the same ids, or a reset of the
  MCU, is among the initial states of `CanOutput`: any motor energised, a disable owed.)

## 6. Plan

Done: 1. `CanOutput`, 2. `MixingOutput` and `OutputChain`, 3. `WorkQueue`,
4. `RcLink` / `ManualControl`, 5. `Arming`, 6. `ParamStore`, 7. `TargetChain`,
8. the proofs of `OutputChain`, 9. `ModuleLifecycle` with its proofs, 10. `Topic`,
11. `SbusDecoder`, and `RunQueue` with the refinement that ties 3 to 9, 12. the proofs
of `ParamStore` and `SbusDecoder`, and `RcArming` with its proofs.
Left, in order:

13. `CanRestart`: a restart of `can_output` with other ids and energised motors, over
    `CanOutput`.
14. A change of `RC_MAP_SWn` in `Arming`; motors and servos as two topics in
    `TargetChain`.
15. The link in front of the target chain, as `RcArming` has it in front of the arming:
    `TargetChain` assumes of the valid samples only that RcUpdate publishes them.
16. The Damiao frame layout and the routing of feedback; the parameter tree.
