------------------------------ MODULE CanOutput ------------------------------
(***************************************************************************)
(* The can_output task (robot/output/CanOutput.cpp): the run loop, the     *)
(* driver entry updateOutputs with its management-frame loops, the reload  *)
(* of the CAN parameters, the destructor, and the NSH command zero/clear   *)
(* that runs in another task.                                              *)
(*                                                                         *)
(* What MixingOutput::update decides is left open here (MixHold, MixStop   *)
(* and MixDrive are all allowed); the one thing assumed of it is the       *)
(* contract CanOutput relies on: a drive call that failed is followed by a *)
(* stop call.  OutputChain replaces the open decision by the real one.     *)
(*                                                                         *)
(* A motor is a CAN frame address (id plus mode offset).  motorOn is the   *)
(* physical fact the driver cannot see: the motors that took an enable     *)
(* frame and no disable frame since.  link says whether write() takes a    *)
(* frame now; it may change between any two frames.                        *)
(***************************************************************************)
EXTENDS Naturals

CONSTANTS N,         \* number of physical channels (ChannelCount)
          Address,   \* frame addresses a channel may be configured with
          Disabled,  \* CanProtocol::Disabled, OutputFunction::Disabled
          Sources,   \* topics a channel's output function reads
          Drivable,  \* <<channel, address>> whose mode sendDamiao encodes
          Profiles   \* parameter sets the operator may store

Channels == 1..N

\* A parameter set: the address and the output function of each channel;
\* loads: loadChannel accepts every channel; maps: every FUNC value is legal;
\* act: OUT_FAIL_ACT as MixingOutput interprets it.
ProfileType ==
  [addr : [Channels -> Address \cup {Disabled}],
   func : [Channels -> Sources \cup {Disabled}],
   loads : BOOLEAN, maps : BOOLEAN, act : 0..2]

ASSUME CanAssumption ==
  /\ N \in Nat \ {0}
  /\ Disabled \notin Address
  /\ Disabled \notin Sources
  /\ Drivable \subseteq Channels \X Address
  /\ Profiles \subseteq ProfileType
  /\ \E p \in Profiles : p.loads /\ p.maps

VARIABLES
  store,            \* the parameter set ParamManager holds
  paramNew,         \* parameter_update published and not yet read
  addr,             \* _channels
  func,             \* _mixingOutput._functions
  parametersValid, reloadPending, disablePending, protocolArmed,
  pc,               \* where the task is
  ret,              \* where updateOutputs returns to
  cmd,              \* frames being sent: "disable", "enable" or "drive"
  idx,              \* channel whose turn it is
  ok,               \* the local success
  result,           \* what the last call returned
  mutex,            \* who holds _outputMutex
  shouldExit,       \* _taskShouldExit
  nsh,              \* the NSH zero/clear command
  inhibited,        \* Command::_outputInhibited
  safety,           \* actuator_armed: "none", "safe", "lockdown" or "armed"
  link, motorOn

taskVars == <<pc, ret, cmd, idx, ok, result>>
driverVars == <<parametersValid, reloadPending, disablePending, protocolArmed>>
configVars == <<addr, func>>
paramVars == <<store, paramNew>>
nshVars == <<nsh, inhibited, safety>>
worldVars == <<link, motorOn>>
vars == <<taskVars, driverVars, configVars, paramVars, nshVars, worldVars,
          mutex, shouldExit>>

Configured == {addr[i] : i \in Channels} \ {Disabled}

\* init() succeeded, so the parameters were valid.  Motors have their own
\* supply and may still be on from before the reset of the MCU.
Init ==
  /\ store \in {p \in Profiles : p.loads /\ p.maps}
  /\ paramNew \in BOOLEAN
  /\ addr = store.addr /\ func = store.func
  /\ parametersValid = TRUE /\ reloadPending = FALSE
  /\ disablePending = TRUE /\ protocolArmed = FALSE
  /\ pc = "loop" /\ ret = "mixed" /\ cmd = "disable" /\ idx = 1
  /\ ok = TRUE /\ result = TRUE
  /\ mutex = "free" /\ shouldExit = FALSE
  /\ nsh = "idle" /\ inhibited = FALSE /\ safety = "none"
  /\ link \in BOOLEAN
  /\ motorOn \in SUBSET Configured

-----------------------------------------------------------------------------
(* updateOutputs(stopOutputs, ...)                                         *)

CallStop(r) == pc' = "stop" /\ ret' = r
CallDrive(r) == pc' = "drive" /\ ret' = r

Return(b) == pc' = ret /\ result' = b

SendFrom(c) == pc' = "send" /\ cmd' = c /\ idx' = 1 /\ ok' = TRUE

\* updateOutputs(true): nothing to do when the last disable went through.
NothingToStop_ArmedFlagOnly == ~protocolArmed
NothingToStop == ~protocolArmed /\ ~disablePending

StopEnter ==
  /\ pc = "stop" /\ mutex = "free"
  /\ IF NothingToStop
       THEN Return(TRUE) /\ UNCHANGED <<cmd, idx, ok, mutex>>
       ELSE SendFrom("disable") /\ mutex' = "task" /\ UNCHANGED result
  /\ UNCHANGED <<ret, driverVars, configVars, paramVars, nshVars, worldVars,
                 shouldExit>>

\* updateOutputs(false): refused while parameters are invalid or a disable is
\* owed; the armed flag is raised before the first enable frame goes out.
DriveEnter ==
  /\ pc = "drive" /\ mutex = "free"
  /\ IF ~parametersValid \/ disablePending
       THEN /\ Return(FALSE)
            /\ UNCHANGED <<cmd, idx, ok, mutex, protocolArmed>>
       ELSE /\ SendFrom(IF protocolArmed THEN "drive" ELSE "enable")
            /\ protocolArmed' = TRUE
            /\ mutex' = "task" /\ UNCHANGED result
  /\ UNCHANGED <<ret, parametersValid, reloadPending, disablePending,
                 configVars, paramVars, nshVars, worldVars, shouldExit>>

\* A channel that gets a frame: a disable goes to every enabled protocol
\* slot, an enable or an output only to the slots with a function.
Addressed(c, i) ==
  /\ addr[i] # Disabled
  /\ c = "disable" \/ func[i] # Disabled

\* A frame is encoded for every mode but an output in the wrong one, and
\* write() takes it whole or not at all.
Accepted(c, i) == link /\ (c = "drive" => <<i, addr[i]>> \in Drivable)

\* One sendSpecial or sendOne; another task may run before the next.
SendFrame ==
  /\ pc = "send" /\ idx <= N
  /\ idx' = idx + 1
  /\ ok' = (ok /\ (Addressed(cmd, idx) => Accepted(cmd, idx)))
  /\ motorOn' = IF ~(Addressed(cmd, idx) /\ link) THEN motorOn
                ELSE CASE cmd = "disable" -> motorOn \ {addr[idx]}
                       [] cmd = "enable"  -> motorOn \cup {addr[idx]}
                       [] OTHER           -> motorOn
  /\ UNCHANGED <<pc, ret, cmd, result, driverVars, configVars, paramVars,
                 nshVars, link, mutex, shouldExit>>

\* A disable that failed anywhere stays owed and keeps the armed flag.
Stopped_Forgets(b) == protocolArmed' = FALSE /\ disablePending' = FALSE
Stopped(b) == protocolArmed' = (protocolArmed /\ ~b) /\ disablePending' = ~b

\* The end of the disable loop under updateOutputs(true).
DisableDone ==
  /\ pc = "send" /\ idx = N + 1 /\ cmd = "disable" /\ ret # "exited"
  /\ Stopped(ok)
  /\ Return(ok) /\ mutex' = "free"
  /\ UNCHANGED <<ret, cmd, idx, ok, parametersValid, reloadPending,
                 configVars, paramVars, nshVars, worldVars, shouldExit>>

EnableDone ==
  /\ pc = "send" /\ idx = N + 1 /\ cmd = "enable"
  /\ IF ok THEN SendFrom("drive") /\ UNCHANGED <<result, mutex>>
           ELSE Return(FALSE) /\ mutex' = "free" /\ UNCHANGED <<cmd, idx, ok>>
  /\ UNCHANGED <<ret, driverVars, configVars, paramVars, nshVars, worldVars,
                 shouldExit>>

DriveDone ==
  /\ pc = "send" /\ idx = N + 1 /\ cmd = "drive"
  /\ Return(ok) /\ mutex' = "free"
  /\ UNCHANGED <<ret, cmd, idx, ok, driverVars, configVars, paramVars, nshVars,
                 worldVars, shouldExit>>

-----------------------------------------------------------------------------
(* run()                                                                   *)

\* updateParams(): _channels is replaced only when every channel loads; the
\* child MixingOutput takes the new functions in any case.
UpdateParams ==
  /\ addr' = IF store.loads THEN store.addr ELSE addr
  /\ func' = store.func
  /\ parametersValid' = (store.loads /\ store.maps)

\* The head of the loop; a parameter_update stops the old configuration first.
LoopTop ==
  /\ pc = "loop" /\ ~shouldExit
  /\ IF paramNew THEN CallStop("reload") ELSE pc' = "retry" /\ UNCHANGED ret
  /\ paramNew' = FALSE
  /\ UNCHANGED <<cmd, idx, ok, result, driverVars, configVars, store, nshVars,
                 worldVars, mutex, shouldExit>>

Reload_NoRetry ==
  /\ pc = "reload" /\ pc' = "retry"
  /\ IF result THEN UpdateParams ELSE parametersValid' = FALSE /\ UNCHANGED configVars
  /\ UNCHANGED <<ret, cmd, idx, ok, result, reloadPending, disablePending,
                 protocolArmed, paramVars, nshVars, worldVars, mutex, shouldExit>>
Reload ==
  /\ pc = "reload" /\ pc' = "retry"
  /\ IF result
       THEN UpdateParams /\ UNCHANGED reloadPending
       ELSE /\ parametersValid' = FALSE /\ reloadPending' = TRUE
            /\ UNCHANGED configVars
  /\ UNCHANGED <<ret, cmd, idx, ok, result, disablePending, protocolArmed,
                 paramVars, nshVars, worldVars, mutex, shouldExit>>

Retry ==
  /\ pc = "retry"
  /\ IF reloadPending THEN CallStop("retried")
                      ELSE pc' = "mix" /\ UNCHANGED ret
  /\ UNCHANGED <<cmd, idx, ok, result, driverVars, configVars, paramVars,
                 nshVars, worldVars, mutex, shouldExit>>

Retried_IgnoresStop ==
  /\ pc = "retried" /\ pc' = "mix"
  /\ UpdateParams /\ reloadPending' = FALSE
  /\ UNCHANGED <<ret, cmd, idx, ok, result, disablePending, protocolArmed,
                 paramVars, nshVars, worldVars, mutex, shouldExit>>
Retried ==
  /\ pc = "retried" /\ pc' = "mix"
  /\ IF result THEN UpdateParams /\ reloadPending' = FALSE
               ELSE UNCHANGED <<parametersValid, reloadPending, configVars>>
  /\ UNCHANGED <<ret, cmd, idx, ok, result, disablePending, protocolArmed,
                 paramVars, nshVars, worldVars, mutex, shouldExit>>

mixUnchanged == UNCHANGED <<cmd, idx, ok, result, driverVars, configVars,
                            paramVars, nshVars, worldVars, mutex, shouldExit>>

\* The three things _mixingOutput.update() may do with the driver.
MixHold  == pc = "mix" /\ pc' = "loop" /\ UNCHANGED ret /\ mixUnchanged
MixStop  == pc = "mix" /\ CallStop("mixed") /\ mixUnchanged
MixDrive == pc = "mix" /\ CallDrive("driven") /\ mixUnchanged

\* MixingOutput.cpp:180: a drive call that failed is answered by a stop.
Driven_NoStop == pc = "driven" /\ pc' = "loop" /\ UNCHANGED ret /\ mixUnchanged
Driven ==
  /\ pc = "driven"
  /\ IF result THEN pc' = "loop" /\ UNCHANGED ret ELSE CallStop("mixed")
  /\ mixUnchanged

Mixed == pc = "mixed" /\ pc' = "loop" /\ UNCHANGED ret /\ mixUnchanged

\* run() returned: exit_and_cleanup takes the module lock, which a running
\* custom_command holds, and deletes the object.  The destructor sends the
\* disable frames without _outputMutex and ignores their outcome.
Destroy ==
  /\ pc = "loop" /\ shouldExit /\ nsh = "idle"
  /\ IF protocolArmed THEN SendFrom("disable") /\ UNCHANGED result
                      ELSE /\ pc' = "exited" /\ result' = TRUE
                           /\ UNCHANGED <<cmd, idx, ok>>
  /\ ret' = "exited"
  /\ UNCHANGED <<driverVars, configVars, paramVars, nshVars, worldVars, mutex,
                 shouldExit>>

DestroyDone ==
  /\ pc = "send" /\ idx = N + 1 /\ ret = "exited"
  /\ Return(ok)
  /\ UNCHANGED <<ret, cmd, idx, ok, driverVars, configVars, paramVars, nshVars,
                 worldVars, mutex, shouldExit>>

Task == \/ StopEnter \/ DriveEnter \/ SendFrame
        \/ DisableDone \/ EnableDone \/ DriveDone
        \/ LoopTop \/ Reload \/ Retry \/ Retried
        \/ Driven \/ Mixed \/ Destroy \/ DestroyDone

Mix == MixHold \/ MixStop \/ MixDrive

-----------------------------------------------------------------------------
(* The other tasks                                                         *)

taskUnchanged == UNCHANGED <<taskVars, driverVars, configVars>>

ZeroAllowed_ArmedFlagOnly ==
  inhibited /\ safety = "lockdown" /\ ~protocolArmed
ZeroAllowed ==
  inhibited /\ safety = "lockdown" /\ ~disablePending /\ ~protocolArmed

\* can_output zero/clear: the checks and the frame are under _outputMutex.
ZeroCheck ==
  /\ nsh = "idle" /\ mutex = "free" /\ ret # "exited"
  /\ ZeroAllowed
  /\ nsh' = "zero" /\ mutex' = "nsh"
  /\ taskUnchanged
  /\ UNCHANGED <<inhibited, safety, paramVars, worldVars, shouldExit>>

ZeroSend ==
  /\ nsh = "zero" /\ nsh' = "idle" /\ mutex' = "free"
  /\ taskUnchanged
  /\ UNCHANGED <<inhibited, safety, paramVars, worldVars, shouldExit>>

\* command/can_output enable|disable: no lock shared with zero/clear.
SetOutputInhibited ==
  /\ inhibited' = ~inhibited
  /\ taskUnchanged
  /\ UNCHANGED <<nsh, safety, paramVars, worldVars, mutex, shouldExit>>

\* Command publishes actuator_armed (a stopped Command publishes "safe").
PublishArmed ==
  /\ safety' \in (IF inhibited THEN {"lockdown", "safe"} ELSE {"armed", "safe"})
  /\ taskUnchanged
  /\ UNCHANGED <<nsh, inhibited, paramVars, worldVars, mutex, shouldExit>>

ParamSet ==
  /\ store' \in Profiles /\ paramNew' = TRUE
  /\ taskUnchanged
  /\ UNCHANGED <<nshVars, worldVars, mutex, shouldExit>>

\* can_output stop
RequestStop ==
  /\ ~shouldExit /\ shouldExit' = TRUE
  /\ taskUnchanged
  /\ UNCHANGED <<nshVars, paramVars, worldVars, mutex>>

\* The transmit queue fills up, the bus goes off or comes back.
LinkChange ==
  /\ link' = ~link
  /\ taskUnchanged
  /\ UNCHANGED <<nshVars, paramVars, motorOn, mutex, shouldExit>>

Others == \/ ZeroCheck \/ ZeroSend \/ SetOutputInhibited \/ PublishArmed
          \/ ParamSet \/ RequestStop \/ LinkChange

Next == Task \/ Mix \/ Others

Spec == Init /\ [][Next]_vars

-----------------------------------------------------------------------------
(* Properties                                                              *)

\* Every variable stays in its type.
TypeOK ==
  /\ store \in ProfileType /\ paramNew \in BOOLEAN
  /\ addr \in [Channels -> Address \cup {Disabled}]
  /\ func \in [Channels -> Sources \cup {Disabled}]
  /\ parametersValid \in BOOLEAN /\ reloadPending \in BOOLEAN
  /\ disablePending \in BOOLEAN /\ protocolArmed \in BOOLEAN
  /\ pc \in {"loop", "stop", "drive", "send", "reload", "retry", "retried",
             "mix", "driven", "mixed", "exited"}
  /\ ret \in {"reload", "retried", "driven", "mixed", "exited"}
  /\ cmd \in {"disable", "enable", "drive"}
  /\ idx \in 1..(N + 1) /\ ok \in BOOLEAN /\ result \in BOOLEAN
  /\ mutex \in {"free", "task", "nsh"} /\ shouldExit \in BOOLEAN
  /\ nsh \in {"idle", "zero"} /\ inhibited \in BOOLEAN
  /\ safety \in {"none", "safe", "lockdown", "armed"}
  /\ link \in BOOLEAN /\ motorOn \in SUBSET Address

\* A motor is energised only while the driver knows it owes a disable: the
\* two flags that make updateOutputs(true) skip the disable frames
\* (CanOutput.cpp:218) are both clear only when every motor is off, whatever
\* frames were lost in between.
KnowsWhatIsOn == motorOn # {} => protocolArmed \/ disablePending

\* Every energised motor is one the current configuration can still disable:
\* no reload orphans a running motor.
OnlyConfigured == motorOn \subseteq Configured

\* Output frames (CanOutput.cpp:241) are sent only when every motor with a
\* function took its enable frame.
DriveOnlyWhenAllOn ==
  pc = "send" /\ cmd = "drive" =>
    \A i \in Channels : Addressed("enable", i) => addr[i] \in motorOn

\* The set-zero frame moves the origin of the motor's encoder; no motor is
\* energised while it is sent from the NSH task (CanOutput.cpp:173-183).
ZeroOnlyWhenOff == nsh = "zero" => motorOn = {}

\* CanOutput.cpp:286: ids and protocols are switched only after the old
\* configuration was stopped, so no frame address changes under a motor that
\* is on.
ReloadOnlyWhenOff == [][addr' # addr => motorOn = {}]_vars

\* What the comments at CanOutput.cpp:76 and CanOutput.hpp:118 say of the end
\* of the task: a destructor that could write left every motor disabled.
ExitLeavesOff == pc = "exited" /\ result => motorOn = {}

-----------------------------------------------------------------------------
(* The inductive invariant behind the safety theorems (CanOutput_proof)    *)

AllOn == \A i \in Channels : Addressed("enable", i) => addr[i] \in motorOn

\* _outputMutex is held across every frame loop but the destructor's, which
\* the module lock separates from the NSH command.
Locking ==
  /\ mutex = "task" <=> pc = "send" /\ ret # "exited"
  /\ mutex = "nsh" <=> nsh = "zero"
  /\ ret = "exited" => nsh = "idle"
  /\ nsh = "zero" => ~protocolArmed /\ ~disablePending

\* Who called updateOutputs, and with which argument.
Calls ==
  /\ pc = "stop" => ret \in {"reload", "retried", "mixed"}
  /\ pc = "drive" => ret = "driven"
  /\ pc \in {"reload", "retried"} /\ result => ~protocolArmed /\ ~disablePending
  /\ pc = "send" /\ cmd = "disable" => ret # "driven"
  /\ pc = "send" /\ cmd # "disable" =>
       ret = "driven" /\ protocolArmed /\ ~disablePending

\* What the frames sent so far have achieved.
Frames ==
  pc = "send" =>
    \A j \in Channels : j < idx =>
      /\ cmd = "disable" /\ ok /\ addr[j] # Disabled => addr[j] \notin motorOn
      /\ cmd = "enable" /\ ok /\ Addressed("enable", j) => addr[j] \in motorOn

\* Between two calls an armed driver that owes nothing has every motor on.
ArmedMeansOn ==
  /\ \/ pc \in {"loop", "reload", "retry", "retried", "mix", "drive", "mixed"}
     \/ pc = "driven" /\ result
     => (protocolArmed /\ ~disablePending => AllOn)
  /\ pc = "send" /\ cmd = "drive" => AllOn

IInv == /\ TypeOK /\ KnowsWhatIsOn /\ OnlyConfigured
        /\ Locking /\ Calls /\ Frames /\ ArmedMeansOn
=============================================================================
