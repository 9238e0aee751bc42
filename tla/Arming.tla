------------------------------- MODULE Arming -------------------------------
(***************************************************************************)
(* From the control messages to actuator_armed: the module Command with    *)
(* its interlock ArmSafety, the NSH inhibit, and the parameter CA_ARM_SW   *)
(* that selects the safety switch.  The messages are those ManualControl   *)
(* promises.                                                               *)
(*                                                                         *)
(* Command runs on the work queue of RcUpdate, so their Run() never        *)
(* overlap: one Run() reads the latest messages and the current parameter  *)
(* and publishes, in one action.                                           *)
(***************************************************************************)
EXTENDS ManualControl

CONSTANTS Fresh,     \* Command::fresh, in ticks
          NoSwitch   \* a CA_ARM_SW outside 1..SWITCH_COUNT

ASSUME ArmingAssumption ==
  Fresh \in Nat /\ Fresh <= Timeout /\ NoSwitch \notin Switch

VARIABLES
  param,        \* CA_ARM_SW
  inhibited,    \* Command::_outputInhibited
  cmd,          \* Command: "off", "on", or after a stop that timed out "stuck"
                \* in its last Run() and then "halted"
  armSwitch,    \* _armSwitch
  safety,       \* ArmSafety::_state
  published,    \* the topic actuator_armed
  offSeen       \* a frame with OFF since Command was told to ask for it

commandVars == <<cmd, armSwitch, safety, published>>
armingVars == <<controlVars, param, inhibited, commandVars, offSeen>>

Choice == Switch \cup {NoSwitch}
Disarmed == [armed |-> FALSE, valid |-> FALSE, lockdown |-> FALSE]

ArmingInit ==
  /\ ControlInit
  /\ param \in Choice /\ inhibited = FALSE /\ cmd = "off"
  /\ armSwitch = param /\ safety = "wait" /\ published = Disarmed
  /\ offSeen = FALSE

-----------------------------------------------------------------------------
(* ArmSafety, Command                                                      *)

\* ArmSafety::update; its result is whether the new state is "armed".
Advance_KeepsArmed(s, valid, position) ==
  IF ~valid \/ s = "armed" THEN s
  ELSE IF s = "wait" THEN IF position = "off" THEN "ready" ELSE "wait"
  ELSE IF position = "on" THEN "armed" ELSE "ready"
Advance(s, valid, position) ==
  IF ~valid THEN s
  ELSE IF s = "wait" THEN IF position = "off" THEN "ready" ELSE "wait"
  ELSE IF position = "on" THEN "armed" ELSE "ready"

\* switchPosition finds a valid, fresh sample of switch k.
Readable(k) == k \in Switch /\ controls.valid /\ controlsAge <= Fresh

\* An OFF frame that a Command reset now may still use.
RecentOff(k) == k \in Switch /\ offAge[k] <= Fresh

\* Command::update: a changed CA_ARM_SW resets the interlock.
Interlock_KeepsState == safety
Interlock == IF armSwitch = param THEN safety ELSE "wait"
NextSafety == Advance(Interlock, Readable(param),
                      IF Readable(param) THEN controls.at[param] ELSE "middle")

Message_EnableArms(s) ==
  [armed |-> ~inhibited /\ (s = "armed" \/ (published.lockdown /\ s = "ready")),
   valid |-> Readable(param), lockdown |-> inhibited]
Message_LatchedInhibit(s) ==
  [armed |-> s = "armed" /\ ~inhibited /\ ~published.lockdown,
   valid |-> Readable(param), lockdown |-> inhibited \/ published.lockdown]
Message(s) == [armed |-> s = "armed" /\ ~inhibited, valid |-> Readable(param),
               lockdown |-> inhibited]

CommandRun ==
  /\ cmd \in {"on", "stuck"} /\ cmd' = (IF cmd = "on" THEN "on" ELSE "halted")
  /\ armSwitch' = param /\ safety' = NextSafety
  /\ published' = Message(safety')
  /\ offSeen' = (IF armSwitch = param THEN offSeen ELSE RecentOff(param))
  /\ UNCHANGED <<controlVars, param, inhibited>>

\* A new object; the topic keeps its last message until the first Run().
CommandStart ==
  /\ cmd = "off" /\ cmd' = "on"
  /\ armSwitch' = param /\ safety' = "wait"
  /\ offSeen' = RecentOff(param)
  /\ UNCHANGED <<controlVars, param, inhibited, published>>

\* stop_work_queue: onWorkQueueStopped publishes a disarmed message ...
CommandStop ==
  /\ cmd \in {"on", "halted"} /\ cmd' = "off"
  /\ published' = Disarmed
  /\ UNCHANGED <<controlVars, param, inhibited, armSwitch, safety, offSeen>>

\* ... unless Detach times out, because a Run() has not ended: then nothing is
\* published but by that Run(), and the stop may be repeated after it.
CommandStuck ==
  /\ cmd = "on" /\ cmd' = "stuck"
  /\ UNCHANGED <<controlVars, param, inhibited, armSwitch, safety, published,
                 offSeen>>

\* NSH: command enable | disable.
Inhibit ==
  /\ inhibited' = ~inhibited
  /\ UNCHANGED <<controlVars, param, commandVars, offSeen>>

\* NSH: param set CA_ARM_SW.
SelectSwitch ==
  /\ \E k \in Choice \ {param} : param' = k
  /\ UNCHANGED <<controlVars, inhibited, commandVars, offSeen>>

-----------------------------------------------------------------------------
(* The messages, and the operator's switches                               *)

\* offSeen notes an OFF of the switch in use.
See(at) ==
  /\ Show(at) /\ UNCHANGED <<controls, controlsAge>>
  /\ offSeen' = (offSeen \/ (armSwitch \in Switch /\ at[armSwitch] = "off"))
  /\ UNCHANGED <<param, inhibited, commandVars>>

Link == (Publish \/ Age) /\ UNCHANGED <<param, inhibited, commandVars, offSeen>>

Command == \/ CommandRun \/ CommandStart \/ CommandStop \/ CommandStuck
           \/ Inhibit \/ SelectSwitch

ArmingNext == Command \/ Link \/ \E at \in [Switch -> Position] : See(at)

\* The 20 ms period of Command makes its Run() come again and again, and within
\* the 500 ms for which a message is fresh.
ArmingFairness == /\ WF_armingVars(cmd = "on" /\ CommandRun)
                  /\ SF_armingVars(cmd = "on" /\ Readable(param) /\ CommandRun)

ArmingSpec == ArmingInit /\ [][ArmingNext]_armingVars /\ ArmingFairness

-----------------------------------------------------------------------------
(* Properties                                                              *)

\* Every variable stays in its type.
ArmingTypeOK ==
  /\ controls \in [valid : BOOLEAN, at : [Switch -> Position]]
  /\ controlsAge \in Ages
  /\ param \in Choice /\ armSwitch \in Choice /\ inhibited \in BOOLEAN
  /\ cmd \in {"off", "on", "stuck", "halted"} /\ safety \in {"wait", "ready", "armed"}
  /\ published \in [armed : BOOLEAN, valid : BOOLEAN, lockdown : BOOLEAN]
  /\ offSeen \in BOOLEAN
  /\ offAge \in [Switch -> Ages] /\ onAge \in [Switch -> Ages]

\* The outputs are armed only if the operator had the switch in use at OFF
\* after Command started or CA_ARM_SW last changed (or within the freshness
\* limit before it): no loss, restart of the other modules, stale message or
\* inhibit command gets round the interlock
\* (docs/step6-damiao-motor-framework.md:70-72).
ArmedAfterOff == published.armed => offSeen

\* The outputs become armed only on a good frame with ON no older than the
\* limit, or when an inhibit ends that held back an interlock armed before, of
\* the same switch: `command enable` alone does not get round the interlock
\* ("RC safety still required", Command.cpp:57).
ArmedByOn ==
  [][~published.armed /\ published'.armed
       => \/ (armSwitch' \in Switch /\ onAge[armSwitch'] <= Fresh)
          \/ (published.lockdown /\ safety = "armed" /\ armSwitch' = armSwitch)
     ]_armingVars

\* Once the outputs stay inhibited, or the messages go on coming and never show
\* the switch at ON any more, the outputs become and stay disarmed, whatever
\* CA_ARM_SW and the inhibit do meanwhile.
SwitchDisarms ==
  /\ <>[](cmd = "on")
  /\ \/ <>[]inhibited
     \/ []<>Readable(param) /\ <>[](Readable(param) => controls.at[param] # "on")
  => <>[]~published.armed

\* Once the interlock is passed and the messages go on coming and show ON, the
\* outputs become and stay armed.
SwitchArms ==
  /\ <>[](/\ cmd = "on" /\ ~inhibited /\ safety # "wait"
          /\ Readable(param) => controls.at[param] = "on")
  /\ []<>Readable(param)
  => <>[]published.armed

-----------------------------------------------------------------------------
(* The inductive invariant behind ArmedAfterOff                            *)

\* A valid message tells what the operator showed.
ControlsShown == controls.valid => Shown(controls.at, controlsAge)

\* An OFF that the interlock still may read, or has read, was seen.
OffCounts ==
  /\ cmd # "off" /\ RecentOff(armSwitch) => offSeen
  /\ cmd # "off" /\ safety # "wait" => offSeen
  /\ published.armed => cmd # "off"

\* An armed interlock was published, unless the inhibit holds it back.
ArmedTold ==
  cmd # "off" /\ safety = "armed" => published.armed \/ published.lockdown

ArmingInv == /\ ArmingTypeOK /\ ControlsShown /\ OffCounts /\ ArmedAfterOff
             /\ ArmedTold
=============================================================================
