---------------------------- MODULE TargetChain ----------------------------
(***************************************************************************)
(* From the sticks to the actuator targets: the modules Failsafe,          *)
(* RobotControl and ControlAllocator, which share the control queue, with  *)
(* their starts and stops.                                                 *)
(*                                                                         *)
(* Their Run()s never overlap, but RcUpdate runs on the safety queue and   *)
(* may publish while one of them executes.  That matters to RobotControl,  *)
(* which notes its now before it reads the messages: its Run() is          *)
(* ControlBegin and ControlRun, the others are one action.  Each module    *)
(* reads the latest message of every topic it subscribes to at the start   *)
(* of its Run(), so that its own copies equal the topics when it uses      *)
(* them.                                                                   *)
(*                                                                         *)
(* A target is known by where it comes from: the stick of the operator, or *)
(* a value of the failsafe policy.  Steering follows the same path as      *)
(* speed with parameters of its own; one of the two is modelled.  Times    *)
(* are ages in ticks, saturating one past the limit they are held against. *)
(***************************************************************************)
EXTENDS Integers

CONSTANTS Timeouts,        \* legal values of FS_RC_TMO
          MaxTimeout,      \* the longest of them, 10 s
          Actions,         \* FS_MOT_ACT: "hold", "zero" (or illegal), "fixed"
          StatusLimit,     \* FailsafeStatusTimeoutUs
          SetpointLimit,   \* 500 ms of ControlAllocator
          TargetLimit      \* TopicTimeoutUs of MixingOutput

ASSUME TargetAssumption ==
  /\ Timeouts \subseteq Nat /\ MaxTimeout \in Timeouts
  /\ \A t \in Timeouts : t <= MaxTimeout
  /\ Actions \subseteq {"hold", "zero", "fixed"}
  /\ StatusLimit \in Nat /\ SetpointLimit \in Nat /\ TargetLimit \in Nat

VARIABLES
  manual,                  \* valid of manual_control_setpoint
  manualAge,               \* age of its timestampSample
  goodAge,                 \* age of the newest valid sample ever published
  action,                  \* FS_MOT_ACT
  model,                   \* CA_AIRFRAME is the model the allocator was
                           \* created with, its matrix and products are finite
  state,                   \* of each module: "off", "on" or "stopping"
  running,                 \* Run() of RobotControl executes
  late,                    \* manual is later than the now it noted
  lost, lostAge,           \* failsafe_status: active, and its age
  haveValid,               \* RobotControl::_haveValidInput
  setpoint, setpointAge,   \* robot_control_setpoint
  targets, targetsAge      \* actuator_motors

inputVars == <<manual, manualAge, goodAge>>
paramVars == <<action, model>>
runVars == <<running, late>>
statusVars == <<lost, lostAge>>
setpointVars == <<haveValid, setpoint, setpointAge>>
targetVars == <<targets, targetsAge>>
vars == <<inputVars, paramVars, state, runVars, statusVars, setpointVars,
          targetVars>>

Module == {"failsafe", "control", "allocator"}
NoTarget == [valid |-> FALSE, from |-> "zero"]

\* The oldest sample a target that is still used may rest on.
Reach == MaxTimeout + StatusLimit + SetpointLimit + TargetLimit

Init ==
  /\ manual = FALSE /\ manualAge = MaxTimeout + 1 /\ goodAge = Reach + 1
  /\ action \in Actions /\ model \in BOOLEAN
  /\ state = [m \in Module |-> "off"] /\ running = FALSE /\ late = FALSE
  /\ lost = TRUE /\ lostAge = StatusLimit + 1
  /\ haveValid = FALSE
  /\ setpoint = NoTarget /\ setpointAge = SetpointLimit + 1
  /\ targets = NoTarget /\ targetsAge = TargetLimit + 1

-----------------------------------------------------------------------------
(* Run() of the modules                                                    *)

\* FS_RC_TMO may change before every Run(), and an illegal value leaves the
\* last legal one in force: any of Timeouts.
Lost(timeout) == ~manual \/ manualAge > timeout

FailsafeRun ==
  /\ state["failsafe"] = "on" /\ ~running
  /\ \E timeout \in Timeouts : lost' = Lost(timeout)
  /\ lostAge' = 0
  /\ UNCHANGED <<inputVars, paramVars, state, runVars, setpointVars, targetVars>>

ControlBegin ==
  /\ state["control"] = "on" /\ ~running /\ running' = TRUE
  /\ UNCHANGED <<inputVars, paramVars, state, late, statusVars, setpointVars,
                 targetVars>>

\* A status that went silent counts as active.
FailsafeActive_Trusts == lost
FailsafeActive == lost \/ lostAge > StatusLimit

\* applyAction; without failsafe, the last valid sample.
Source_Latches ==
  IF FailsafeActive \/ setpoint.from # "stick" THEN action ELSE "stick"
Source == IF FailsafeActive THEN action ELSE "stick"

\* A sample later than now is not accepted by this Run().
ControlRun ==
  /\ running /\ running' = FALSE /\ late' = FALSE
  /\ haveValid' = (haveValid \/ (manual /\ ~late))
  /\ setpoint' = IF haveValid' THEN [valid |-> TRUE, from |-> Source]
                               ELSE NoTarget
  /\ setpointAge' = 0
  /\ UNCHANGED <<inputVars, paramVars, state, statusVars, targetVars>>

Usable_NotInFailsafe ==
  setpoint.valid /\ setpointAge <= SetpointLimit /\ model /\ ~lost
Usable == setpoint.valid /\ setpointAge <= SetpointLimit /\ model

\* Motors and servos are two topics, published one after the other.
AllocatorRun ==
  /\ state["allocator"] = "on" /\ ~running
  /\ targets' = (IF Usable THEN setpoint ELSE NoTarget) /\ targetsAge' = 0
  /\ UNCHANGED <<inputVars, paramVars, state, runVars, statusVars, setpointVars>>

-----------------------------------------------------------------------------
(* Start and stop                                                          *)

\* A new object.
Start(m) ==
  /\ state[m] = "off" /\ state' = [state EXCEPT ![m] = "on"]
  /\ haveValid' = (m # "control" /\ haveValid)
  /\ UNCHANGED <<inputVars, paramVars, runVars, statusVars, setpoint,
                 setpointAge, targetVars>>

\* Callbacks and item are disabled; a Run() that executes goes on.
StopBegin(m) ==
  /\ state[m] = "on" /\ state' = [state EXCEPT ![m] = "stopping"]
  /\ UNCHANGED <<inputVars, paramVars, runVars, statusVars, setpointVars,
                 targetVars>>

\* After the last Run(), and after a repeated stop if the first timed out, the
\* module publishes its safe message and is deleted.
StopEnd(m) ==
  /\ state[m] = "stopping" /\ state' = [state EXCEPT ![m] = "off"]
  /\ m = "control" => ~running
  /\ IF m = "failsafe" THEN lost' = TRUE /\ lostAge' = 0
                       ELSE UNCHANGED statusVars
  /\ IF m = "control" THEN setpoint' = NoTarget /\ setpointAge' = 0
                      ELSE UNCHANGED <<setpoint, setpointAge>>
  /\ IF m = "allocator" THEN targets' = NoTarget /\ targetsAge' = 0
                        ELSE UNCHANGED targetVars
  /\ UNCHANGED <<inputVars, paramVars, runVars, haveValid>>

-----------------------------------------------------------------------------
(* RcUpdate, the operator, time                                            *)

Nearer(a, b) == IF a < b THEN a ELSE b

\* Any message, at any time; a sample of just now may be later than the now
\* RobotControl noted before it was interrupted.  Nobody reads the age of an
\* invalid message.
Publish(valid, age) ==
  /\ valid \/ age = MaxTimeout + 1
  /\ manual' = valid /\ manualAge' = age
  /\ goodAge' = IF valid THEN Nearer(age, goodAge) ELSE goodAge
  /\ late' \in IF running /\ age = 0 THEN BOOLEAN ELSE {FALSE}
  /\ UNCHANGED <<paramVars, state, running, statusVars, setpointVars, targetVars>>

ParamSet ==
  /\ \/ action' \in Actions /\ UNCHANGED model
     \/ model' = ~model /\ UNCHANGED action
  /\ UNCHANGED <<inputVars, state, runVars, statusVars, setpointVars, targetVars>>

Older(a, limit) == IF a <= limit THEN a + 1 ELSE a

\* A Run() takes less than a tick; between two of them the queue may stall.
Tick ==
  /\ ~running
  /\ manualAge' = Older(manualAge, MaxTimeout)
  /\ goodAge' = Older(goodAge, Reach)
  /\ lostAge' = Older(lostAge, StatusLimit)
  /\ setpointAge' = Older(setpointAge, SetpointLimit)
  /\ targetsAge' = Older(targetsAge, TargetLimit)
  /\ UNCHANGED <<manual, paramVars, state, runVars, lost, haveValid, setpoint,
                 targets>>

Next == \/ FailsafeRun \/ ControlBegin \/ ControlRun \/ AllocatorRun
        \/ \E m \in Module : Start(m) \/ StopBegin(m) \/ StopEnd(m)
        \/ \E valid \in BOOLEAN, age \in 0..MaxTimeout + 1 : Publish(valid, age)
        \/ ParamSet \/ Tick

\* Every module has a period of 20 ms and the control queue is above the console
\* and robot_core; its worker starves none of its items (WorkQueue, PeriodicRuns),
\* although each waits for the Run() of another.
Fairness == /\ SF_vars(FailsafeRun) /\ SF_vars(AllocatorRun)
            /\ WF_vars(ControlBegin) /\ WF_vars(ControlRun)
            /\ SF_vars(Tick)

Spec == Init /\ [][Next]_vars /\ Fairness

-----------------------------------------------------------------------------
(* Properties                                                              *)

Target == [valid : BOOLEAN, from : {"stick", "zero"} \cup Actions]

\* Every variable stays in its type, and no age passes its limit by more than
\* one.
TypeOK ==
  /\ manual \in BOOLEAN /\ manualAge \in 0..MaxTimeout + 1
  /\ goodAge \in 0..Reach + 1
  /\ action \in Actions /\ model \in BOOLEAN
  /\ state \in [Module -> {"off", "on", "stopping"}]
  /\ running \in BOOLEAN /\ late \in BOOLEAN
  /\ lost \in BOOLEAN /\ lostAge \in 0..StatusLimit + 1
  /\ haveValid \in BOOLEAN
  /\ setpoint \in Target /\ setpointAge \in 0..SetpointLimit + 1
  /\ targets \in Target /\ targetsAge \in 0..TargetLimit + 1

\* Targets that MixingOutput still accepts follow the stick only if the link
\* delivered a valid sample no longer ago than the limits of the three modules
\* and of MixingOutput add up to, whichever of them stalls, stops or restarts
\* (Failsafe.cpp:80, RobotControl.cpp:112, ControlAllocator.cpp:131).
LinkAlive ==
  targets.valid /\ targets.from = "stick" /\ targetsAge <= TargetLimit
    => goodAge <= Reach

AllOn == \A m \in Module : state[m] = "on"

\* Every module ran since the last tick.
Ran == lostAge = 0 /\ setpointAge = 0 /\ targetsAge = 0
Paced == <>[][Tick => Ran]_vars

\* A lost link does not cut the targets: RobotControl goes on producing those of
\* the failsafe policy (robot/modules/README.md:12).
LossFollowsPolicy ==
  /\ Paced /\ <>[](AllOn /\ model /\ haveValid)
  /\ <>[](~manual \/ manualAge > MaxTimeout)
  /\ <>[][UNCHANGED action]_vars
  => <>[](targets.valid /\ targets.from = action)

\* When valid samples come again, the stick drives again, whatever happened.
StickDrives ==
  /\ Paced /\ <>[](AllOn /\ model /\ haveValid)
  /\ <>[](manual /\ \A t \in Timeouts : manualAge <= t)
  => <>[](targets.valid /\ targets.from = "stick")

-----------------------------------------------------------------------------
(* The inductive invariant behind LinkAlive                                *)

\* The age of the newest valid sample, seen from each message of the chain.
ManualGood == manual => manualAge > MaxTimeout \/ goodAge <= manualAge
StatusGood == ~lost => lostAge > StatusLimit \/ goodAge <= MaxTimeout + lostAge
SetpointGood ==
  setpoint.valid /\ setpoint.from = "stick" =>
    \/ setpointAge > SetpointLimit
    \/ goodAge <= MaxTimeout + StatusLimit + setpointAge
TargetsGood ==
  targets.valid /\ targets.from = "stick" =>
    \/ targetsAge > TargetLimit
    \/ goodAge <= MaxTimeout + StatusLimit + SetpointLimit + targetsAge

IInv == TypeOK /\ ManualGood /\ StatusGood /\ SetpointGood /\ TargetsGood
=============================================================================
