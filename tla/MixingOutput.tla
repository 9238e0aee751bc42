---------------------------- MODULE MixingOutput ----------------------------
(***************************************************************************)
(* MixingOutput::update (robot/output/MixingOutput.cpp), called once per   *)
(* turn of the output task: from the age of the arming permission and of   *)
(* the actuator targets it decides whether the driver does nothing, sends  *)
(* outputs or stops, and remembers what the driver answered.               *)
(*                                                                         *)
(* Timestamps are modelled by their ages in ticks.  One Update reads the   *)
(* three topics at one instant: their publishers are independent, so every *)
(* combination a slower reading could see is also published at some        *)
(* instant.                                                                *)
(***************************************************************************)
EXTENDS OutputTiming

CONSTANTS Channel, Source,   \* physical outputs; topics they may be fed from
          Disabled           \* OutputFunction::Disabled

VARIABLES
  func,        \* _functions: the source that feeds each channel
  failAction,  \* OUT_FAIL_ACT; a value outside 0..2 acts as 0
  permit,      \* the last actuator_armed: armed and not lockdown
  armAge,      \* its age
  armNew,      \* not yet read
  src,         \* the last target of each source: ok (valid, long enough,
               \* finite) and its age
  srcNew,
  stopped,     \* _stopped
  lastOutput,  \* age of _lastOutput, or NoOutput for its initial 0
  faultSince,  \* age of _dataFaultSince, or NoFault
  began,       \* age of the now this update works with
  call,        \* the driver call under way: "none", "stop" or "drive"
  outputs      \* the argument of the last call: "none" (a stop), "neutral"
               \* (all zero) or "live" (the targets)

topicVars == <<permit, armAge, armNew, src, srcNew>>
mixState == <<stopped, lastOutput, faultSince, began, call, outputs>>
vars == <<func, failAction, topicVars, mixState>>

Init ==
  /\ func \in [Channel -> Source \cup {Disabled}] /\ failAction \in 0..2
  /\ permit = FALSE /\ armAge = Stale /\ armNew = FALSE
  /\ src = [s \in Source |-> [ok |-> FALSE, age |-> Stale]]
  /\ srcNew = [s \in Source |-> FALSE]
  /\ stopped = TRUE /\ lastOutput = NoOutput
  /\ faultSince = NoFault /\ began = 0 /\ call = "none"
  /\ outputs = "none"

-----------------------------------------------------------------------------
(* update()                                                                *)

Disarmed == ~permit \/ ~Fresh(armAge)

Needed == {func[c] : c \in Channel} \ {Disabled}

\* Nothing to drive: not allowed to, or no channel has a function.
Idle == Disarmed \/ Needed = {}

DataFault == \E s \in Needed : ~src[s].ok \/ ~Fresh(src[s].age)

\* _dataFaultSince after the tests of this update.
FaultAge_NoReset(fault) ==
  IF faultSince = NoFault THEN (IF fault THEN 0 ELSE NoFault) ELSE faultSince
FaultAge_Restarts(fault) == IF fault THEN 0 ELSE NoFault
FaultAge(fault) == IF ~fault THEN NoFault
                   ELSE IF faultSince = NoFault THEN 0 ELSE faultSince

FaultStops == /\ DataFault
              /\ \/ failAction = 0
                 \/ failAction = 2 /\ FaultAge(DataFault) >= NeutralBeforeDisable

AnyNew == armNew \/ \E s \in Source : srcNew[s]

\* What an update does: the three early returns, and the two driver calls.
Decision ==
  IF Idle
    THEN IF stopped /\ ~armNew /\ lastOutput < OutputPeriod THEN "none" ELSE "stop"
  ELSE IF FaultStops THEN "stop"
  ELSE IF ~AnyNew /\ ~stopped /\ lastOutput < OutputPeriod THEN "none" ELSE "drive"

Update ==
  /\ call = "none" /\ call' = Decision
  /\ outputs' = CASE Decision = "stop"  -> "none"
                  [] Decision = "drive" -> IF DataFault THEN "neutral" ELSE "live"
                  [] OTHER -> outputs
  /\ faultSince' = FaultAge(~Idle /\ DataFault)
  /\ began' = 0
  /\ armNew' = FALSE /\ srcNew' = [s \in Source |-> FALSE]
  /\ UNCHANGED <<func, failAction, permit, armAge, src, stopped, lastOutput>>

\* stopOutputs(): what the driver answered is remembered as it is.
StopReturn_Assumes(b) ==
  /\ call = "stop" /\ call' = "none"
  /\ stopped' = TRUE /\ lastOutput' = began
  /\ UNCHANGED <<func, failAction, topicVars, faultSince, began, outputs>>
StopReturn(b) ==
  /\ call = "stop" /\ call' = "none"
  /\ stopped' = b /\ lastOutput' = began
  /\ UNCHANGED <<func, failAction, topicVars, faultSince, began, outputs>>

\* An output call that failed is answered by a stop.
DriveReturn_NoStop(b) ==
  /\ call = "drive" /\ call' = "none"
  /\ stopped' = FALSE /\ lastOutput' = began
  /\ UNCHANGED <<func, failAction, topicVars, faultSince, began, outputs>>
DriveReturn(b) ==
  /\ call = "drive"
  /\ IF b THEN call' = "none" /\ stopped' = FALSE /\ lastOutput' = began
          ELSE call' = "stop" /\ UNCHANGED <<stopped, lastOutput>>
  /\ outputs' = IF b THEN outputs ELSE "none"
  /\ UNCHANGED <<func, failAction, topicVars, faultSince, began>>

-----------------------------------------------------------------------------
(* The publishers, the parameters and the clock                            *)

Publish(s) ==
  /\ \E b \in BOOLEAN : src' = [src EXCEPT ![s] = [ok |-> b, age |-> 0]]
  /\ srcNew' = [srcNew EXCEPT ![s] = TRUE]
  /\ UNCHANGED <<func, failAction, permit, armAge, armNew, mixState>>

Arm ==
  /\ permit' \in BOOLEAN /\ armAge' = 0 /\ armNew' = TRUE
  /\ UNCHANGED <<func, failAction, src, srcNew, mixState>>

Tick ==
  /\ armAge' = Older(armAge, Stale)
  /\ src' = [s \in Source |-> [src[s] EXCEPT !.age = Older(@, Stale)]]
  /\ lastOutput' = Older(lastOutput, OutputPeriod)
  /\ faultSince' = IF faultSince = NoFault THEN NoFault
                   ELSE Older(faultSince, NeutralBeforeDisable)
  /\ began' = Older(began, OutputPeriod)
  /\ UNCHANGED <<func, failAction, permit, armNew, srcNew, stopped, call,
                 outputs>>

\* updateParamsImpl() runs in the output task, between two updates.
SetParams ==
  /\ call = "none"
  /\ func' \in [Channel -> Source \cup {Disabled}] /\ failAction' \in 0..2
  /\ UNCHANGED <<topicVars, mixState>>

\* On its own: the driver may answer anything.
DriverReturn == \E b \in BOOLEAN : StopReturn(b) \/ DriveReturn(b)

Others == Arm \/ SetParams \/ \E s \in Source : Publish(s)

Next == Update \/ DriverReturn \/ Tick \/ Others

Spec == Init /\ [][Next]_vars

\* The loop turns at least once per tick: it sleeps 5 ms where a tick stands
\* for the 20 ms of the output period or more, and its calls are bounded.
PacedTick == began = 0 /\ Tick

PacedSpec == Init /\ [][Update \/ DriverReturn \/ PacedTick \/ Others]_vars

-----------------------------------------------------------------------------
(* Properties                                                              *)

\* Every variable stays in its type, and no age passes its limit.
TypeOK ==
  /\ func \in [Channel -> Source \cup {Disabled}] /\ failAction \in 0..2
  /\ permit \in BOOLEAN /\ armAge \in 0..Stale /\ armNew \in BOOLEAN
  /\ src \in [Source -> [ok : BOOLEAN, age : 0..Stale]]
  /\ srcNew \in [Source -> BOOLEAN]
  /\ stopped \in BOOLEAN /\ lastOutput \in 0..NoOutput
  /\ faultSince \in {NoFault} \cup 0..NeutralBeforeDisable
  /\ began \in 0..OutputPeriod /\ call \in {"none", "stop", "drive"}
  /\ outputs \in {"none", "neutral", "live"}

\* The inductive strengthening of NeutralBeforeStop: while the last outputs
\* were live, a fault is younger than they are, and they are younger than the
\* output period at the last update.
FaultYoungerThanLive ==
  outputs = "live" /\ faultSince # NoFault =>
    /\ call = "none" /\ ~stopped
    /\ faultSince <= lastOutput /\ lastOutput # NoOutput
    /\ began = 0 => lastOutput < OutputPeriod

\* With OUT_FAIL_ACT 2 a motor that is being driven is told to stand still
\* before a data fault takes its enable away: the drive is never cut straight
\* from a live target (MixingOutput.cpp:170-180).
NeutralBeforeStop ==
  [][Update /\ call' = "stop" /\ ~Idle /\ failAction = 2 => outputs # "live"]_vars
=============================================================================
