------------------------------- MODULE RcLink -------------------------------
(***************************************************************************)
(* The remote-control link: SbusInput turns receiver frames into input_rc  *)
(* and reports a lost signal once; RcUpdate turns input_rc into the manual *)
(* control and switch messages, marks them valid, and reports an input_rc  *)
(* that went silent.  Both run on their own and may be stopped, restarted  *)
(* and find the other gone: a topic keeps its last message.                *)
(*                                                                         *)
(* Times are ages in ticks, saturating at Old, the first age past the time *)
(* limit of 500 ms.  A message has 16 channels or, if SbusInput never saw  *)
(* a frame, none.  manual_control_setpoint and manual_control_switches are *)
(* published by one Run() with the same valid flag and sample time, and    *)
(* read by a module of the same work queue: they are one message here.     *)
(***************************************************************************)
EXTENDS ManualControl

VARIABLES
  sbus,             \* SbusInput runs
  signalAge,        \* of _lastSignalTimestamp
  lossPublished, everConnected,
  input, inputAge,  \* the topic input_rc; age of its timestampLastSignal
  unread,           \* RcUpdate has not read it
  rc,               \* RcUpdate: "off", "on", or after a stop that timed out
                    \* "stuck" in its last Run() and then "halted"
  stable,           \* _stableFrameCount
  previousFull,     \* _previousChannelCount is 16
  silence,          \* age of _lastInputTimestamp
  timeoutPublished,
  calibrated        \* RcConfig::valid() of the current parameters

sbusVars == <<sbus, signalAge, lossPublished, everConnected>>
inputVars == <<input, inputAge, unread>>
rcVars == <<rc, stable, previousFull, silence, timeoutPublished>>
sightVars == <<offAge, onAge>>
linkVars == <<sbusVars, inputVars, rcVars, calibrated, controlVars>>

NoInput == [full |-> FALSE, lost |-> FALSE, failsafe |-> FALSE, at |-> Anywhere]

LinkInit ==
  /\ sbus = FALSE /\ signalAge = 0 /\ lossPublished = FALSE
  /\ everConnected = FALSE
  /\ input = NoInput /\ inputAge = Old /\ unread = FALSE
  /\ rc = "off" /\ stable = 0 /\ previousFull = FALSE /\ silence = 0
  /\ timeoutPublished = FALSE /\ calibrated \in BOOLEAN
  /\ ControlInit

\* A Run() may come, or is under way; one that kept a stop waiting is the last.
Runs == rc \in {"on", "stuck"}
AfterRun == IF rc = "stuck" THEN "halted" ELSE rc

-----------------------------------------------------------------------------
(* SbusInput                                                               *)

SbusStart ==
  /\ ~sbus /\ sbus' = TRUE
  /\ signalAge' = 0 /\ lossPublished' = FALSE /\ everConnected' = FALSE
  /\ UNCHANGED <<inputVars, rcVars, calibrated, controlVars>>

\* Nothing is published on the way out.
SbusStop ==
  /\ sbus /\ sbus' = FALSE
  /\ UNCHANGED <<signalAge, lossPublished, everConnected, inputVars,
                 rcVars, calibrated, controlVars>>

\* A complete frame arrives; the receiver may flag that it lost the sender.
Frame(at, failsafe) ==
  /\ sbus
  /\ signalAge' = 0 /\ lossPublished' = FALSE /\ everConnected' = TRUE
  /\ input' = [full |-> TRUE, lost |-> FALSE, failsafe |-> failsafe, at |-> at]
  /\ inputAge' = 0 /\ unread' = Runs
  /\ IF failsafe THEN UNCHANGED sightVars ELSE Show(at)
  /\ UNCHANGED <<sbus, rcVars, calibrated, controls, controlsAge>>

GoodFrame == \E at \in [Switch -> Position] : Frame(at, FALSE)
FailsafeFrame == \E at \in [Switch -> Position] : Frame(at, TRUE)

\* No frame for too long: _lastMessage is published again, once, as lost.
Loss ==
  /\ sbus /\ signalAge = Old /\ ~lossPublished
  /\ lossPublished' = TRUE
  /\ input' = [(IF everConnected THEN input ELSE NoInput) EXCEPT !.lost = TRUE]
  /\ inputAge' = (IF everConnected THEN inputAge ELSE Old)
  /\ unread' = Runs
  /\ UNCHANGED <<sbus, signalAge, everConnected, rcVars, calibrated,
                 controlVars>>

-----------------------------------------------------------------------------
(* RcUpdate                                                                *)

\* A new object: its subscription finds what the topic still holds.
RcStart ==
  /\ rc = "off" /\ rc' = "on"
  /\ stable' = 0 /\ previousFull' = FALSE /\ silence' = 0
  /\ timeoutPublished' = FALSE
  /\ unread' = (input # NoInput)
  /\ UNCHANGED <<sbusVars, input, inputAge, calibrated, controlVars>>

\* stop_work_queue: onWorkQueueStopped publishes invalid messages ...
RcStop ==
  /\ rc \in {"on", "halted"} /\ rc' = "off" /\ unread' = FALSE
  /\ controls' = NoControls /\ controlsAge' = Old
  /\ UNCHANGED <<sbusVars, input, inputAge, stable, previousFull, silence,
                 timeoutPublished, calibrated, sightVars>>

\* ... unless Detach times out, because a Run() has not ended (it waits for
\* _stateMutex, before it reads): then nothing is published but by that Run(),
\* and the stop may be repeated after it.
RcStuck ==
  /\ rc = "on" /\ rc' = "stuck"
  /\ UNCHANGED <<sbusVars, inputVars, stable, previousFull, silence,
                 timeoutPublished, calibrated, controlVars>>

\* processInput: count stable frames, publish.
Steady == IF input.full /\ previousFull
            THEN IF stable < 3 THEN stable + 1 ELSE 3
            ELSE 0

Acceptable_ExactCount(steady) ==
  input.full /\ ~input.lost /\ ~input.failsafe /\ calibrated /\ steady = 2
Acceptable(steady) ==
  input.full /\ ~input.lost /\ ~input.failsafe /\ calibrated /\ steady >= 2

\* The messages carry the sample time of the frame, not their own.
SampleAge_Restamped == 0
SampleAge == inputAge

RcProcess ==
  /\ Runs /\ unread /\ rc' = AfterRun /\ unread' = FALSE
  /\ silence' = 0 /\ timeoutPublished' = FALSE
  /\ stable' = Steady /\ previousFull' = input.full
  /\ controls' = [valid |-> Acceptable(Steady), at |-> input.at]
  /\ controlsAge' = SampleAge
  /\ UNCHANGED <<sbusVars, input, inputAge, calibrated, sightVars>>

\* publishTimeoutIfNeeded: no input_rc for too long.
Due == silence = Old /\ ~timeoutPublished
RcTimeout_OnlyWhenLost ==
  /\ Runs /\ ~unread /\ Due /\ input.lost /\ rc' = AfterRun
  /\ timeoutPublished' = TRUE /\ stable' = 0
  /\ controls' = NoControls /\ controlsAge' = Old
  /\ UNCHANGED <<sbusVars, inputVars, previousFull, silence, calibrated,
                 sightVars>>
RcTimeout ==
  /\ Runs /\ ~unread /\ Due /\ rc' = AfterRun
  /\ timeoutPublished' = TRUE /\ stable' = 0
  /\ controls' = NoControls /\ controlsAge' = Old
  /\ UNCHANGED <<sbusVars, inputVars, previousFull, silence, calibrated,
                 sightVars>>

\* The last Run() finds nothing to do.
RcRunEnds ==
  /\ rc = "stuck" /\ ~unread /\ ~Due /\ rc' = AfterRun
  /\ UNCHANGED <<sbusVars, inputVars, stable, previousFull, silence,
                 timeoutPublished, calibrated, controlVars>>

\* A calibration or mapping parameter is set.
Calibrate ==
  /\ calibrated' = ~calibrated
  /\ UNCHANGED <<sbusVars, inputVars, rcVars, controlVars>>

LinkTick ==
  /\ signalAge' = Older(signalAge) /\ inputAge' = Older(inputAge)
  /\ silence' = Older(silence) /\ Age
  /\ UNCHANGED <<sbus, lossPublished, everConnected, input, unread, rc,
                 stable, previousFull, timeoutPublished, calibrated>>

LinkNext == \/ SbusStart \/ SbusStop \/ GoodFrame \/ FailsafeFrame \/ Loss
            \/ RcStart \/ RcStop \/ RcStuck
            \/ RcProcess \/ RcTimeout \/ RcRunEnds
            \/ Calibrate \/ LinkTick

\* The SBUS task and the safety queue are the two highest priorities of the
\* application, both woken by timers.  Frames and commands may never come, and a
\* Run() that kept a stop waiting may never end.
LinkFairness == /\ WF_linkVars(Loss) /\ WF_linkVars(LinkTick)
                /\ WF_linkVars(rc = "on" /\ RcProcess)
                /\ WF_linkVars(rc = "on" /\ RcTimeout)

LinkSpec == LinkInit /\ [][LinkNext]_linkVars /\ LinkFairness

-----------------------------------------------------------------------------
(* Properties                                                              *)

Good(m) == m.full /\ ~m.lost /\ ~m.failsafe

\* Every variable stays in its type.
LinkTypeOK ==
  /\ sbus \in BOOLEAN /\ lossPublished \in BOOLEAN /\ everConnected \in BOOLEAN
  /\ input \in [full : BOOLEAN, lost : BOOLEAN, failsafe : BOOLEAN,
                at : [Switch -> Position]]
  /\ unread \in BOOLEAN /\ previousFull \in BOOLEAN
  /\ rc \in {"off", "on", "stuck", "halted"}
  /\ stable \in 0..3 /\ timeoutPublished \in BOOLEAN /\ calibrated \in BOOLEAN
  /\ controls \in [valid : BOOLEAN, at : [Switch -> Position]]
  /\ signalAge \in Ages /\ inputAge \in Ages /\ silence \in Ages
  /\ controlsAge \in Ages
  /\ offAge \in [Switch -> Ages] /\ onAge \in [Switch -> Ages]

\* The messages keep the promise their readers rely on: whatever sequence of
\* frames, losses, failsafe frames, restarts and timeouts, nothing valid tells
\* a switch position older than its sample time says.
KeepsPromise == ControlSpec

\* When good frames stop, for whatever reason (the transmitter is off, the
\* receiver sends failsafe frames, SbusInput stopped or restarted), the
\* controls become and stay invalid (docs/step4-rc-input.md:54).  Only a stop of
\* RcUpdate that times out and is not repeated may leave a valid message behind;
\* that one is too old for its readers.
LossInvalidates ==
  \/ []<><<GoodFrame>>_linkVars
  \/ <>[](controls.valid => rc \in {"stuck", "halted"} /\ controlsAge = Old)

\* When good frames come steadily again, the controls become and stay valid,
\* whatever happened to the counters before.
SteadyLinkValidates ==
  <>[](/\ sbus /\ rc = "on" /\ calibrated /\ Good(input) /\ signalAge <= Timeout)
    => <>[]controls.valid

-----------------------------------------------------------------------------
(* The invariant behind KeepsPromise                                       *)

\* input_rc tells only what the operator showed.
InputShown == Good(input) => Shown(input.at, inputAge)

LinkInv == LinkTypeOK /\ InputShown
=============================================================================
