--------------------------- MODULE RcArming_proof ---------------------------
(* Theorems of RcLink, of Arming and of the two together, for every set of  *)
(* switches and all time limits.                                            *)
EXTENDS RcArming, TLAPS

USE ControlAssumption, ArmingAssumption

\* The limits of the ages are ages.
LEMMA AgeFacts == Old \in Nat /\ Old \in Ages /\ 0 \in Ages /\ Fresh < Old
BY DEF Old, Ages

\* An age that grows stays an age, and grows.
LEMMA OlderType == ASSUME NEW a \in Ages PROVE Older(a) \in Ages /\ Older(a) >= a
BY DEF Ages, Old, Older

\* Two ages that grow together keep their order.
LEMMA OlderMonotone ==
  ASSUME NEW a \in Ages, NEW b \in Ages, a <= b PROVE Older(a) <= Older(b)
BY DEF Ages, Old, Older

\* The initial positions are positions.
LEMMA AnywhereType == Anywhere \in [Switch -> Position]
BY DEF Anywhere, Position

-----------------------------------------------------------------------------
(* The link                                                                *)

Messages == [full : BOOLEAN, lost : BOOLEAN, failsafe : BOOLEAN,
             at : [Switch -> Position]]

\* The empty messages have the type of messages.
LEMMA NoTypes == /\ NoInput \in Messages
                 /\ NoControls \in [valid : BOOLEAN, at : [Switch -> Position]]
BY AnywhereType DEF Messages, NoInput, NoControls

\* No step takes a variable out of its type.
LEMMA LinkTypeStep == LinkTypeOK /\ [LinkNext]_linkVars => LinkTypeOK'
<1> SUFFICES ASSUME LinkTypeOK, [LinkNext]_linkVars PROVE LinkTypeOK' OBVIOUS
<1> USE DEF LinkTypeOK, sbusVars, inputVars, rcVars, sightVars, controlVars
<1> USE AgeFacts
<1>1. CASE SbusStart BY <1>1 DEF SbusStart
<1>2. CASE SbusStop
  <2>1. sbus' = FALSE /\ UNCHANGED <<signalAge, lossPublished, everConnected>>
        /\ UNCHANGED <<inputVars, rcVars, calibrated, controlVars>>
    BY <1>2 DEF SbusStop
  <2> QED BY <2>1
<1>3. ASSUME NEW at \in [Switch -> Position], NEW f \in BOOLEAN, Frame(at, f)
      PROVE  LinkTypeOK'
  <2>1. offAge' \in [Switch -> Ages] /\ onAge' \in [Switch -> Ages]
    BY <1>3 DEF Frame, Show
  <2>2. input' \in Messages BY <1>3 DEF Frame, Messages
  <2>3. unread' \in BOOLEAN BY <1>3 DEF Frame, Runs
  <2> QED BY <1>3, <2>1, <2>2, <2>3 DEF Frame, Messages
<1>4. CASE Loss
  <2>1. input' \in Messages BY <1>4, NoTypes DEF Loss, Messages
  <2>2. inputAge' \in Ages BY <1>4 DEF Loss
  <2>3. unread' \in BOOLEAN BY <1>4 DEF Loss, Runs
  <2> QED BY <1>4, <2>1, <2>2, <2>3 DEF Loss, Messages
<1>5. CASE RcStart
  <2>1. unread' \in BOOLEAN BY <1>5 DEF RcStart
  <2>2. stable' \in 0..3 /\ silence' \in Ages BY <1>5 DEF RcStart
  <2>3. UNCHANGED <<sbusVars, input, inputAge, calibrated, controlVars>>
    BY <1>5 DEF RcStart
  <2>4. rc' = "on" /\ previousFull' = FALSE /\ timeoutPublished' = FALSE
    BY <1>5 DEF RcStart
  <2> QED BY <2>1, <2>2, <2>3, <2>4
<1>6. CASE RcStop BY <1>6, NoTypes DEF RcStop
<1>7. CASE RcProcess
  <2>1. stable' \in 0..3 BY <1>7 DEF RcProcess, Steady
  <2>3. rc' \in {"on", "halted"} BY <1>7 DEF RcProcess, Runs, AfterRun
  <2>2. controls' \in [valid : BOOLEAN, at : [Switch -> Position]]
    BY <1>7 DEF RcProcess, Acceptable, SampleAge
  <2> QED BY <1>7, <2>1, <2>2, <2>3 DEF RcProcess, Acceptable, SampleAge
<1>8. CASE RcTimeout BY <1>8, NoTypes DEF RcTimeout, Runs, AfterRun
<1>9. CASE RcStuck BY <1>9 DEF RcStuck
<1>10. CASE RcRunEnds BY <1>10 DEF RcRunEnds, AfterRun
<1>11. CASE Calibrate BY <1>11 DEF Calibrate
<1>12. CASE LinkTick
  <2>1. controlsAge' \in Ages /\ offAge' \in [Switch -> Ages]
        /\ onAge' \in [Switch -> Ages]
    BY <1>12, OlderType DEF LinkTick, Age
  <2>2. signalAge' \in Ages /\ inputAge' \in Ages /\ silence' \in Ages
    BY <1>12, OlderType DEF LinkTick
  <2> QED BY <1>12, <2>1, <2>2 DEF LinkTick, Age
<1>13. CASE UNCHANGED linkVars BY <1>13 DEF linkVars
<1> QED BY <1>1, <1>2, <1>3, <1>4, <1>5, <1>6, <1>7, <1>8, <1>9, <1>10, <1>11,
        <1>12, <1>13
        DEF LinkNext, GoodFrame, FailsafeFrame

\* input_rc keeps telling only what was shown.
LEMMA InputStep == LinkInv /\ [LinkNext]_linkVars => InputShown'
<1> SUFFICES ASSUME LinkInv, [LinkNext]_linkVars PROVE InputShown' OBVIOUS
<1> USE DEF LinkInv, LinkTypeOK, InputShown, Good, Shown
<1>1. ASSUME NEW at \in [Switch -> Position], Frame(at, FALSE) PROVE InputShown'
  BY <1>1 DEF Frame, Show
<1>2. ASSUME NEW at \in [Switch -> Position], Frame(at, TRUE) PROVE InputShown'
  BY <1>2 DEF Frame
<1>3. CASE Loss BY <1>3 DEF Loss, NoInput
<1>4. CASE LinkTick
  <2>1. ASSUME NEW k \in Switch, Good(input)
        PROVE  /\ input.at[k] = "off" => offAge'[k] <= inputAge'
               /\ input.at[k] = "on" => onAge'[k] <= inputAge'
    BY <1>4, <2>1, OlderMonotone DEF LinkTick, Age
  <2> QED BY <1>4, <2>1 DEF LinkTick
<1>5. CASE UNCHANGED <<input, inputAge, offAge, onAge>> BY <1>5
<1> QED BY <1>1, <1>2, <1>3, <1>4, <1>5
        DEF LinkNext, GoodFrame, FailsafeFrame, SbusStart, SbusStop, RcStart,
            RcStop, RcStuck, RcProcess, RcTimeout, RcRunEnds, Calibrate,
            linkVars, inputVars, controlVars, sightVars

\* Nothing was shown yet, and nothing good was told.
LEMMA LinkInitInv == LinkInit => LinkInv
<1> SUFFICES ASSUME LinkInit PROVE LinkInv OBVIOUS
<1>1. LinkTypeOK
  <2>1. offAge \in [Switch -> Ages] /\ onAge \in [Switch -> Ages]
    BY AgeFacts DEF LinkInit, ControlInit
  <2>2. signalAge \in Ages /\ inputAge \in Ages /\ silence \in Ages
        /\ controlsAge \in Ages
    BY AgeFacts DEF LinkInit, ControlInit
  <2>3. input \in Messages /\ stable \in 0..3
        /\ controls \in [valid : BOOLEAN, at : [Switch -> Position]]
    BY NoTypes DEF LinkInit, ControlInit
  <2>4. /\ sbus \in BOOLEAN /\ lossPublished \in BOOLEAN
        /\ everConnected \in BOOLEAN /\ unread \in BOOLEAN
        /\ rc \in {"off", "on", "stuck", "halted"}
        /\ previousFull \in BOOLEAN /\ timeoutPublished \in BOOLEAN
        /\ calibrated \in BOOLEAN
    BY DEF LinkInit
  <2> QED BY <2>1, <2>2, <2>3, <2>4 DEF LinkTypeOK, Messages
<1>2. InputShown BY DEF LinkInit, InputShown, Good, NoInput
<1> QED BY <1>1, <1>2 DEF LinkInv

\* The inductive invariant holds in every reachable state.
LEMMA LinkInvariance == LinkSpec => []LinkInv
<1>1. LinkInv /\ [LinkNext]_linkVars => LinkInv'
  BY LinkTypeStep, InputStep DEF LinkInv
<1> QED BY LinkInitInv, <1>1, PTL DEF LinkSpec

\* Every step of the link is a step its readers were promised, or a stutter.
LEMMA PromiseStep ==
  LinkInv /\ [LinkNext]_linkVars => [Receive \/ Publish \/ Age]_controlVars
<1> SUFFICES ASSUME LinkInv, [LinkNext]_linkVars
             PROVE  [Receive \/ Publish \/ Age]_controlVars
  OBVIOUS
<1> USE DEF LinkInv, LinkTypeOK
<1>1. ASSUME NEW at \in [Switch -> Position], Frame(at, FALSE) PROVE Receive
  BY <1>1 DEF Frame, Receive
<1>2. ASSUME NEW at \in [Switch -> Position], Frame(at, TRUE)
      PROVE  UNCHANGED controlVars
  BY <1>2 DEF Frame, controlVars, sightVars
<1>3. CASE RcProcess
  <2>1. controls'.valid => Shown(input.at, inputAge)
    BY <1>3 DEF RcProcess, Acceptable, SampleAge, InputShown, Good
  <2>2. /\ controls'.valid \in BOOLEAN
        /\ controls' = [valid |-> controls'.valid, at |-> input.at]
    BY <1>3 DEF RcProcess, Acceptable, SampleAge
  <2> QED BY <1>3, <2>1, <2>2 DEF RcProcess, Acceptable, SampleAge, Publish, sightVars
<1>4. CASE RcStop \/ RcTimeout
  <2>1. controls' = [valid |-> FALSE, at |-> Anywhere] /\ controlsAge' = Old
        /\ UNCHANGED <<offAge, onAge>>
    BY <1>4 DEF RcStop, RcTimeout, NoControls, sightVars
  <2> QED BY <2>1, AnywhereType, AgeFacts DEF Publish
<1>5. CASE LinkTick BY <1>5 DEF LinkTick
<1>6. CASE UNCHANGED controlVars BY <1>6
<1> QED BY <1>1, <1>2, <1>3, <1>4, <1>5, <1>6
        DEF LinkNext, GoodFrame, FailsafeFrame, SbusStart, SbusStop, Loss,
            RcStart, RcStuck, RcRunEnds, Calibrate, linkVars

\* Every variable stays in its type.
THEOREM LinkTypeCorrect == LinkSpec => []LinkTypeOK
BY LinkInvariance, PTL DEF LinkInv

\* The link implements what ManualControl promises its readers.
THEOREM LinkKeepsPromise == LinkSpec => KeepsPromise
<1>1. LinkInit => ControlInit BY DEF LinkInit
<1> QED BY <1>1, LinkInvariance, PromiseStep, PTL DEF LinkSpec, KeepsPromise, ControlSpec

-----------------------------------------------------------------------------
(* The arming                                                              *)

\* The interlock stays in its three states.
LEMMA AdvanceType ==
  ASSUME NEW s \in {"wait", "ready", "armed"}, NEW valid \in BOOLEAN, NEW position
  PROVE  Advance(s, valid, position) \in {"wait", "ready", "armed"}
BY DEF Advance

\* The interlock leaves "wait" only on a readable OFF.
LEMMA AdvanceNeedsOff ==
  ASSUME NEW valid \in BOOLEAN, NEW position,
         Advance("wait", valid, position) # "wait"
  PROVE  valid /\ position = "off"
BY DEF Advance

\* No step takes a variable out of its type.
LEMMA ArmingTypeStep == ArmingTypeOK /\ [ArmingNext]_armingVars => ArmingTypeOK'
<1> SUFFICES ASSUME ArmingTypeOK, [ArmingNext]_armingVars PROVE ArmingTypeOK'
  OBVIOUS
<1> USE DEF ArmingTypeOK, controlVars, commandVars, Choice
<1>1. CASE CommandRun
  <2>1. Interlock \in {"wait", "ready", "armed"} /\ Readable(param) \in BOOLEAN
    BY DEF Interlock, Readable
  <2>2. safety' \in {"wait", "ready", "armed"}
    BY <1>1, <2>1, AdvanceType DEF CommandRun, NextSafety
  <2>3. published' \in [armed : BOOLEAN, valid : BOOLEAN, lockdown : BOOLEAN]
    BY <1>1, <2>1 DEF CommandRun, Message
  <2>4. offSeen' \in BOOLEAN BY <1>1 DEF CommandRun, RecentOff
  <2>5. cmd' \in {"off", "on", "stuck", "halted"} BY <1>1 DEF CommandRun
  <2> QED BY <1>1, <2>2, <2>3, <2>4, <2>5 DEF CommandRun
<1>2. CASE CommandStart BY <1>2 DEF CommandStart, RecentOff
<1>3. CASE CommandStop BY <1>3 DEF CommandStop, Disarmed
<1>4. CASE CommandStuck BY <1>4 DEF CommandStuck
<1>5. CASE Inhibit BY <1>5 DEF Inhibit
<1>6. CASE SelectSwitch BY <1>6 DEF SelectSwitch
<1>7. CASE Link
  <2>1. CASE Publish BY <1>7, <2>1 DEF Link, Publish
  <2>2. CASE Age
    <3>1. controlsAge' \in Ages /\ offAge' \in [Switch -> Ages]
          /\ onAge' \in [Switch -> Ages]
      BY <2>2, OlderType DEF Age
    <3> QED BY <1>7, <2>2, <3>1 DEF Link, Age
  <2> QED BY <1>7, <2>1, <2>2 DEF Link
<1>8. ASSUME NEW at \in [Switch -> Position], See(at) PROVE ArmingTypeOK'
  <2>1. offAge' \in [Switch -> Ages] /\ onAge' \in [Switch -> Ages]
    BY <1>8, AgeFacts DEF See, Show
  <2>2. offSeen' \in BOOLEAN BY <1>8 DEF See
  <2> QED BY <1>8, <2>1, <2>2 DEF See
<1>9. CASE UNCHANGED armingVars BY <1>9 DEF armingVars
<1> QED BY <1>1, <1>2, <1>3, <1>4, <1>5, <1>6, <1>7, <1>8, <1>9
        DEF ArmingNext, Command

\* Messages keep telling what was shown, and ages only grow between frames.
LEMMA ControlsStep == ArmingInv /\ [ArmingNext]_armingVars => ControlsShown'
<1> SUFFICES ASSUME ArmingInv, [ArmingNext]_armingVars PROVE ControlsShown'
  OBVIOUS
<1> USE DEF ArmingInv, ArmingTypeOK, ControlsShown, Shown
<1>1. CASE Publish BY <1>1 DEF Publish
<1>2. CASE Age
  <2>1. ASSUME NEW a \in Ages, NEW b \in Ages, a <= b PROVE Older(a) <= Older(b)
    BY <2>1 DEF Older, Ages, Old
  <2>2. ASSUME NEW k \in Switch, controls.valid
        PROVE  /\ controls.at[k] = "off" => offAge'[k] <= controlsAge'
               /\ controls.at[k] = "on" => onAge'[k] <= controlsAge'
    BY <1>2, <2>1, <2>2 DEF Age
  <2> QED BY <1>2, <2>2 DEF Age
<1>3. ASSUME NEW at \in [Switch -> Position], See(at) PROVE ControlsShown'
  <2>1. controlsAge \in Nat BY DEF Ages
  <2> QED BY <1>3, <2>1 DEF See, Show, Ages
<1>4. CASE UNCHANGED controlVars BY <1>4 DEF controlVars
<1> QED BY <1>1, <1>2, <1>3, <1>4
        DEF ArmingNext, Command, Link, CommandRun, CommandStart, CommandStop,
            CommandStuck, Inhibit, SelectSwitch, armingVars

\* What Run() reads as OFF counts as seen.
LEMMA ReadOff ==
  ASSUME ArmingInv, Readable(param), controls.at[param] = "off"
  PROVE  RecentOff(param)
<1>1. param \in Switch /\ controlsAge <= Fresh /\ offAge[param] <= controlsAge
  BY DEF Readable, ArmingInv, ControlsShown, Shown
<1> QED BY <1>1 DEF RecentOff, ArmingInv, ArmingTypeOK, Ages

\* No step loses the OFF that an interlock past "wait" rests on.
LEMMA CountsStep ==
  ArmingInv /\ [ArmingNext]_armingVars => OffCounts' /\ ArmedAfterOff'
<1> SUFFICES ASSUME ArmingInv, [ArmingNext]_armingVars
             PROVE  OffCounts' /\ ArmedAfterOff'
  OBVIOUS
<1> USE DEF ArmingInv, ArmingTypeOK, OffCounts, ArmedAfterOff, RecentOff,
            controlVars, commandVars
<1>1. CASE CommandRun
  <2>1. RecentOff(param) => offSeen' BY <1>1 DEF CommandRun
  <2>2. ASSUME safety' # "wait" PROVE offSeen'
    <3>1. CASE Interlock # "wait"
      BY <1>1, <3>1 DEF CommandRun, Interlock
    <3>2. CASE Interlock = "wait"
      <4>1. Readable(param) /\ controls.at[param] = "off"
        BY <1>1, <2>2, <3>2, AdvanceNeedsOff DEF CommandRun, NextSafety, Readable
      <4> QED BY <2>1, <4>1, ReadOff
    <3> QED BY <3>1, <3>2
  <2>3. published'.armed => safety' # "wait" BY <1>1 DEF CommandRun, Message
  <2>4. cmd' # "off" BY <1>1 DEF CommandRun
  <2> QED BY <1>1, <2>1, <2>2, <2>3, <2>4 DEF CommandRun
<1>2. CASE CommandStart BY <1>2 DEF CommandStart
<1>3. CASE CommandStop BY <1>3 DEF CommandStop, Disarmed
<1>4. CASE CommandStuck BY <1>4 DEF CommandStuck
<1>5. CASE Inhibit BY <1>5 DEF Inhibit
<1>6. CASE SelectSwitch BY <1>6 DEF SelectSwitch
<1>7. CASE Link
  <2>1. \A k \in Switch : offAge[k] \in Nat /\ offAge'[k] \in Nat
                           /\ offAge'[k] >= offAge[k]
    <3>1. CASE Publish BY <3>1 DEF Publish, Ages
    <3>2. CASE Age BY <3>2, OlderType DEF Age, Ages
    <3> QED BY <1>7, <3>1, <3>2 DEF Link
  <2>2. UNCHANGED <<param, inhibited, commandVars, offSeen>> BY <1>7 DEF Link
  <2> QED BY <2>1, <2>2
<1>8. ASSUME NEW at \in [Switch -> Position], See(at)
      PROVE  OffCounts' /\ ArmedAfterOff'
  BY <1>8 DEF See, Show
<1>9. CASE UNCHANGED armingVars BY <1>9 DEF armingVars
<1> QED BY <1>1, <1>2, <1>3, <1>4, <1>5, <1>6, <1>7, <1>8, <1>9
        DEF ArmingNext, Command

\* Every Run() tells what the interlock says, and a stop forgets both.
LEMMA ToldStep == ArmingInv /\ [ArmingNext]_armingVars => ArmedTold'
<1> SUFFICES ASSUME ArmingInv, [ArmingNext]_armingVars PROVE ArmedTold' OBVIOUS
<1> USE DEF ArmingInv, ArmingTypeOK, ArmedTold
<1>1. CASE CommandRun BY <1>1 DEF CommandRun, Message
<1>2. CASE CommandStart BY <1>2 DEF CommandStart
<1>3. CASE CommandStop BY <1>3 DEF CommandStop
<1>4. CASE CommandStuck BY <1>4 DEF CommandStuck
<1>5. CASE UNCHANGED commandVars BY <1>5 DEF commandVars
<1> QED BY <1>1, <1>2, <1>3, <1>4, <1>5
        DEF ArmingNext, Command, Inhibit, SelectSwitch, Link, See, armingVars

\* Command starts off and disarmed.
LEMMA ArmingInitInv == ArmingInit => ArmingInv
<1> SUFFICES ASSUME ArmingInit PROVE ArmingInv OBVIOUS
<1>1. ArmingTypeOK
  <2>1. controls \in [valid : BOOLEAN, at : [Switch -> Position]]
    BY AnywhereType DEF ArmingInit, ControlInit, NoControls
  <2>2. offAge \in [Switch -> Ages] /\ onAge \in [Switch -> Ages]
        /\ controlsAge \in Ages
    BY AgeFacts DEF ArmingInit, ControlInit
  <2> QED BY <2>1, <2>2 DEF ArmingInit, ArmingTypeOK, Disarmed, Choice
<1>2. ControlsShown BY DEF ArmingInit, ControlInit, NoControls, ControlsShown
<1>3. OffCounts /\ ArmedAfterOff /\ ArmedTold
  BY DEF ArmingInit, Disarmed, OffCounts, ArmedAfterOff, ArmedTold
<1> QED BY <1>1, <1>2, <1>3 DEF ArmingInv

\* The inductive invariant holds in every reachable state.
THEOREM ArmingInvariance == ArmingSpec => []ArmingInv
<1>1. ArmingInv /\ [ArmingNext]_armingVars => ArmingInv'
  BY ArmingTypeStep, ControlsStep, CountsStep, ToldStep DEF ArmingInv
<1> QED BY ArmingInitInv, <1>1, PTL DEF ArmingSpec

\* Every variable stays in its type.
THEOREM ArmingTypeCorrect == ArmingSpec => []ArmingTypeOK
BY ArmingInvariance, PTL DEF ArmingInv

\* Nothing gets round the interlock: the outputs are armed only after the
\* switch in use was shown at OFF.
THEOREM InterlockSafe == ArmingSpec => []ArmedAfterOff
BY ArmingInvariance, PTL DEF ArmingInv

\* The outputs become armed only on a fresh frame with ON, or when an inhibit
\* ends that held back an armed interlock of the same switch.
THEOREM ArmsOnlyByOn == ArmingSpec => ArmedByOn
<1>1. ASSUME ArmingInv, [ArmingNext]_armingVars, ~published.armed,
             published'.armed
      PROVE  \/ (armSwitch' \in Switch /\ onAge[armSwitch'] <= Fresh)
             \/ (published.lockdown /\ safety = "armed" /\ armSwitch' = armSwitch)
  <2>1. CommandRun
    BY <1>1 DEF ArmingNext, Command, CommandStart, CommandStop, CommandStuck,
                Inhibit, SelectSwitch, Link, See, armingVars, commandVars, Disarmed
  <2>2. armSwitch' = param /\ NextSafety = "armed"
    BY <1>1, <2>1 DEF CommandRun, Message
  <2>3. CASE Readable(param)
    <3>1. controls.at[param] = "on"
      BY <2>2, <2>3 DEF NextSafety, Advance
    <3>2. param \in Switch /\ controlsAge <= Fresh /\ onAge[param] <= controlsAge
      BY <1>1, <2>3, <3>1 DEF Readable, ArmingInv, ControlsShown, Shown
    <3> QED BY <1>1, <2>2, <3>2 DEF ArmingInv, ArmingTypeOK, Ages
  <2>4. CASE ~Readable(param)
    <3>1. safety = "armed" /\ armSwitch = param
      BY <2>2, <2>4 DEF NextSafety, Interlock, Advance
    <3> QED BY <1>1, <2>1, <2>2, <3>1 DEF ArmingInv, ArmedTold, CommandRun
  <2> QED BY <2>3, <2>4
<1>2. ArmingInv /\ [ArmingNext]_armingVars =>
        [~published.armed /\ published'.armed
           => \/ (armSwitch' \in Switch /\ onAge[armSwitch'] <= Fresh)
              \/ (published.lockdown /\ safety = "armed" /\ armSwitch' = armSwitch)
        ]_armingVars
  BY <1>1
<1> QED BY <1>2, ArmingInvariance, PTL DEF ArmingSpec, ArmedByOn

-----------------------------------------------------------------------------
(* The two together                                                        *)

\* The link does not notice Command.
LEMMA LinkHalf == [RcArmingNext]_rcArmingVars => [LinkNext]_linkVars
<1> SUFFICES ASSUME [RcArmingNext]_rcArmingVars PROVE [LinkNext]_linkVars OBVIOUS
<1>1. CASE LinkStep BY <1>1 DEF LinkStep
<1>2. CASE CommandStep
  <2>1. UNCHANGED controlVars
    BY <1>2 DEF CommandStep, Command, CommandRun, CommandStart, CommandStop,
                CommandStuck, Inhibit, SelectSwitch
  <2> QED BY <1>2, <2>1 DEF CommandStep, linkVars
<1>3. CASE UNCHANGED rcArmingVars BY <1>3 DEF rcArmingVars
<1> QED BY <1>1, <1>2, <1>3 DEF RcArmingNext

\* A good frame shows the switches where it tells them.
LEMMA FrameShows ==
  ASSUME NEW at \in [Switch -> Position], Frame(at, FALSE)
  PROVE  GoodFrame /\ input'.at = at /\ Show(at) /\ UNCHANGED <<controls, controlsAge>>
BY DEF Frame, GoodFrame

\* The arming notices what ManualControl lets it notice of the link: a frame
\* that shows the switches, messages that are true, and time.
LEMMA ArmingHalf ==
  LinkInv /\ ArmingInv /\ [RcArmingNext]_rcArmingVars => [ArmingNext]_armingVars
<1> SUFFICES ASSUME LinkInv, ArmingInv, [RcArmingNext]_rcArmingVars
             PROVE  [ArmingNext]_armingVars
  OBVIOUS
<1>1. CASE LinkStep /\ GoodFrame
  <2>1. PICK at \in [Switch -> Position] : Frame(at, FALSE) BY <1>1 DEF GoodFrame
  <2>2. input'.at = at /\ Show(at) /\ UNCHANGED <<controls, controlsAge>>
    BY <2>1, FrameShows
  <2>3. offSeen' = (offSeen \/ (armSwitch \in Switch /\ at[armSwitch] = "off"))
    BY <1>1, <2>2 DEF LinkStep, ShowsOff
  <2>4. See(at) BY <1>1, <2>2, <2>3 DEF LinkStep, See
  <2> QED BY <2>4 DEF ArmingNext
<1>2. CASE LinkStep /\ ~GoodFrame
  <2>1. offSeen' = offSeen /\ UNCHANGED <<param, inhibited, commandVars>>
    <3>1. offSeen \in BOOLEAN BY DEF ArmingInv, ArmingTypeOK
    <3> QED BY <1>2, <3>1 DEF LinkStep, ShowsOff
  <2>2. [Publish \/ Age]_controlVars
    <3>1. CASE RcProcess \/ RcStop \/ RcTimeout
      <4>1. UNCHANGED <<offAge, onAge>>
        BY <3>1 DEF RcProcess, RcStop, RcTimeout, sightVars
      <4>2. [Receive \/ Publish \/ Age]_controlVars
        BY <1>2, PromiseStep DEF LinkStep
      <4>3. Receive => UNCHANGED controlVars BY <4>1 DEF Receive, controlVars
      <4> QED BY <4>2, <4>3
    <3>2. CASE LinkTick BY <3>2 DEF LinkTick
    <3>3. CASE SbusStart \/ SbusStop \/ FailsafeFrame \/ Loss \/ RcStart
               \/ RcStuck \/ RcRunEnds \/ Calibrate
      BY <3>3 DEF SbusStart, SbusStop, FailsafeFrame, Frame, Loss, RcStart,
                  RcStuck, RcRunEnds, Calibrate, controlVars, sightVars
    <3> QED BY <1>2, <3>1, <3>2, <3>3 DEF LinkStep, LinkNext
  <2>3. CASE Publish \/ Age BY <2>1, <2>3 DEF Link, ArmingNext
  <2>4. CASE UNCHANGED controlVars BY <2>1, <2>4 DEF armingVars
  <2> QED BY <2>2, <2>3, <2>4
<1>3. CASE CommandStep BY <1>3 DEF CommandStep, ArmingNext
<1>4. CASE UNCHANGED rcArmingVars BY <1>4 DEF rcArmingVars
<1> QED BY <1>1, <1>2, <1>3, <1>4 DEF RcArmingNext

\* In the composition the link is what its specification says, fairness and all.
THEOREM ImplementsLinkSafe == RcArmingSpec => ImplementsLink
BY LinkHalf, PTL DEF RcArmingSpec, RcArmingInit, ImplementsLink, LinkSpec

\* Both inductive invariants hold in the composition.
LEMMA BothInvariant == RcArmingSpec => [](LinkInv /\ ArmingInv)
<1>1. LinkInv /\ [LinkNext]_linkVars => LinkInv'
  BY LinkTypeStep, InputStep DEF LinkInv
<1>2. ArmingInv /\ [ArmingNext]_armingVars => ArmingInv'
  BY ArmingTypeStep, ControlsStep, CountsStep, ToldStep DEF ArmingInv
<1>3. LinkInv /\ ArmingInv /\ [RcArmingNext]_rcArmingVars => (LinkInv /\ ArmingInv)'
  BY <1>1, <1>2, LinkHalf, ArmingHalf
<1>4. RcArmingInit => LinkInv /\ ArmingInv
  BY LinkInitInv, ArmingInitInv DEF RcArmingInit
<1> QED BY <1>3, <1>4, PTL DEF RcArmingSpec

\* So is the arming: it relies on no more of the messages than RcUpdate keeps.
THEOREM ImplementsArmingSafe == RcArmingSpec => ImplementsArming
BY BothInvariant, ArmingHalf, PTL
   DEF RcArmingSpec, RcArmingInit, ImplementsArming, ArmingSpec

\* From the receiver to the outputs: whatever frames, losses, failsafe frames,
\* restarts, timeouts, parameters and commands come in whatever order, the
\* outputs are armed only after the switch in use was shown at OFF ...
THEOREM ReceiverInterlock == RcArmingSpec => []ArmedAfterOff
BY ImplementsArmingSafe, InterlockSafe, PTL DEF ImplementsArming

\* ... and become armed only by a fresh good frame with ON, or when an
\* inhibit ends that held back an armed interlock.
THEOREM ReceiverArms == RcArmingSpec => ArmedByOn
BY ImplementsArmingSafe, ArmsOnlyByOn, PTL DEF ImplementsArming

=============================================================================
