--------------------------- MODULE ManualControl ---------------------------
(***************************************************************************)
(* What the topics manual_control_setpoint and manual_control_switches     *)
(* promise their readers, whatever the link does: a valid message tells,   *)
(* for every logical switch, a position the operator showed in a good      *)
(* receiver frame no older than the sample time of the message.            *)
(*                                                                         *)
(* RcLink implements this specification; Arming relies on it.  Ages are in *)
(* ticks and saturate at Old, the first age past the limit of 500 ms.      *)
(***************************************************************************)
EXTENDS Integers

CONSTANTS Switch,    \* the logical switches (RC_MAP_SWn)
          Timeout    \* 500 ms in ticks: the longest age that is not too old

ASSUME ControlAssumption == Timeout \in Nat

VARIABLES
  controls,      \* the two messages: valid, and where the switches are
  controlsAge,   \* age of timestampSample; Old for none
  offAge, onAge  \* of each switch: age of its last good frame with OFF, with ON

controlVars == <<controls, controlsAge, offAge, onAge>>

Old == Timeout + 1
Ages == 0..Old
Position == {"on", "middle", "off"}

Anywhere == [k \in Switch |-> "middle"]
NoControls == [valid |-> FALSE, at |-> Anywhere]

ControlInit ==
  /\ controls = NoControls /\ controlsAge = Old
  /\ offAge = [k \in Switch |-> Old] /\ onAge = [k \in Switch |-> Old]

\* The receiver delivers a good frame.
Show(at) ==
  /\ offAge' = [k \in Switch |-> IF at[k] = "off" THEN 0 ELSE offAge[k]]
  /\ onAge' = [k \in Switch |-> IF at[k] = "on" THEN 0 ELSE onAge[k]]

\* at was shown at most t ago.
Shown(at, t) == \A k \in Switch : /\ at[k] = "off" => offAge[k] <= t
                                  /\ at[k] = "on" => onAge[k] <= t

Publish ==
  /\ \E valid \in BOOLEAN, at \in [Switch -> Position], t \in Ages :
       /\ valid => Shown(at, t)
       /\ controls' = [valid |-> valid, at |-> at] /\ controlsAge' = t
  /\ UNCHANGED <<offAge, onAge>>

Older(a) == IF a = Old THEN Old ELSE a + 1

Age == /\ controlsAge' = Older(controlsAge) /\ UNCHANGED controls
       /\ offAge' = [k \in Switch |-> Older(offAge[k])]
       /\ onAge' = [k \in Switch |-> Older(onAge[k])]

Receive == /\ \E at \in [Switch -> Position] : Show(at)
           /\ UNCHANGED <<controls, controlsAge>>

ControlSpec == ControlInit /\ [][Receive \/ Publish \/ Age]_controlVars
=============================================================================
