------------------------------ MODULE RcArming ------------------------------
(***************************************************************************)
(* From the receiver to actuator_armed: SbusInput, RcUpdate and Command    *)
(* together.  RcLink and Arming share the two control topics.  RcUpdate    *)
(* and Command run on one work queue, SbusInput in its own task, and every *)
(* Run() or published frame is one step; no module waits for another.      *)
(*                                                                         *)
(* Arming relies on ManualControl for what the messages tell; here they    *)
(* are those that RcUpdate publishes.                                      *)
(***************************************************************************)
EXTENDS RcLink, Arming

rcArmingVars == <<linkVars, armingVars>>

RcArmingInit == LinkInit /\ ArmingInit

\* The frame that arrives shows switch k at OFF.
ShowsOff(k) == GoodFrame /\ k \in Switch /\ input'.at[k] = "off"

\* SbusInput, RcUpdate and time; Command keeps what it has.
LinkStep ==
  /\ LinkNext
  /\ offSeen' = (offSeen \/ ShowsOff(armSwitch))
  /\ UNCHANGED <<param, inhibited, commandVars>>

\* Command and its commands and parameter.
CommandStep ==
  /\ Command
  /\ UNCHANGED <<sbusVars, inputVars, rcVars, calibrated>>

RcArmingNext == LinkStep \/ CommandStep

RcArmingSpec == /\ RcArmingInit /\ [][RcArmingNext]_rcArmingVars
                /\ LinkFairness /\ ArmingFairness

-----------------------------------------------------------------------------
(* Properties: those of the two halves                                     *)

\* Each half behaves in the composition as its own specification says, so that
\* all that is checked or proved of it alone holds of both together: of the
\* link, that its messages are true; of the arming, that only OFF and then ON
\* in frames of the receiver arm.
ImplementsLink == LinkSpec
ImplementsArming == ArmingSpec
=============================================================================
