---------------------------- MODULE OutputTiming ----------------------------
(***************************************************************************)
(* The time limits of MixingOutput, in ticks, and the ages they bound.     *)
(* Ages saturate one past the limit they are compared with.                *)
(***************************************************************************)
EXTENDS Integers

CONSTANTS TopicTimeout, OutputPeriod, NeutralBeforeDisable

ASSUME TimingAssumption ==
  /\ TopicTimeout \in Nat /\ OutputPeriod \in Nat
  /\ NeutralBeforeDisable \in Nat
  /\ OutputPeriod < NeutralBeforeDisable   \* 20 ms and 500 ms

NoFault == -1
NoOutput == OutputPeriod + 1
Stale == TopicTimeout + 1

Fresh(age) == age <= TopicTimeout

Older(age, limit) == IF age < limit THEN age + 1 ELSE age
=============================================================================
