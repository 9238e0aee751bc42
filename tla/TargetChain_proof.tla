------------------------- MODULE TargetChain_proof -------------------------
(***************************************************************************)
(* Proofs about TargetChain: IInv is inductive, for any time-outs, limits  *)
(* and failsafe actions.  The provers treat Booleans and numbers apart, so *)
(* that TypeOK is split into Flags and Rest.                               *)
(***************************************************************************)
EXTENDS TargetChain, TLAPS

USE TargetAssumption DEF TargetAssumption, Reach

Flags ==
  /\ manual \in BOOLEAN /\ model \in BOOLEAN
  /\ running \in BOOLEAN /\ late \in BOOLEAN
  /\ lost \in BOOLEAN /\ haveValid \in BOOLEAN

Rest ==
  /\ manualAge \in 0..MaxTimeout + 1 /\ goodAge \in 0..Reach + 1
  /\ action \in Actions
  /\ state \in [Module -> {"off", "on", "stopping"}]
  /\ lostAge \in 0..StatusLimit + 1
  /\ setpoint \in Target /\ setpointAge \in 0..SetpointLimit + 1
  /\ targets \in Target /\ targetsAge \in 0..TargetLimit + 1

Good == ManualGood /\ StatusGood /\ SetpointGood /\ TargetsGood

\* The three parts make up the inductive invariant.
LEMMA Parts == IInv <=> Flags /\ Rest /\ Good
  BY DEF IInv, TypeOK, Flags, Rest, Good

\* Nothing was published yet: every age is beyond its limit.
LEMMA InitInv == Init => IInv
<1> SUFFICES ASSUME Init PROVE Flags /\ Rest /\ Good
  BY Parts
<1>1. Flags
  BY DEF Init, Flags
<1>2. Rest
  BY DEF Init, Rest, NoTarget, Target
<1>3. Good
  BY DEF Init, Good, ManualGood, StatusGood, SetpointGood, TargetsGood, NoTarget
<1> QED BY <1>1, <1>2, <1>3

\* The safe message of a stopped module is a target.
LEMMA NoTargetType == NoTarget \in Target
  BY DEF NoTarget, Target

\* A saturating age stays in its range, and grows by one until its limit.
LEMMA OlderBounds ==
  ASSUME NEW limit \in Nat, NEW a \in 0..limit + 1
  PROVE  /\ Older(a, limit) \in 0..limit + 1
         /\ Older(a, limit) = a + 1 \/ (Older(a, limit) = a /\ a > limit)
  BY DEF Older

\* Every step keeps the Booleans in their type.
LEMMA FlagsNext == Flags /\ [Next]_vars => Flags'
<1> SUFFICES ASSUME Flags, [Next]_vars PROVE Flags'
  OBVIOUS
<1> USE DEF Flags
<1>1. CASE FailsafeRun
  BY <1>1 DEF FailsafeRun, Lost, inputVars, paramVars, runVars, setpointVars
<1>2. CASE ControlBegin
  BY <1>2 DEF ControlBegin, inputVars, paramVars, statusVars, setpointVars
<1>3. CASE ControlRun
  BY <1>3 DEF ControlRun, inputVars, paramVars, statusVars
<1>4. CASE AllocatorRun
  BY <1>4 DEF AllocatorRun, inputVars, paramVars, runVars, statusVars,
              setpointVars
<1>5. ASSUME NEW m \in Module, Start(m) PROVE Flags'
  BY <1>5 DEF Start, inputVars, paramVars, runVars, statusVars
<1>6. ASSUME NEW m \in Module, StopBegin(m) PROVE Flags'
  BY <1>6 DEF StopBegin, inputVars, paramVars, runVars, statusVars,
              setpointVars
<1>7. ASSUME NEW m \in Module, StopEnd(m) PROVE Flags'
  BY <1>7 DEF StopEnd, inputVars, paramVars, runVars, statusVars
<1>8. ASSUME NEW valid \in BOOLEAN, NEW age \in 0..MaxTimeout + 1,
             Publish(valid, age)
      PROVE  Flags'
  BY <1>8 DEF Publish, paramVars, statusVars, setpointVars
<1>9. CASE ParamSet
  BY <1>9 DEF ParamSet, inputVars, runVars, statusVars, setpointVars
<1>10. CASE Tick
  BY <1>10 DEF Tick, paramVars, runVars
<1>11. CASE UNCHANGED vars
  BY <1>11 DEF vars, inputVars, paramVars, runVars, statusVars, setpointVars
<1> QED BY <1>1, <1>2, <1>3, <1>4, <1>5, <1>6, <1>7, <1>8, <1>9, <1>10, <1>11
        DEF Next

\* Every step keeps the ages, modules and targets in their types.
LEMMA RestNext == Rest /\ [Next]_vars => Rest'
<1> SUFFICES ASSUME Rest, [Next]_vars PROVE Rest'
  OBVIOUS
<1> USE DEF Rest
<1>1. CASE FailsafeRun
  BY <1>1 DEF FailsafeRun, inputVars, paramVars, setpointVars, targetVars
<1>2. CASE ControlBegin
  BY <1>2 DEF ControlBegin, inputVars, paramVars, statusVars, setpointVars,
              targetVars
<1>3. CASE ControlRun
  BY <1>3 DEF ControlRun, Source, NoTarget, Target, inputVars, paramVars,
              statusVars, targetVars
<1>4. CASE AllocatorRun
  BY <1>4 DEF AllocatorRun, NoTarget, Target, inputVars, paramVars, statusVars,
              setpointVars
<1>5. ASSUME NEW m \in Module, Start(m) PROVE Rest'
  BY <1>5 DEF Start, inputVars, paramVars, statusVars, targetVars
<1>6. ASSUME NEW m \in Module, StopBegin(m) PROVE Rest'
  BY <1>6 DEF StopBegin, inputVars, paramVars, statusVars, setpointVars,
              targetVars
<1>7. ASSUME NEW m \in Module, StopEnd(m) PROVE Rest'
  <2>1. /\ action' \in Actions /\ manualAge' \in 0..MaxTimeout + 1
        /\ goodAge' \in 0..Reach + 1
        /\ state' \in [Module -> {"off", "on", "stopping"}]
    BY <1>7 DEF StopEnd, inputVars, paramVars
  <2>2. lostAge' \in 0..StatusLimit + 1
    BY <1>7 DEF StopEnd, statusVars
  <2>3. setpoint' \in Target /\ setpointAge' \in 0..SetpointLimit + 1
    <3>1. CASE m = "control"
      BY <1>7, <3>1, NoTargetType DEF StopEnd
    <3>2. CASE m # "control"
      BY <1>7, <3>2 DEF StopEnd
    <3> QED BY <3>1, <3>2
  <2>4. targets' \in Target /\ targetsAge' \in 0..TargetLimit + 1
    <3>1. CASE m = "allocator"
      BY <1>7, <3>1, NoTargetType DEF StopEnd
    <3>2. CASE m # "allocator"
      BY <1>7, <3>2 DEF StopEnd, targetVars
    <3> QED BY <3>1, <3>2
  <2> QED BY <2>1, <2>2, <2>3, <2>4
<1>8. ASSUME NEW valid \in BOOLEAN, NEW age \in 0..MaxTimeout + 1,
             Publish(valid, age)
      PROVE  Rest'
  BY <1>8 DEF Publish, Nearer, paramVars, statusVars, setpointVars, targetVars
<1>9. CASE ParamSet
  BY <1>9 DEF ParamSet, inputVars, statusVars, setpointVars, targetVars
<1>10. CASE Tick
  BY <1>10, OlderBounds DEF Tick, paramVars
<1>11. CASE UNCHANGED vars
  BY <1>11 DEF vars, inputVars, paramVars, statusVars, setpointVars, targetVars
<1> QED BY <1>1, <1>2, <1>3, <1>4, <1>5, <1>6, <1>7, <1>8, <1>9, <1>10, <1>11
        DEF Next

\* What each message says of the newest valid sample survives every step.
LEMMA GoodNext == Rest /\ Good /\ [Next]_vars => Good'
<1> SUFFICES ASSUME Rest, Good, [Next]_vars PROVE Good'
  OBVIOUS
<1> USE DEF Rest, Good
<1>1. CASE FailsafeRun
  <2>1. ManualGood' /\ SetpointGood' /\ TargetsGood'
    BY <1>1 DEF FailsafeRun, inputVars, setpointVars, targetVars, ManualGood,
                SetpointGood, TargetsGood
  <2>2. StatusGood'
    <3>1. PICK timeout \in Timeouts : lost' = Lost(timeout)
      BY <1>1 DEF FailsafeRun
    <3>2. ~lost' => manual /\ ~(manualAge > timeout)
      BY <3>1 DEF Lost
    <3>3. lostAge' = 0 /\ goodAge' = goodAge
      BY <1>1 DEF FailsafeRun, inputVars
    <3> QED BY <3>2, <3>3 DEF ManualGood, StatusGood
  <2> QED BY <2>1, <2>2
<1>2. CASE ControlBegin
  BY <1>2 DEF ControlBegin, inputVars, statusVars, setpointVars, targetVars,
              ManualGood, StatusGood, SetpointGood, TargetsGood
<1>3. CASE ControlRun
  <2>1. ManualGood' /\ StatusGood' /\ TargetsGood'
    BY <1>3 DEF ControlRun, inputVars, statusVars, targetVars, ManualGood,
                StatusGood, TargetsGood
  <2>2. setpointAge' = 0 /\ goodAge' = goodAge
    BY <1>3 DEF ControlRun, inputVars
  <2>3. CASE FailsafeActive
    <3>1. setpoint'.from # "stick"
      BY <1>3, <2>3 DEF ControlRun, Source, NoTarget
    <3> QED BY <2>1, <3>1 DEF SetpointGood
  <2>4. CASE ~FailsafeActive
    BY <2>1, <2>2, <2>4 DEF FailsafeActive, StatusGood, SetpointGood
  <2> QED BY <2>3, <2>4
<1>4. CASE AllocatorRun
  <2>1. ManualGood' /\ StatusGood' /\ SetpointGood'
    BY <1>4 DEF AllocatorRun, inputVars, statusVars, setpointVars, ManualGood,
                StatusGood, SetpointGood
  <2>2. TargetsGood'
    BY <1>4 DEF AllocatorRun, Usable, NoTarget, inputVars, SetpointGood,
                TargetsGood
  <2> QED BY <2>1, <2>2
<1>5. ASSUME NEW m \in Module, Start(m) PROVE Good'
  BY <1>5 DEF Start, inputVars, statusVars, targetVars, ManualGood, StatusGood,
              SetpointGood, TargetsGood
<1>6. ASSUME NEW m \in Module, StopBegin(m) PROVE Good'
  BY <1>6 DEF StopBegin, inputVars, statusVars, setpointVars, targetVars,
              ManualGood, StatusGood, SetpointGood, TargetsGood
<1>7. ASSUME NEW m \in Module, StopEnd(m) PROVE Good'
  BY <1>7 DEF StopEnd, NoTarget, inputVars, statusVars, targetVars, ManualGood,
              StatusGood, SetpointGood, TargetsGood
<1>8. ASSUME NEW valid \in BOOLEAN, NEW age \in 0..MaxTimeout + 1,
             Publish(valid, age)
      PROVE  Good'
  BY <1>8 DEF Publish, Nearer, statusVars, setpointVars, targetVars,
              ManualGood, StatusGood, SetpointGood, TargetsGood
<1>9. CASE ParamSet
  BY <1>9 DEF ParamSet, inputVars, statusVars, setpointVars, targetVars,
              ManualGood, StatusGood, SetpointGood, TargetsGood
<1>10. CASE Tick
  <2>1. goodAge' <= goodAge + 1
    BY <1>10, OlderBounds DEF Tick
  <2>2. ManualGood'
    BY <1>10, <2>1 DEF Tick, Older, ManualGood
  <2>3. StatusGood'
    BY <1>10, <2>1 DEF Tick, Older, StatusGood
  <2>4. SetpointGood'
    BY <1>10, <2>1 DEF Tick, Older, SetpointGood
  <2>5. TargetsGood'
    BY <1>10, <2>1 DEF Tick, Older, TargetsGood
  <2> QED BY <2>2, <2>3, <2>4, <2>5
<1>11. CASE UNCHANGED vars
  BY <1>11 DEF vars, inputVars, statusVars, setpointVars, targetVars,
               ManualGood, StatusGood, SetpointGood, TargetsGood
<1> QED BY <1>1, <1>2, <1>3, <1>4, <1>5, <1>6, <1>7, <1>8, <1>9, <1>10, <1>11
        DEF Next

\* Every step preserves the inductive invariant.
LEMMA NextInv == IInv /\ [Next]_vars => IInv'
<1> SUFFICES ASSUME Flags, Rest, Good, [Next]_vars
             PROVE  Flags' /\ Rest' /\ Good'
  BY DEF IInv, TypeOK, Flags, Rest, Good
<1> QED BY FlagsNext, RestNext, GoodNext

\* The inductive invariant: types, and how old the newest valid sample may be
\* behind each message of the chain.
THEOREM Invariance == Spec => []IInv
  BY InitInv, NextInv, PTL DEF Spec

\* Every variable of TargetChain stays in its type.
THEOREM TypeCorrect == Spec => []TypeOK
  BY Invariance, PTL DEF IInv

\* Targets in use follow the stick only if the link was alive within the sum of
\* the limits, for any limits and whatever module stalls, stops or restarts.
THEOREM LinkAliveSafe == Spec => []LinkAlive
<1>1. IInv => LinkAlive
  BY DEF IInv, TypeOK, TargetsGood, LinkAlive
<1> QED BY <1>1, Invariance, PTL
=============================================================================
