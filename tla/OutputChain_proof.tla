------------------------- MODULE OutputChain_proof -------------------------
(* Theorems of CanOutput, for every number of channels, every set of frame  *)
(* addresses and every parameter set the operator may store; and then of    *)
(* OutputChain: the composition implements both of its halves, and so has   *)
(* the safety properties proved of each.                                    *)
EXTENDS OutputChain, TLAPS

USE CanAssumption

PCs == {"loop", "stop", "drive", "send", "reload", "retry", "retried",
        "mix", "driven", "mixed", "exited"}
Rets == {"reload", "retried", "driven", "mixed", "exited"}
Cmds == {"disable", "enable", "drive"}

\* A stored parameter set has components of the types the driver keeps.
LEMMA StoreType ==
  ASSUME store \in ProfileType
  PROVE  /\ store.addr \in [Channels -> Address \cup {Disabled}]
         /\ store.func \in [Channels -> Sources \cup {Disabled}]
         /\ store.loads \in BOOLEAN /\ store.maps \in BOOLEAN
BY DEF ProfileType

\* No step takes a variable out of its type.
LEMMA TypeStep == TypeOK /\ [Next]_vars => TypeOK'
<1> SUFFICES ASSUME TypeOK, [Next]_vars PROVE TypeOK' OBVIOUS
<1> USE DEF TypeOK, Channels, PCs, Rets, Cmds, taskVars, driverVars, configVars,
            paramVars, nshVars, worldVars, taskUnchanged, mixUnchanged
<1>1. CASE StopEnter
  <2>1. pc' \in PCs /\ cmd' \in Cmds /\ idx' \in 1..(N + 1)
    BY <1>1 DEF StopEnter, NothingToStop, Return, SendFrom
  <2>2. ok' \in BOOLEAN /\ result' \in BOOLEAN
    BY <1>1 DEF StopEnter, NothingToStop, Return, SendFrom
  <2>3. mutex' \in {"free", "task", "nsh"}
    BY <1>1 DEF StopEnter, NothingToStop, Return, SendFrom
  <2> QED BY <1>1, <2>1, <2>2, <2>3 DEF StopEnter
<1>2. CASE DriveEnter
  <2>1. pc' \in PCs /\ cmd' \in Cmds /\ idx' \in 1..(N + 1)
    BY <1>2 DEF DriveEnter, Return, SendFrom
  <2>2. ok' \in BOOLEAN /\ result' \in BOOLEAN
    BY <1>2 DEF DriveEnter, Return, SendFrom
  <2>3. mutex' \in {"free", "task", "nsh"}
    BY <1>2 DEF DriveEnter, Return, SendFrom
  <2>4. protocolArmed' \in BOOLEAN
    BY <1>2 DEF DriveEnter, Return, SendFrom
  <2> QED BY <1>2, <2>1, <2>2, <2>3, <2>4 DEF DriveEnter
<1>3. CASE SendFrame BY <1>3 DEF SendFrame, Addressed, Accepted
<1>4. CASE DisableDone BY <1>4 DEF DisableDone, Stopped, Return
<1>5. CASE EnableDone
  <2>1. pc' \in PCs /\ cmd' \in Cmds /\ idx' \in 1..(N + 1)
    BY <1>5 DEF EnableDone, SendFrom, Return
  <2>2. ok' \in BOOLEAN /\ result' \in BOOLEAN
    BY <1>5 DEF EnableDone, SendFrom, Return
  <2>3. mutex' \in {"free", "task", "nsh"}
    BY <1>5 DEF EnableDone, SendFrom, Return
  <2> QED BY <1>5, <2>1, <2>2, <2>3 DEF EnableDone
<1>6. CASE DriveDone BY <1>6 DEF DriveDone, Return
<1>7. CASE LoopTop
  <2>1. pc' \in PCs /\ ret' \in Rets /\ paramNew' \in BOOLEAN
    BY <1>7 DEF LoopTop, CallStop
  <2> QED BY <1>7, <2>1 DEF LoopTop
<1>8. CASE Reload
  <2>1. pc' \in PCs /\ parametersValid' \in BOOLEAN /\ reloadPending' \in BOOLEAN
    BY StoreType, <1>8 DEF Reload, UpdateParams
  <2>2. addr' \in [Channels -> Address \cup {Disabled}]
    BY StoreType, <1>8 DEF Reload, UpdateParams
  <2>3. func' \in [Channels -> Sources \cup {Disabled}]
    BY StoreType, <1>8 DEF Reload, UpdateParams
  <2> QED BY <1>8, <2>1, <2>2, <2>3 DEF Reload
<1>9. CASE Retry BY <1>9 DEF Retry, CallStop
<1>10. CASE Retried
  <2>1. pc' \in PCs /\ parametersValid' \in BOOLEAN /\ reloadPending' \in BOOLEAN
    BY StoreType, <1>10 DEF Retried, UpdateParams
  <2>2. addr' \in [Channels -> Address \cup {Disabled}]
    BY StoreType, <1>10 DEF Retried, UpdateParams
  <2>3. func' \in [Channels -> Sources \cup {Disabled}]
    BY StoreType, <1>10 DEF Retried, UpdateParams
  <2> QED BY <1>10, <2>1, <2>2, <2>3 DEF Retried
<1>11. CASE Driven BY <1>11 DEF Driven, CallStop
<1>12. CASE Mixed BY <1>12 DEF Mixed
<1>13. CASE Destroy
  <2>1. pc' \in PCs /\ cmd' \in Cmds /\ idx' \in 1..(N + 1)
    BY <1>13 DEF Destroy, SendFrom
  <2>2. ok' \in BOOLEAN /\ result' \in BOOLEAN
    BY <1>13 DEF Destroy, SendFrom
  <2>3. ret' \in Rets
    BY <1>13 DEF Destroy, SendFrom
  <2> QED BY <1>13, <2>1, <2>2, <2>3 DEF Destroy
<1>14. CASE DestroyDone BY <1>14 DEF DestroyDone, Return
<1>15. CASE MixHold BY <1>15 DEF MixHold
<1>16. CASE MixStop BY <1>16 DEF MixStop, CallStop
<1>17. CASE MixDrive BY <1>17 DEF MixDrive, CallDrive
<1>18. CASE ZeroCheck BY <1>18 DEF ZeroCheck, ZeroAllowed
<1>19. CASE ZeroSend BY <1>19 DEF ZeroSend
<1>20. CASE SetOutputInhibited BY <1>20 DEF SetOutputInhibited
<1>21. CASE PublishArmed BY <1>21 DEF PublishArmed
<1>22. CASE ParamSet BY <1>22 DEF ParamSet
<1>23. CASE RequestStop BY <1>23 DEF RequestStop
<1>24. CASE LinkChange BY <1>24 DEF LinkChange
<1>25. CASE UNCHANGED vars BY <1>25 DEF vars
<1> QED BY <1>1, <1>2, <1>3, <1>4, <1>5, <1>6, <1>7, <1>8, <1>9, <1>10, <1>11, <1>12, <1>13, <1>14, <1>15, <1>16, <1>17, <1>18, <1>19, <1>20, <1>21, <1>22, <1>23, <1>24, <1>25 DEF Next, Task, Mix, Others

-----------------------------------------------------------------------------
(* One lemma for each conjunct of IInv.                                    *)

\* The output mutex is taken and released in pairs, and the NSH command holds
\* it from its check to its frame.
LEMMA LockingStep == IInv /\ [Next]_vars => Locking'
<1> SUFFICES ASSUME IInv, [Next]_vars PROVE Locking' OBVIOUS
<1> USE DEF IInv, TypeOK, Locking, Calls, Channels,
            taskVars, driverVars, configVars, paramVars, nshVars, worldVars,
            taskUnchanged, mixUnchanged
<1>1. CASE StopEnter BY <1>1 DEF StopEnter, NothingToStop, Return, SendFrom
<1>2. CASE DriveEnter BY <1>2 DEF DriveEnter, Return, SendFrom
<1>3. CASE SendFrame BY <1>3 DEF SendFrame, Addressed, Accepted
<1>4. CASE DisableDone BY <1>4 DEF DisableDone, Stopped, Return
<1>5. CASE EnableDone BY <1>5 DEF EnableDone, SendFrom, Return
<1>6. CASE DriveDone BY <1>6 DEF DriveDone, Return
<1>7. CASE LoopTop BY <1>7 DEF LoopTop, CallStop
<1>8. CASE Reload BY <1>8 DEF Reload, UpdateParams
<1>9. CASE Retry BY <1>9 DEF Retry, CallStop
<1>10. CASE Retried BY <1>10 DEF Retried, UpdateParams
<1>11. CASE Driven BY <1>11 DEF Driven, CallStop
<1>12. CASE Mixed BY <1>12 DEF Mixed
<1>13. CASE Destroy BY <1>13 DEF Destroy, SendFrom
<1>14. CASE DestroyDone BY <1>14 DEF DestroyDone, Return
<1>15. CASE Mix BY <1>15 DEF Mix, MixHold, MixStop, MixDrive, CallStop, CallDrive
<1>16. CASE Others
  BY <1>16 DEF Others, ZeroCheck, ZeroAllowed, ZeroSend, SetOutputInhibited,
                PublishArmed, ParamSet, RequestStop, LinkChange
<1>17. CASE UNCHANGED vars BY <1>17 DEF vars
<1> QED BY <1>1, <1>2, <1>3, <1>4, <1>5, <1>6, <1>7, <1>8, <1>9,
          <1>10, <1>11, <1>12, <1>13, <1>14, <1>15, <1>16, <1>17 DEF Next, Task

\* updateOutputs returns to its caller; after a stop that succeeded both flags
\* are clear.
LEMMA CallsStep == IInv /\ [Next]_vars => Calls'
<1> SUFFICES ASSUME IInv, [Next]_vars PROVE Calls' OBVIOUS
<1> USE DEF IInv, TypeOK, Locking, Calls, Channels,
            taskVars, driverVars, configVars, paramVars, nshVars, worldVars,
            taskUnchanged, mixUnchanged
<1>1. CASE StopEnter BY <1>1 DEF StopEnter, NothingToStop, Return, SendFrom
<1>2. CASE DriveEnter BY <1>2 DEF DriveEnter, Return, SendFrom
<1>3. CASE SendFrame BY <1>3 DEF SendFrame, Addressed, Accepted
<1>4. CASE DisableDone BY <1>4 DEF DisableDone, Stopped, Return
<1>5. CASE EnableDone BY <1>5 DEF EnableDone, SendFrom, Return
<1>6. CASE DriveDone BY <1>6 DEF DriveDone, Return
<1>7. CASE LoopTop BY <1>7 DEF LoopTop, CallStop
<1>8. CASE Reload BY <1>8 DEF Reload, UpdateParams
<1>9. CASE Retry BY <1>9 DEF Retry, CallStop
<1>10. CASE Retried BY <1>10 DEF Retried, UpdateParams
<1>11. CASE Driven BY <1>11 DEF Driven, CallStop
<1>12. CASE Mixed BY <1>12 DEF Mixed
<1>13. CASE Destroy BY <1>13 DEF Destroy, SendFrom
<1>14. CASE DestroyDone BY <1>14 DEF DestroyDone, Return
<1>15. CASE Mix BY <1>15 DEF Mix, MixHold, MixStop, MixDrive, CallStop, CallDrive
<1>16. CASE Others
  BY <1>16 DEF Others, ZeroCheck, ZeroAllowed, ZeroSend, SetOutputInhibited,
                PublishArmed, ParamSet, RequestStop, LinkChange
<1>17. CASE UNCHANGED vars BY <1>17 DEF vars
<1> QED BY <1>1, <1>2, <1>3, <1>4, <1>5, <1>6, <1>7, <1>8, <1>9,
          <1>10, <1>11, <1>12, <1>13, <1>14, <1>15, <1>16, <1>17 DEF Next, Task

\* The flags are cleared by DisableDone only, and then Frames says that no
\* configured motor is on.
LEMMA KnowsStep == IInv /\ [Next]_vars => KnowsWhatIsOn'
<1> SUFFICES ASSUME IInv, [Next]_vars PROVE KnowsWhatIsOn' OBVIOUS
<1> USE DEF IInv, TypeOK, Locking, Calls, Frames, KnowsWhatIsOn,
            OnlyConfigured, Configured, Channels,
            taskVars, driverVars, configVars, paramVars, nshVars, worldVars,
            taskUnchanged, mixUnchanged
<1>1. CASE StopEnter BY <1>1 DEF StopEnter, NothingToStop, Return, SendFrom
<1>2. CASE DriveEnter BY <1>2 DEF DriveEnter, Return, SendFrom
<1>3. CASE SendFrame BY <1>3 DEF SendFrame, Addressed, Accepted
<1>4. CASE DisableDone BY <1>4 DEF DisableDone, Stopped, Return
<1>5. CASE EnableDone BY <1>5 DEF EnableDone, SendFrom, Return
<1>6. CASE DriveDone BY <1>6 DEF DriveDone, Return
<1>7. CASE LoopTop BY <1>7 DEF LoopTop, CallStop
<1>8. CASE Reload BY <1>8 DEF Reload, UpdateParams
<1>9. CASE Retry BY <1>9 DEF Retry, CallStop
<1>10. CASE Retried BY <1>10 DEF Retried, UpdateParams
<1>11. CASE Driven BY <1>11 DEF Driven, CallStop
<1>12. CASE Mixed BY <1>12 DEF Mixed
<1>13. CASE Destroy BY <1>13 DEF Destroy, SendFrom
<1>14. CASE DestroyDone BY <1>14 DEF DestroyDone, Return
<1>15. CASE Mix BY <1>15 DEF Mix, MixHold, MixStop, MixDrive, CallStop, CallDrive
<1>16. CASE Others
  BY <1>16 DEF Others, ZeroCheck, ZeroAllowed, ZeroSend, SetOutputInhibited,
                PublishArmed, ParamSet, RequestStop, LinkChange
<1>17. CASE UNCHANGED vars BY <1>17 DEF vars
<1> QED BY <1>1, <1>2, <1>3, <1>4, <1>5, <1>6, <1>7, <1>8, <1>9,
          <1>10, <1>11, <1>12, <1>13, <1>14, <1>15, <1>16, <1>17 DEF Next, Task

\* The configuration is replaced with both flags clear, hence with no motor on.
LEMMA ConfiguredStep == IInv /\ [Next]_vars => OnlyConfigured'
<1> SUFFICES ASSUME IInv, [Next]_vars PROVE OnlyConfigured' OBVIOUS
<1> USE DEF IInv, TypeOK, Locking, Calls, Frames, KnowsWhatIsOn,
            OnlyConfigured, Configured, Channels,
            taskVars, driverVars, configVars, paramVars, nshVars, worldVars,
            taskUnchanged, mixUnchanged
<1>1. CASE StopEnter BY <1>1 DEF StopEnter, NothingToStop, Return, SendFrom
<1>2. CASE DriveEnter BY <1>2 DEF DriveEnter, Return, SendFrom
<1>3. CASE SendFrame BY <1>3 DEF SendFrame, Addressed, Accepted
<1>4. CASE DisableDone BY <1>4 DEF DisableDone, Stopped, Return
<1>5. CASE EnableDone BY <1>5 DEF EnableDone, SendFrom, Return
<1>6. CASE DriveDone BY <1>6 DEF DriveDone, Return
<1>7. CASE LoopTop BY <1>7 DEF LoopTop, CallStop
<1>8. CASE Reload BY <1>8 DEF Reload, UpdateParams
<1>9. CASE Retry BY <1>9 DEF Retry, CallStop
<1>10. CASE Retried BY <1>10 DEF Retried, UpdateParams
<1>11. CASE Driven BY <1>11 DEF Driven, CallStop
<1>12. CASE Mixed BY <1>12 DEF Mixed
<1>13. CASE Destroy BY <1>13 DEF Destroy, SendFrom
<1>14. CASE DestroyDone BY <1>14 DEF DestroyDone, Return
<1>15. CASE Mix BY <1>15 DEF Mix, MixHold, MixStop, MixDrive, CallStop, CallDrive
<1>16. CASE Others
  BY <1>16 DEF Others, ZeroCheck, ZeroAllowed, ZeroSend, SetOutputInhibited,
                PublishArmed, ParamSet, RequestStop, LinkChange
<1>17. CASE UNCHANGED vars BY <1>17 DEF vars
<1> QED BY <1>1, <1>2, <1>3, <1>4, <1>5, <1>6, <1>7, <1>8, <1>9,
          <1>10, <1>11, <1>12, <1>13, <1>14, <1>15, <1>16, <1>17 DEF Next, Task

\* A frame the link took changes its motor and no motor an earlier frame set.
LEMMA FramesStep == IInv /\ [Next]_vars => Frames'
<1> SUFFICES ASSUME IInv, [Next]_vars PROVE Frames' OBVIOUS
<1> USE DEF IInv, TypeOK, Locking, Calls, Frames, Addressed, Channels,
            taskVars, driverVars, configVars, paramVars, nshVars, worldVars,
            taskUnchanged, mixUnchanged
<1>1. CASE StopEnter BY <1>1 DEF StopEnter, NothingToStop, Return, SendFrom
<1>2. CASE DriveEnter BY <1>2 DEF DriveEnter, Return, SendFrom
<1>3. CASE SendFrame BY <1>3 DEF SendFrame, Addressed, Accepted
<1>4. CASE DisableDone BY <1>4 DEF DisableDone, Stopped, Return
<1>5. CASE EnableDone BY <1>5 DEF EnableDone, SendFrom, Return
<1>6. CASE DriveDone BY <1>6 DEF DriveDone, Return
<1>7. CASE LoopTop BY <1>7 DEF LoopTop, CallStop
<1>8. CASE Reload BY <1>8 DEF Reload, UpdateParams
<1>9. CASE Retry BY <1>9 DEF Retry, CallStop
<1>10. CASE Retried BY <1>10 DEF Retried, UpdateParams
<1>11. CASE Driven BY <1>11 DEF Driven, CallStop
<1>12. CASE Mixed BY <1>12 DEF Mixed
<1>13. CASE Destroy BY <1>13 DEF Destroy, SendFrom
<1>14. CASE DestroyDone BY <1>14 DEF DestroyDone, Return
<1>15. CASE Mix BY <1>15 DEF Mix, MixHold, MixStop, MixDrive, CallStop, CallDrive
<1>16. CASE Others
  BY <1>16 DEF Others, ZeroCheck, ZeroAllowed, ZeroSend, SetOutputInhibited,
                PublishArmed, ParamSet, RequestStop, LinkChange
<1>17. CASE UNCHANGED vars BY <1>17 DEF vars
<1> QED BY <1>1, <1>2, <1>3, <1>4, <1>5, <1>6, <1>7, <1>8, <1>9,
          <1>10, <1>11, <1>12, <1>13, <1>14, <1>15, <1>16, <1>17 DEF Next, Task

\* An enable loop that succeeded reached every motor with a function; a call
\* that failed is followed by a stop before the loop goes on.
LEMMA OnStep == IInv /\ [Next]_vars => ArmedMeansOn'
<1> SUFFICES ASSUME IInv, [Next]_vars PROVE ArmedMeansOn' OBVIOUS
<1> USE DEF IInv, TypeOK, Locking, Calls, Frames, ArmedMeansOn, AllOn,
            Addressed, Channels,
            taskVars, driverVars, configVars, paramVars, nshVars, worldVars,
            taskUnchanged, mixUnchanged
<1>1. CASE StopEnter BY <1>1 DEF StopEnter, NothingToStop, Return, SendFrom
<1>2. CASE DriveEnter BY <1>2 DEF DriveEnter, Return, SendFrom
<1>3. CASE SendFrame BY <1>3 DEF SendFrame, Addressed, Accepted
<1>4. CASE DisableDone BY <1>4 DEF DisableDone, Stopped, Return
<1>5. CASE EnableDone BY <1>5 DEF EnableDone, SendFrom, Return
<1>6. CASE DriveDone BY <1>6 DEF DriveDone, Return
<1>7. CASE LoopTop BY <1>7 DEF LoopTop, CallStop
<1>8. CASE Reload BY <1>8 DEF Reload, UpdateParams
<1>9. CASE Retry BY <1>9 DEF Retry, CallStop
<1>10. CASE Retried BY <1>10 DEF Retried, UpdateParams
<1>11. CASE Driven BY <1>11 DEF Driven, CallStop
<1>12. CASE Mixed BY <1>12 DEF Mixed
<1>13. CASE Destroy BY <1>13 DEF Destroy, SendFrom
<1>14. CASE DestroyDone BY <1>14 DEF DestroyDone, Return
<1>15. CASE Mix BY <1>15 DEF Mix, MixHold, MixStop, MixDrive, CallStop, CallDrive
<1>16. CASE Others
  BY <1>16 DEF Others, ZeroCheck, ZeroAllowed, ZeroSend, SetOutputInhibited,
                PublishArmed, ParamSet, RequestStop, LinkChange
<1>17. CASE UNCHANGED vars BY <1>17 DEF vars
<1> QED BY <1>1, <1>2, <1>3, <1>4, <1>5, <1>6, <1>7, <1>8, <1>9,
          <1>10, <1>11, <1>12, <1>13, <1>14, <1>15, <1>16, <1>17 DEF Next, Task

-----------------------------------------------------------------------------
(* The theorems                                                            *)

\* The driver starts owing a disable: motors keep their state over a reset.
LEMMA InitIInv == Init => IInv
<1> SUFFICES ASSUME Init PROVE IInv OBVIOUS
<1>1. store \in ProfileType BY DEF Init
<1>2. addr \in [Channels -> Address \cup {Disabled}]
  BY <1>1, StoreType DEF Init
<1>3. func \in [Channels -> Sources \cup {Disabled}]
  BY <1>1, StoreType DEF Init
<1>4. motorOn \in SUBSET Address BY <1>2 DEF Init, Configured, Channels
<1>5. 1 \in 1..(N + 1) OBVIOUS
<1>6. TypeOK BY <1>1, <1>2, <1>3, <1>4, <1>5 DEF Init, TypeOK
<1>7. KnowsWhatIsOn /\ OnlyConfigured
  BY DEF Init, KnowsWhatIsOn, OnlyConfigured
<1>8. Locking /\ Calls /\ Frames /\ ArmedMeansOn
  BY DEF Init, Locking, Calls, Frames, ArmedMeansOn
<1> QED BY <1>6, <1>7, <1>8 DEF IInv

\* Every step keeps the invariant: the six parts together.
LEMMA StepIInv == IInv /\ [Next]_vars => IInv'
BY TypeStep, LockingStep, CallsStep, KnowsStep, ConfiguredStep, FramesStep,
   OnStep DEF IInv

\* The inductive invariant holds in every reachable state.
THEOREM Invariance == Spec => []IInv
BY InitIInv, StepIInv, PTL DEF Spec

\* The values the code stores are of the types it declares.
THEOREM TypeCorrect == Spec => []TypeOK
BY Invariance, PTL DEF IInv

\* updateOutputs(true) skips its frames (CanOutput.cpp:218) only when every
\* motor is off, whatever frames were lost before.
THEOREM KnowsSafe == Spec => []KnowsWhatIsOn
BY Invariance, PTL DEF IInv

\* A reload of the parameters never orphans an energised motor.
THEOREM ConfiguredSafe == Spec => []OnlyConfigured
BY Invariance, PTL DEF IInv

\* Output frames are sent to motors that took their enable frame.
THEOREM DriveSafe == Spec => []DriveOnlyWhenAllOn
<1>1. IInv => DriveOnlyWhenAllOn
  BY DEF IInv, ArmedMeansOn, AllOn, DriveOnlyWhenAllOn
<1> QED BY <1>1, Invariance, PTL

\* can_output zero moves no encoder origin under an energised motor.
THEOREM ZeroSafe == Spec => []ZeroOnlyWhenOff
<1>1. IInv => ZeroOnlyWhenOff
  BY DEF IInv, Locking, KnowsWhatIsOn, ZeroOnlyWhenOff
<1> QED BY <1>1, Invariance, PTL

\* Ids and protocols change only when every motor is off.
THEOREM ReloadSafe == Spec => ReloadOnlyWhenOff
<1>1. ASSUME IInv, [Next]_vars, addr' # addr PROVE motorOn = {}
  <2>1. Reload \/ Retried
    BY <1>1 DEF Next, Task, Mix, Others, StopEnter, DriveEnter, SendFrame,
       DisableDone, EnableDone, DriveDone, LoopTop, Retry, Driven, Mixed,
       Destroy, DestroyDone, MixHold, MixStop, MixDrive, ZeroCheck, ZeroSend,
       SetOutputInhibited, PublishArmed, ParamSet, RequestStop, LinkChange,
       vars, configVars, taskUnchanged, mixUnchanged
  <2>2. result BY <1>1, <2>1 DEF Reload, Retried, configVars
  <2> QED BY <1>1, <2>1, <2>2 DEF Reload, Retried, IInv, Calls, KnowsWhatIsOn
<1>2. IInv /\ [Next]_vars => [addr' # addr => motorOn = {}]_vars
  BY <1>1
<1> QED BY <1>2, Invariance, PTL DEF Spec, ReloadOnlyWhenOff

-----------------------------------------------------------------------------
(* The composition                                                         *)

\* The theorems of MixingOutput, for the instance in the chain.
P == INSTANCE MixingOutput_proof
       WITH Channel <- Channels, Source <- Sources, permit <- (safety = "armed")

\* Every step of the chain is a step of the driver with its open caller:
\* MixingOutput answers a drive call that failed by a stop.
LEMMA DriverSimulation == [ChainNext]_chainVars => [Next]_vars
<1> SUFFICES ASSUME [ChainNext]_chainVars PROVE [Next]_vars OBVIOUS
<1>1. CASE DriverStep BY <1>1 DEF DriverStep, Next, Task
<1>2. CASE LoadParams BY <1>2 DEF LoadParams, Next, Task
<1>3. CASE MixUpdate
  <2>1. call' \in {"none", "stop", "drive"}
    BY <1>3 DEF MixUpdate, M!Update, M!Decision
  <2>2. CASE call' = "none" BY <1>3, <2>2 DEF MixUpdate, Dispatch, MixHold, Next, Mix
  <2>3. CASE call' = "stop" BY <1>3, <2>3 DEF MixUpdate, Dispatch, MixStop, Next, Mix
  <2>4. CASE call' = "drive" BY <1>3, <2>4 DEF MixUpdate, Dispatch, MixDrive, Next, Mix
  <2> QED BY <2>1, <2>2, <2>3, <2>4
<1>4. CASE DriveReturned
  <2>1. CASE result
    <3>1. call' = "none" BY <1>4, <2>1 DEF DriveReturned, M!DriveReturn
    <3> QED BY <1>4, <2>1, <3>1 DEF DriveReturned, Dispatch, Driven, Next, Task
  <2>2. CASE ~result
    <3>1. call' = "stop" BY <1>4, <2>2 DEF DriveReturned, M!DriveReturn
    <3> QED BY <1>4, <2>2, <3>1 DEF DriveReturned, Dispatch, Driven, Next, Task
  <2> QED BY <2>1, <2>2
<1>5. CASE StopReturned
  <2>1. call' = "none" BY <1>5 DEF StopReturned, M!StopReturn
  <2> QED BY <1>5, <2>1 DEF StopReturned, Dispatch, Mixed, Next, Task
<1>6. CASE ArmTopic BY <1>6 DEF ArmTopic, Next, Others
<1>7. CASE Target BY <1>7 DEF Target
<1>8. CASE Tick BY <1>8 DEF Tick
<1>9. CASE Elsewhere BY <1>9 DEF Elsewhere, Next, Others
<1>10. CASE UNCHANGED chainVars BY <1>10 DEF chainVars
<1> QED BY <1>1, <1>2, <1>3, <1>4, <1>5, <1>6, <1>7, <1>8, <1>9, <1>10
        DEF ChainNext, Turn

\* The composition implements the driver with its open caller.
THEOREM Implements == ChainSpec => ImplementsCanOutput
<1>1. ChainInit => Init BY DEF ChainInit
<1> QED BY <1>1, DriverSimulation, PTL DEF ChainSpec, ImplementsCanOutput, Spec

\* The call MixingOutput waits for is the one the driver executes.
LEMMA CallSitesStep == IInv /\ CallSites /\ [ChainNext]_chainVars => CallSites'
<1> SUFFICES ASSUME IInv, CallSites, [ChainNext]_chainVars PROVE CallSites' OBVIOUS
<1> USE DEF CallSites, UnderWay, Calls, CallStop, CallDrive, Return, SendFrom
<1>0. Calls /\ ret \in {"reload", "retried", "driven", "mixed", "exited"}
  BY DEF IInv, TypeOK
<1>1. CASE DriverStep
  <2> USE <1>0, <1>1 DEF DriverStep, mixVars
  <2>1. CASE StopEnter BY <2>1 DEF StopEnter
  <2>2. CASE DriveEnter BY <2>2 DEF DriveEnter
  <2>3. CASE SendFrame BY <2>3 DEF SendFrame
  <2>4. CASE DisableDone BY <2>4 DEF DisableDone
  <2>5. CASE EnableDone BY <2>5 DEF EnableDone
  <2>6. CASE DriveDone BY <2>6 DEF DriveDone
  <2>7. CASE LoopTop BY <2>7 DEF LoopTop
  <2>8. CASE Retry BY <2>8 DEF Retry
  <2>9. CASE Destroy BY <2>9 DEF Destroy
  <2>10. CASE DestroyDone BY <2>10 DEF DestroyDone
  <2> QED BY <2>1, <2>2, <2>3, <2>4, <2>5, <2>6, <2>7, <2>8, <2>9, <2>10
<1>2. CASE LoadParams BY <1>2 DEF LoadParams, Reload, Retried
<1>3. CASE MixUpdate BY <1>3 DEF MixUpdate, Dispatch, M!Update
<1>4. CASE DriveReturned BY <1>4 DEF DriveReturned, Dispatch, M!DriveReturn
<1>5. CASE StopReturned BY <1>5 DEF StopReturned, Dispatch, M!StopReturn
<1>6. CASE ArmTopic BY <1>6 DEF ArmTopic, PublishArmed, taskUnchanged, taskVars
<1>7. CASE Target
  BY <1>7 DEF Target, M!Publish, M!mixState, vars, taskVars
<1>8. CASE Tick BY <1>8 DEF Tick, M!PacedTick, M!Tick, vars, taskVars
<1>9. CASE Elsewhere
  <2>1. UNCHANGED taskVars
    BY <1>9 DEF Elsewhere, ZeroCheck, ZeroSend, SetOutputInhibited, ParamSet,
                RequestStop, LinkChange, taskUnchanged
  <2> QED BY <1>9, <2>1 DEF Elsewhere, mixVars, taskVars
<1>10. CASE UNCHANGED chainVars BY <1>10 DEF chainVars, mixVars, vars, taskVars
<1> QED BY <1>1, <1>2, <1>3, <1>4, <1>5, <1>6, <1>7, <1>8, <1>9, <1>10
        DEF ChainNext, Turn

\* The flags of the driver at the entry of a disable loop and after a stop.
LEMMA StopTellsStep == IInv /\ StopTells /\ [ChainNext]_chainVars => StopTells'
<1> SUFFICES ASSUME IInv, StopTells, [Next]_vars PROVE StopTells'
  BY DriverSimulation
<1> USE DEF StopTells, Calls, CallStop, CallDrive, Return, SendFrom
<1>0. Calls /\ TypeOK BY DEF IInv
<1>1. CASE StopEnter BY <1>0, <1>1 DEF StopEnter, NothingToStop, driverVars
<1>2. CASE DriveEnter BY <1>0, <1>2 DEF DriveEnter
<1>3. CASE SendFrame BY <1>3 DEF SendFrame, driverVars
<1>4. CASE DisableDone BY <1>0, <1>4 DEF DisableDone, Stopped, TypeOK
<1>5. CASE EnableDone BY <1>0, <1>5 DEF EnableDone, driverVars
<1>6. CASE DriveDone BY <1>0, <1>6 DEF DriveDone, driverVars
<1>7. CASE LoopTop \/ Reload \/ Retry \/ Retried
  BY <1>7 DEF LoopTop, Reload, Retry, Retried
<1>8. CASE Driven \/ Mixed \/ Mix
  BY <1>8 DEF Driven, Mixed, Mix, MixHold, MixStop, MixDrive
<1>9. CASE Destroy BY <1>9 DEF Destroy, driverVars
<1>10. CASE DestroyDone BY <1>10 DEF DestroyDone
<1>11. CASE Others
  <2>1. UNCHANGED <<taskVars, driverVars>>
    BY <1>11 DEF Others, ZeroCheck, ZeroSend, SetOutputInhibited, PublishArmed,
                 ParamSet, RequestStop, LinkChange, taskUnchanged
  <2> QED BY <2>1 DEF taskVars, driverVars
<1>12. CASE UNCHANGED vars BY <1>12 DEF vars, taskVars, driverVars
<1> QED BY <1>1, <1>2, <1>3, <1>4, <1>5, <1>6, <1>7, <1>8, <1>9, <1>10, <1>11,
           <1>12 DEF Next, Task

\* What MixingOutput remembers: the flags change only inside a call of its own,
\* or in a disable loop of the driver, which is not entered when both are clear.
LEMMA ClearStep == IInv /\ ChainInv /\ [ChainNext]_chainVars => StoppedMeansClear'
<1> SUFFICES ASSUME IInv, ChainInv, [ChainNext]_chainVars
             PROVE  StoppedMeansClear'
  OBVIOUS
<1> USE DEF ChainInv, StoppedMeansClear
<1>0. Calls /\ ret \in {"reload", "retried", "driven", "mixed", "exited"}
  BY DEF IInv, TypeOK
<1>1. CASE DriverStep
  <2> USE <1>1 DEF DriverStep, mixVars
  <2>1. CASE StopEnter BY <2>1 DEF StopEnter, driverVars
  <2>2. CASE DriveEnter
    <3>1. call = "drive" BY <1>0, <2>2 DEF DriveEnter, CallSites, UnderWay, Calls
    <3> QED BY <3>1
  <2>3. CASE SendFrame BY <2>3 DEF SendFrame, driverVars
  <2>4. CASE DisableDone
    <3>1. protocolArmed \/ disablePending BY <2>4 DEF DisableDone, StopTells
    <3> QED BY <3>1
  <2>5. CASE EnableDone BY <2>5 DEF EnableDone, driverVars
  <2>6. CASE DriveDone BY <2>6 DEF DriveDone, driverVars
  <2>7. CASE LoopTop BY <2>7 DEF LoopTop, driverVars
  <2>8. CASE Retry BY <2>8 DEF Retry, driverVars
  <2>9. CASE Destroy BY <2>9 DEF Destroy, driverVars
  <2>10. CASE DestroyDone BY <2>10 DEF DestroyDone, driverVars
  <2> QED BY <2>1, <2>2, <2>3, <2>4, <2>5, <2>6, <2>7, <2>8, <2>9, <2>10
<1>2. CASE LoadParams BY <1>2 DEF LoadParams, Reload, Retried
<1>3. CASE MixUpdate
  BY <1>3 DEF MixUpdate, M!Update, mixUnchanged, driverVars
<1>4. CASE DriveReturned
  BY <1>4 DEF DriveReturned, M!DriveReturn, mixUnchanged, driverVars
<1>5. CASE StopReturned
  BY <1>5 DEF StopReturned, M!StopReturn, mixUnchanged, driverVars, StopTells
<1>6. CASE ArmTopic
  BY <1>6 DEF ArmTopic, PublishArmed, taskUnchanged, driverVars
<1>7. CASE Target
  BY <1>7 DEF Target, M!Publish, M!mixState, vars, driverVars
<1>8. CASE Tick
  <2>1. lastOutput' # NoOutput => lastOutput # NoOutput
    BY <1>8, TimingAssumption
    DEF Tick, M!PacedTick, M!Tick, M!Older, NoOutput
  <2>2. UNCHANGED <<stopped, call, protocolArmed, disablePending>>
    BY <1>8 DEF Tick, M!PacedTick, M!Tick, vars, driverVars
  <2> QED BY <2>1, <2>2
<1>9. CASE Elsewhere
  <2>1. UNCHANGED driverVars
    BY <1>9 DEF Elsewhere, ZeroCheck, ZeroSend, SetOutputInhibited, ParamSet,
                RequestStop, LinkChange, taskUnchanged
  <2> QED BY <1>9, <2>1 DEF Elsewhere, mixVars, driverVars
<1>10. CASE UNCHANGED chainVars BY <1>10 DEF chainVars, mixVars, vars, driverVars
<1> QED BY <1>1, <1>2, <1>3, <1>4, <1>5, <1>6, <1>7, <1>8, <1>9, <1>10
        DEF ChainNext, Turn

\* OUT_FAIL_ACT is what ParamManager holds.
LEMMA ActionStep ==
  IInv /\ failAction \in 0..2 /\ [ChainNext]_chainVars => failAction' \in 0..2
<1> SUFFICES ASSUME IInv, failAction \in 0..2, [ChainNext]_chainVars
             PROVE  failAction' \in 0..2
  OBVIOUS
<1>1. store.act \in 0..2 BY DEF IInv, TypeOK, ProfileType
<1>2. failAction' \in {failAction, store.act}
  BY DEF ChainNext, Turn, DriverStep, LoadParams, MixUpdate, M!Update,
         DriveReturned, M!DriveReturn, StopReturned, M!StopReturn, ArmTopic,
         Target, M!Publish, Tick, M!PacedTick, M!Tick, Elsewhere, mixVars, chainVars
<1> QED BY <1>1, <1>2

\* The inductive invariant of the chain: that of the driver, and ChainInv.
THEOREM ChainInvariance == ChainSpec => [](IInv /\ ChainInv)
<1>1. ChainInit => IInv /\ ChainInv
  <2> SUFFICES ASSUME ChainInit PROVE ChainInv BY InitIInv DEF ChainInit
  <2>1. Init /\ M!Init /\ failAction \in 0..2 BY DEF ChainInit, M!Init
  <2>2. pc = "loop" /\ ret = "mixed" /\ call = "none" /\ lastOutput = NoOutput
    BY <2>1 DEF Init, M!Init, M!NoOutput, NoOutput
  <2> QED BY <2>1, <2>2 DEF ChainInv, CallSites, UnderWay, StopTells, StoppedMeansClear
<1>2. IInv /\ ChainInv /\ [ChainNext]_chainVars => (IInv /\ ChainInv)'
  BY DriverSimulation, StepIInv, CallSitesStep, StopTellsStep, ClearStep,
     ActionStep DEF ChainInv
<1> QED BY <1>1, <1>2, PTL DEF ChainSpec

\* MixingOutput trusts its _stopped only when every motor is off.
THEOREM StoppedSafe == ChainSpec => []StoppedMeansOff
<1>1. IInv /\ ChainInv => StoppedMeansOff
  BY DEF IInv, KnowsWhatIsOn, ChainInv, StoppedMeansClear, StoppedMeansOff
<1> QED BY <1>1, ChainInvariance, PTL

\* The two instances of MixingOutput are the same.
LEMMA SameInstance ==
  /\ M!Update <=> P!Update
  /\ M!PacedTick <=> P!PacedTick
  /\ M!Init <=> P!Init
BY DEF M!Update, P!Update, M!Decision, P!Decision, M!Idle, P!Idle, M!Disarmed,
       P!Disarmed, M!Needed, P!Needed, M!DataFault, P!DataFault, M!FaultAge, P!FaultAge,
       M!FaultStops, P!FaultStops, M!AnyNew, P!AnyNew, M!Fresh, P!Fresh,
       M!NoFault, P!NoFault, M!PacedTick, P!PacedTick, M!Tick, P!Tick, M!Older, P!Older,
       M!Stale, P!Stale, M!Init, P!Init, M!NoOutput, P!NoOutput

\* Every step of the chain is a paced step of MixingOutput, or none of its.
LEMMA MixingSimulation ==
  IInv /\ IInv' /\ ChainInv /\ [ChainNext]_chainVars => [P!PacedNext]_(P!vars)
<1> SUFFICES ASSUME IInv, IInv', ChainInv, [ChainNext]_chainVars
             PROVE  [P!PacedNext]_(P!vars)
  OBVIOUS
<1> USE DEF P!vars, P!topicVars, P!mixState
<1>1. CASE DriverStep
  <2>1. UNCHANGED <<func, safety>>
    BY <1>1 DEF DriverStep, StopEnter, DriveEnter, SendFrame, DisableDone,
                EnableDone, DriveDone, LoopTop, Retry, Destroy, DestroyDone,
                configVars, nshVars
  <2> QED BY <1>1, <2>1 DEF DriverStep, mixVars
<1>2. CASE LoadParams
  <2>1. call = "none"
    BY <1>2 DEF LoadParams, Reload, Retried, ChainInv, CallSites, UnderWay
  <2>2. func' \in [Channels -> Sources \cup {Disabled}] BY DEF IInv, TypeOK
  <2>3. failAction' \in 0..2
    BY ActionStep DEF ChainInv
  <2>4. UNCHANGED safety BY <1>2 DEF LoadParams, Reload, Retried, nshVars
  <2> QED BY <1>2, <2>1, <2>2, <2>3, <2>4
          DEF LoadParams, P!PacedNext, P!Others, P!SetParams
<1>3. CASE MixUpdate
  BY <1>3, SameInstance DEF MixUpdate, P!PacedNext
<1>4. CASE DriveReturned
  <2>1. result \in BOOLEAN BY DEF IInv, TypeOK
  <2>2. M!DriveReturn(result) <=> P!DriveReturn(result)
    BY DEF M!DriveReturn, P!DriveReturn, M!topicVars
  <2> QED BY <1>4, <2>1, <2>2 DEF DriveReturned, P!PacedNext, P!DriverReturn
<1>5. CASE StopReturned
  <2>1. result \in BOOLEAN BY DEF IInv, TypeOK
  <2>2. M!StopReturn(result) <=> P!StopReturn(result)
    BY DEF M!StopReturn, P!StopReturn, M!topicVars
  <2> QED BY <1>5, <2>1, <2>2 DEF StopReturned, P!PacedNext, P!DriverReturn
<1>6. CASE ArmTopic
  <2>1. (safety' = "armed") \in BOOLEAN OBVIOUS
  <2>2. UNCHANGED func
    BY <1>6 DEF ArmTopic, PublishArmed, taskUnchanged, configVars
  <2> QED BY <1>6, <2>1, <2>2 DEF ArmTopic, P!PacedNext, P!Others, P!Arm
<1>7. CASE Target
  <2>1. PICK s \in Sources : M!Publish(s) BY <1>7 DEF Target
  <2>2. P!Publish(s) BY <2>1 DEF M!Publish, P!Publish, M!mixState
  <2> QED BY <2>2 DEF P!PacedNext, P!Others
<1>8. CASE Tick BY <1>8, SameInstance DEF Tick, P!PacedNext
<1>9. CASE Elsewhere
  <2>1. UNCHANGED <<func, safety>>
    BY <1>9 DEF Elsewhere, ZeroCheck, ZeroSend, SetOutputInhibited, ParamSet,
                RequestStop, LinkChange, taskUnchanged, configVars, nshVars
  <2> QED BY <1>9, <2>1 DEF Elsewhere, mixVars
<1>10. CASE UNCHANGED chainVars
  BY <1>10 DEF chainVars, mixVars, vars, configVars, nshVars
<1> QED BY <1>1, <1>2, <1>3, <1>4, <1>5, <1>6, <1>7, <1>8, <1>9, <1>10
        DEF ChainNext, Turn

\* The composition implements MixingOutput called once per tick.
THEOREM ImplementsMixing == ChainSpec => P!PacedSpec
<1>1. ChainInit => P!Init BY SameInstance DEF ChainInit
<1>2. IInv /\ IInv' /\ ChainInv /\ [ChainNext]_chainVars => [P!PacedNext]_(P!vars)
  BY MixingSimulation
<1> QED BY <1>1, <1>2, ChainInvariance, PTL DEF ChainSpec, P!PacedSpec, P!PacedNext

\* So a data fault passes through neutral outputs in the composition too.
THEOREM ChainNeutralSafe == ChainSpec => NeutralFirst
<1>1. P!PacedSpec => P!NeutralBeforeStop 
  BY P!NeutralSafe, TimingAssumption, PTL DEF P!NeutralSafe, TimingAssumption
<1>2. ASSUME [P!Update /\ call' = "stop" /\ ~P!Idle /\ failAction = 2
                => outputs # "live"]_(P!vars)
      PROVE  [M!Update /\ call' = "stop" /\ ~M!Idle /\ failAction = 2
                => outputs # "live"]_(M!vars)
  BY <1>2, SameInstance
  DEF P!vars, M!vars, P!topicVars, M!topicVars, P!mixState, M!mixState,
      P!Idle, M!Idle, P!Disarmed, M!Disarmed, P!Needed, M!Needed, P!Fresh, M!Fresh
<1> QED BY <1>1, <1>2, ImplementsMixing, PTL
        DEF NeutralFirst, M!NeutralBeforeStop, P!NeutralBeforeStop

\* Both halves stay in their types.
THEOREM ChainTypeCorrect == ChainSpec => []ChainTypeOK
<1>1. P!Spec => []P!TypeOK
  BY P!TypeCorrect, TimingAssumption, PTL DEF P!TypeCorrect, TimingAssumption
<1>2. [P!PacedNext]_(P!vars) => [P!Next]_(P!vars)
  BY DEF P!PacedNext, P!PacedTick, P!Next
<1>3. IInv /\ P!TypeOK => ChainTypeOK
  BY DEF IInv, ChainTypeOK, M!TypeOK, P!TypeOK, M!Stale, P!Stale, M!NoOutput,
         P!NoOutput, M!NoFault, P!NoFault
<1> QED BY <1>1, <1>2, <1>3, ImplementsMixing, ChainInvariance, PTL
        DEF P!PacedSpec, P!PacedNext, P!Spec
=============================================================================
