---------------------------- MODULE OutputChain ----------------------------
(***************************************************************************)
(* The output task as it runs: the driver of CanOutput with the decisions  *)
(* of MixingOutput in place of the open Mix step.  The two share the       *)
(* output functions (loaded by the driver's updateParams), actuator_armed, *)
(* and the calls updateOutputs / its answer.                               *)
(***************************************************************************)
EXTENDS CanOutput, OutputTiming

VARIABLES failAction, armAge, armNew, src, srcNew,
          stopped, lastOutput, faultSince, began, call, outputs

M == INSTANCE MixingOutput
       WITH Channel <- Channels, Source <- Sources, permit <- (safety = "armed")

mixVars == <<failAction, armAge, armNew, src, srcNew,
             stopped, lastOutput, faultSince, began, call, outputs>>
chainVars == <<vars, mixVars>>

ChainInit == /\ Init /\ M!Init
             /\ func = store.func /\ failAction = store.act

-----------------------------------------------------------------------------
(* The task                                                                *)

\* The steps of the driver that do not involve MixingOutput.
DriverStep ==
  /\ \/ StopEnter \/ DriveEnter \/ SendFrame \/ DisableDone \/ EnableDone
     \/ DriveDone \/ LoopTop \/ Retry \/ Destroy \/ DestroyDone
  /\ UNCHANGED mixVars

\* updateParams() reaches the child MixingOutput too.
LoadParams ==
  /\ Reload \/ Retried
  /\ failAction' = IF result THEN store.act ELSE failAction
  /\ UNCHANGED <<armAge, armNew, src, srcNew, stopped, lastOutput, faultSince,
                 began, call, outputs>>

\* The driver call MixingOutput makes next, if any.
Dispatch ==
  \/ call' = "none" /\ pc' = "loop" /\ UNCHANGED ret
  \/ call' = "stop" /\ CallStop("mixed")
  \/ call' = "drive" /\ CallDrive("driven")

MixUpdate == pc = "mix" /\ mixUnchanged /\ M!Update /\ Dispatch

DriveReturned == pc = "driven" /\ mixUnchanged /\ M!DriveReturn(result) /\ Dispatch

StopReturned == pc = "mixed" /\ mixUnchanged /\ M!StopReturn(result) /\ Dispatch

Turn == DriverStep \/ LoadParams \/ MixUpdate \/ DriveReturned \/ StopReturned

-----------------------------------------------------------------------------
(* The environment                                                         *)

ArmTopic == PublishArmed /\ armAge' = 0 /\ armNew' = TRUE
            /\ UNCHANGED <<failAction, src, srcNew, stopped, lastOutput,
                           faultSince, began, call, outputs>>

Target == UNCHANGED vars /\ \E s \in Sources : M!Publish(s)

Tick == UNCHANGED vars /\ M!PacedTick

Elsewhere ==
  /\ \/ ZeroCheck \/ ZeroSend \/ SetOutputInhibited \/ ParamSet
     \/ RequestStop \/ LinkChange
  /\ UNCHANGED mixVars

ChainNext == Turn \/ ArmTopic \/ Target \/ Tick \/ Elsewhere

\* can_output has the highest priority of the tasks that take _outputMutex
\* (115; the NSH task runs below it) and the mutex hands over to it, so a turn
\* that can go on infinitely often does.  The NSH command finishes; time passes.
ChainSpec == /\ ChainInit /\ [][ChainNext]_chainVars
             /\ SF_chainVars(Turn)
             /\ WF_chainVars(ZeroSend /\ UNCHANGED mixVars)
             /\ WF_chainVars(Tick)

-----------------------------------------------------------------------------
(* Properties                                                              *)

\* Both halves stay in their types.
ChainTypeOK == TypeOK /\ M!TypeOK

\* What MixingOutput remembers of the driver is true of the motors: between
\* two calls, _stopped means that nothing is on and nothing is owed, although
\* the driver stops and reloads on its own too.  (Before the first call it is
\* only the initial value, and _lastOutput says so.)  It is what makes the early
\* return of MixingOutput.cpp:158 harmless.
StoppedMeansOff ==
  stopped /\ call = "none" /\ lastOutput # NoOutput =>
    ~protocolArmed /\ ~disablePending /\ motorOn = {}

\* With OUT_FAIL_ACT 2, neutral outputs come between live ones and the stop
\* that answers a data fault (MixingOutput.cpp:170-180).
NeutralFirst == M!NeutralBeforeStop

\* The composition implements CanOutput: the contract its driver relies on, a
\* failed drive call is followed by a stop, is kept by MixingOutput.
ImplementsCanOutput == Spec

Undisturbed == [](~shouldExit)

\* MixingOutput sees P whenever it looks: messages age and are published again
\* in between.
Sees(P) == pc = "mix" => P

\* Once MixingOutput sees no permission any more (withdrawn, or Command fell
\* silent) and the bus works, every motor is off and stays off.
DisarmTurnsOff ==
  Undisturbed /\ <>[](link /\ Sees(M!Disarmed)) => <>[](motorOn = {})

\* Once the permission stays, the targets are good, the parameters are valid
\* and not changed, and the bus works, every motor with a function is on and
\* stays on: no lost frame leaves the driver in a state it never leaves.
ArmTurnsOn ==
  Undisturbed
  /\ <>[](/\ Sees(~M!Disarmed /\ ~M!DataFault)
          /\ link /\ parametersValid /\ ~paramNew /\ ~reloadPending
          /\ \A i \in Channels : Addressed("enable", i) => <<i, addr[i]>> \in Drivable)
    => <>[]AllOn

\* While armed, targets that stay bad turn the motors off unless OUT_FAIL_ACT
\* says to hold them at neutral.
FaultTurnsOff ==
  Undisturbed /\ <>[](link /\ Sees(~M!Idle /\ M!DataFault /\ failAction # 1))
    => <>[](motorOn = {})

\* A parameter set that stays stored is eventually the one in use, unless the
\* loader refuses it, and it is used only when it is legal.
ReloadHappens ==
  Undisturbed /\ <>[](link /\ ~paramNew) =>
    <>[](/\ func = store.func /\ ~reloadPending
         /\ store.loads => addr = store.addr
         /\ parametersValid <=> store.loads /\ store.maps)

-----------------------------------------------------------------------------
(* The invariant behind StoppedMeansOff (OutputChain_proof)                *)

\* Which call of MixingOutput is under way, seen from the driver.
UnderWay(c, returnPoint) ==
  pc = returnPoint \/ (pc \in {"stop", "drive", "send"} /\ ret = returnPoint)
    => call = c

CallSites ==
  /\ UnderWay("stop", "mixed") /\ UnderWay("drive", "driven")
  /\ UnderWay("none", "reload") /\ UnderWay("none", "retried")
  /\ UnderWay("none", "exited")
  /\ pc \in {"loop", "retry", "mix"} => call = "none"

\* A disable loop is entered only with something to disable, and a stop that
\* succeeded leaves nothing owed.
StopTells ==
  /\ pc = "send" /\ cmd = "disable" => protocolArmed \/ disablePending
  /\ pc = "mixed" /\ result => ~protocolArmed /\ ~disablePending

\* Between two calls, _stopped means that both flags are clear.
StoppedMeansClear ==
  stopped /\ call = "none" /\ lastOutput # NoOutput =>
    ~protocolArmed /\ ~disablePending

ChainInv == /\ CallSites /\ StopTells /\ StoppedMeansClear
            /\ failAction \in 0..2
=============================================================================
