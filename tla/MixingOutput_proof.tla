------------------------- MODULE MixingOutput_proof -------------------------
(* Theorems of MixingOutput, for every set of channels and sources and all  *)
(* timing constants the assumption admits.                                  *)
EXTENDS MixingOutput, TLAPS

USE TimingAssumption

PacedNext == Update \/ DriverReturn \/ PacedTick \/ Others

\* An age that grows stays below its limit.
LEMMA OlderType ==
  ASSUME NEW limit \in Nat, NEW age \in 0..limit
  PROVE  Older(age, limit) \in 0..limit
BY DEF Older

\* A paced step is a step, so the type holds with and without pacing.
LEMMA TypeStep == TypeOK /\ [Next]_vars => TypeOK'
<1> SUFFICES ASSUME TypeOK, [Next]_vars PROVE TypeOK' OBVIOUS
<1> USE DEF TypeOK, topicVars, mixState, NoFault, NoOutput, Stale
<1>1. CASE Update
  <2>1. call' \in {"none", "stop", "drive"} BY <1>1 DEF Update, Decision
  <2>2. outputs' \in {"none", "neutral", "live"} BY <1>1 DEF Update
  <2>3. faultSince' \in {NoFault} \cup 0..NeutralBeforeDisable
    BY <1>1 DEF Update, FaultAge
  <2>4. srcNew' \in [Source -> BOOLEAN] BY <1>1 DEF Update
  <2>5. began' \in 0..OutputPeriod BY <1>1 DEF Update
  <2> QED BY <1>1, <2>1, <2>2, <2>3, <2>4, <2>5 DEF Update
<1>2. CASE DriverReturn
  <2>1. lastOutput' \in 0..NoOutput
    BY <1>2 DEF DriverReturn, StopReturn, DriveReturn
  <2>2. stopped' \in BOOLEAN BY <1>2 DEF DriverReturn, StopReturn, DriveReturn
  <2> QED BY <1>2, <2>1, <2>2 DEF DriverReturn, StopReturn, DriveReturn
<1>3. CASE Tick
  <2>1. armAge' \in 0..Stale /\ began' \in 0..OutputPeriod
    <3>1. Stale \in Nat OBVIOUS
    <3> QED BY <1>3, <3>1, OlderType DEF Tick
  <2>5. lastOutput' \in 0..NoOutput BY <1>3 DEF Tick, Older
  <2>2. faultSince' \in {NoFault} \cup 0..NeutralBeforeDisable
    BY <1>3, OlderType DEF Tick
  <2>3. ASSUME NEW s \in Source
        PROVE  [src[s] EXCEPT !.age = Older(@, Stale)] \in [ok : BOOLEAN, age : 0..Stale]
    BY OlderType
  <2>4. src' \in [Source -> [ok : BOOLEAN, age : 0..Stale]]
    BY <1>3, <2>3 DEF Tick
  <2> QED BY <1>3, <2>1, <2>2, <2>4, <2>5 DEF Tick
<1>4. CASE Arm
  <2>1. armAge' \in 0..Stale /\ armNew' \in BOOLEAN BY <1>4 DEF Arm
  <2> QED BY <1>4, <2>1 DEF Arm
<1>5. CASE SetParams BY <1>5 DEF SetParams
<1>6. ASSUME NEW s \in Source, Publish(s) PROVE TypeOK'
  <2>1. src' \in [Source -> [ok : BOOLEAN, age : 0..Stale]]
    BY <1>6 DEF Publish
  <2>2. srcNew' \in [Source -> BOOLEAN] BY <1>6 DEF Publish
  <2> QED BY <1>6, <2>1, <2>2 DEF Publish
<1>7. CASE UNCHANGED vars BY <1>7 DEF vars
<1> QED BY <1>1, <1>2, <1>3, <1>4, <1>5, <1>6, <1>7 DEF Next, Others

\* The initial values are in their types.
LEMMA TypeInit == Init => TypeOK
<1> SUFFICES ASSUME Init PROVE TypeOK OBVIOUS
<1> USE DEF Init, NoOutput, Stale
<1>1. src \in [Source -> [ok : BOOLEAN, age : 0..Stale]] OBVIOUS
<1>2. srcNew \in [Source -> BOOLEAN] OBVIOUS
<1>3. armAge \in 0..Stale /\ lastOutput \in 0..NoOutput OBVIOUS
<1>4. permit \in BOOLEAN /\ armNew \in BOOLEAN /\ stopped \in BOOLEAN OBVIOUS
<1>5. began \in 0..OutputPeriod OBVIOUS
<1> QED BY <1>1, <1>2, <1>3, <1>4, <1>5 DEF TypeOK, NoFault

\* Every variable stays in its type, whatever the driver answers.
THEOREM TypeCorrect == Spec => []TypeOK
BY TypeInit, TypeStep, PTL DEF Spec

\* A fault seen while the outputs are live ages no faster than they do: the
\* update that finds them a period old replaces them by neutral ones.
LEMMA YoungStep ==
  TypeOK /\ FaultYoungerThanLive /\ [PacedNext]_vars => FaultYoungerThanLive'
<1> SUFFICES ASSUME TypeOK, FaultYoungerThanLive, [PacedNext]_vars
             PROVE  FaultYoungerThanLive'
  OBVIOUS
<1> USE DEF TypeOK, FaultYoungerThanLive, topicVars, mixState, NoFault,
            NoOutput, Stale
<1>1. CASE Update BY <1>1 DEF Update, Decision, FaultAge
<1>2. CASE DriverReturn BY <1>2 DEF DriverReturn, StopReturn, DriveReturn
<1>3. CASE PacedTick BY <1>3 DEF PacedTick, Tick, Older
<1>4. CASE Others BY <1>4 DEF Others, Arm, SetParams, Publish
<1>5. CASE UNCHANGED vars BY <1>5 DEF vars
<1> QED BY <1>1, <1>2, <1>3, <1>4, <1>5 DEF PacedNext

\* With OUT_FAIL_ACT 2, neutral outputs come between live ones and the stop
\* that answers a data fault, if the loop turns at least once per tick.
THEOREM NeutralSafe == PacedSpec => NeutralBeforeStop
<1>1. Init => TypeOK /\ FaultYoungerThanLive
  BY TypeInit DEF Init, FaultYoungerThanLive
<1>2. [PacedNext]_vars => [Next]_vars BY DEF PacedNext, PacedTick, Next
<1>3. TypeOK /\ FaultYoungerThanLive /\ [PacedNext]_vars
        => (TypeOK /\ FaultYoungerThanLive)'
  BY <1>2, TypeStep, YoungStep
<1>4. ASSUME TypeOK, FaultYoungerThanLive, Update, call' = "stop", ~Idle,
             failAction = 2
      PROVE  outputs # "live"
  <2>1. FaultStops BY <1>4 DEF Update, Decision
  <2>2. faultSince # NoFault /\ faultSince >= NeutralBeforeDisable
    BY <1>4, <2>1 DEF FaultStops, FaultAge
  <2> QED BY <1>4, <2>2 DEF FaultYoungerThanLive, TypeOK, NoOutput, NoFault
<1>5. TypeOK /\ FaultYoungerThanLive /\ [PacedNext]_vars
        => [Update /\ call' = "stop" /\ ~Idle /\ failAction = 2
              => outputs # "live"]_vars
  BY <1>4
<1> QED BY <1>1, <1>3, <1>5, PTL DEF PacedSpec, PacedNext, NeutralBeforeStop
=============================================================================
