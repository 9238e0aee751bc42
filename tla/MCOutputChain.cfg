\* StoppedMeansOff, NeutralFirst and ImplementsCanOutput are proved for the
\* whole ChainSpec (OutputChain_proof).
SPECIFICATION QuietSpec
CONSTANTS
  N = 1
  a1 = a1
  a2 = a2
  motors = motors
  Disabled = Disabled
  Address = {a1, a2}
  Sources = {motors}
  Profiles <- LiveProfiles
  Drivable <- MCDrivable
  TopicTimeout = 0
  OutputPeriod = 1
  NeutralBeforeDisable = 2
INVARIANTS
  StoppedMeansOff
PROPERTIES
  NeutralFirst
  ImplementsCanOutput
  DisarmTurnsOff
  FaultTurnsOff
  ArmTurnsOn
  ReloadHappens
