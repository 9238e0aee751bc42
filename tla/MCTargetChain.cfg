\* FS_RC_TMO is one tick; 500 ms are one tick for the modules; those
\* of MixingOutput are zero, to keep the instance small.
SPECIFICATION Spec
CONSTANTS
  Timeouts = {1}
  MaxTimeout = 1
  Actions = {"hold", "zero"}
  StatusLimit = 1
  SetpointLimit = 1
  TargetLimit = 0
INVARIANTS
  LinkAlive
PROPERTIES
  LossFollowsPolicy
  StickDrives
