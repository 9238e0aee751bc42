\* Two switches, so that CA_ARM_SW may change between them (and to a number
\* that is no switch); 500 ms are less than a tick.
SPECIFICATION ArmingSpec
CONSTANTS
  Switch = {s1, s2}
  NoSwitch = NoSwitch
  Timeout = 0
  Fresh = 0
INVARIANTS
  ArmedAfterOff
PROPERTIES
  ArmedByOn
  SwitchDisarms
  SwitchArms
