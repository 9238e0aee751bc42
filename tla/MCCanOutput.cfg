SPECIFICATION Spec
CONSTANTS
  N = 2
  a1 = a1
  a2 = a2
  src = src
  Disabled = Disabled
  Address = {a1, a2}
  Sources = {src}
  Profiles <- MCProfiles
  Drivable <- MCDrivable
INVARIANTS
  KnowsWhatIsOn
  OnlyConfigured
  DriveOnlyWhenAllOn
  ZeroOnlyWhenOff
