\* One save or load at a time; the operator never sets the firmware default.
SPECIFICATION Spec
CONSTANTS
  Value = {fw, af, v}
  Settable = {af, v}
  Firmware = fw
  Airframe = af
  Absent = absent
  SeqMod = 4
  Overlap = FALSE
INVARIANTS
  Durable
  CleanMeansStored
PROPERTIES
  CrashKeeps
  AutoSaves
