\* The operator sets the firmware default, which the boot script changes.
SPECIFICATION Spec
CONSTANTS
  Value = {fw, af, v}
  Settable = {fw, v}
  Firmware = fw
  Airframe = af
  Absent = absent
  SeqMod = 4
  Overlap = FALSE
PROPERTIES
  SavedWins
