\* param save during an autosave, with flash that works.
SPECIFICATION SoundFlashSpec
CONSTANTS
  Value = {fw, af, v}
  Settable = {af, v}
  Firmware = fw
  Airframe = af
  Absent = absent
  SeqMod = 4
  Overlap = TRUE
INVARIANTS
  OtherPageLoads
