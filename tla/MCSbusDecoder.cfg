SPECIFICATION Spec
CONSTANTS
  start = start
  end = end
  other = other
  Byte = {start, end, other}
  SbusStartByte = start
  ValidEndBytes = {end}
  FrameSize = 5
  None = None
INVARIANTS
  TypeOK
PROPERTIES
  InStep
