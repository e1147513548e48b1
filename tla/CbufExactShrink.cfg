SPECIFICATION Spec
CONSTANTS
  Byte = {0, 1}
  Zero = 0
  Garbage = Garbage
  MaxCapacity = 4
  MaxChunk = 3
  SizeT = 256
  ExactShrink = TRUE
PROPERTIES WritesOnlyAppend
