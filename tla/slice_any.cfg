CONSTANTS
  SliceCapacity = 8
  ByteMax = 2
  ShortMax = 5
  MaxCode = 40
SPECIFICATION SliceSpec
INVARIANTS SliceTypeOK OverrunByLongRun
