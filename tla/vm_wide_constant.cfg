CONSTANTS
  WordMod = 65536
  ExactBound = 65536
  Keys <- MCKeys
  Hash <- NameHash
  MinCapacity = 16
  ShrinkFloor = 32
  InitCapacity = 16
  MaxCallFrames = 5
  StackCapacity = 32
  Programs <- IllStacked
SPECIFICATION Spec
PROPERTIES IndexFromBytes
