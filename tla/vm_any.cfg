CONSTANTS
  WordMod = 65536
  ExactBound = 65536
  Keys <- MCKeys
  Hash <- NameHash
  MinCapacity = 16
  ShrinkFloor = 32
  InitCapacity = 16
  MaxCallFrames = 5
  StackCapacity = 2
  Programs <- AllPrograms
SPECIFICATION Spec
INVARIANTS TypeOK ReturnAddresses
PROPERTIES GlobalsIsolated
