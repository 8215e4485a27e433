CONSTANTS
  Trees <- MCTrees
  Texts <- MCTexts
  Labels <- MCLabels
  Identifiers <- MCNames
  Integers <- MCIntegers
  IntegerValue <- MCIntegerValue
  MaxEntries = 8
  SliceCapacity = 8
  Keys <- MCNames
  Hash <- MCHash
  MinCapacity = 16
  ShrinkFloor = 32
  InitCapacity = 16
  MaxCallFrames = 8
  StackCapacity = 32
  WordMod = 2000000000
  ExactBound = 1000000000
SPECIFICATION MeantSpec
INVARIANTS TypeOK AsMeant
PROPERTIES Finishes
