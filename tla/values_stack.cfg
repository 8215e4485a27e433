CONSTANTS
  WordMod = 8
  ExactBound = 8
  InitCapacity = 1
  SlotValues <- MCSlotValues
SPECIFICATION Spec
INVARIANTS TypeOK WildWhenFull
PROPERTIES KeepsSlots
