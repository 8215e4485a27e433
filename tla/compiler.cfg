CONSTANTS
  Texts <- MCTexts
  Sources <- MCSources
  Names <- MCNames
  Integers = {"integer"}
  MaxEntries = 4
  SliceCapacity = 32
  MaxHeight = 6
SPECIFICATION Spec
INVARIANTS TypeOK Fits LocalsAreSlots BackAtTop HandedOver NonePending FollowsGrammar NotationShows
PROPERTIES LoopsKeepTheirJumps Ends
