CONSTANTS
  Texts <- MCAssignments
  Sources = {}
  Names <- MCNames
  Integers = {"integer"}
  MaxEntries = 4
  SliceCapacity = 8
  MaxHeight = 6
SPECIFICATION Spec
INVARIANTS AssignsToNames
