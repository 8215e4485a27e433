CONSTANTS
  Texts <- MCTexts
  Letters = {"a", "b", "c", "d", "e", "f", "g", "h", "i", "j", "k", "l", "m",
             "n", "o", "p", "q", "r", "s", "t", "u", "v", "w", "x", "y", "z"}
  Digits = {"1"}
SPECIFICATION Spec
INVARIANTS TypeOK MaximalMunch Lines
PROPERTIES NothingLost Ends
