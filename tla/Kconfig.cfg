CONSTANTS
  SymType <- MCSymType
  Number <- MCNumber
  Order <- MCOrder
  Texts <- MCTexts
  Projects <- MCProjects
  Numbers = {1, 3, 4}
  Heights = {1, 3}
  MaxItems = 5
  ListHeight = 3
  BoxWidth = 2
  MaxLen = 3
  MaxText = 4
  MaxJobs = 3
  MaxEdits = 2
  MaxDepth = 3
SPECIFICATION MCSpec
CHECK_DEADLOCK FALSE
INVARIANT FileMeant ValuesExact FilesExact NothingLost ChangesRebuilt BoxMeant ConfigKept
PROPERTY OldconfigEnds TextMoves
