CONSTANTS
  Docs <- MCDocs
  Modes <- MCModes
  Chars <- MCChars
  Texts <- MCTexts
  Scalars <- MCScalars
  Aliased = TRUE
  MaxSlots = 6
  MaxPool = 12
  MaxIndex = 1
  SlotFloor = 2
  PoolFloor = 3
  Padding = 1
  DepthLimit = 2
SPECIFICATION TreeSpec
VIEW DocView
INVARIANTS
  EscapesMarked
