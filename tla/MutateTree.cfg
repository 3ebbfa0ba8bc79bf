CONSTANTS
  Docs <- Filled
  Modes <- Pooled
  Chars <- MCChars
  Texts <- MCTexts
  Scalars <- MCScalars
  Aliased = FALSE
  MaxSlots = 5
  MaxPool = 8
  MaxIndex = 1
  SlotFloor = 2
  PoolFloor = 3
  Padding = 1
  DepthLimit = 2
SPECIFICATION TreeSpec
VIEW DocView
PROPERTIES ImplementsTree
