CONSTANTS
  Docs <- MCDocs
  Modes <- MCModes
  Chars <- MCChars
  Texts <- MCTexts
  Scalars <- MCScalars
  Aliased = FALSE
  MaxSlots = 5
  MaxPool = 9
  MaxIndex = 1
  SlotFloor = 2
  PoolFloor = 3
  Padding = 1
  DepthLimit = 2
SPECIFICATION TreeSpec
VIEW StoreView
INVARIANTS
  RoomOwned
  BoundExact
  EscapesMarked
  ArenaWellFormed
  WalkReachesParent
  FlatIndexIsWalk
PROPERTIES
  LentStorageKept
