CONSTANTS
  Inputs <- MCInputs
  Options <- MCOptions
  DepthLimit = 3
  FallbackDepth = 2
  MaxAny = 3
  MaxDoc = 9
  MaxEdit = 6
SPECIFICATION TwinSpec
INVARIANTS
  TypeOK
  SlabInBounds
  OpenChain
  DepthIsOpens
  ClosedSpansNest
  LiveCounts
  TwinsAgree
  ArenaWellFormed
  BoundsAgree
