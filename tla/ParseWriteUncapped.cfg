CONSTANTS
  Inputs <- MCInputs
  Options <- OnlyPlain
  DepthLimit = 0
  FallbackDepth = 3
  Indents = {0}
  MaxAny = 1
  MaxDoc = 9
  MaxEdit = 1
SPECIFICATION CallSpec
INVARIANTS UncappedWhenFolded
