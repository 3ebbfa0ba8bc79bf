CONSTANTS
  Inputs <- MCInputs
  Options <- MCOptions
  DepthLimit = 2
  FallbackDepth = 3
  Indents = {0, 2}
  MaxAny = 2
  MaxDoc = 9
  MaxEdit = 6
SPECIFICATION FairCallSpec
INVARIANTS
  AcceptsGrammar
  RangesAreSources
  LazyReadsTheSame
  PointersAgree
  RoundTrip
  BytesFit
  FramesFit
PROPERTIES Terminates
