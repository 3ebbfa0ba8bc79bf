CONSTANTS
  Chunks = {2, 4}
  MaxBufs = 3
  FsyncOnClose = TRUE
  MaxFaults = 2
  Trees <- MCTrees
  Indents = {0}
  Slacks = {0, 1}
SPECIFICATION StreamSpec
INVARIANTS
  Accounted
  BuffersHeld
  StreamedIsWritten
PROPERTIES
  ImplementsLog
  CallsReturn
CHECK_DEADLOCK FALSE
