CONSTANTS
  Chunks = {4}
  MaxBufs = 2
  FsyncOnClose = FALSE
  MaxFaults = 0
  Trees <- MCTrees
  Indents = {1}
  Slacks = {0}
SPECIFICATION StreamSpec
INVARIANTS StreamedIsWritten
CHECK_DEADLOCK FALSE
