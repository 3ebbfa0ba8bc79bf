CONSTANTS
  MaxDepth = 3
  Depth = 2
  Capacities = {0, 7, 12, 60}
  Subtrees <- MCSubtrees
  MaxUnits = 10
SPECIFICATION Spec
INVARIANTS
  PublishedIsJson
  EmittersAgree
PROPERTIES RefusalIsFinal
