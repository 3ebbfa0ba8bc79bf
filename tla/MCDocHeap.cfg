CONSTANTS
  Docs = {d1, d2}
  Scratches = {s1, s2}
  Sizes = {1, 2}
  MaxBlocks = 12
  MaxParses = 3
SPECIFICATION Spec
INVARIANTS
  OneOwner
  OwnersKeep
PROPERTIES LostByReuseOnly
VIEW Shape
SYMMETRY Interchangeable
