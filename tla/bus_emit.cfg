SPECIFICATION Spec
CONSTANTS
  Names = {a, b}
  None = None
  Stored <- Short
  Refs = {r1, r2, r3, r4}
  MaxChannels = 2
  MaxSubs = 3
  MaxId = 4
  MaxDepth = 2
SYMMETRY Symmetry
INVARIANTS RefsMatch
PROPERTIES CallsItsSnapshot SkipsOnlyRemoved
