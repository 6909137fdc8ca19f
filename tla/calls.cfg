SPECIFICATION Spec
CONSTANTS
  Var = {a, b}
  Handle = {h1, h2, h3}
  Name = {s}
  None = None
  Threshold = {4}
  GcFloor = 4
  MaxList = 0
  MaxCalls = 2
  MaxTokens = 0
  Called = {"xor"}
SYMMETRY Symmetry
INVARIANTS
  MeaningInv NoDangling RootsExact
  CacheSound EqIsFunctionEquality
PROPERTIES GcExact NodesStable
