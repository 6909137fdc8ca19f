SPECIFICATION Spec
CONSTANTS
  Domain = {1, 2, 3}
  Systems <- MCSystems
  Structure <- MCStructure
  FoldStructure <- MCFoldStructure
  Pattern <- MCPattern
  GcFloor = 5
  MaxCalls <- MCMaxCalls
  Called <- MCCalled
INVARIANTS HandlesExact TablesExact Canonical ArenaInv RootsExact
