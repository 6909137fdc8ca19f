SPECIFICATION Spec
CONSTANTS
  Variables = 4
  Structures <- MCStructures
  Lists <- MCLists
  Reliability <- MCReliability
  Denominator = 3
INVARIANTS
  MinimalExact TransformsExact
  CountExact PathsExact ReliabilityExact
CHECK_DEADLOCK FALSE
