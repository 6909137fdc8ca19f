SPECIFICATION Spec
CONSTANTS
  States <- MCStates
  Structures <- MCStructures
  Others <- MCOthers
  Reliability <- MCReliability
  Denominator = 3
  Values = {0, 1, 2}
  Selections <- MCSelections
INVARIANTS
  MinimalExact LevelExact SetOpsExact CountExact ReliabilityExact
CHECK_DEADLOCK FALSE
