SPECIFICATION Spec
CONSTANTS
  States <- MCStates
  Structures <- CountStructures
  Others <- MCOthers
  Reliability <- MCReliability
  Denominator = 3
  Values = {0, 1, 2}
  Selections <- MCSelections
INVARIANT MddCountExact
CHECK_DEADLOCK FALSE
