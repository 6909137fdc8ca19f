SPECIFICATION Spec
CONSTANTS
  Label = {"x", "y"}
  States <- MCStates
  Undet = Undet
  Constant = {2}
  Threshold = {6}
  GcFloor = 6
  Expressions <- MCExpressions
  Called = {"and", "xor", "div", "min", "ite", "lte"}
  MaxCalls = 2
INVARIANTS HandleExact MemoSound Canonical
PROPERTIES CollectExact
