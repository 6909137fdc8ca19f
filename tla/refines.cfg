SPECIFICATION Spec
CONSTANTS
  Var = {a, b}
  Handle = {h1, h2, h3}
  Name = {s}
  None = None
  Threshold = {4}
  GcFloor = 4
  Called = {"or", "ite"}
  MaxList = 2
  MaxCalls = 1
  MaxTokens = 0
SYMMETRY Symmetry
PROPERTIES Implements
