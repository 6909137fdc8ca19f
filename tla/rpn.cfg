SPECIFICATION FairSpec
CONSTANTS
  Var = {a, b}
  Handle = {h1}
  Name = {s}
  None = None
  Threshold = {4}
  GcFloor = 4
  Called = {"not", "and", "or", "xor", "ite"}
  MaxList = 1
  MaxCalls = 1
  MaxTokens = 4
INVARIANTS VariablesKept
PROPERTIES Implements CallsReturn
