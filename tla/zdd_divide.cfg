SPECIFICATION Spec
CONSTANTS
  u = u
  v = v
  w = w
  Label = {u, v, w}
  VarOrder <- MCVarOrder
  GcFloor = 5
  Clients <- MCClients
INVARIANTS DivideExact
CHECK_DEADLOCK FALSE
