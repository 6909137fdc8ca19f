SPECIFICATION Spec
CONSTANTS
  u = u
  v = v
  w = w
  Label = {u, v, w}
  VarOrder <- MCVarOrder
  GcFloor = 5
  Clients <- MCClients
INVARIANTS
  FamiliesExact IntersectOnAntichains TablesExact Canonical ArenaInv RootsExact EnumerationExact
CHECK_DEADLOCK FALSE
