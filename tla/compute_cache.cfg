SPECIFICATION CacheSpec
CONSTANTS
  Key <- MCKey
  Val = {0, 1, 2}
  None = None
  Hash <- MCHash
  InitBits = 1
  MaxBits = 3
INVARIANTS CacheInvariant LoadBounded
PROPERTIES IsHint
