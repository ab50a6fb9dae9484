SPECIFICATION Spec
CONSTANTS
  Conns <- MCConns
  NoPin = 99
  MaxChanges = 2
  MaxCalls = 5
  MaxLate = 2
INVARIANT CacheIsFresh
CHECK_DEADLOCK FALSE
