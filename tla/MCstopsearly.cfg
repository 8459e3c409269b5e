SPECIFICATION Spec
CONSTANTS
  TaskCount = 2
  Priority = {1}
  Attempts = {2}
  Report = {"ok", "failed"}
  Cost = {1, 3}
  None = None
  Pools <- TightPools
  Lease <- NoLease
  Bound <- NoBound
CHECK_DEADLOCK FALSE
INVARIANTS
  StopsOnlyWhenDrained
