SPECIFICATION Spec
CONSTANTS
  TaskCount = 3
  Priority = {1, 2}
  Attempts = {2}
  Report = {"ok", "failed"}
  Cost = {0, 1, 3}
  None = None
  Pools <- MCPools
  Lease <- MCLeases
  Bound <- MCBounds
CHECK_DEADLOCK FALSE
INVARIANTS
  TypeOK OnePlace LimitsHeld AnswersMatchFlights NeverOvershoots RecordAddsUp
PROPERTIES
  InTimeAnswersCount ArrivalOrderSurvives RunEnds KeepsFates
