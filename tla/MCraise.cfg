SPECIFICATION Spec
CONSTANTS
  Node = {1, 2, 3}
  Timeout <- MCTimeout
  Heartbeat = 2
  Write = {w1}
  MemberSet = {{1}, {2, 3}}
  Horizon = 8
  EventTicks = 8
  Budget <- MemberBudget
INVARIANTS
  NeverRaises
