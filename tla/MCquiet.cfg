SPECIFICATION Spec
CONSTANTS
  Node = {1, 2, 3}
  Timeout <- MCTimeout
  Heartbeat = 2
  Write = {w1}
  MemberSet = {}
  Horizon = 14
  EventTicks = 4
  Budget <- QuietBudget
INVARIANTS
  HealedRunConverges
PROPERTIES
  DrainsSettle
