SPECIFICATION ScriptSpec
CONSTANTS
  Node = {1, 2, 3, 4, 5}
  Timeout <- RealTimeout
  Heartbeat = 5
  Write = {"e", "f", "g", "h"}
  MemberSet = {}
  Horizon = 300
  EventTicks = 300
  Budget <- Ample
  Script <- LIVELOCK
INVARIANTS
  HealedRunLeads
