SPECIFICATION ScriptSpec
CONSTANTS
  Node = {1, 2, 3, 4, 5}
  Timeout <- RealTimeout
  Heartbeat = 5
  Write = {"e", "f", "g"}
  MemberSet = {}
  Horizon = 42
  EventTicks = 42
  Budget <- Ample
  Script <- TAKEN_BACK
PROPERTY
  CommittedStays
