SPECIFICATION ScriptSpec
CONSTANTS
  Node = {1, 2, 3, 4, 5}
  Timeout <- RealTimeout
  Heartbeat = 5
  Write = {"e", "f", "g", "h"}
  MemberSet = {}
  Horizon = 40
  EventTicks = 40
  Budget <- Ample
  Script <- FALSE_COMMIT
INVARIANTS
  SlotsCommitOnce
