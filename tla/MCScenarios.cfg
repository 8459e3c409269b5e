SPECIFICATION ScriptSpec
CONSTANTS
  Node = {1, 2, 3, 4, 5}
  Timeout <- RealTimeout
  Heartbeat = 5
  Write = {"x=1", "y=2", "z=3"}
  MemberSet = {{1, 2, 3}}
  Horizon = 100
  EventTicks = 100
  Budget <- Ample
  Script <- SCENARIOS
INVARIANTS
  ReproducesPins
