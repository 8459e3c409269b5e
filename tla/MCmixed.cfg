SPECIFICATION Spec
CONSTANTS
  Node = {1, 2, 3}
  Timeout <- MCTimeout
  Heartbeat = 2
  Write = {w1, w2}
  MemberSet = {}
  Horizon = 7
  EventTicks = 7
  Budget <- MixedBudget
SYMMETRY Symmetry
INVARIANTS
  TypeOK BallotsBind OneLeaderAtATime SlotsCommitOnce
  ChosenHeldByMajority LeaderHoldsChosen NeverRaises DiskIsCurrent
PROPERTIES
  TermsGrow CommittedStays
