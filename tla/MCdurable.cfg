SPECIFICATION Spec
CONSTANTS
  Jobs <- MCJobs
  Labels = {"instant", "reliable", "hopeless", "dying"}
  Answer <- MCAnswer
  Workers <- MCWorkers
  Limits = {1, 2}
  Every = {0, 1}
  Calls = 3
INVARIANTS TypeOK EffectsOnce ClaimsInTurn FoldsAgree
PROPERTIES RunFinishes
CHECK_DEADLOCK FALSE
