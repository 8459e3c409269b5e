SPECIFICATION Spec
CONSTANTS
  East <- MCEast
  West <- MCWest
  Home <- MCHome
  Writes = {"er", "wr"}
  Reads = {"get"}
  Mortal = {"e1", "e2", "w1"}
  Kills = 2
  Revives = 1
  Flips = 2
  Calls = 2
INVARIANTS TypeOK PromotionProven WrittenHeldByMajority ClocksUnique EntriesConverge NoticesTrackDeaths
PROPERTIES NothingForgotten FailoverHappens
