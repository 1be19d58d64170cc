\* The three policies, on values that come at once, late or never in time.
SPECIFICATION FairSpec
CONSTANTS
  MaxTotalBranches = 9
  Configs <- SearchConfigs
  Scores <- TwoScores
CHECK_DEADLOCK FALSE
INVARIANTS
  CommandsReplayTheTree
  ReservationsExact
  RefusedOnlyWhenOver
  DeferredEndingsAwaitAValue
  SomethingFinalized
  NoZombieParents
PROPERTY SearchEnds
