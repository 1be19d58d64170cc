\* Three beams, with value pruning and with scores from the engine, merged after every forward.
SPECIFICATION FairSpec
CONSTANTS
  MaxTotalBranches = 4
  Configs <- BeamRequests
  PromptTokens = 1
  PageSize = 2
  ValueMargin = 0
  ValueMinKeep = 2
  ValueWarmup = 1
  ValueCheckInterval = 2
INVARIANTS
  InStepWithScheduler
  NoEventRefused
  ValuesInTime
  StreamAccepted
  NothingLeftBehind
PROPERTY GenerationSucceeds
