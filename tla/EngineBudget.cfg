\* Three beams of two tokens each: the first to use up its budget leaves the others at a fork.
SPECIFICATION Spec
CONSTANTS
  MaxTotalBranches = 10
  Configs <- ShortRequests
  PromptTokens = 1
  PageSize = 2
  ValueMargin = 0
  ValueMinKeep = 2
  ValueWarmup = 1
  ValueCheckInterval = 2
CHECK_DEADLOCK FALSE
INVARIANT ContinueAuthorizes
