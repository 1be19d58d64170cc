\* Best-first search on two branches, the tokens of a page coming to an end with the tree budget.
SPECIFICATION Spec
CONSTANTS
  MaxTotalBranches = 13
  Configs <- BestFirstRequests
  PromptTokens = 1
  PageSize = 2
  ValueMargin = 0
  ValueMinKeep = 2
  ValueWarmup = 1
  ValueCheckInterval = 2
CHECK_DEADLOCK FALSE
INVARIANT CommandsCarriedOut
