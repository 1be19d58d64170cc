\* A beam whose last branch to answer a round stops with an end-of-sequence token.
SPECIFICATION Spec
CONSTANTS
  MaxTotalBranches = 7
  Configs <- StoppingConfigs
  Scores <- TwoScores
CHECK_DEADLOCK FALSE
INVARIANT NeverStalled
