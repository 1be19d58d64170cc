\* Two prompts, streams of up to three branches and three tokens.
SPECIFICATION FairSpec
CONSTANTS
  Prompts = 2
  Words = {"word"}
  MaxBranches = 3
  MaxTokens = 3
  MaxOnTheWay = 1
CHECK_DEADLOCK FALSE
INVARIANTS
  AcceptorsAgree
  ExportsFaithful
  DemoAccepted
PROPERTIES
  OnlyWholeTrees
  RolloutEnds
