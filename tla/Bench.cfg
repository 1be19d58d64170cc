\* Three samples of a task on two threads, in two configurations.
SPECIFICATION FairSpec
CONSTANTS
  Cells = 1
  Tasks = 1
  KSamples = 3
  Concurrency = 2
  Configs = {"first", "second"}
  Answers = {"correct", "wrong", "error"}
  Harness = TRUE
  MaxStarts = 2
CHECK_DEADLOCK FALSE
INVARIANTS
  ResultsReproducible
  OneConfiguration
  NeverRunAgain
  ArtifactInOrder
PROPERTY ProcessesEnd
