\* Three samples, and a process killed while it writes its journal.
SPECIFICATION Spec
CONSTANTS
  Cells = 1
  Tasks = 1
  KSamples = 3
  Concurrency = 2
  Configs = {"config"}
  Answers = {"correct", "wrong"}
  Harness = FALSE
  MaxStarts = 3
CHECK_DEADLOCK FALSE
INVARIANT AlwaysResumes
