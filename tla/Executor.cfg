SPECIFICATION Spec
CONSTANTS
  Vocabulary = {v1, v2}
  Capacity = 3
  PageSize = 2
  MaxBranch = 2
  MaxTokens = 3
  MaxAppend = 2
  Layers = 2
  Mine = "mine"
  Others = {"other"}
INVARIANTS
  RowsMatchTokens
  LogitsCurrent
  OwnAttention
SYMMETRY VocabularySymmetry
CHECK_DEADLOCK FALSE
