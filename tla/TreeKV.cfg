SPECIFICATION Spec
CONSTANTS
  Tokens = {t1, t2}
  Capacity = 3
  PageSize = 2
  MaxBranch = 2
  MaxTokens = 4
  MaxAppend = 3
INVARIANTS
  PagesAccounted
  CoverageExact
  LogicalExact
PROPERTIES
  SharedPagesImmutable
  DedupComplete
  ImplementsStore
SYMMETRY TokenSymmetry
CHECK_DEADLOCK FALSE
