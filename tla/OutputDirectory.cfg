CONSTANT MaxRuns = 3
SPECIFICATION DirSpec
INVARIANTS
  DirectoryVouched
  ReopenedRequestAges
CHECK_DEADLOCK FALSE
