CONSTANTS
  NumWalls = 2
  Hook = TRUE
  Sudo = TRUE
  Supervised = TRUE
CHECK_DEADLOCK FALSE
SPECIFICATION FairSpec
INVARIANTS FailClosed SetupOnFrozenChild
PROPERTIES NoHang ImplementsCell
