SPECIFICATION Spec
CONSTANTS
  Frame <- MCFrame
  EMPTY_FRAME <- MCEmpty
  Diff <- MCDiff
  BaseList <- MCBaseList
  CurrentList <- MCCurrentList
  SKIP_SPLIT_PARTS = 2
INVARIANTS
  MarksAreBits
CHECK_DEADLOCK FALSE
