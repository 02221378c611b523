SPECIFICATION Spec
CONSTANTS
  Frame <- MCFrame
  EMPTY_FRAME <- MCEmpty
  Diff <- MCDiff
  BaseList <- MCBaseList
  CurrentList <- MCCurrentList
  SKIP_SPLIT_PARTS = 2
INVARIANTS
  TypeOK
  MarksGenuine
  ExactFound
  MatchCounted
  SelfMatchFull
PROPERTIES
  CmarkNeverRaised
CHECK_DEADLOCK FALSE
