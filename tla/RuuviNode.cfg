SPECIFICATION NodeFairSpec
CONSTANTS
  Wrap = 5
  Boot = 6
  Zone = 2
  MaxLate = 1
  UpdateInt = 4
  FailedRetry = 2
  MaxUptime = 14
INVARIANTS
  NodeTypeOK
  NeverInFuture
  RightAfterFix
  ReportsComeLast
PROPERTIES
  NodeClock
  FallsBackSeldom
  SearchesInTime
  RequestsInTime
  DeafStartsAgain
