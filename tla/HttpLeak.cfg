SPECIFICATION Spec
CONSTANTS
  HTTPS = FALSE
  Partial = FALSE
  MessageLen = 3
  MaxSockets = 2
  Pool = 3
  Heap = 5
  Need = 2
INVARIANT
  HoldsNothing
