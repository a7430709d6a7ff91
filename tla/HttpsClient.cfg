SPECIFICATION FairSpec
CONSTANTS
  HTTPS = TRUE
  Partial = TRUE
  MessageLen = 3
  MaxSockets = 2
  Pool = 3
  Heap = 5
  Need = 2
INVARIANTS
  TypeOK
  HoldsNothing
  SentIsAccepted
PROPERTY
  KeepsPosting
