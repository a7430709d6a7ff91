SPECIFICATION RsrpFairSpec
CONSTANTS
  UpdateInt = 2
  FailedRetry = 1
  ModemFails = TRUE
  MaxAge = 2
INVARIANTS
  RsrpTypeOK
  SearchIsAnnounced
  NewValueIsScheduled
PROPERTIES
  SearchEnds
  KeepsPosting
  HoldTimeKept
  GpsAsAlone
