SPECIFICATION FairSpec
CONSTANTS
  UpdateInt = 2
  FailedRetry = 1
  ModemFails = FALSE
  MaxAge = 2
PROPERTY
  StartsAgain
