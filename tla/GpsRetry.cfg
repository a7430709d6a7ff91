SPECIFICATION Spec
CONSTANTS
  UpdateInt = 2
  FailedRetry = 1
  ModemFails = FALSE
  MaxAge = 2
PROPERTY
  RetryWaits
