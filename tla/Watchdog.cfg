SPECIFICATION FairSpec
CONSTANTS
  Timeout = 9
  SysDelay = 2
  AppDelay = 2
INVARIANTS
  TypeOK
  OneChain
  ExpiresOnlyOnFault
PROPERTIES
  FaultIsFinal
  FaultResets
\* A device whose watchdog did not start and whose queues hang does nothing.
CHECK_DEADLOCK FALSE
