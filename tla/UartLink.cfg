SPECIFICATION Spec
CONSTANTS
  Window = 2
  PayloadLen = 4
  Contents <- SomeContents
  MaxFrames = 4
  MaxLost = 2
  MaxCommands = 2
INVARIANTS
  TypeOK
  DamageIsBounded
  BufferFills
  ZerosHaveCause
\* The bounds let the nRF52 and the main thread stop for good.
CHECK_DEADLOCK FALSE
