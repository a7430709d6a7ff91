SPECIFICATION Spec
CONSTANTS
  Window = 2
  PayloadLen = 4
  Contents <- SomeContents
  MaxFrames = 1
  MaxLost = 0
  MaxCommands = 0
INVARIANT AllPacketsDecoded
\* The bounds let the nRF52 and the main thread stop for good.
CHECK_DEADLOCK FALSE
