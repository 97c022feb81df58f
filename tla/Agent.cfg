SPECIFICATION Spec
CONSTANTS
  NSocks = 2
  Attempts = 2
  MaxDown = 1
  MaxCut = 1
  PaReset = 2
  MaxFaults = 3
INVARIANTS OneSocket
PROPERTIES ComesBack CaptureRecovers
CHECK_DEADLOCK FALSE
