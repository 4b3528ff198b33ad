SPECIFICATION Spec
CONSTANTS
  Requests <- BowtieRequests
  Repeated = {}
  MaxCalls = 1
  PointThreshold = 12
  RelaxedThreshold = 4
  ScanLimit = 8
  TrimLimit = 8
  LongDoubleDigits = 24
INVARIANT DirectRingsAreSimple
CHECK_DEADLOCK FALSE
