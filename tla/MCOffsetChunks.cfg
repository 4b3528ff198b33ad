SPECIFICATION Spec
CONSTANTS
  Requests <- CallRequests
  MinimumPathCount = 2
  MinimumPointCount = 4
  MinimumConcurrency = 1
  MaximumConcurrency = 1
  MaximumCoordinate = 30
  MaximumInputPaths = 6
  MaximumInputPoints = 24
  MaximumCleanupPoints = 48
  MaximumOutputPoints = 15
  ScanLimit = 8
  PreparedScanLimit = 12
  DisjointLimit = 2
  PreparedDisjointLimit = 4
INVARIANTS
  ChunksWithinPaths
  ParallelMatchesSerial
  AnswerIsTheOffset
  DirectRingsCoverOnce
CHECK_DEADLOCK FALSE
