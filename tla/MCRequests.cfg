SPECIFICATION ThreadSpec
CONSTANTS
  Requests <- AllRequests
  Repeated <- RepeatedRequests
  RectRequests <- AllRectRequests
  RectRepeated <- RectSequences
  MaxCalls = 3
  PointThreshold = 12
  RelaxedThreshold = 4
  ScanLimit = 8
  TrimLimit = 8
  LongDoubleDigits = 24
INVARIANTS AnswerCoversRegion EngineUsesLiveVertices EverythingIsSwept RectAnswerIsTheInside
PROPERTIES RectCallsEnd
