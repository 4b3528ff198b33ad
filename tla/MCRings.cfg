SPECIFICATION FairSpec
CONSTANTS
  Drawings <- Recorded
  MaxPoints = 60
  MaxFrames = 60
INVARIANTS
  RingsIntact
  RingsBelongToOneRecord
  OwnersEnd
  AnswerIsComplete
  TreeIsNested
  SearchesEnd
PROPERTIES
  CleanupEnds
