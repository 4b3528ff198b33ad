SPECIFICATION FairSpec
CONSTANTS
  w1 = w1
  w2 = w2
  ItemCount = 3
  Worker = {w1, w2}
  Codes = {4, 6, 11}
  NoError = 99
  Limits = {1, 4}
  Threshold = 2
INVARIANTS
  SmallestErrorKept
  AnswerIsDeterministic
PROPERTIES
  PromiseKept
  CallReturns
CHECK_DEADLOCK FALSE
