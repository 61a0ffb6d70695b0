\* The Content-Length header against the body on the wire.
SPECIFICATION Spec
CONSTANTS
  None = None
  MaxSize = 2
  MaxWrites = 1
  MaxTime = 1
  SameSecond = FALSE
  RangeHeaders <- SomeRangeHeaders
  LongMax = 7
  PageSize = 1
CHECK_DEADLOCK FALSE
INVARIANTS
  ContentLengthCorrect
