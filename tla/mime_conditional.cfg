\* Conditional and partial requests while the file is replaced, once a second;
\* two requests of any kind split over reads and writes.
SPECIFICATION HttpSpec
CONSTANTS
  None = None
  MaxSize = 3
  MaxWrites = 3
  MaxTime = 3
  SameSecond = FALSE
  RangeHeaders <- SomeRangeHeaders
  LongMax = 7
  PageSize = 1
  Sendable <- MCSendable
  MaxSent = 2
  MaxProcess = 24
  MaxReplies = 2
  Handlers <- MCHandlers
  BodySize = 1
CHECK_DEADLOCK FALSE
INVARIANTS
  RequestSound
  ResponseSound
  PlainAbortsForCause
