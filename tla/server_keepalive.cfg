\* Clients that wait for each response, send nothing that throws unless it is read
\* in pieces, and may stay connected for ever.
SPECIFICATION Spec
CONSTANTS
  w1 = w1
  w2 = w2
  Main = Main
  None = None
  Workers <- OneWorker
  MaxConnections = 2
  MaxKeepAliveReq = 2
  MaxOutstanding = 1
  Splitting <- FirstConnection
  Kinds <- WellFormed
CHECK_DEADLOCK FALSE
INVARIANTS
  RequestsNotDropped
  AbortHasCause
PROPERTIES
  Answered
  ClosesWhenDone
  EveryConnectionServed
