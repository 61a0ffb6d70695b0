\* Sockets and responses, two workers side by side and clients that send ahead, or
\* send what throws; the requests of the first may come in pieces.
SPECIFICATION Safety
CONSTANTS
  w1 = w1
  w2 = w2
  Main = Main
  None = None
  Workers <- TwoWorkers
  MaxConnections = 2
  MaxKeepAliveReq = 1
  MaxOutstanding = 2
  Splitting <- FirstConnection
  Kinds <- KeptAlive
CHECK_DEADLOCK FALSE
SYMMETRY ThreadSymmetry
INVARIANTS
  SocketSafe
  NoUnsolicitedResponse
