\* Three descriptors in both directions; two processes, two connections of
\* every kind, two signals and an error; two processes that come and go, two
\* sockets, four descriptors each.  Everything may come to rest.
SPECIFICATION UnixSpec
CHECK_DEADLOCK FALSE
CONSTANTS
  MaxDescriptor = 2
  TableSize = 2
  MaxOperations = 3
  p1 = p1
  p2 = p2
  Processes <- MCProcesses
  MaxConnections = 2
  MaxSignals = 2
  MaxErrors = 1
  Locking = TRUE
  Nobody = Nobody
  IpcProcesses <- MCProcesses
  BindPaths <- MCBindPaths
  MaxFds = 4
  MaxSockets = 2
INVARIANTS
  DoIoSound
  AcceptSound
PROPERTIES
  ListenersReached
  Performed
  ShutdownReturns
  Taken
