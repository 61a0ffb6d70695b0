\* Completions of descriptors that were closed.
SPECIFICATION Win32Spec
CHECK_DEADLOCK FALSE
CONSTANTS
  OpenMax = 4
  Handles = {3, 9}
  MaxRequests = 2
  p1 = p1
  p2 = p2
  Processes <- MCProcesses
  Nobody = Nobody
  SocketHandles = {3, 9}
  PipeHandle = 2
  MaxConnections = 2
  MaxServing = 2
  PathNumbers = {0, 1, 65536, 65537}
  IpcHandles = {2, 3, 8, 9}
  MaxListeners = 4
  MaxChildren = 1
INVARIANTS
  NoStaleCallback
