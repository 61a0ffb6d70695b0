------------------------------ MODULE MCWin32 ------------------------------
(* The parts of os_win32.c: a behaviour is one of the completion port in   *)
(* one process, one of OS_Accept and OS_IpcClose in several, or one of a   *)
(* process that listens and spawns.                                        *)
EXTENDS Win32Async, Win32Accept, Win32Ipc, TLC

CONSTANTS p1, p2
MCProcesses == {p1, p2}

VARIABLE part

win32Vars == <<win32AsyncVars, win32AcceptVars, win32IpcVars, part>>

\* Nobody accepts.
NoAccept ==
  /\ listenType = "pipe" /\ acceptMutex = "none" /\ client = <<>>
  /\ arrived = MaxConnections /\ backlog = <<>>
  /\ pipe = [p \in Processes |-> "fresh"]
  /\ link = [p \in Processes |-> [h \in SocketHandles \cup {PipeHandle} |-> None]]
  /\ tables = [p \in Processes |-> EmptyTable]
  /\ serving = [p \in Processes |-> {}] /\ holder = Nobody
  /\ state = [p \in Processes |-> "gone"] /\ ipcFd = [p \in Processes |-> -1]
  /\ shutdown = [p \in Processes |-> FALSE]
Win32Init ==
  /\ Win32AsyncInit /\ Win32IpcInit
  /\ \/ part \in {"async", "ipc"} /\ NoAccept
     \/ part = "accept" /\ Win32AcceptInit
Win32Next ==
  \/ part = "async" /\ Win32AsyncNext /\ UNCHANGED <<win32AcceptVars, win32IpcVars, part>>
  \/ part = "accept" /\ Win32AcceptNext /\ UNCHANGED <<win32AsyncVars, win32IpcVars, part>>
  \/ part = "ipc" /\ Win32IpcNext /\ UNCHANGED <<win32AsyncVars, win32AcceptVars, part>>
Win32Spec == /\ Win32Init /\ [][Win32Next]_win32Vars
             /\ Win32AsyncFairness /\ Win32AcceptFairness
=============================================================================
