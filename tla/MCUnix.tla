------------------------------- MODULE MCUnix -------------------------------
(* The parts of os_unix.c that keep state, which share none of it: a        *)
(* behaviour is one of OS_DoIo, one of OS_Accept, or one of the processes   *)
(* that listen, connect and spawn.                                          *)
EXTENDS AsyncIo, UnixAccept, UnixIpc, TLC

CONSTANTS p1, p2
MCProcesses == {p1, p2}
MCBindPaths == {BindPath("unix", "sock", "none"), BindPath("unix", "long", "longname"),
                BindPath("inet", "port", "none"), BindPath("inet", "host", "several"),
                BindPath("inet", "nowhere", "unknown")}

VARIABLE part

unixVars == <<asyncVars, acceptVars, unixIpcVars, part>>

\* Nobody calls OS_Accept, or runs at all.
NoAccept ==
  /\ kind = <<>> /\ arrived = MaxConnections /\ queue = <<>> /\ holder = Nobody
  /\ pc = [p \in Processes |-> "exit"] /\ socket = [p \in Processes |-> None]
  /\ failIntr = FALSE /\ pending = [p \in Processes |-> FALSE]
  /\ window = {} /\ closed = {} /\ signals = 0 /\ errors = 0
NoIpc ==
  /\ state = [p \in IpcProcesses |-> "exited"] /\ sockets = <<>> /\ refused = {}
  /\ fds = [p \in IpcProcesses |-> AllClosed] /\ held = [p \in IpcProcesses |-> {}]
  /\ files = [n \in Names |-> 0]
UnixInit == /\ AsyncInit
            /\ \/ part = "DoIo" /\ NoAccept /\ NoIpc
               \/ part = "Accept" /\ AcceptInit /\ NoIpc
               \/ part = "Ipc" /\ NoAccept /\ UnixIpcInit
UnixNext ==
  \/ part = "DoIo" /\ AsyncNext /\ UNCHANGED <<acceptVars, unixIpcVars, part>>
  \/ part = "Accept" /\ AcceptNext /\ UNCHANGED <<asyncVars, unixIpcVars, part>>
  \/ part = "Ipc" /\ UnixIpcNext /\ UNCHANGED <<asyncVars, acceptVars, part>>
UnixSpec == UnixInit /\ [][UnixNext]_unixVars /\ AsyncFairness /\ AcceptFairness
=============================================================================
