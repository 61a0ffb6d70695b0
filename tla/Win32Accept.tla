---------------------------- MODULE Win32Accept ----------------------------
(***************************************************************************)
(* OS_Accept and OS_IpcClose of os_win32.c in processes that share a       *)
(* listening socket, or have an instance of a named pipe each, with the    *)
(* accept mutex, the thread that waits for the shutdown event, and the     *)
(* descriptor table of every process.  An application may hold several     *)
(* requests on sockets, and one on its pipe.                               *)
(*                                                                         *)
(* state follows one call: "mutex" waits for the mutex, "cycle" has it,    *)
(* "select" polls the socket, "accept" is in WSAAccept, "connect" in       *)
(* ConnectNamedPipe, "leave" has the result; "stopped" got -1 and accepts  *)
(* no more, "gone" is a process that ended.                                *)
(***************************************************************************)
EXTENDS Win32Table, Sequences, SequencesExt

CONSTANTS
  Processes,
  Nobody,
  SocketHandles, \* values the system gives to sockets of one process
  PipeHandle,    \* hListen of a pipe
  MaxConnections,
  MaxServing     \* requests an application holds at a time

ASSUME AcceptAssumption ==
  /\ Nobody \notin Processes
  /\ SocketHandles \subseteq Nat \ {0} /\ PipeHandle \in Nat \ {0}
  /\ MaxConnections \in Nat /\ MaxServing \in Nat \ {0}

Connections == 1..MaxConnections
None == 0

\* An approved client, one that isAddrOK refuses, one gone before WSAAccept.
Clients == {"approved", "foreign", "gone"}

VARIABLES
  listenType, \* "socket", "pipe", or "other", which OS_Accept does not know
  acceptMutex, \* "none" in the environment, a "mutex", or a handle of no mutex
  client,     \* of each connection
  arrived,    \* connections made
  backlog,    \* those of the socket nobody has accepted
  pipe,       \* state of each instance: "fresh", "offered" before it is
              \* connected, "connected", "broken" by the client, "disconnected"
  link,       \* the connection of each handle of each process
  tables,     \* fdTable of each process
  serving,    \* pairs of descriptor and connection the application holds
  holder,     \* of the mutex
  state,
  ipcFd,      \* local variable of OS_Accept
  shutdown    \* shutdownPending

win32AcceptVars == <<listenType, acceptMutex, client, arrived, backlog, pipe, link,
                     tables, serving, holder, state, ipcFd, shutdown>>

Win32AcceptInit ==
  /\ listenType \in {"socket", "pipe", "other"}
  /\ acceptMutex \in {"none", "mutex", "invalid"}
  /\ client \in [Connections -> Clients]
  /\ arrived = 0 /\ backlog = <<>>
  /\ pipe = [p \in Processes |-> "fresh"]
  /\ link = [p \in Processes |-> [h \in SocketHandles \cup {PipeHandle} |-> None]]
  /\ tables = [p \in Processes |-> EmptyTable]
  /\ serving = [p \in Processes |-> {}]
  /\ holder = Nobody
  /\ state = [p \in Processes |-> "app"]
  /\ ipcFd = [p \in Processes |-> -1]
  /\ shutdown = [p \in Processes |-> FALSE]

Moves(p, place) == state' = [state EXCEPT ![p] = place]
Links(p, h, c) == link' = [link EXCEPT ![p][h] = c]

---------------------------------------------------------------------------
\* Web servers.

ConnectToSocket ==
  /\ listenType = "socket" /\ arrived < MaxConnections
  /\ arrived' = arrived + 1
  /\ backlog' = Append(backlog, arrived + 1)
  /\ UNCHANGED <<listenType, acceptMutex, client, pipe, link, tables, serving, holder,
                 state, ipcFd, shutdown>>

\* An instance that was disconnected takes clients once its process is back in
\* ConnectNamedPipe.
ConnectToPipe(p) ==
  /\ listenType = "pipe" /\ arrived < MaxConnections /\ state[p] # "gone"
  /\ pipe[p] = "fresh" \/ (pipe[p] = "disconnected" /\ state[p] = "connect")
  /\ arrived' = arrived + 1
  /\ pipe' = [pipe EXCEPT ![p] = "offered"]
  /\ Links(p, PipeHandle, arrived + 1)
  /\ UNCHANGED <<listenType, acceptMutex, client, backlog, tables, serving, holder,
                 state, ipcFd, shutdown>>

ClientCloses(p) ==
  /\ pipe[p] \in {"offered", "connected"}
  /\ pipe' = [pipe EXCEPT ![p] = "broken"]
  /\ UNCHANGED <<listenType, acceptMutex, client, arrived, backlog, link, tables,
                 serving, holder, state, ipcFd, shutdown>>

---------------------------------------------------------------------------
\* OS_Accept.

\* Mutant of ReleaseMutex: whoever holds the mutex loses it.
ReleaseAnybody(p) == Nobody

\* The system refuses a mutex to those who do not hold it.
ReleaseMutex(p) == IF holder = p THEN Nobody ELSE holder

\* OS_LibShutdown: the mutex is released, and WSACleanup resets every socket of
\* the process, those of the requests it still holds as well.
ShutDown(p, place) ==
  /\ holder' = ReleaseMutex(p)
  /\ link' = [link EXCEPT ![p] = [h \in DOMAIN @ |-> None]]
  /\ Moves(p, place)

\* Mutant of Initially: the result of the call before is still there.
InitiallyKept(p) == ipcFd[p]

Initially(p) == -1

OS_Accept(p) ==
  /\ state[p] = "app"
  /\ Cardinality(serving[p]) < (IF listenType = "pipe" THEN 1 ELSE MaxServing)
  /\ ipcFd' = [ipcFd EXCEPT ![p] = Initially(p)]
  /\ IF shutdown[p] THEN ShutDown(p, "stopped")
     ELSE /\ Moves(p, IF acceptMutex = "none" THEN "cycle" ELSE "mutex")
          /\ UNCHANGED <<holder, link>>
  /\ UNCHANGED <<listenType, acceptMutex, client, arrived, backlog, pipe, tables,
                 serving, shutdown>>

\* WaitForSingleObject fails at once on a handle of no mutex.
AcquireMutex(p) ==
  /\ state[p] = "mutex"
  /\ \/ acceptMutex = "invalid" /\ Moves(p, "stopped") /\ UNCHANGED holder
     \/ /\ acceptMutex = "mutex" /\ holder = Nobody
        /\ holder' = p
        /\ Moves(p, "cycle")
  /\ UNCHANGED <<listenType, acceptMutex, client, arrived, backlog, pipe, link, tables,
                 serving, ipcFd, shutdown>>

EnterCycle(p) ==
  /\ state[p] = "cycle"
  /\ IF shutdown[p] THEN ShutDown(p, "leave")
     ELSE /\ Moves(p, CASE listenType = "pipe" -> "connect"
                        [] listenType = "socket" -> "select"
                        [] OTHER -> "leave")
          /\ UNCHANGED <<holder, link>>
  /\ UNCHANGED <<listenType, acceptMutex, client, arrived, backlog, pipe, tables,
                 serving, ipcFd, shutdown>>

\* Mutant of StopsPolling: the flag is only looked at on the way in.
StopsPollingNever(p) == FALSE

StopsPolling(p) == shutdown[p]

\* select finds a connection, or times out; the flag is looked at then.
Select(p) ==
  /\ state[p] = "select"
  /\ \/ /\ backlog # <<>>
        /\ Moves(p, "accept")
        /\ UNCHANGED <<holder, link>>
     \/ /\ backlog = <<>> /\ StopsPolling(p)
        /\ ShutDown(p, "leave")
  /\ UNCHANGED <<listenType, acceptMutex, client, arrived, backlog, pipe, tables,
                 serving, ipcFd, shutdown>>

\* Win32NewDescriptor for the connection c on the handle h.
Describe(p, type, h, c) ==
  LET i == EntryFor(tables[p], h, -1) IN
  /\ tables' = [tables EXCEPT ![p] = Win32NewDescriptor(@, type, h, -1)]
  /\ serving' = IF i = -1 THEN serving
                ELSE [serving EXCEPT ![p] = @ \cup {<<i, c>>}]
  /\ ipcFd' = [ipcFd EXCEPT ![p] = i]
  /\ Moves(p, "leave")

\* Mutant of AfterRefusal: a refused client ends the call.
AfterRefusalLeave == "leave"

AfterRefusal == "select"

\* The condition function refuses foreign clients; a socket without an entry is
\* closed again.
WSAAccept(p) ==
  /\ state[p] = "accept" /\ backlog # <<>>
  /\ LET c == Head(backlog) IN
     CASE client[c] = "approved" ->
            \E h \in SocketHandles :
              /\ link[p][h] = None
              /\ Describe(p, "socketSync", h, c)
              /\ IF ipcFd'[p] = -1 THEN UNCHANGED link ELSE Links(p, h, c)
       [] client[c] = "foreign" ->
            /\ Moves(p, AfterRefusal)
            /\ UNCHANGED <<ipcFd, link, tables, serving>>
       [] OTHER ->
            /\ Moves(p, "leave")
            /\ UNCHANGED <<ipcFd, link, tables, serving>>
  /\ backlog' = Tail(backlog)
  /\ UNCHANGED <<listenType, acceptMutex, client, arrived, pipe, holder, shutdown>>

\* Errors of ConnectNamedPipe are printed, and the descriptor is made all the
\* same; without an entry the client is disconnected.
ConnectNamedPipe(p) ==
  /\ state[p] = "connect" /\ pipe[p] \in {"offered", "broken"}
  /\ Describe(p, "pipeSync", PipeHandle, link[p][PipeHandle])
  /\ pipe' = [pipe EXCEPT ![p] = IF ipcFd'[p] = -1 THEN "disconnected"
                                 ELSE IF @ = "offered" THEN "connected" ELSE @]
  /\ UNCHANGED <<listenType, acceptMutex, client, arrived, backlog, link, holder,
                 shutdown>>

\* The last ReleaseMutex, also after OS_LibShutdown has released it.
Leave(p) ==
  /\ state[p] = "leave"
  /\ holder' = ReleaseMutex(p)
  /\ Moves(p, IF ipcFd[p] = -1 THEN "stopped" ELSE "app")
  /\ UNCHANGED <<listenType, acceptMutex, client, arrived, backlog, pipe, link, tables,
                 serving, ipcFd, shutdown>>

---------------------------------------------------------------------------
\* OS_IpcClose, whose result the callers ignore.

\* FlushFileBuffers and DisconnectNamedPipe fail when the client has closed.
FlushFails(p) == listenType = "pipe" /\ pipe[p] = "broken"

\* Mutant of Freed: the entry of a socket stays in use.
FreedPipe(p, fd) == IF listenType = "pipe" THEN Win32FreeDescriptor(tables[p], fd)
                                           ELSE tables[p]

Freed(p, fd) == Win32FreeDescriptor(tables[p], fd)

OS_IpcClose(p) ==
  /\ state[p] \in {"app", "stopped"}
  /\ \E x \in serving[p] :
       /\ serving' = [serving EXCEPT ![p] = @ \ {x}]
       /\ IF FlushFails(p)
          THEN UNCHANGED <<tables, link, pipe>>
          ELSE /\ tables' = [tables EXCEPT ![p] = Freed(p, x[1])]
               /\ Links(p, tables[p][x[1]].fid, None)
               /\ pipe' = IF listenType = "pipe"
                          THEN [pipe EXCEPT ![p] = "disconnected"] ELSE pipe
  /\ UNCHANGED <<listenType, acceptMutex, client, arrived, backlog, holder, state, ipcFd,
                 shutdown>>

\* ShutdownRequestThread.  The application handles SIGTERM; a process with a
\* pipe exits at once, and the system passes its mutex on.
ShutdownRequest(p) ==
  /\ ~shutdown[p] /\ state[p] # "gone"
  /\ shutdown' = [shutdown EXCEPT ![p] = TRUE]
  /\ IF listenType = "pipe"
     THEN /\ Moves(p, "gone")
          /\ holder' = ReleaseMutex(p)
          /\ serving' = [serving EXCEPT ![p] = {}]
     ELSE UNCHANGED <<state, holder, serving>>
  /\ UNCHANGED <<listenType, acceptMutex, client, arrived, backlog, pipe, link, tables,
                 ipcFd>>

CycleStep(p) ==
  \/ AcquireMutex(p) \/ EnterCycle(p) \/ Select(p) \/ WSAAccept(p)
  \/ ConnectNamedPipe(p) \/ Leave(p)

Win32AcceptNext ==
  \/ ConnectToSocket
  \/ \E p \in Processes : \/ ConnectToPipe(p) \/ ClientCloses(p)
                          \/ OS_Accept(p) \/ CycleStep(p) \/ OS_IpcClose(p)
                          \/ ShutdownRequest(p)

\* A process that can take a step takes it, answers what it serves and comes
\* back for the next request.
Win32AcceptFairness ==
  \A p \in Processes : /\ WF_win32AcceptVars(OS_Accept(p) \/ CycleStep(p))
                       /\ WF_win32AcceptVars(OS_IpcClose(p))

---------------------------------------------------------------------------
\* Properties.

Win32AcceptTypeOK ==
  /\ holder \in Processes \cup {Nobody}
  /\ \A p \in Processes :
       /\ tables[p] \in [Entries -> [type : FileTypes, fid : Nat, instance : {0}]]
       /\ state[p] \in {"app", "mutex", "cycle", "select", "accept", "connect",
                        "leave", "stopped", "gone"}
       /\ ipcFd[p] \in Entries \cup {-1}
       /\ state[p] = "leave" /\ ipcFd[p] # -1 =>
            \E c \in 1..arrived : <<ipcFd[p], c>> \in serving[p]
       /\ pipe[p] \in {"fresh", "offered", "connected", "broken", "disconnected"}

\* With a mutex, one process at a time is in the accept cycle, and none leaves
\* it with the mutex: although OS_LibShutdown releases it before OS_Accept does
\* so again, when another process may have it.
InCycle(p) == state[p] \in {"cycle", "select", "accept", "connect"}
CycleExclusive ==
  acceptMutex # "none" => \A p \in Processes :
    /\ InCycle(p) => holder = p
    /\ holder = p => InCycle(p) \/ state[p] = "leave"

\* A process that was asked to shut down may have lost every connection.
CutOff(p) == shutdown[p] /\ \A h \in SocketHandles : link[p][h] = None

\* Every descriptor the application holds leads to its own connection, however
\* handles and entries are reused, until a shutdown that was asked for cuts all
\* of them off together; and on sockets no entry and no handle is left behind,
\* so that a table of any size lasts.
EntriesOwned ==
  \A p \in Processes :
    /\ state[p] # "gone" =>
         \A x \in serving[p] : /\ x[1] \in InUse(tables[p])
                               /\ CutOff(p) \/ link[p][tables[p][x[1]].fid] = x[2]
    /\ listenType = "socket" =>
         /\ {x[1] : x \in serving[p]} = InUse(tables[p])
         /\ CutOff(p) \/ {x[2] : x \in serving[p]}
                           = {link[p][h] : h \in SocketHandles} \ {None}

\* What the comment of ShutdownRequestThread promises of sockets, whose accept
\* loop looks at the flag instead of ending the process: no toasted requests.
NoToastedRequests ==
  \A p \in Processes : listenType = "socket" =>
    \A x \in serving[p] : link[p][tables[p][x[1]].fid] = x[2]

\* A process stops accepting only when it is asked to, after an error, or with a
\* full table; a refused client does not end its accept loop.
StopsForCause ==
  \A p \in Processes :
    state[p] = "stopped" =>
      \/ shutdown[p]
      \/ \E c \in 1..arrived : client[c] = "gone" /\ ~Contains(backlog, c)
      \/ MaxServing >= OpenMax \/ listenType # "socket" \/ acceptMutex = "invalid"

\* Who is in the accept cycle, what accepting leaves behind and what ends it.
CycleSound == Win32AcceptTypeOK /\ CycleExclusive /\ EntriesOwned /\ StopsForCause

\* A process that is asked to shut down stops, unless it waits for the mutex of
\* one that was not asked, or, without a mutex, for a connection that another
\* process took between its select and its WSAAccept.
Caught(p) ==
  \/ state[p] = "mutex" /\ \E q \in Processes : state[q] = "select" /\ ~shutdown[q]
  \/ state[p] = "accept" /\ backlog = <<>> /\ acceptMutex = "none"
ShutdownStops ==
  \A p \in Processes :
    \/ shutdown[p] ~> state[p] \in {"stopped", "gone"}
    \/ <>[]Caught(p)
===========================================================================
