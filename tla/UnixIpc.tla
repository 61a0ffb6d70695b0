------------------------------ MODULE UnixIpc ------------------------------
(***************************************************************************)
(* How processes come to listen, to connect and to be spawned (os_unix.c:  *)
(* OS_CreateLocalIpcFd, OS_FcgiConnect, OS_SpawnChild): the sockets behind *)
(* paths and ports, and the descriptor tables of a process manager, of the *)
(* servers it spawns and of those that are started after a crash.          *)
(*                                                                         *)
(* A bind path is what it comes to: a Unix path or a host with a port, and *)
(* what is wrong with it.                                                  *)
(***************************************************************************)
EXTENDS Integers, FiniteSets, Sequences, FiniteSetsExt

CONSTANTS
  IpcProcesses,  \* processes, each of which may be started or spawned again
  BindPaths,     \* what processes listen on or connect to, see BindPath
  MaxFds,        \* descriptors of a process
  MaxSockets     \* bound on the sockets created

ASSUME IpcAssumption ==
  /\ MaxFds \in Nat /\ MaxFds > 2 /\ MaxSockets \in Nat
  /\ \A b \in BindPaths : b.family \in {"unix", "inet"}

\* fault: "none", "long" (MAXPATHLEN or more),
\* "longname" (more than a sockaddr_un holds), "unknown" (host), "several"
\* (addresses of the host).  A port that is zero as a short makes a Unix path.
BindPath(family, name, fault) == [family |-> family, name |-> name, fault |-> fault]
Names == {b.name : b \in BindPaths}

VARIABLES
  state,    \* process -> "running" or "exited"
  fds,      \* process -> its descriptors
  sockets,  \* the sockets created: the path each listens on
  files,    \* name of a Unix path -> the socket bound to it, 0 if none
  held,     \* process -> descriptors it was given by a call or by its parent
  refused   \* processes that ended because an address was in use

unixIpcVars == <<state, fds, sockets, files, held, refused>>

Fds == 0..(MaxFds - 1)
Closed == [is |-> "closed", of |-> 0]
Terminal == [is |-> "terminal", of |-> 0]
Listener(i) == [is |-> "listener", of |-> i]
Link == [is |-> "link", of |-> 0]

\* What is open, by whom and as what, is known; a socket has a path.
UnixIpcTypeOK ==
  /\ \A p \in IpcProcesses :
       /\ state[p] \in {"running", "exited"}
       /\ \A d \in Fds : fds[p][d].is = "listener"
                           => fds[p][d].of \in DOMAIN sockets
       /\ state[p] # "running" => \A d \in Fds : fds[p][d] = Closed
       /\ held[p] \subseteq Fds
  /\ \A n \in Names : files[n] \in 0..Len(sockets)

\* One process is started, with or without its standard files.
AllClosed == [d \in Fds |-> Closed]
Standard == [d \in Fds |-> IF d <= 2 THEN Terminal ELSE Closed]
UnixIpcInit ==
  /\ \E p \in IpcProcesses, t \in {AllClosed, Standard} :
       /\ state = [q \in IpcProcesses |-> IF q = p THEN "running" ELSE "exited"]
       /\ fds = [q \in IpcProcesses |-> IF q = p THEN t ELSE AllClosed]
       /\ held = [q \in IpcProcesses |->
                    IF q = p THEN {d \in Fds : t[d] # Closed} ELSE {}]
  /\ sockets = <<>> /\ files = [n \in Names |-> 0]
  /\ refused = {}

---------------------------------------------------------------------------
Unused(p) == {d \in Fds : fds[p][d] = Closed}
NewFd(p) == Min(Unused(p))

Listening(i) == \E q \in IpcProcesses, d \in Fds : fds[q][d] = Listener(i)
\* The socket a client of b gets to, 0 if there is none.
Behind(b) ==
  LET found == IF b.family = "unix" THEN {files[b.name]} \ {0}
               ELSE {i \in DOMAIN sockets : sockets[i] = b /\ Listening(i)}
  IN  IF found = {} THEN 0 ELSE Max(found)

Gives(p, d, object) ==
  /\ fds' = [fds EXCEPT ![p][d] = object]
  /\ held' = [held EXCEPT ![p] = @ \cup {d}]

\* exit closes everything.  Mutant of Closing: what it listened on stays.
ClosingNot(p) == fds
Closing(p) == [fds EXCEPT ![p] = AllClosed]
Exit(p) ==
  /\ state' = [state EXCEPT ![p] = "exited"]
  /\ fds' = Closing(p)
  /\ held' = [held EXCEPT ![p] = {}]

---------------------------------------------------------------------------
\* OS_CreateLocalIpcFd: what is at a Unix path is unlinked before the name is
\* known to fit and before bind, which then fails only where the path cannot be
\* made; at a port, bind fails if a socket listens there.

NameFits(b) == b.fault # "longname"
CreateFault(b) == b.fault # "none" /\ NameFits(b)
\* Mutant of Unlinked: what a crash left stays.
NotUnlinked(b) == files
Unlinked(b) == IF b.family = "unix" THEN [files EXCEPT ![b.name] = 0] ELSE files

\* Mutant of AfterBind: the path is unlinked after bind.
AfterBindUnlinked(b) == [files EXCEPT ![b.name] = 0]
AfterBind(b) == [Unlinked(b) EXCEPT ![b.name] = Len(sockets) + 1]

InUse(b) == IF b.family = "unix" THEN Unlinked(b)[b.name] # 0
            ELSE Behind(b) # 0

CreateFails(p, b) ==
  /\ Exit(p) /\ UNCHANGED sockets
  /\ \/ CreateFault(b) /\ UNCHANGED <<files, refused>>
     \/ /\ ~CreateFault(b) /\ Unused(p) # {} /\ files' = Unlinked(b)
        /\ refused' = IF b.fault = "none" /\ InUse(b) THEN refused \cup {p}
                      ELSE refused

CreateLocalIpcFd(p, b) ==
  /\ state[p] = "running"
  /\ \/ CreateFails(p, b)
     \/ /\ b.fault = "none" /\ Unused(p) # {} /\ ~InUse(b)
        /\ Len(sockets) < MaxSockets
        /\ Gives(p, NewFd(p), Listener(Len(sockets) + 1))
        /\ sockets' = Append(sockets, b)
        /\ files' = IF b.family = "unix" THEN AfterBind(b) ELSE files
        /\ UNCHANGED <<state, refused>>

\* OS_FcgiConnect: of several addresses the first is taken; a refused connection
\* closes the socket it was made on.
ConnectFault(b) == b.fault \in {"long", "unknown"} \/ ~NameFits(b)

\* Mutant of AfterRefusedConnect: the socket is left open.
RefusedKept(t, d) == [t EXCEPT ![d] = Link]
AfterRefusedConnect(t, d) == t

FcgiConnect(p, b) ==
  /\ state[p] = "running" /\ UNCHANGED <<sockets, files>>
  /\ \/ (ConnectFault(b) \/ Unused(p) = {}) /\ Exit(p) /\ refused' = refused
     \/ /\ ~ConnectFault(b) /\ Unused(p) # {} /\ Behind(b) # 0 /\ Listening(Behind(b))
        /\ Gives(p, NewFd(p), Link)
        /\ UNCHANGED <<state, refused>>
     \/ /\ ~ConnectFault(b) /\ Unused(p) # {}
        /\ fds' = [fds EXCEPT ![p] = AfterRefusedConnect(@, NewFd(p))]
        /\ UNCHANGED <<state, held, refused>>

---------------------------------------------------------------------------
\* OS_SpawnChild: the child closes its standard input, moves the listening socket
\* there, closes it where it was and the other standard files, and executes.

Without(t, d) == [t EXCEPT ![d] = Closed]
Moved(t, d) == IF t[d] = Closed THEN t ELSE [t EXCEPT ![0] = t[d], ![d] = Closed]
\* Mutant of ChildTable: the standard files are closed first.
ChildTableClosedFirst(t, d) ==
  LET input == Without(Without(Without(t, 0), 1), 2)
  IN  IF d = 0 THEN input ELSE Moved(input, d)

ChildTable(t, d) ==
  LET input == Without(t, 0)
      placed == IF d = 0 THEN input ELSE Moved(input, d)
  IN  Without(Without(placed, 1), 2)

\* The parent is told of success also when execl fails, and the child is gone.
SpawnChild(p, d) ==
  /\ state[p] = "running" /\ fds[p][d].is = "listener"
  /\ UNCHANGED <<sockets, files>>
  /\ \/ Exit(p) /\ UNCHANGED refused
     \/ \E c \in IpcProcesses :
          /\ state[c] # "running" /\ refused' = refused \ {c}
          /\ \/ /\ state' = [state EXCEPT ![c] = "running"]
                /\ fds' = [fds EXCEPT ![c] = ChildTable(fds[p], d)]
                /\ held' = [held EXCEPT ![c] = (held[p] \ {1, 2, d}) \cup {0}]
             \/ state' = [state EXCEPT ![c] = "exited"] /\ UNCHANGED <<fds, held>>

---------------------------------------------------------------------------
\* OS_IpcClose, a crash or the end of a process, and the start of another.

IpcClose(p, d) ==
  /\ state[p] = "running" /\ fds[p][d] \notin {Closed, Terminal}
  /\ fds' = [fds EXCEPT ![p][d] = Closed]
  /\ held' = [held EXCEPT ![p] = @ \ {d}]
  /\ UNCHANGED <<state, sockets, files, refused>>
Crash(p) == /\ state[p] = "running" /\ Exit(p)
            /\ UNCHANGED <<sockets, files, refused>>
Start(p) ==
  /\ state[p] # "running" /\ state' = [state EXCEPT ![p] = "running"]
  /\ fds' = [fds EXCEPT ![p] = Standard]
  /\ held' = [held EXCEPT ![p] = {0, 1, 2}]
  /\ refused' = refused \ {p} /\ UNCHANGED <<sockets, files>>

UnixIpcNext ==
  \E p \in IpcProcesses :
    \/ Crash(p) \/ Start(p)
    \/ \E b \in BindPaths : CreateLocalIpcFd(p, b) \/ FcgiConnect(p, b)
    \/ \E d \in Fds : SpawnChild(p, d) \/ IpcClose(p, d)

---------------------------------------------------------------------------
\* A spawned program finds the socket it was spawned for as its descriptor 0,
\* wherever the parent had it, with no standard files beside it, unless the parent
\* had it as 0 already: then the child has closed it (OS_SpawnChild,
\* os_unix.c:552-565).
ChildListens ==
  [][\A c \in IpcProcesses :
       /\ state[c] # "running" /\ state'[c] = "running"
       => \A p \in IpcProcesses, d \in Fds \ {0} :
            SpawnChild(p, d) =>
              /\ fds'[c][0] = fds[p][d] /\ fds'[c][1] = Closed /\ fds'[c][2] = Closed
              /\ \A e \in Fds \ {0, 1, 2, d} : fds'[c][e] = fds[p][e]]_unixIpcVars

\* Every open descriptor of a process is one it was given: no call that fails
\* leaves one behind (OS_FcgiConnect, os_unix.c:469).
DescriptorsOwned ==
  \A p \in IpcProcesses, d \in Fds : fds[p][d] # Closed => d \in held[p]

\* A server that is started again after a crash is not kept out by what the crashed
\* one left: an address is in use only at a port on which a running process
\* listens (os_unix.c:375; compare the children that inherit a listener, :542).
InUseForCause ==
  [][\A p \in IpcProcesses :
       p \in refused' \ refused
       => \E b \in BindPaths : b.family = "inet" /\ \E i \in DOMAIN sockets :
            sockets[i] = b /\ Listening(i)]_unixIpcVars

\* Clients reach a server once its OS_CreateLocalIpcFd has returned, also on a path
\* that another one was listening on (os_unix.c:375 comes before bind at :382).
ReachedOnceCreated ==
  [][\A b \in BindPaths :
       sockets' = Append(sockets, b)
       => Behind(b)' = Len(sockets') /\ Listening(Behind(b))']_unixIpcVars

\* A process has the descriptors it was given, a child the listener it was spawned
\* for, a client the server that listened last, and a restart its address.
ListenersReached ==
  /\ [](UnixIpcTypeOK /\ DescriptorsOwned)
  /\ ChildListens
  /\ InUseForCause
  /\ ReachedOnceCreated
=============================================================================
