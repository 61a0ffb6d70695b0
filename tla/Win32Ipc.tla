------------------------------ MODULE Win32Ipc ------------------------------
(***************************************************************************)
(* How a process comes to listen and what it hands to those it spawns      *)
(* (os_win32.c: OS_CreateLocalIpcFd, OS_SpawnChild, the part of OS_LibInit *)
(* that finds a listener in the standard input): listenType and hListen of *)
(* the process, the entries of its table and the handles it has open.      *)
(*                                                                         *)
(* A bind path is the number after its colon, 0 if it has none.            *)
(***************************************************************************)
EXTENDS Win32Table, FiniteSets, Sequences

CONSTANTS
  PathNumbers,    \* the first five characters after the colon of a bind path
  IpcHandles,     \* values the system gives to sockets and pipes
  MaxListeners,   \* bound on the calls that create one
  MaxChildren     \* bound on the children

ASSUME IpcHandlesAssumption == IpcHandles \subseteq Nat \ {0}
ASSUME Win32IpcAssumption ==
  /\ PathNumbers \subseteq 0..99999
  /\ MaxListeners \in Nat /\ MaxChildren \in Nat

VARIABLES
  ipcType,    \* listenType
  hListen,    \* 0 while it is INVALID_HANDLE_VALUE
  ipcTable,   \* fdTable
  ipcHandles, \* open handle -> its kind, and its port if it was bound
  inherited,  \* handles marked as inheritable
  failed,     \* what calls of OS_CreateLocalIpcFd returned instead of an entry
  listeners,  \* calls made
  children    \* each: listenType and hListen after OS_LibInit, the entry it was
              \* spawned for, and the handles it inherited

win32IpcVars == <<ipcType, hListen, ipcTable, ipcHandles, inherited, failed,
                  listeners, children>>

\* Entries name open handles of their kind; what is inherited is or was open; a
\* child listens on a handle it inherited.
Win32IpcTypeOK ==
  /\ ipcType \in {"none", "socketSync", "pipeAsync"}
  /\ hListen \in IpcHandles \cup {0}
  /\ \A i \in InUse(ipcTable) :
       /\ ipcTable[i].fid \in DOMAIN ipcHandles
       /\ ipcTable[i].type = IF ipcHandles[ipcTable[i].fid].kind = "pipe"
                             THEN "pipeAsync" ELSE "socketSync"
  /\ inherited \subseteq DOMAIN ipcHandles
  /\ \A n \in DOMAIN children : children[n].hListen \in children[n].inherited

Win32IpcInit ==
  /\ ipcType = "none" /\ hListen = 0 /\ ipcTable = EmptyTable
  /\ ipcHandles = <<>> /\ inherited = {} /\ failed = {} /\ listeners = 0
  /\ children = <<>>

---------------------------------------------------------------------------
\* OS_CreateLocalIpcFd.  A port is a short: 65536 is none, and its path the name
\* of a pipe.
getPort(n) == LET low == n % 65536 IN IF low < 32768 THEN low ELSE low - 65536

\* listenType is set before anything is tried.  Mutant: the first one stays.
TypeForKept(port) == CASE ipcType # "none" -> ipcType
                       [] port = 0 -> "pipeAsync"
                       [] OTHER    -> "socketSync"
TypeFor(port) == IF port = 0 THEN "pipeAsync" ELSE "socketSync"

Bound(port) == \E h \in DOMAIN ipcHandles : ipcHandles[h].port = port
Opened(new, kind, port) ==
  [h \in DOMAIN ipcHandles \cup {new} |->
     IF h = new THEN [kind |-> kind, port |-> port] ELSE ipcHandles[h]]
HasEntry(new) == EntryFor(ipcTable, new, -1) # -1

\* A call that fails is after its type; what it has open then stays open unless
\* there was no entry for it.  -4: socket, -12: bind, -5: listen, -6 and -10:
\* Win32NewDescriptor, -8: CreateNamedPipe, -9: SetHandleInformation.  Mutant:
\* a pipe without an entry is not closed.
LeftOpenPipe(h, port, code) == IF port = 0 THEN Opened(h, "pipe", 0) ELSE ipcHandles
LeftOpen(h, port, code) ==
  CASE code = -12 -> Opened(h, "socket", 0)
    [] code = -5  -> Opened(h, "socket", port)
    [] code = -9  -> Opened(h, "pipe", 0)
    [] OTHER      -> ipcHandles
Codes(h, port) ==
  IF port = 0
  THEN {-8, -9} \cup (IF ~HasEntry(h) THEN {-10} ELSE {})
  ELSE {-4, -12} \cup (IF Bound(port) THEN {} ELSE {-5})
       \cup (IF ~HasEntry(h) /\ ~Bound(port) THEN {-6} ELSE {})

CreateFails(h, port) ==
  \E code \in Codes(h, port) :
    /\ failed' = failed \cup {code}
    /\ ipcHandles' = LeftOpen(h, port, code)
    /\ UNCHANGED <<hListen, ipcTable, inherited>>

\* Mutant of Listens: the first listener stays the one accepted on.
ListensFirst(h) == IF hListen = 0 THEN h ELSE hListen

Listens(h) == h

CreateSucceeds(h, port) ==
  /\ port = 0 \/ ~Bound(port)
  /\ HasEntry(h)
  /\ ipcTable' = Win32NewDescriptor(ipcTable, TypeFor(port), h, -1)
  /\ ipcHandles' = Opened(h, IF port = 0 THEN "pipe" ELSE "socket", port)
  /\ hListen' = Listens(h)
  /\ inherited' = IF port = 0 THEN inherited \cup {h} ELSE inherited
  /\ UNCHANGED failed

OS_CreateLocalIpcFd ==
  /\ listeners < MaxListeners /\ listeners' = listeners + 1
  /\ \E h \in IpcHandles \ DOMAIN ipcHandles, n \in PathNumbers :
       /\ ipcType' = TypeFor(getPort(n))
       /\ CreateFails(h, getPort(n)) \/ CreateSucceeds(h, getPort(n))
  /\ UNCHANGED children

---------------------------------------------------------------------------
\* OS_SpawnChild and OS_LibInit in the child: the standard input is the handle of
\* the entry, and it is a pipe's if the mode of a pipe can be set on it.

\* Mutant of Passed: the child gets what this process accepts on.
PassedListener(i) == hListen
Passed(i) == ipcTable[i].fid

ChildType(h) == IF ipcHandles[h].kind = "pipe" THEN "pipeSync" ELSE "socketSync"

OS_SpawnChild ==
  /\ Len(children) < MaxChildren
  /\ \E i \in InUse(ipcTable) :
       /\ inherited' = inherited \cup {Passed(i)}
       /\ \/ children' = children  \* CreateProcess fails
          \/ children' = Append(children,
               [type |-> ChildType(Passed(i)), hListen |-> Passed(i), entry |-> i,
                inherited |-> inherited \cup {Passed(i)}])
  /\ UNCHANGED <<ipcType, hListen, ipcTable, ipcHandles, failed, listeners>>

Win32IpcNext == OS_CreateLocalIpcFd \/ OS_SpawnChild

---------------------------------------------------------------------------
\* hListen names a listener that has an entry, whatever has failed; and as long
\* as no call has failed, listenType is what that listener is, and every call has
\* its entry (OS_CreateLocalIpcFd, os_win32.c:704, :741, :782).  A call that fails
\* may leave listenType without its hListen.  The process itself can only accept
\* on a socket: OS_Accept knows no FD_PIPE_ASYNC (:1760-1771; Win32Accept has it
\* as "other"), so that a pipe serves the children.
ListenTypeFits ==
  /\ hListen # 0 => \E i \in InUse(ipcTable) :
                      /\ ipcTable[i].fid = hListen
                      /\ failed = {} => ipcTable[i].type = ipcType
  /\ failed = {} => Cardinality(InUse(ipcTable)) = listeners

\* Every open handle has its entry, but for those that a failed bind, listen or
\* SetHandleInformation has left (os_win32.c:725, :730, :771).
LeftForCause ==
  (\A h \in DOMAIN ipcHandles : \E i \in InUse(ipcTable) : ipcTable[i].fid = h)
    \/ failed \cap {-12, -5, -9} # {}

\* A child accepts on the listener it was spawned for, as what it is, whatever else
\* the parent has created (OS_SpawnChild, os_win32.c:1085; OS_LibInit, :416).
ChildOfListener ==
  \A n \in DOMAIN children :
    LET c == children[n]
    IN  /\ c.hListen = ipcTable[c.entry].fid
        /\ c.type = IF ipcTable[c.entry].type = "pipeAsync" THEN "pipeSync"
                    ELSE "socketSync"

\* listenType and hListen belong together, children listen on what they were
\* spawned for, and what is left open is accounted for.
ListenersSound ==
  Win32IpcTypeOK /\ ListenTypeFits /\ LeftForCause /\ ChildOfListener
=============================================================================
