---------------------------- MODULE Win32Proofs ----------------------------
(***************************************************************************)
(* Theorems about Win32Accept, for any set of processes, with and without  *)
(* the mutex, on a socket or on pipes, about Win32Ipc, for any bind paths, *)
(* handles and failures, and about Win32Async, for any handles and         *)
(* requests; all for a descriptor table of any size.                       *)
(*                                                                         *)
(* Each part of CycleSound needs something beside it: connections leave    *)
(* the backlog in the order they came (InOrder); no two descriptors share  *)
(* a handle, and no handle with a connection is without one (Owned); an    *)
(* instance of a pipe has one descriptor at most, and only while its       *)
(* client's connection is still there (Piped); and a call that will get -1 *)
(* has its cause before it stops the process (Stops).                      *)
(***************************************************************************)
EXTENDS Win32Accept, Win32Ipc, Win32Async, WellFoundedInduction, FiniteSetTheorems, TLAPS

Win32AcceptSafety == Win32AcceptInit /\ [][Win32AcceptNext]_win32AcceptVars

Places == {"app", "mutex", "cycle", "select", "accept", "connect", "leave",
           "stopped", "gone"}
Instances == {"fresh", "offered", "connected", "broken", "disconnected"}
AllHandles == SocketHandles \cup {PipeHandle}
Tables == [Entries -> [type : FileTypes, fid : Nat, instance : {0}]]

Typed ==
  /\ listenType \in {"socket", "pipe", "other"}
  /\ acceptMutex \in {"none", "mutex", "invalid"}
  /\ client \in [Connections -> Clients]
  /\ arrived \in Nat /\ arrived <= MaxConnections /\ backlog \in Seq(Nat)
  /\ pipe \in [Processes -> Instances]
  /\ link \in [Processes -> [AllHandles -> Nat]]
  /\ tables \in [Processes -> Tables]
  /\ serving \in [Processes -> SUBSET (Entries \X Nat)]
  /\ holder \in Processes \cup {Nobody}
  /\ state \in [Processes -> Places]
  /\ ipcFd \in [Processes -> Entries \cup {-1}]
  /\ shutdown \in [Processes -> BOOLEAN]

\* Connections 1..Left have left the backlog.
Left == arrived - Len(backlog)

InOrder ==
  /\ listenType = "pipe" => backlog = <<>>
  /\ Len(backlog) <= arrived
  /\ \A i \in 1..Len(backlog) : backlog[i] = Left + i

\* The handle of a descriptor the application holds.
HandleOf(p, x) == tables[p][x[1]].fid

\* A call that ends, or has ended, with -1; and one that OS_LibShutdown ended.
Through(p) == state[p] = "stopped" \/ (state[p] = "leave" /\ ipcFd[p] = -1)
Cut(p) == Through(p) /\ CutOff(p)

\* Descriptors and handles, and what is between them.
Owned(p) ==
  /\ IsFiniteSet(serving[p])
  /\ \A x \in serving[p] :
       /\ x[2] \in 1..arrived /\ x[1] \in InUse(tables[p])
       /\ HandleOf(p, x) \in (IF listenType = "pipe" THEN {PipeHandle} ELSE SocketHandles)
       /\ Cut(p) \/ link[p][HandleOf(p, x)] = x[2]
  /\ \A x, y \in serving[p] : HandleOf(p, x) = HandleOf(p, y) => x = y
  /\ listenType = "socket" =>
       /\ \A i \in InUse(tables[p]) : \E x \in serving[p] : x[1] = i
       /\ \A h \in SocketHandles :
            link[p][h] # None => \E x \in serving[p] : HandleOf(p, x) = h

\* Where the one descriptor of a pipe can be.
Piped(p) ==
  listenType = "pipe" =>
    /\ serving[p] # {} => /\ state[p] \in {"leave", "app", "stopped"}
                          /\ pipe[p] \in {"connected", "broken"}
    /\ pipe[p] \in {"offered", "connected", "broken"} => link[p][PipeHandle] \in 1..arrived

\* What OS_Accept knows until it has a connection, and when it has one.
Calling(p) ==
  /\ InCycle(p) \/ state[p] = "mutex" =>
       ipcFd[p] = -1 /\ (listenType = "socket" => Cardinality(serving[p]) < MaxServing)
  /\ state[p] \in {"select", "accept"} => listenType = "socket"
  /\ state[p] \in {"connect", "gone"} => listenType = "pipe"
  /\ listenType = "pipe" /\ shutdown[p] => state[p] = "gone"
  /\ state[p] = "leave" /\ ipcFd[p] # -1 =>
       \E c \in 1..arrived : <<ipcFd[p], c>> \in serving[p]

Gone(c) == c <= Left /\ client[c] = "gone"

\* Why a call gets -1.
Cause(p) ==
  \/ shutdown[p] \/ \E c \in 1..arrived : Gone(c)
  \/ MaxServing >= OpenMax \/ listenType # "socket" \/ acceptMutex = "invalid"

Stops(p) == Through(p) => Cause(p)

Local(p) == Owned(p) /\ Piped(p) /\ Calling(p) /\ Stops(p)

Inv == Typed /\ InOrder /\ CycleExclusive /\ \A p \in Processes : Local(p)

---------------------------------------------------------------------------
(***************************************************************************)
(* The descriptor table and the backlog.                                   *)
(***************************************************************************)

\* A set of numbers that is not empty has a smallest.
LEMMA SmallestExists ==
  ASSUME NEW S \in SUBSET Nat, S # {}
  PROVE  Min(S) \in S
  <1> DEFINE R == {ss \in Nat \X Nat : ss[1] < ss[2]}
  <1>1. IsWellFoundedOn(R, Nat)
    BY NatLessThanWellFounded DEF OpToRel
  <1>2. PICK x \in S : \A y \in S : ~(<<y, x>> \in R)
    BY <1>1, WFMin
  <1>3. ASSUME NEW y \in S, y < x PROVE FALSE
    <2>1. <<y, x>> \in Nat \X Nat /\ <<y, x>>[1] = y /\ <<y, x>>[2] = x
      OBVIOUS
    <2>2. <<y, x>> \in R
      BY <1>3, <2>1
    <2> QED
      BY <1>2, <2>2
  <1>4. \A y \in S : x <= y
    BY <1>3
  <1> QED
    BY <1>4 DEF Min

\* A handle gets an entry that is not in use, or none when all but the first are.
LEMMA EntryFacts ==
  ASSUME NEW t \in Tables, NEW h \in Nat
  PROVE  LET i == EntryFor(t, h, -1)
         IN  \/ i = -1 /\ 1..(OpenMax - 1) \subseteq InUse(t)
             \/ i \in Entries \ InUse(t)
  <1>1. -1 \notin Entries /\ 1..(OpenMax - 1) \subseteq Entries
    BY TableAssumption DEF Entries
  <1>2. CASE h \in Entries \ InUse(t)
    BY <1>1, <1>2 DEF EntryFor
  <1>3. CASE h \notin Entries \ InUse(t)
    <2> DEFINE Rest == (1..(OpenMax - 1)) \ InUse(t)
    <2>1. CASE 1..(OpenMax - 1) \subseteq InUse(t)
      BY <1>1, <1>3, <2>1 DEF EntryFor
    <2>2. CASE ~(1..(OpenMax - 1) \subseteq InUse(t))
      <3>1. Rest \in SUBSET Nat /\ Rest # {}
        BY <2>2
      <3> HIDE DEF Rest
      <3>2. Min(Rest) \in Rest
        BY <3>1, SmallestExists
      <3>3. EntryFor(t, h, -1) = Min(Rest)
        BY <1>1, <1>3, <2>2 DEF EntryFor, Rest
      <3> QED
        BY <1>1, <3>2, <3>3 DEF Rest
    <2> QED
      BY <2>1, <2>2
  <1> QED
    BY <1>2, <1>3

\* What a table becomes.
LEMMA DescribedFacts ==
  ASSUME NEW t \in Tables, NEW type \in FileTypes, NEW h \in Nat, NEW d \in Int,
         EntryFor(t, h, d) \in Entries \cup {-1}
  PROVE  LET i == EntryFor(t, h, d)
             n == Win32NewDescriptor(t, type, h, d)
         IN  /\ n \in Tables
             /\ i = -1 => n = t
             /\ i \in Entries =>
                  n = [t EXCEPT ![i] = [type |-> type, fid |-> h, instance |-> 0]]
  <1> DEFINE i == EntryFor(t, h, d)
             n == Win32NewDescriptor(t, type, h, d)
  <1>1. -1 \notin Entries
    BY TableAssumption DEF Entries
  <1>2. i = -1 \/ i \in Entries
    OBVIOUS
  <1>3. n = [j \in Entries |-> IF j = i THEN [t[j] EXCEPT !.type = type, !.fid = h]
                               ELSE t[j]]
    BY DEF Win32NewDescriptor
  <1>4. ASSUME NEW j \in Entries
        PROVE  [t[j] EXCEPT !.type = type, !.fid = h]
                 = [type |-> type, fid |-> h, instance |-> 0]
    <2>1. t[j] \in [type : FileTypes, fid : Nat, instance : {0}]
      BY DEF Tables
    <2>2. PICK a \in FileTypes, b \in Nat : t[j] = [type |-> a, fid |-> b, instance |-> 0]
      BY <2>1
    <2>3. [t[j] EXCEPT !.type = type] = [type |-> type, fid |-> b, instance |-> 0]
      BY <2>2
    <2>4. [[t[j] EXCEPT !.type = type] EXCEPT !.fid = h]
            = [type |-> type, fid |-> h, instance |-> 0]
      <3> DEFINE u == [t[j] EXCEPT !.type = type]
      <3>1. u = [type |-> type, fid |-> b, instance |-> 0]
        BY <2>3
      <3> HIDE DEF u
      <3>2. [u EXCEPT !.fid = h] = [type |-> type, fid |-> h, instance |-> 0]
        BY <3>1
      <3> QED
        BY <3>2 DEF u
    <2>5. [t[j] EXCEPT !.type = type, !.fid = h]
            = [[t[j] EXCEPT !.type = type] EXCEPT !.fid = h]
      BY Zenon
    <2> QED
      BY <2>4, <2>5
  <1> HIDE DEF i, n
  <1>5. CASE i = -1
    <2>1. n = [j \in Entries |-> t[j]]
      BY <1>1, <1>3, <1>5
    <2>2. n = t
      BY <2>1 DEF Tables
    <2> QED
      BY <1>1, <1>5, <2>2 DEF i, n
  <1>6. CASE i \in Entries
    <2>1. n = [t EXCEPT ![i] = [type |-> type, fid |-> h, instance |-> 0]]
      BY <1>3, <1>4, <1>6 DEF Tables
    <2>2. n \in Tables
      BY <1>6, <2>1 DEF Tables
    <2> QED
      BY <1>1, <1>6, <2>1, <2>2 DEF i, n
  <1> QED
    BY <1>2, <1>5, <1>6

\* What it becomes for a handle that wants no entry of its own.
LEMMA NewDescriptorFacts ==
  ASSUME NEW t \in Tables, NEW type \in FileTypes, NEW h \in Nat
  PROVE  LET i == EntryFor(t, h, -1)
             n == Win32NewDescriptor(t, type, h, -1)
         IN  /\ n \in Tables
             /\ i = -1 => n = t
             /\ i \in Entries =>
                  n = [t EXCEPT ![i] = [type |-> type, fid |-> h, instance |-> 0]]
  <1>1. EntryFor(t, h, -1) \in Entries \cup {-1}
    BY EntryFacts
  <1> QED
    BY <1>1, DescribedFacts

\* The backlog grows by one at its end.
LEMMA AppendFacts ==
  ASSUME NEW q \in Seq(Nat), NEW n \in Nat
  PROVE  /\ Append(q, n) \in Seq(Nat)
         /\ Len(q) \in Nat /\ Len(Append(q, n)) = Len(q) + 1
         /\ \A i \in 1..Len(q) : Append(q, n)[i] = q[i]
         /\ Append(q, n)[Len(q) + 1] = n
  OBVIOUS

\* It loses its first element.
LEMMA TailFacts ==
  ASSUME NEW q \in Seq(Nat), q # <<>>
  PROVE  /\ Tail(q) \in Seq(Nat) /\ Head(q) \in Nat
         /\ Len(q) \in Nat \ {0} /\ Len(Tail(q)) = Len(q) - 1
         /\ \A i \in 1..Len(Tail(q)) : Tail(q)[i] = q[i + 1]
         /\ Head(q) = q[1]
  OBVIOUS

---------------------------------------------------------------------------
(***************************************************************************)
(* What the steps have in common.                                          *)
(***************************************************************************)

\* A new descriptor takes an entry that was free, or the table stays as it is.
LEMMA DescribeFacts ==
  ASSUME Typed, NEW p \in Processes, NEW type \in FileTypes \ {"unused"},
         NEW h \in AllHandles, NEW c \in Nat, Describe(p, type, h, c)
  PROVE  /\ tables' \in [Processes -> Tables]
         /\ serving' \in [Processes -> SUBSET (Entries \X Nat)]
         /\ ipcFd' \in [Processes -> Entries \cup {-1}]
         /\ state' = [state EXCEPT ![p] = "leave"]
         /\ \A q \in Processes \ {p} : /\ tables'[q] = tables[q] /\ serving'[q] = serving[q]
                                       /\ ipcFd'[q] = ipcFd[q]
         /\ \/ /\ ipcFd'[p] = -1 /\ tables'[p] = tables[p] /\ serving'[p] = serving[p]
               /\ 1..(OpenMax - 1) \subseteq InUse(tables[p])
            \/ /\ ipcFd'[p] \in Entries \ InUse(tables[p])
               /\ tables'[p] = [tables[p] EXCEPT ![ipcFd'[p]] =
                                  [type |-> type, fid |-> h, instance |-> 0]]
               /\ serving'[p] = serving[p] \cup {<<ipcFd'[p], c>>}
  <1> DEFINE i == EntryFor(tables[p], h, -1)
             n == Win32NewDescriptor(tables[p], type, h, -1)
  <1>1. /\ tables \in [Processes -> Tables] /\ tables[p] \in Tables
        /\ serving \in [Processes -> SUBSET (Entries \X Nat)]
        /\ ipcFd \in [Processes -> Entries \cup {-1}]
    BY DEF Typed
  <1>2. h \in Nat
    BY AcceptAssumption DEF AllHandles
  <1>3. /\ n \in Tables
        /\ i = -1 => n = tables[p]
        /\ i \in Entries =>
             n = [tables[p] EXCEPT ![i] = [type |-> type, fid |-> h, instance |-> 0]]
    BY <1>1, <1>2, NewDescriptorFacts
  <1>4. \/ i = -1 /\ 1..(OpenMax - 1) \subseteq InUse(tables[p])
        \/ i \in Entries \ InUse(tables[p])
    BY <1>1, <1>2, EntryFacts
  <1>5. /\ tables' = [tables EXCEPT ![p] = n]
        /\ serving' = IF i = -1 THEN serving
                      ELSE [serving EXCEPT ![p] = serving[p] \cup {<<i, c>>}]
        /\ ipcFd' = [ipcFd EXCEPT ![p] = i]
        /\ state' = [state EXCEPT ![p] = "leave"]
    BY DEF Describe, Moves
  <1>6. -1 \notin Entries
    BY TableAssumption DEF Entries
  <1> HIDE DEF i, n
  <1>7. tables' \in [Processes -> Tables] /\ ipcFd' \in [Processes -> Entries \cup {-1}]
    BY <1>1, <1>3, <1>4, <1>5
  <1>8. serving' \in [Processes -> SUBSET (Entries \X Nat)]
    <2>1. i # -1 => <<i, c>> \in Entries \X Nat
      BY <1>4
    <2> QED
      BY <1>1, <1>5, <2>1
  <1>9. /\ ipcFd'[p] = i /\ tables'[p] = n
        /\ serving'[p] = IF i = -1 THEN serving[p] ELSE serving[p] \cup {<<i, c>>}
        /\ \A q \in Processes \ {p} : /\ tables'[q] = tables[q] /\ serving'[q] = serving[q]
                                      /\ ipcFd'[q] = ipcFd[q]
    BY <1>1, <1>5
  <1> QED
    BY <1>3, <1>4, <1>5, <1>6, <1>7, <1>8, <1>9

\* Connections in the backlog have arrived, and the first of them leaves it.
LEMMA BacklogFacts ==
  ASSUME Typed, InOrder
  PROVE  /\ Left \in Nat /\ Left <= arrived /\ Len(backlog) \in Nat
         /\ backlog # <<>> => /\ Head(backlog) = Left + 1 /\ Head(backlog) \in 1..arrived
                              /\ Tail(backlog) \in Seq(Nat)
  <1>1. arrived \in Nat /\ backlog \in Seq(Nat) /\ Len(backlog) \in Nat
    BY DEF Typed
  <1>2. Left \in Nat /\ Left <= arrived
    BY <1>1 DEF InOrder, Left
  <1>3. CASE backlog # <<>>
    <2>1. Len(backlog) \in Nat \ {0} /\ Head(backlog) = backlog[1]
          /\ Tail(backlog) \in Seq(Nat)
      BY <1>1, <1>3, TailFacts
    <2>2. backlog[1] = Left + 1 /\ Left + 1 <= arrived
      BY <1>1, <2>1 DEF InOrder, Left
    <2> QED
      BY <1>1, <1>2, <2>1, <2>2
  <1> QED
    BY <1>1, <1>2, <1>3

\* What no step takes back.
Onward ==
  /\ listenType' = listenType /\ acceptMutex' = acceptMutex /\ client' = client
  /\ arrived' \in Nat /\ arrived <= arrived' /\ arrived' <= MaxConnections
  /\ backlog' \in Seq(Nat) /\ Left <= Left' /\ Left' <= arrived'

\* Connections arrive at the end of the backlog and leave it at its head.
LEMMA OrderStep ==
  ASSUME Typed, InOrder, Win32AcceptNext
  PROVE  Onward /\ InOrder'
  <1>0. /\ arrived \in Nat /\ arrived <= MaxConnections /\ MaxConnections \in Nat
        /\ backlog \in Seq(Nat) /\ Len(backlog) \in Nat
        /\ Left \in Nat /\ Left <= arrived
    BY BacklogFacts, AcceptAssumption DEF Typed
  <1>1. ASSUME ConnectToSocket PROVE Onward /\ InOrder'
    <2>1. /\ arrived' = arrived + 1 /\ backlog' = Append(backlog, arrived + 1)
          /\ UNCHANGED <<listenType, acceptMutex, client>> /\ arrived < MaxConnections
      BY <1>1 DEF ConnectToSocket
    <2>2. /\ backlog' \in Seq(Nat) /\ Len(backlog') = Len(backlog) + 1
          /\ \A i \in 1..Len(backlog) : backlog'[i] = backlog[i]
          /\ backlog'[Len(backlog) + 1] = arrived + 1
      BY <1>0, <2>1, AppendFacts
    <2>3. Left' = Left
      BY <1>0, <2>1, <2>2 DEF Left
    <2>4. \A i \in 1..Len(backlog') : backlog'[i] = Left' + i
      <3>1. \A i \in 1..Len(backlog') : i \in 1..Len(backlog) \/ i = Len(backlog) + 1
        BY <1>0, <2>2
      <3> QED
        BY <1>0, <2>2, <2>3, <3>1 DEF InOrder, Left
    <2>5. listenType' = "socket" /\ Len(backlog') <= arrived'
      BY <1>0, <1>1, <2>1, <2>2 DEF ConnectToSocket, InOrder
    <2> QED
      BY <1>0, <2>1, <2>2, <2>3, <2>4, <2>5 DEF Onward, InOrder
  <1>2. ASSUME NEW p \in Processes, ConnectToPipe(p) PROVE Onward /\ InOrder'
    <2>1. /\ arrived' = arrived + 1 /\ UNCHANGED <<backlog, listenType, acceptMutex, client>>
          /\ backlog = <<>> /\ Len(<<>>) = 0 /\ arrived < MaxConnections
      BY <1>2 DEF ConnectToPipe, InOrder
    <2> QED
      BY <1>0, <2>1 DEF Onward, InOrder, Left
  <1>3. ASSUME NEW p \in Processes, WSAAccept(p) PROVE Onward /\ InOrder'
    <2>1. /\ backlog # <<>> /\ backlog' = Tail(backlog)
          /\ UNCHANGED <<listenType, acceptMutex, client, arrived>>
      BY <1>3 DEF WSAAccept
    <2>2. /\ backlog' \in Seq(Nat) /\ Len(backlog) \in Nat \ {0}
          /\ Len(backlog') = Len(backlog) - 1
          /\ \A i \in 1..Len(backlog') : backlog'[i] = backlog[i + 1]
      BY <1>0, <2>1, TailFacts
    <2>3. Left' = Left + 1 /\ Left' <= arrived'
      BY <1>0, <2>1, <2>2 DEF Left, InOrder
    <2>4. \A i \in 1..Len(backlog') : backlog'[i] = Left' + i
      BY <1>0, <2>2, <2>3 DEF InOrder
    <2> QED
      BY <1>0, <2>1, <2>2, <2>3, <2>4 DEF Onward, InOrder
  <1>4. CASE UNCHANGED <<listenType, acceptMutex, client, arrived, backlog>>
    BY <1>0, <1>4 DEF Onward, InOrder, Left
  <1> QED
    BY <1>1, <1>2, <1>3, <1>4
    DEF Win32AcceptNext, CycleStep, ClientCloses, OS_Accept, AcquireMutex, EnterCycle,
        Select, ConnectNamedPipe, Leave, OS_IpcClose, ShutdownRequest

\* A handle gets or loses its connection.
LEMMA LinkFacts ==
  ASSUME link \in [Processes -> [AllHandles -> Nat]], NEW p \in Processes, NEW h,
         NEW c \in Nat, Links(p, h, c)
  PROVE  /\ link' \in [Processes -> [AllHandles -> Nat]]
         /\ link'[p] = [link[p] EXCEPT ![h] = c]
         /\ \A q \in Processes \ {p} : link'[q] = link[q]
  <1>1. link' = [link EXCEPT ![p] = [link[p] EXCEPT ![h] = c]]
    BY DEF Links
  <1>2. [link[p] EXCEPT ![h] = c] \in [AllHandles -> Nat]
    OBVIOUS
  <1> QED
    BY <1>1, <1>2

\* OS_LibShutdown takes the connections of every handle of its process.
LEMMA ShutDownLinks ==
  ASSUME link \in [Processes -> [AllHandles -> Nat]], NEW p \in Processes, NEW place,
         ShutDown(p, place)
  PROVE  /\ link' \in [Processes -> [AllHandles -> Nat]]
         /\ link'[p] = [h \in AllHandles |-> None]
         /\ \A q \in Processes \ {p} : link'[q] = link[q]
  <1>1. link' = [link EXCEPT ![p] = [h \in DOMAIN link[p] |-> None]]
    BY DEF ShutDown
  <1>2. DOMAIN link[p] = AllHandles
    OBVIOUS
  <1>3. [h \in AllHandles |-> None] \in [AllHandles -> Nat]
    BY DEF None
  <1> QED
    BY <1>1, <1>2, <1>3

\* Every variable keeps its type.
LEMMA TypedStep ==
  ASSUME Inv, Win32AcceptNext
  PROVE  Typed'
  <1>0. /\ Typed /\ InOrder /\ Onward
        /\ arrived \in Nat
        /\ pipe \in [Processes -> Instances]
        /\ link \in [Processes -> [AllHandles -> Nat]]
        /\ tables \in [Processes -> Tables]
        /\ serving \in [Processes -> SUBSET (Entries \X Nat)]
        /\ holder \in Processes \cup {Nobody}
        /\ state \in [Processes -> Places]
        /\ ipcFd \in [Processes -> Entries \cup {-1}]
        /\ shutdown \in [Processes -> BOOLEAN]
    BY OrderStep DEF Inv, Typed
  <1> DEFINE Outside == /\ pipe' \in [Processes -> Instances]
                        /\ link' \in [Processes -> [AllHandles -> Nat]]
             Inside == /\ tables' \in [Processes -> Tables]
                       /\ serving' \in [Processes -> SUBSET (Entries \X Nat)]
                       /\ ipcFd' \in [Processes -> Entries \cup {-1}]
             Control == /\ holder' \in Processes \cup {Nobody}
                        /\ state' \in [Processes -> Places]
                        /\ shutdown' \in [Processes -> BOOLEAN]
  <1>1. \A p \in Processes : ReleaseMutex(p) \in Processes \cup {Nobody}
    BY <1>0 DEF ReleaseMutex
  <1>2. ASSUME UNCHANGED <<tables, serving, ipcFd>> PROVE Inside
    BY <1>0, <1>2
  <1>3. ASSUME UNCHANGED <<pipe, link>> PROVE Outside
    BY <1>0, <1>3
  <1>4. ASSUME NEW p \in Processes, NEW place \in Places, Moves(p, place)
        PROVE  state' \in [Processes -> Places]
    BY <1>0, <1>4 DEF Moves
  <1>5. ASSUME ConnectToSocket PROVE Outside /\ Inside /\ Control
    BY <1>0, <1>2, <1>3, <1>5 DEF ConnectToSocket
  <1>6. ASSUME NEW p \in Processes, ConnectToPipe(p) PROVE Outside /\ Inside /\ Control
    <2>1. Outside
      <3>1. Links(p, PipeHandle, arrived + 1) /\ pipe' = [pipe EXCEPT ![p] = "offered"]
        BY <1>6 DEF ConnectToPipe
      <3>2. arrived + 1 \in Nat
        BY <1>0
      <3> QED
        BY <1>0, <3>1, <3>2, LinkFacts DEF Instances
    <2> QED
      BY <1>0, <1>2, <1>6, <2>1 DEF ConnectToPipe
  <1>7. ASSUME NEW p \in Processes, ClientCloses(p) PROVE Outside /\ Inside /\ Control
    BY <1>0, <1>2, <1>7 DEF ClientCloses, Instances
  <1>8. ASSUME NEW p \in Processes, OS_Accept(p) PROVE Outside /\ Inside /\ Control
    <2>1. Inside /\ pipe' = pipe /\ (UNCHANGED link \/ ShutDown(p, "stopped"))
      BY <1>0, <1>8 DEF OS_Accept, Initially
    <2>2. Control
      BY <1>0, <1>1, <1>8 DEF OS_Accept, ShutDown, Moves, Places
    <2> QED
      BY <1>0, <2>1, <2>2, ShutDownLinks
  <1>9. ASSUME NEW p \in Processes,
               AcquireMutex(p) \/ EnterCycle(p) \/ Select(p) \/ Leave(p)
        PROVE  Outside /\ Inside /\ Control
    <2>1. /\ UNCHANGED <<pipe, tables, serving, ipcFd, shutdown>>
          /\ UNCHANGED link \/ ShutDown(p, "leave")
      BY <1>9 DEF AcquireMutex, EnterCycle, Select, Leave
    <2>2. /\ \E place \in Places : Moves(p, place)
          /\ holder' \in Processes \cup {Nobody}
      BY <1>0, <1>1, <1>9 DEF AcquireMutex, EnterCycle, Select, Leave, ShutDown, Places
    <2>3. link' \in [Processes -> [AllHandles -> Nat]]
      BY <1>0, <2>1, ShutDownLinks
    <2> QED
      BY <1>0, <1>2, <1>4, <2>1, <2>2, <2>3
  <1>10. ASSUME NEW p \in Processes, WSAAccept(p) PROVE Outside /\ Inside /\ Control
    <2> DEFINE c == Head(backlog)
    <2>1. c \in 1..arrived
      BY <1>0, <1>10, BacklogFacts DEF WSAAccept
    <2>2. UNCHANGED <<pipe, holder, shutdown>>
      BY <1>10 DEF WSAAccept
    <2> HIDE DEF c
    <2>3. \/ \E h \in SocketHandles : /\ Describe(p, "socketSync", h, c)
                                      /\ UNCHANGED link \/ Links(p, h, c)
          \/ /\ UNCHANGED <<ipcFd, link, tables, serving>>
             /\ Moves(p, "select") \/ Moves(p, "leave")
      BY <1>10 DEF WSAAccept, c, AfterRefusal
    <2>4. ASSUME NEW h \in SocketHandles, Describe(p, "socketSync", h, c),
                 UNCHANGED link \/ Links(p, h, c)
          PROVE  Outside /\ Inside /\ Control
      <3>1. "socketSync" \in FileTypes \ {"unused"} /\ h \in AllHandles /\ c \in Nat
        BY <2>1, <1>0 DEF FileTypes, AllHandles
      <3>2. Inside /\ state' = [state EXCEPT ![p] = "leave"]
        BY <1>0, <2>4, <3>1, DescribeFacts
      <3>3. link' \in [Processes -> [AllHandles -> Nat]]
        BY <1>0, <2>4, <3>1 DEF Links
      <3> QED
        BY <1>0, <2>2, <3>2, <3>3 DEF Places
    <2>5. CASE /\ UNCHANGED <<ipcFd, link, tables, serving>>
               /\ Moves(p, "select") \/ Moves(p, "leave")
      BY <1>0, <2>2, <2>5 DEF Moves, Places
    <2> QED
      BY <2>3, <2>4, <2>5
  <1>11. ASSUME NEW p \in Processes, ConnectNamedPipe(p)
         PROVE  Outside /\ Inside /\ Control
    <2>1. /\ Describe(p, "pipeSync", PipeHandle, link[p][PipeHandle])
          /\ UNCHANGED <<link, holder, shutdown>>
      BY <1>11 DEF ConnectNamedPipe
    <2>2. /\ "pipeSync" \in FileTypes \ {"unused"} /\ PipeHandle \in AllHandles
          /\ link[p][PipeHandle] \in Nat
      BY <1>0 DEF FileTypes, AllHandles
    <2>3. Inside /\ state' = [state EXCEPT ![p] = "leave"]
      BY <1>0, <2>1, <2>2, DescribeFacts
    <2>4. pipe' \in [Processes -> Instances]
      BY <1>0, <1>11 DEF ConnectNamedPipe, Instances
    <2> QED
      BY <1>0, <2>1, <2>3, <2>4 DEF Places
  <1>12. ASSUME NEW p \in Processes, OS_IpcClose(p) PROVE Outside /\ Inside /\ Control
    <2>1. PICK x \in serving[p] :
            /\ serving' = [serving EXCEPT ![p] = serving[p] \ {x}]
            /\ \/ UNCHANGED <<tables, link, pipe>>
               \/ /\ tables' = [tables EXCEPT ![p] = Win32FreeDescriptor(tables[p], x[1])]
                  /\ Links(p, HandleOf(p, x), None)
                  /\ UNCHANGED pipe \/ pipe' = [pipe EXCEPT ![p] = "disconnected"]
      BY <1>12 DEF OS_IpcClose, Freed, HandleOf
    <2>2. UNCHANGED <<ipcFd, holder, state, shutdown>>
      BY <1>12 DEF OS_IpcClose
    <2>3. Win32FreeDescriptor(tables[p], x[1]) \in Tables
      <3>1. tables[p] \in Tables /\ x[1] \in Entries
        BY <1>0
      <3>2. tables[p][x[1]] \in [type : FileTypes, fid : Nat, instance : {0}]
        BY <3>1 DEF Tables
      <3>3. PICK a \in FileTypes, b \in Nat :
              tables[p][x[1]] = [type |-> a, fid |-> b, instance |-> 0]
        BY <3>2
      <3>4. [tables[p][x[1]] EXCEPT !.type = "unused"]
              = [type |-> "unused", fid |-> b, instance |-> 0]
        BY <3>3
      <3>5. Win32FreeDescriptor(tables[p], x[1])
              = [tables[p] EXCEPT ![x[1]] = [tables[p][x[1]] EXCEPT !.type = "unused"]]
        BY DEF Win32FreeDescriptor
      <3> QED
        BY <3>1, <3>4, <3>5 DEF Tables, FileTypes
    <2>4. tables' \in [Processes -> Tables]
      BY <1>0, <2>1, <2>3
    <2>5. serving' \in [Processes -> SUBSET (Entries \X Nat)]
      BY <1>0, <2>1
    <2>6. pipe' \in [Processes -> Instances]
      BY <1>0, <2>1 DEF Instances
    <2>7. link' \in [Processes -> [AllHandles -> Nat]]
      <3>1. None \in Nat
        BY DEF None
      <3> QED
        BY <1>0, <2>1, <3>1, LinkFacts
    <2> QED
      BY <1>0, <2>2, <2>4, <2>5, <2>6, <2>7
  <1>13. ASSUME NEW p \in Processes, ShutdownRequest(p) PROVE Outside /\ Inside /\ Control
    <2>1. /\ UNCHANGED <<pipe, link, tables, ipcFd>>
          /\ shutdown' = [shutdown EXCEPT ![p] = TRUE]
      BY <1>13 DEF ShutdownRequest
    <2>2. serving' \in [Processes -> SUBSET (Entries \X Nat)]
      BY <1>0, <1>13 DEF ShutdownRequest
    <2>3. holder' \in Processes \cup {Nobody} /\ state' \in [Processes -> Places]
      BY <1>0, <1>1, <1>13 DEF ShutdownRequest, Moves, Places
    <2> QED
      BY <1>0, <2>1, <2>2, <2>3
  <1>14. Outside /\ Inside /\ Control
    BY <1>5, <1>6, <1>7, <1>8, <1>9, <1>10, <1>11, <1>12, <1>13
    DEF Win32AcceptNext, CycleStep
  <1> QED
    BY <1>0, <1>14 DEF Typed, Onward

\* The mutex is released by none but its holder.
LEMMA MutexStep ==
  ASSUME Inv, Win32AcceptNext
  PROVE  CycleExclusive'
  <1>0. /\ state \in [Processes -> Places] /\ holder \in Processes \cup {Nobody}
        /\ acceptMutex' = acceptMutex /\ CycleExclusive /\ Nobody \notin Processes
    BY OrderStep, AcceptAssumption DEF Inv, Typed, Onward
  <1> DEFINE Exclusive(q) == /\ InCycle(q) => holder = q
                             /\ holder = q => InCycle(q) \/ state[q] = "leave"
  <1> SUFFICES ASSUME acceptMutex # "none", NEW q \in Processes
               PROVE  Exclusive(q)'
    BY <1>0 DEF CycleExclusive
  <1>1. /\ Exclusive(q)
        /\ \A p \in Processes : InCycle(p) => holder = p
    BY <1>0 DEF CycleExclusive
  \* What matters is where the process comes from and goes to.
  <1>2. ASSUME NEW p \in Processes, NEW place \in Places, Moves(p, place),
               \/ /\ holder' = holder /\ state[p] \in {"cycle", "select", "accept", "connect"}
                  /\ place \in {"select", "accept", "connect", "leave"}
               \/ /\ holder' = ReleaseMutex(p)
                  /\ place \in {"leave", "app", "stopped", "gone"}
               \/ holder' = holder /\ state[p] = "app" /\ place = "mutex"
               \/ holder' = holder /\ state[p] = "mutex" /\ place = "stopped"
               \/ holder = Nobody /\ holder' = p /\ place = "cycle"
        PROVE  Exclusive(q)'
    <2>1. state'[p] = place /\ (q # p => state'[q] = state[q])
      BY <1>0, <1>2 DEF Moves
    <2>2. CASE holder' = ReleaseMutex(p) /\ place \in {"leave", "app", "stopped", "gone"}
      BY <1>0, <1>1, <2>1, <2>2 DEF InCycle, ReleaseMutex
    <2>3. CASE holder = Nobody /\ holder' = p /\ place = "cycle"
      BY <1>0, <1>1, <2>1, <2>3 DEF InCycle
    <2>4. CASE \/ holder' = holder /\ state[p] = "app" /\ place = "mutex"
               \/ holder' = holder /\ state[p] = "mutex" /\ place = "stopped"
      BY <1>0, <1>1, <2>1, <2>4 DEF InCycle
    <2>5. CASE /\ holder' = holder /\ state[p] \in {"cycle", "select", "accept", "connect"}
               /\ place \in {"select", "accept", "connect", "leave"}
      BY <1>0, <1>1, <2>1, <2>5 DEF InCycle
    <2> QED
      BY <1>2, <2>2, <2>3, <2>4, <2>5
  <1>3. CASE UNCHANGED <<state, holder>>
    BY <1>1, <1>3 DEF InCycle
  <1>4. ASSUME NEW p \in Processes, OS_Accept(p) PROVE Exclusive(q)'
    BY <1>2, <1>4 DEF OS_Accept, ShutDown, Places
  <1>5. ASSUME NEW p \in Processes, AcquireMutex(p) \/ EnterCycle(p) \/ Select(p) \/ Leave(p)
        PROVE  Exclusive(q)'
    BY <1>2, <1>5 DEF AcquireMutex, EnterCycle, Select, Leave, ShutDown, Places
  <1>6. ASSUME NEW p \in Processes, WSAAccept(p) \/ ConnectNamedPipe(p) PROVE Exclusive(q)'
    <2>1. /\ state[p] \in {"cycle", "select", "accept", "connect"} /\ holder' = holder
          /\ Moves(p, "leave") \/ Moves(p, "select")
      BY <1>6 DEF WSAAccept, ConnectNamedPipe, Describe, AfterRefusal
    <2> QED
      BY <1>2, <2>1 DEF Places
  <1>7. ASSUME NEW p \in Processes, ShutdownRequest(p) PROVE Exclusive(q)'
    <2>1. CASE UNCHANGED <<state, holder>>
      BY <1>3, <2>1
    <2>2. CASE Moves(p, "gone") /\ holder' = ReleaseMutex(p)
      BY <1>2, <2>2 DEF Places
    <2> QED
      BY <1>7, <2>1, <2>2 DEF ShutdownRequest
  <1> QED
    BY <1>3, <1>4, <1>5, <1>6, <1>7
    DEF Win32AcceptNext, CycleStep, ConnectToSocket, ConnectToPipe, ClientCloses, OS_IpcClose
---------------------------------------------------------------------------
(***************************************************************************)
(* What holds of each process.                                             *)
(***************************************************************************)

\* With all entries in use the application holds a request for each.
LEMMA FullTable ==
  ASSUME Typed, NEW p \in Processes, Owned(p), listenType = "socket",
         1..(OpenMax - 1) \subseteq InUse(tables[p]), Cardinality(serving[p]) < MaxServing
  PROVE  MaxServing >= OpenMax
  <1> DEFINE f == [x \in serving[p] |-> x[1]]
  <1>1. f \in Surjection(serving[p], InUse(tables[p])) /\ IsFiniteSet(serving[p])
    BY DEF Owned, Surjection
  <1> HIDE DEF f
  <1>2. /\ IsFiniteSet(InUse(tables[p])) /\ Cardinality(serving[p]) \in Nat
        /\ Cardinality(InUse(tables[p])) <= Cardinality(serving[p])
    BY <1>1, FS_Surjection, FS_CardinalityType
  <1>3. 1..(OpenMax - 1) \in SUBSET InUse(tables[p])
    OBVIOUS
  <1>4. /\ Cardinality(1..(OpenMax - 1)) <= Cardinality(InUse(tables[p]))
        /\ Cardinality(InUse(tables[p])) \in Nat
    BY <1>2, <1>3, FS_Subset, FS_CardinalityType
  <1>5. OpenMax - 1 \in Nat \ {0}
    BY TableAssumption
  <1>6. Cardinality(1..(OpenMax - 1)) = IF 1 > OpenMax - 1 THEN 0 ELSE (OpenMax - 1) - 1 + 1
    BY <1>5, FS_Interval
  <1> QED
    BY <1>2, <1>4, <1>5, <1>6, AcceptAssumption, TableAssumption

\* What does not concern a process leaves its descriptors as they are.
LEMMA OwnedKept ==
  ASSUME Typed, Onward, NEW p \in Processes, Owned(p),
         tables'[p] = tables[p], serving'[p] = serving[p], link'[p] = link[p],
         Cut(p) => Cut(p)'
  PROVE  Owned(p)'
  <1>1. listenType' = listenType /\ arrived \in Nat /\ arrived' \in Nat /\ arrived <= arrived'
    BY DEF Onward, Typed
  <1>2. \A x : HandleOf(p, x)' = HandleOf(p, x)
    BY DEF HandleOf
  <1>3. InUse(tables'[p]) = InUse(tables[p])
    OBVIOUS
  <1> QED
    BY <1>1, <1>2, <1>3 DEF Owned

\* A call that OS_LibShutdown ended leaves the descriptors without connections.
LEMMA OwnedCut ==
  ASSUME Typed, Onward, NEW p \in Processes, Owned(p),
         tables'[p] = tables[p], serving'[p] = serving[p],
         link'[p] = [h \in AllHandles |-> None], Through(p)', shutdown'[p]
  PROVE  Owned(p)'
  <1>1. listenType' = listenType /\ arrived \in Nat /\ arrived' \in Nat /\ arrived <= arrived'
    BY DEF Onward, Typed
  <1>2. \A x : HandleOf(p, x)' = HandleOf(p, x)
    BY DEF HandleOf
  <1>3. InUse(tables'[p]) = InUse(tables[p])
    OBVIOUS
  <1>4. \A h \in SocketHandles : link'[p][h] = None
    BY DEF AllHandles
  <1>5. Cut(p)'
    BY <1>4 DEF Cut, CutOff
  <1> QED
    BY <1>1, <1>2, <1>3, <1>4, <1>5 DEF Owned

\* A cause remains one.
LEMMA CauseKept ==
  ASSUME Typed, InOrder, Onward, NEW p \in Processes, Cause(p), shutdown[p] => shutdown'[p]
  PROVE  Cause(p)'
  <1>1. /\ listenType' = listenType /\ client' = client /\ acceptMutex' = acceptMutex
        /\ arrived \in Nat /\ arrived' \in Nat /\ arrived <= arrived'
        /\ Left \in Nat /\ Left <= Left' /\ Left' <= arrived'
    BY BacklogFacts DEF Onward, Typed
  <1>2. Left' \in Int
    BY <1>1 DEF Left, Onward
  <1>3. ASSUME NEW c \in 1..arrived, Gone(c) PROVE c \in 1..arrived' /\ Gone(c)'
    BY <1>1, <1>2, <1>3 DEF Gone
  <1> QED
    BY <1>1, <1>3 DEF Cause

\* It is enough to look at the process that takes the step.
LEMMA LocalKept ==
  ASSUME Typed, InOrder, Onward, NEW p \in Processes, Local(p),
         tables'[p] = tables[p], serving'[p] = serving[p], link'[p] = link[p],
         ipcFd'[p] = ipcFd[p], state'[p] = state[p], pipe'[p] = pipe[p],
         shutdown[p] => shutdown'[p], listenType = "pipe" => shutdown'[p] = shutdown[p]
  PROVE  Local(p)'
  <1>1. listenType' = listenType /\ arrived \in Nat /\ arrived' \in Nat /\ arrived <= arrived'
    BY DEF Onward, Typed
  <1>2. Owned(p)'
    <2>1. Cut(p) => Cut(p)'
      BY DEF Cut, Through, CutOff
    <2> QED
      BY <2>1, OwnedKept DEF Local
  <1>3. Piped(p)'
    BY <1>1 DEF Local, Piped
  <1>4. Calling(p)'
    <2>1. \A x : x \in 1..arrived => x \in 1..arrived'
      BY <1>1
    <2>2. InCycle(p)' = InCycle(p)
      BY DEF InCycle
    <2> QED
      BY <1>1, <2>1, <2>2 DEF Local, Calling
  <1>5. Stops(p)'
    <2>1. Cause(p) => Cause(p)'
      BY CauseKept
    <2> QED
      BY <2>1 DEF Local, Stops, Through
  <1> QED
    BY <1>2, <1>3, <1>4, <1>5 DEF Local

\* A process that goes on in its call, with no descriptor made or closed.
LEMMA MovesOn ==
  ASSUME Typed, InOrder, Onward, NEW p \in Processes, Local(p),
         tables'[p] = tables[p], serving'[p] = serving[p], link'[p] = link[p],
         ipcFd'[p] = -1, pipe'[p] = pipe[p], shutdown'[p] = shutdown[p],
         state[p] \in {"app", "mutex", "cycle", "select", "accept", "connect"},
         NEW place \in {"mutex", "cycle", "select", "accept", "connect", "leave"},
         state'[p] = place,
         listenType = "socket" => Cardinality(serving[p]) < MaxServing,
         listenType = "pipe" => serving[p] = {},
         place \in {"select", "accept"} => listenType = "socket", place = "connect" => listenType = "pipe",
         place = "leave" => Cause(p)'
  PROVE  Local(p)'
  <1>1. /\ listenType' = listenType
        /\ arrived \in Nat /\ arrived' \in Nat /\ arrived <= arrived'
    BY DEF Onward, Typed
  <1>2. Owned(p)'
    <2>1. ~Cut(p)
      BY DEF Cut, Through
    <2> QED
      BY <2>1, OwnedKept DEF Local
  <1>3. Piped(p)'
    BY <1>1 DEF Local, Piped
  <1>4. Calling(p)'
    BY <1>1 DEF Local, Calling, InCycle
  <1>5. Stops(p)'
    BY <1>1 DEF Stops, Through
  <1> QED
    BY <1>2, <1>3, <1>4, <1>5 DEF Local

\* The descriptor of a new connection is like the others.
LEMMA OwnedNew ==
  ASSUME Typed, Onward, NEW p \in Processes, Owned(p),
         NEW i \in Entries \ InUse(tables[p]), NEW h \in AllHandles, NEW c \in 1..arrived,
         NEW type \in FileTypes \ {"unused"}, ~Cut(p),
         tables'[p] = [tables[p] EXCEPT ![i] = [type |-> type, fid |-> h, instance |-> 0]],
         serving'[p] = serving[p] \cup {<<i, c>>},
         \/ /\ listenType = "socket" /\ h \in SocketHandles /\ link[p][h] = None
            /\ link'[p] = [link[p] EXCEPT ![h] = c]
         \/ /\ listenType = "pipe" /\ h = PipeHandle /\ serving[p] = {}
            /\ link'[p] = link[p] /\ link[p][h] = c
  PROVE  Owned(p)'
  <1>1. /\ listenType' = listenType /\ arrived \in Nat /\ arrived' \in Nat /\ arrived <= arrived'
        /\ tables[p] \in Tables /\ serving[p] \in SUBSET (Entries \X Nat)
        /\ link[p] \in [AllHandles -> Nat]
    BY DEF Onward, Typed
  <1>2. tables'[p][i] = [type |-> type, fid |-> h, instance |-> 0]
        /\ \A j \in Entries \ {i} : tables'[p][j] = tables[p][j]
    BY <1>1 DEF Tables
  <1>3. InUse(tables'[p]) = InUse(tables[p]) \cup {i}
    BY <1>2 DEF InUse
  <1>4. HandleOf(p, <<i, c>>)' = h
    BY <1>2 DEF HandleOf
  <1>5. \A x \in serving[p] : /\ x[1] \in Entries \ {i}
                              /\ HandleOf(p, x)' = HandleOf(p, x)
    <2>1. \A x \in serving[p] : x[1] \in InUse(tables[p]) /\ x[1] \in Entries
      BY <1>1 DEF Owned
    <2> QED
      BY <1>2, <2>1 DEF HandleOf
  <1>6. IsFiniteSet(serving'[p])
    <2>1. IsFiniteSet(serving[p])
      BY DEF Owned
    <2> QED
      <3>1. IsFiniteSet(serving[p] \cup {<<i, c>>})
        BY <2>1, FS_AddElement
      <3> QED
        BY <3>1
  <1>7. link'[p][h] = c /\ (\A k \in AllHandles \ {h} : link'[p][k] = link[p][k])
    BY <1>1
  <1>8. c # None /\ (\A x \in serving[p] : x[2] # None)
    BY DEF Owned, None
  <1>9. \A x \in serving[p] : HandleOf(p, x) \in AllHandles \ {h}
    <2>1. \A x \in serving[p] : HandleOf(p, x) \in AllHandles /\ link[p][HandleOf(p, x)] = x[2]
      BY DEF Owned, AllHandles
    <2> QED
      BY <1>8, <2>1
  <1> DEFINE z == <<i, c>>
             OK(x) == /\ x[2] \in 1..arrived' /\ x[1] \in InUse(tables'[p])
                      /\ HandleOf(p, x)' \in (IF listenType = "pipe" THEN {PipeHandle}
                                              ELSE SocketHandles)
                      /\ link'[p][HandleOf(p, x)'] = x[2]
  <1>10. OK(z)
    <2>1. z[1] = i /\ z[2] = c
      OBVIOUS
    <2> QED
      BY <1>1, <1>3, <1>4, <1>7, <2>1
  <1>11. \A x \in serving[p] : OK(x)
    BY <1>1, <1>3, <1>5, <1>7, <1>9 DEF Owned
  <1>12. \A x, y \in serving'[p] : HandleOf(p, x)' = HandleOf(p, y)' => x = y
    <2>1. \A x, y \in serving[p] : HandleOf(p, x) = HandleOf(p, y) => x = y
      BY DEF Owned
    <2> QED
      BY <1>4, <1>5, <1>9, <2>1
  <1>13. ASSUME listenType = "socket"
         PROVE  /\ \A j \in InUse(tables'[p]) : \E x \in serving'[p] : x[1] = j
                /\ \A k \in SocketHandles :
                     link'[p][k] # None => \E x \in serving'[p] : HandleOf(p, x)' = k
    <2>1. z \in serving'[p] /\ z[1] = i
      OBVIOUS
    <2>2. \A j \in InUse(tables[p]) : \E x \in serving[p] : x[1] = j
      BY <1>13 DEF Owned
    <2>3. \A k \in SocketHandles \ {h} :
            link[p][k] # None => \E x \in serving[p] : HandleOf(p, x) = k
      BY <1>13 DEF Owned
    <2>4. \A j \in InUse(tables'[p]) : \E x \in serving'[p] : x[1] = j
      BY <1>3, <2>1, <2>2
    <2>5. \A k \in SocketHandles :
            link'[p][k] # None => \E x \in serving'[p] : HandleOf(p, x)' = k
      BY <1>4, <1>5, <1>7, <2>1, <2>3 DEF AllHandles
    <2> QED
      BY <2>4, <2>5
  <1>14. \A x \in serving'[p] : OK(x)
    BY <1>10, <1>11
  <1> QED
    BY <1>1, <1>6, <1>12, <1>13, <1>14 DEF Owned
\* A descriptor is closed with its handle; on a pipe whose client has gone the entry
\* stays in use, and the handle with it.
LEMMA OwnedClosed ==
  ASSUME Typed, Onward, NEW p \in Processes, Owned(p), NEW x \in serving[p],
         serving'[p] = serving[p] \ {x}, Cut(p) => Through(p)' /\ shutdown'[p],
         \/ listenType = "pipe" /\ tables'[p] = tables[p] /\ link'[p] = link[p]
         \/ /\ tables'[p] = Win32FreeDescriptor(tables[p], x[1])
            /\ link'[p] = [link[p] EXCEPT ![HandleOf(p, x)] = None]
  PROVE  Owned(p)'
  <1>1. /\ listenType' = listenType /\ arrived \in Nat /\ arrived' \in Nat /\ arrived <= arrived'
        /\ tables[p] \in Tables /\ serving[p] \in SUBSET (Entries \X Nat)
        /\ link[p] \in [AllHandles -> Nat]
    BY DEF Onward, Typed
  <1>2. IsFiniteSet(serving'[p])
    <2>1. IsFiniteSet(serving[p])
      BY DEF Owned
    <2>2. IsFiniteSet(serving[p] \ {x})
      BY <2>1, FS_RemoveElement
    <2> QED
      BY <2>2
  <1>3. \A y, w \in serving[p] : HandleOf(p, y) = HandleOf(p, w) => y = w
    BY DEF Owned
  <1>4. \A y \in serving[p] :
          /\ y[2] \in 1..arrived /\ y[1] \in InUse(tables[p])
          /\ HandleOf(p, y) \in (IF listenType = "pipe" THEN {PipeHandle} ELSE SocketHandles)
          /\ Cut(p) \/ link[p][HandleOf(p, y)] = y[2]
    BY DEF Owned
  <1>5. CASE listenType = "pipe" /\ tables'[p] = tables[p] /\ link'[p] = link[p]
    <2>1. \A y : HandleOf(p, y)' = HandleOf(p, y)
      BY <1>5 DEF HandleOf
    <2>2. InUse(tables'[p]) = InUse(tables[p])
      BY <1>5
    <2>3. Cut(p) => Cut(p)'
      BY <1>5 DEF Cut, CutOff
    <2> QED
      BY <1>1, <1>2, <1>3, <1>4, <1>5, <2>1, <2>2, <2>3 DEF Owned
  <1>6. CASE /\ tables'[p] = Win32FreeDescriptor(tables[p], x[1])
             /\ link'[p] = [link[p] EXCEPT ![HandleOf(p, x)] = None]
    <2>1. x[1] \in Entries /\ x[1] \in InUse(tables[p])
      BY <1>1, <1>4
    <2>2. tables[p][x[1]] \in [type : FileTypes, fid : Nat, instance : {0}]
      BY <1>1, <2>1 DEF Tables
    <2>3. /\ \A j \in Entries \ {x[1]} : tables'[p][j] = tables[p][j]
          /\ tables'[p][x[1]].type = "unused"
          /\ tables'[p][x[1]].fid = tables[p][x[1]].fid
      BY <1>1, <1>6, <2>1, <2>2 DEF Tables, Win32FreeDescriptor
    <2>4. InUse(tables'[p]) = InUse(tables[p]) \ {x[1]}
      BY <2>1, <2>3 DEF InUse
    <2>5. \A y \in serving[p] : HandleOf(p, y)' = HandleOf(p, y)
      <3>1. \A y \in serving[p] : y[1] \in Entries
        BY <1>1
      <3> QED
        BY <2>3, <3>1 DEF HandleOf
    <2>6. \A y \in serving[p] \ {x} : y[1] # x[1] /\ HandleOf(p, y) # HandleOf(p, x)
      BY <1>3 DEF HandleOf
    <2>7. \A h \in AllHandles \ {HandleOf(p, x)} : link'[p][h] = link[p][h]
      BY <1>1, <1>6
    <2>8. HandleOf(p, x) \in AllHandles => link'[p][HandleOf(p, x)] = None
      BY <1>1, <1>6
    <2>9. \A y \in serving'[p] :
            /\ y[2] \in 1..arrived' /\ y[1] \in InUse(tables'[p])
            /\ HandleOf(p, y)' \in (IF listenType = "pipe" THEN {PipeHandle} ELSE SocketHandles)
            /\ Cut(p)' \/ link'[p][HandleOf(p, y)'] = y[2]
      <3>0. Cut(p) => Cut(p)'
        BY <1>1, <1>6 DEF Cut, CutOff, AllHandles
      <3>1. \A y \in serving'[p] : y \in serving[p] \ {x}
        OBVIOUS
      <3>2. \A y \in serving[p] : HandleOf(p, y) \in AllHandles
        BY <1>4 DEF AllHandles
      <3> QED
        BY <1>1, <1>4, <2>4, <2>5, <2>6, <2>7, <3>0, <3>1, <3>2
    <2>10. ASSUME listenType = "socket"
           PROVE  /\ \A j \in InUse(tables'[p]) : \E y \in serving'[p] : y[1] = j
                  /\ \A h \in SocketHandles :
                       link'[p][h] # None => \E y \in serving'[p] : HandleOf(p, y)' = h
      <3>1. \A j \in InUse(tables[p]) : \E y \in serving[p] : y[1] = j
        BY <2>10 DEF Owned
      <3>2. \A h \in SocketHandles :
              link[p][h] # None => \E y \in serving[p] : HandleOf(p, y) = h
        BY <2>10 DEF Owned
      <3>3. \A j \in InUse(tables'[p]) : \E y \in serving'[p] : y[1] = j
        BY <2>4, <3>1
      <3>4. \A h \in SocketHandles :
              link'[p][h] # None => \E y \in serving'[p] : HandleOf(p, y)' = h
        <4>1. \A h \in SocketHandles : link'[p][h] # None =>
                h # HandleOf(p, x) /\ link[p][h] # None
          BY <2>7, <2>8 DEF AllHandles
        <4> QED
          BY <2>5, <3>2, <4>1
      <3> QED
        BY <3>3, <3>4
    <2>11. \A y, w \in serving'[p] : HandleOf(p, y)' = HandleOf(p, w)' => y = w
      BY <1>3, <2>5
    <2> QED
      BY <1>1, <1>2, <2>9, <2>10, <2>11 DEF Owned
  <1> QED
    BY <1>5, <1>6

\* A process that has its result, or waits for nothing, keeps what it has.
LEMMA Rests ==
  ASSUME Typed, InOrder, Onward, NEW p \in Processes, Local(p),
         Owned(p)', Piped(p)',
         NEW place \in {"app", "stopped", "gone"}, state'[p] = place,
         place = "gone" => listenType = "pipe", place = "stopped" => Cause(p)',
         listenType = "pipe" /\ shutdown'[p] => place = "gone"
  PROVE  Local(p)'
  <1>1. listenType' = listenType
    BY DEF Onward
  <1>2. Calling(p)'
    BY <1>1 DEF Calling, InCycle
  <1>3. Stops(p)'
    BY DEF Stops, Through
  <1> QED
    BY <1>2, <1>3 DEF Local

\* OS_LibShutdown ends a call on a socket; on a pipe the process has ended before.
LEMMA ShutsDown ==
  ASSUME Typed, InOrder, Onward, NEW p \in Processes, Local(p),
         NEW place \in {"leave", "stopped"}, ShutDown(p, place),
         state[p] \in {"app", "cycle", "select"}, shutdown[p], shutdown'[p], ipcFd'[p] = -1,
         tables'[p] = tables[p], serving'[p] = serving[p], pipe'[p] = pipe[p]
  PROVE  Local(p)'
  <1>1. listenType' = listenType /\ listenType # "pipe"
    BY DEF Onward, Local, Calling
  <1>2. state'[p] = place /\ link'[p] = [h \in AllHandles |-> None]
    <2>1. state \in [Processes -> Places] /\ link \in [Processes -> [AllHandles -> Nat]]
      BY DEF Typed
    <2> QED
      BY <2>1, ShutDownLinks DEF ShutDown, Moves
  <1>3. Owned(p)'
    <2>1. Through(p)'
      BY <1>2 DEF Through
    <2> QED
      BY <1>2, <2>1, OwnedCut DEF Local
  <1>4. Piped(p)'
    BY <1>1 DEF Piped
  <1>5. Calling(p)'
    BY <1>1, <1>2 DEF Calling, InCycle
  <1>6. Stops(p)'
    BY DEF Stops, Cause
  <1> QED
    BY <1>3, <1>4, <1>5, <1>6 DEF Local

\* Every step leaves every process as the invariant says.
LEMMA LocalStep ==
  ASSUME Inv, Win32AcceptNext, NEW q \in Processes
  PROVE  Local(q)'
  <1>0. /\ Typed /\ InOrder /\ Onward /\ Typed'
        /\ \A p \in Processes : Local(p)
        /\ arrived \in Nat /\ arrived' \in Nat /\ arrived <= arrived'
        /\ listenType' = listenType /\ listenType \in {"socket", "pipe", "other"}
        /\ pipe \in [Processes -> Instances]
        /\ link \in [Processes -> [AllHandles -> Nat]]
        /\ tables \in [Processes -> Tables]
        /\ serving \in [Processes -> SUBSET (Entries \X Nat)]
        /\ state \in [Processes -> Places]
        /\ ipcFd \in [Processes -> Entries \cup {-1}]
        /\ shutdown \in [Processes -> BOOLEAN]
    BY OrderStep, TypedStep DEF Inv, Typed, Onward
  <1>1. Owned(q) /\ Piped(q) /\ Calling(q) /\ Stops(q)
    BY <1>0 DEF Local
  <1>2. shutdown[q] /\ shutdown'[q] => Cause(q)'
    BY DEF Cause
  <1>3. ASSUME NEW p \in Processes, p # q,
               ConnectToPipe(p) \/ ClientCloses(p) \/ OS_Accept(p) \/ CycleStep(p)
               \/ OS_IpcClose(p) \/ ShutdownRequest(p)
        PROVE  Local(q)'
    <2>1. /\ tables'[q] = tables[q] /\ serving'[q] = serving[q] /\ link'[q] = link[q]
          /\ ipcFd'[q] = ipcFd[q] /\ state'[q] = state[q] /\ pipe'[q] = pipe[q]
          /\ shutdown'[q] = shutdown[q]
      <3>1. /\ serving'[q] = serving[q] /\ tables'[q] = tables[q] /\ ipcFd'[q] = ipcFd[q]
        BY <1>0, <1>3
        DEF ConnectToPipe, ClientCloses, OS_Accept, CycleStep, OS_IpcClose, ShutdownRequest,
            AcquireMutex, EnterCycle, Select, WSAAccept, ConnectNamedPipe, Leave, Describe
      <3>2. state'[q] = state[q] /\ shutdown'[q] = shutdown[q] /\ pipe'[q] = pipe[q]
        BY <1>0, <1>3
        DEF ConnectToPipe, ClientCloses, OS_Accept, CycleStep, OS_IpcClose, ShutdownRequest,
            AcquireMutex, EnterCycle, Select, WSAAccept, ConnectNamedPipe, Leave, Describe,
            Moves, ShutDown
      <3>3. \/ UNCHANGED link \/ \E h, c : Links(p, h, c)
            \/ \E place : ShutDown(p, place)
        BY <1>3
        DEF ConnectToPipe, ClientCloses, OS_Accept, CycleStep, OS_IpcClose, ShutdownRequest,
            AcquireMutex, EnterCycle, Select, WSAAccept, ConnectNamedPipe, Leave
      <3>4. link'[q] = link[q]
        BY <1>0, <1>3, <3>3 DEF Links, ShutDown
      <3> QED
        BY <3>1, <3>2, <3>4
    <2> QED
      BY <1>0, <2>1, LocalKept
  <1>4. ASSUME ConnectToSocket PROVE Local(q)'
    BY <1>0, <1>4, LocalKept DEF ConnectToSocket
  <1>5. ASSUME ConnectToPipe(q) PROVE Local(q)'
    <2>1. /\ listenType = "pipe" /\ pipe[q] \in {"fresh", "disconnected"} /\ arrived' = arrived + 1
          /\ pipe' = [pipe EXCEPT ![q] = "offered"] /\ Links(q, PipeHandle, arrived + 1)
          /\ UNCHANGED <<tables, serving, state, ipcFd, shutdown>>
      BY <1>5 DEF ConnectToPipe
    <2>2. serving[q] = {} /\ serving'[q] = {}
      BY <1>0, <1>1, <2>1 DEF Piped
    <2>3. link'[q][PipeHandle] = arrived + 1
      <3>1. arrived + 1 \in Nat /\ Links(q, PipeHandle, arrived + 1)
        BY <1>0, <2>1
      <3>2. link'[q] = [link[q] EXCEPT ![PipeHandle] = arrived + 1]
        BY <1>0, <3>1 DEF Links
      <3> QED
        BY <1>0, <3>2 DEF AllHandles
    <2>4. Owned(q)'
      <3>1. listenType' # "socket" /\ IsFiniteSet(serving'[q])
        BY <1>0, <2>1, <2>2, FS_EmptySet
      <3> QED
        BY <2>2, <3>1 DEF Owned
    <2>5. Piped(q)'
      BY <1>0, <2>1, <2>2, <2>3 DEF Piped
    <2>6. Calling(q)'
      BY <1>0, <1>1, <2>1, <2>2 DEF Calling, InCycle
    <2>7. Stops(q)'
      BY <1>0, <2>1 DEF Stops, Through, Cause
    <2> QED
      BY <2>4, <2>5, <2>6, <2>7 DEF Local
  <1>6. ASSUME ClientCloses(q) PROVE Local(q)'
    <2>1. /\ pipe[q] \in {"offered", "connected"} /\ pipe' = [pipe EXCEPT ![q] = "broken"]
          /\ UNCHANGED <<arrived, link, tables, serving, state, ipcFd, shutdown>>
      BY <1>6 DEF ClientCloses
    <2>2. Owned(q)'
      <3>1. Cut(q)' = Cut(q)
        BY <2>1 DEF Cut, Through, CutOff
      <3> QED
        BY <1>0, <1>1, <2>1, <3>1, OwnedKept
    <2>3. Piped(q)'
      BY <1>0, <1>1, <2>1 DEF Piped
    <2>4. Calling(q)'
      BY <1>0, <1>1, <2>1 DEF Calling, InCycle
    <2>5. Stops(q)'
      <3>1. Cause(q) => Cause(q)'
        BY <1>0, <2>1, CauseKept
      <3> QED
        BY <1>1, <2>1, <3>1 DEF Stops, Through
    <2> QED
      BY <2>2, <2>3, <2>4, <2>5 DEF Local
  <1>7. ASSUME OS_Accept(q) PROVE Local(q)'
    <2>1. /\ Cardinality(serving[q]) < (IF listenType = "pipe" THEN 1 ELSE MaxServing)
          /\ ipcFd'[q] = -1 /\ UNCHANGED <<tables, serving, pipe, shutdown>>
          /\ state[q] = "app"
      BY <1>0, <1>7 DEF OS_Accept, Initially
    <2>2. listenType = "pipe" => serving[q] = {}
      <3>1. IsFiniteSet(serving[q])
        BY <1>1 DEF Owned
      <3>2. Cardinality(serving[q]) \in Nat
        BY <3>1, FS_CardinalityType
      <3>3. Cardinality(serving[q]) = 0 => serving[q] = {}
        BY <3>1, FS_EmptySet
      <3> QED
        BY <2>1, <3>2, <3>3
    <2>3. CASE shutdown[q]
      <3>1. ShutDown(q, "stopped")
        BY <1>7, <2>3 DEF OS_Accept
      <3> QED
        BY <1>0, <2>1, <2>3, <3>1, ShutsDown
    <2>4. CASE ~shutdown[q]
      <3>1. state'[q] \in {"mutex", "cycle"} /\ link' = link
        BY <1>0, <1>7, <2>4 DEF OS_Accept, Moves
      <3>2. listenType = "socket" => Cardinality(serving[q]) < MaxServing
        BY <2>1
      <3> QED
        BY <1>0, <2>1, <2>2, <3>1, <3>2, MovesOn
    <2> QED
      BY <2>3, <2>4
  <1>8. ASSUME AcquireMutex(q) \/ EnterCycle(q) \/ Select(q) PROVE Local(q)'
    <2>1. /\ UNCHANGED <<tables, serving, ipcFd, pipe, shutdown>>
          /\ state[q] \in {"mutex", "cycle", "select"} /\ ipcFd[q] = -1
      BY <1>1, <1>8 DEF AcquireMutex, EnterCycle, Select, Calling, InCycle
    <2>2. \/ /\ shutdown[q] /\ state[q] \in {"cycle", "select"} /\ ShutDown(q, "leave")
          \/ UNCHANGED link /\ acceptMutex = "invalid" /\ Moves(q, "stopped")
          \/ /\ UNCHANGED link
             /\ \E place \in {"cycle", "select", "connect", "accept", "leave"} :
                  /\ Moves(q, place)
                  /\ place \in {"select", "accept"} => listenType = "socket"
                  /\ place = "connect" => listenType = "pipe"
                  /\ place = "leave" => listenType # "socket"
      <3>1. CASE AcquireMutex(q)
        BY <1>0, <3>1 DEF AcquireMutex
      <3>2. CASE EnterCycle(q)
        BY <1>0, <3>2 DEF EnterCycle
      <3>3. CASE Select(q)
        <4>1. listenType = "socket"
          BY <1>1, <3>3 DEF Select, Calling
        <4> QED
          BY <1>0, <3>3, <4>1 DEF Select, StopsPolling
      <3> QED
        BY <1>8, <3>1, <3>2, <3>3
    <2>3. CASE shutdown[q] /\ state[q] \in {"cycle", "select"} /\ ShutDown(q, "leave")
      BY <1>0, <2>1, <2>3, ShutsDown
    <2>4. CASE UNCHANGED link /\ acceptMutex = "invalid" /\ Moves(q, "stopped")
      <3>1. state'[q] = "stopped"
        BY <1>0, <2>4 DEF Moves
      <3>2. Owned(q)'
        <4>1. ~Cut(q)
          BY <2>1 DEF Cut, Through
        <4> QED
          BY <1>0, <1>1, <2>1, <2>4, <4>1, OwnedKept
      <3>3. Piped(q)'
        BY <1>0, <1>1, <2>1, <2>4 DEF Piped
      <3>4. Cause(q)'
        BY <1>0, <2>4 DEF Cause, Onward
      <3>5. listenType = "pipe" => ~shutdown'[q]
        BY <1>1, <2>1 DEF Calling
      <3> QED
        BY <1>0, <3>1, <3>2, <3>3, <3>4, <3>5, Rests
    <2>5. ASSUME UNCHANGED link,
                 NEW place \in {"cycle", "select", "connect", "accept", "leave"},
                 Moves(q, place), place \in {"select", "accept"} => listenType = "socket",
                 place = "connect" => listenType = "pipe",
                 place = "leave" => listenType # "socket"
          PROVE  Local(q)'
      <3>1. state'[q] = place
        BY <1>0, <2>5 DEF Moves
      <3>2. listenType = "socket" => Cardinality(serving[q]) < MaxServing
        BY <1>1, <2>1 DEF Calling, InCycle
      <3>3. listenType = "pipe" => serving[q] = {}
        BY <1>1, <2>1 DEF Piped
      <3>4. place = "leave" => Cause(q)'
        BY <1>0, <2>5 DEF Cause
      <3> QED
        BY <1>0, <2>1, <2>5, <3>1, <3>2, <3>3, <3>4, MovesOn
    <2> QED
      BY <2>2, <2>3, <2>4, <2>5
  <1>9. ASSUME WSAAccept(q) PROVE Local(q)'
    <2>0. PICK c \in 1..arrived : c = Head(backlog) /\ c = Left + 1
      BY <1>0, <1>9, BacklogFacts DEF WSAAccept
    <2>1. /\ state[q] = "accept" /\ listenType = "socket" /\ Left \in Nat
          /\ UNCHANGED <<client, arrived, pipe, shutdown>>
      BY <1>0, <1>1, <1>9, BacklogFacts DEF WSAAccept, Calling
    <2>2. Left' = Left + 1
      <3>1. backlog # <<>> /\ backlog' = Tail(backlog) /\ backlog \in Seq(Nat)
        BY <1>0, <1>9 DEF WSAAccept, Typed
      <3>2. Len(backlog) \in Nat \ {0} /\ Len(backlog') = Len(backlog) - 1
        BY <3>1, TailFacts
      <3> QED
        BY <1>0, <2>1, <3>2 DEF Left
    <2>3. ipcFd[q] = -1 /\ Cardinality(serving[q]) < MaxServing
      BY <1>1, <2>1 DEF Calling, InCycle
    <2>4. \/ \E h \in SocketHandles :
                /\ link[q][h] = None /\ Describe(q, "socketSync", h, c)
                /\ IF ipcFd'[q] = -1 THEN UNCHANGED link ELSE Links(q, h, c)
          \/ UNCHANGED <<ipcFd, link, tables, serving>> /\ Moves(q, "select")
          \/ client[c] = "gone" /\ UNCHANGED <<ipcFd, link, tables, serving>> /\ Moves(q, "leave")
      <3>1. CASE client[c] = "approved"
        BY <1>9, <2>0, <3>1 DEF WSAAccept
      <3>2. CASE client[c] = "foreign"
        BY <1>9, <2>0, <3>2 DEF WSAAccept, AfterRefusal
      <3>3. CASE client[c] = "gone"
        BY <1>9, <2>0, <3>3 DEF WSAAccept
      <3>4. client[c] \in Clients
        <4>1. c \in Connections
          BY <1>0, AcceptAssumption DEF Typed, Connections
        <4> QED
          BY <1>0, <4>1 DEF Typed
      <3> QED
        BY <3>1, <3>2, <3>3, <3>4 DEF Clients
    <2>5. CASE UNCHANGED <<ipcFd, link, tables, serving>> /\ Moves(q, "select")
      <3>1. state'[q] = "select"
        BY <1>0, <2>5 DEF Moves
      <3> QED
        BY <1>0, <2>1, <2>3, <2>5, <3>1, MovesOn
    <2>6. CASE client[c] = "gone" /\ UNCHANGED <<ipcFd, link, tables, serving>> /\ Moves(q, "leave")
      <3>1. state'[q] = "leave"
        BY <1>0, <2>6 DEF Moves
      <3>2. Gone(c)'
        BY <2>0, <2>1, <2>2, <2>6 DEF Gone
      <3>3. Cause(q)'
        BY <2>1, <3>2 DEF Cause
      <3> QED
        BY <1>0, <2>1, <2>3, <2>6, <3>1, <3>3, MovesOn
    <2>7. ASSUME NEW h \in SocketHandles, link[q][h] = None, Describe(q, "socketSync", h, c),
                 IF ipcFd'[q] = -1 THEN UNCHANGED link ELSE Links(q, h, c)
          PROVE  Local(q)'
      <3>1. "socketSync" \in FileTypes \ {"unused"} /\ h \in AllHandles /\ c \in Nat
        BY <2>1 DEF FileTypes, AllHandles
      <3>2. /\ state' = [state EXCEPT ![q] = "leave"]
            /\ \/ /\ ipcFd'[q] = -1 /\ tables'[q] = tables[q] /\ serving'[q] = serving[q]
                  /\ 1..(OpenMax - 1) \subseteq InUse(tables[q])
               \/ /\ ipcFd'[q] \in Entries \ InUse(tables[q])
                  /\ tables'[q] = [tables[q] EXCEPT ![ipcFd'[q]] =
                                     [type |-> "socketSync", fid |-> h, instance |-> 0]]
                  /\ serving'[q] = serving[q] \cup {<<ipcFd'[q], c>>}
        BY <1>0, <2>7, <3>1, DescribeFacts
      <3>3. state'[q] = "leave"
        BY <1>0, <3>2
      <3>4. CASE /\ ipcFd'[q] = -1 /\ tables'[q] = tables[q] /\ serving'[q] = serving[q]
                 /\ 1..(OpenMax - 1) \subseteq InUse(tables[q])
        <4>1. MaxServing >= OpenMax
          BY <1>0, <1>1, <2>1, <2>3, <3>4, FullTable
        <4>2. Cause(q)' /\ UNCHANGED link
          BY <2>7, <3>4, <4>1 DEF Cause
        <4> QED
          BY <1>0, <2>1, <2>3, <3>3, <3>4, <4>2, MovesOn
      <3>5. CASE /\ ipcFd'[q] \in Entries \ InUse(tables[q])
                 /\ tables'[q] = [tables[q] EXCEPT ![ipcFd'[q]] =
                                    [type |-> "socketSync", fid |-> h, instance |-> 0]]
                 /\ serving'[q] = serving[q] \cup {<<ipcFd'[q], c>>}
        <4>1. ipcFd'[q] # -1
          BY <3>5, TableAssumption DEF Entries
        <4>2. link'[q] = [link[q] EXCEPT ![h] = c]
          BY <1>0, <2>7, <3>1, <4>1, LinkFacts
        <4>3. Owned(q)'
          <5>0. ~Cut(q)
            BY <2>1 DEF Cut, Through
          <5>1. PICK i \in Entries \ InUse(tables[q]) : i = ipcFd'[q]
            BY <3>5
          <5>2. /\ tables'[q] = [tables[q] EXCEPT ![i] =
                                   [type |-> "socketSync", fid |-> h, instance |-> 0]]
                /\ serving'[q] = serving[q] \cup {<<i, c>>}
            BY <3>5, <5>1
          <5>3. Typed /\ Onward /\ Owned(q) /\ listenType = "socket" /\ c \in 1..arrived
            BY <1>0, <1>1, <2>1
          <5> QED
            BY <2>7, <3>1, <4>2, <5>0, <5>2, <5>3, OwnedNew
        <4>4. Piped(q)' /\ Stops(q)'
          BY <1>0, <2>1, <3>3, <4>1 DEF Piped, Stops, Through
        <4>5. Calling(q)'
          <5>1. c \in 1..arrived' /\ <<ipcFd'[q], c>> \in serving'[q]
            BY <2>1, <3>5
          <5> QED
            BY <1>0, <2>1, <3>3, <5>1 DEF Calling, InCycle
        <4> QED
          BY <4>3, <4>4, <4>5 DEF Local
      <3> QED
        BY <3>2, <3>4, <3>5
    <2> QED
      BY <2>4, <2>5, <2>6, <2>7
  <1>10. ASSUME ConnectNamedPipe(q) PROVE Local(q)'
    <2>1. /\ state[q] = "connect" /\ listenType = "pipe" /\ serving[q] = {}
          /\ pipe[q] \in {"offered", "broken"}
          /\ Describe(q, "pipeSync", PipeHandle, link[q][PipeHandle])
          /\ pipe' = [pipe EXCEPT ![q] = IF ipcFd'[q] = -1 THEN "disconnected"
                                         ELSE IF pipe[q] = "offered" THEN "connected"
                                         ELSE pipe[q]]
          /\ UNCHANGED <<arrived, link>>
      BY <1>0, <1>1, <1>10 DEF ConnectNamedPipe, Calling, Piped
    <2>2. PICK c \in 1..arrived : c = link[q][PipeHandle]
      BY <1>1, <2>1 DEF Piped
    <2>3. "pipeSync" \in FileTypes \ {"unused"} /\ PipeHandle \in AllHandles /\ c \in Nat
      BY <2>2 DEF FileTypes, AllHandles
    <2>4. /\ state' = [state EXCEPT ![q] = "leave"]
          /\ \/ /\ ipcFd'[q] = -1 /\ tables'[q] = tables[q] /\ serving'[q] = serving[q]
             \/ /\ ipcFd'[q] \in Entries \ InUse(tables[q])
                /\ tables'[q] = [tables[q] EXCEPT ![ipcFd'[q]] =
                                   [type |-> "pipeSync", fid |-> PipeHandle, instance |-> 0]]
                /\ serving'[q] = serving[q] \cup {<<ipcFd'[q], c>>}
      <3>1. Describe(q, "pipeSync", PipeHandle, c)
        BY <2>1, <2>2
      <3> QED
        BY <1>0, <2>3, <3>1, DescribeFacts
    <2>5. state'[q] = "leave" /\ link'[q] = link[q]
      BY <1>0, <2>1, <2>4
    <2>6. Stops(q)'
      BY <1>0, <2>1 DEF Stops, Cause
    <2>9. ~Cut(q) /\ ~shutdown'[q]
      BY <1>1, <1>10, <2>1 DEF Cut, Through, Calling, ConnectNamedPipe
    <2>7. CASE ipcFd'[q] = -1 /\ tables'[q] = tables[q] /\ serving'[q] = serving[q]
      <3>1. Owned(q)'
        BY <1>0, <1>1, <2>5, <2>7, <2>9, OwnedKept
      <3>2. Piped(q)'
        BY <1>0, <2>1, <2>7 DEF Piped
      <3>3. Calling(q)'
        BY <2>5, <2>7, <2>9 DEF Calling, InCycle
      <3> QED
        BY <2>6, <3>1, <3>2, <3>3 DEF Local
    <2>8. CASE /\ ipcFd'[q] \in Entries \ InUse(tables[q])
               /\ tables'[q] = [tables[q] EXCEPT ![ipcFd'[q]] =
                                  [type |-> "pipeSync", fid |-> PipeHandle, instance |-> 0]]
               /\ serving'[q] = serving[q] \cup {<<ipcFd'[q], c>>}
      <3>1. Owned(q)'
        <4>1. PICK i \in Entries \ InUse(tables[q]) : i = ipcFd'[q]
          BY <2>8
        <4>2. /\ tables'[q] = [tables[q] EXCEPT ![i] =
                                 [type |-> "pipeSync", fid |-> PipeHandle, instance |-> 0]]
              /\ serving'[q] = serving[q] \cup {<<i, c>>}
          BY <2>8, <4>1
        <4>3. Typed /\ Onward /\ Owned(q) /\ listenType = "pipe" /\ c \in 1..arrived
          BY <1>0, <1>1, <2>1, <2>2, <2>3, <2>5
        <4>4. link'[q] = link[q] /\ link[q][PipeHandle] = c /\ serving[q] = {}
          BY <1>0, <2>1, <2>2, <2>3, <2>5
        <4>5. "pipeSync" \in FileTypes \ {"unused"} /\ PipeHandle \in AllHandles
          BY DEF FileTypes, AllHandles
        <4> QED
          BY <2>9, <4>2, <4>3, <4>4, <4>5, OwnedNew
      <3>2. ipcFd'[q] # -1
        BY <2>8, TableAssumption DEF Entries
      <3>3. Piped(q)'
        <4>1. pipe'[q] \in {"connected", "broken"}
          BY <1>0, <2>1, <3>2
        <4> QED
          BY <1>0, <2>1, <2>2, <2>5, <4>1 DEF Piped
      <3>4. Calling(q)'
        <4>1. c \in 1..arrived' /\ <<ipcFd'[q], c>> \in serving'[q]
          BY <2>1, <2>8
        <4> QED
          BY <2>5, <2>9, <4>1 DEF Calling, InCycle
      <3> QED
        BY <2>6, <3>1, <3>3, <3>4 DEF Local
    <2> QED
      BY <2>4, <2>7, <2>8
  <1>11. ASSUME Leave(q) PROVE Local(q)'
    <2>1. /\ state[q] = "leave"
          /\ state' = [state EXCEPT ![q] = IF ipcFd[q] = -1 THEN "stopped" ELSE "app"]
          /\ UNCHANGED <<arrived, pipe, link, tables, serving, ipcFd, shutdown>>
      BY <1>11 DEF Leave, Moves
    <2>2. state'[q] = IF ipcFd[q] = -1 THEN "stopped" ELSE "app"
      BY <1>0, <2>1
    <2>3. Owned(q)'
      <3>1. Cut(q) => Cut(q)'
        BY <2>1, <2>2 DEF Cut, Through, CutOff
      <3> QED
        BY <1>0, <1>1, <2>1, <3>1, OwnedKept
    <2>4. Piped(q)'
      BY <1>0, <1>1, <2>1, <2>2 DEF Piped
    <2>5. ipcFd[q] = -1 => Cause(q)'
      <3>1. Cause(q) => Cause(q)'
        BY <1>0, <2>1, CauseKept
      <3> QED
        BY <1>1, <2>1, <3>1 DEF Stops, Through
    <2>6. listenType = "pipe" => ~shutdown'[q]
      BY <1>1, <2>1 DEF Calling
    <2> QED
      BY <1>0, <2>2, <2>3, <2>4, <2>5, <2>6, Rests
  <1>12. ASSUME OS_IpcClose(q) PROVE Local(q)'
    <2>1. PICK x \in serving[q] :
            /\ serving' = [serving EXCEPT ![q] = serving[q] \ {x}]
            /\ \/ FlushFails(q) /\ UNCHANGED <<tables, link, pipe>>
               \/ /\ tables' = [tables EXCEPT ![q] = Win32FreeDescriptor(tables[q], x[1])]
                  /\ Links(q, HandleOf(q, x), None)
                  /\ pipe' = IF listenType = "pipe"
                             THEN [pipe EXCEPT ![q] = "disconnected"] ELSE pipe
      BY <1>12 DEF OS_IpcClose, Freed, HandleOf
    <2>2. /\ state[q] \in {"app", "stopped"}
          /\ UNCHANGED <<arrived, state, ipcFd, shutdown>>
      BY <1>12 DEF OS_IpcClose
    <2>3. serving'[q] = serving[q] \ {x}
      BY <1>0, <2>1
    <2>4. Owned(q)'
      <3>0. Cut(q) => Through(q)' /\ shutdown'[q]
        BY <2>2 DEF Cut, Through, CutOff
      <3>1. CASE FlushFails(q) /\ UNCHANGED <<tables, link, pipe>>
        BY <1>0, <1>1, <2>3, <3>0, <3>1, OwnedClosed DEF FlushFails
      <3>2. CASE /\ tables' = [tables EXCEPT ![q] = Win32FreeDescriptor(tables[q], x[1])]
                 /\ Links(q, HandleOf(q, x), None)
        <4>1. tables'[q] = Win32FreeDescriptor(tables[q], x[1])
          BY <1>0, <3>2
        <4>2. link'[q] = [link[q] EXCEPT ![HandleOf(q, x)] = None]
          BY <1>0, <3>2 DEF Links
        <4> QED
          BY <1>0, <1>1, <2>3, <3>0, <4>1, <4>2, OwnedClosed
      <3> QED
        BY <2>1, <3>1, <3>2
    <2>5. ASSUME listenType = "pipe" PROVE serving'[q] = {}
      <3>1. \A y \in serving[q] : HandleOf(q, y) = PipeHandle /\ HandleOf(q, x) = PipeHandle
        BY <1>1, <2>5 DEF Owned
      <3>2. \A y \in serving[q] : y = x
        BY <1>1, <3>1 DEF Owned
      <3> QED
        BY <2>3, <3>2
    <2>6. Piped(q)'
      <3>1. CASE FlushFails(q) /\ UNCHANGED <<tables, link, pipe>>
        BY <1>0, <1>1, <2>2, <2>5, <3>1 DEF Piped
      <3>2. CASE pipe' = IF listenType = "pipe"
                         THEN [pipe EXCEPT ![q] = "disconnected"] ELSE pipe
        BY <1>0, <2>5, <3>2 DEF Piped
      <3> QED
        BY <2>1, <3>1, <3>2
    <2>7. state[q] = "stopped" => Cause(q)'
      <3>1. Cause(q) => Cause(q)'
        BY <1>0, <2>2, CauseKept
      <3> QED
        BY <1>1, <3>1 DEF Stops, Through
    <2>8. listenType = "pipe" => ~shutdown'[q]
      BY <1>1, <2>2 DEF Calling
    <2> QED
      BY <1>0, <2>2, <2>4, <2>6, <2>7, <2>8, Rests
  <1>13. ASSUME ShutdownRequest(q) PROVE Local(q)'
    <2>1. /\ shutdown'[q] /\ UNCHANGED <<arrived, pipe, link, tables, ipcFd>>
          /\ IF listenType = "pipe"
             THEN Moves(q, "gone") /\ serving' = [serving EXCEPT ![q] = {}]
             ELSE UNCHANGED <<state, serving>>
      BY <1>0, <1>13 DEF ShutdownRequest
    <2>2. CASE listenType = "pipe"
      <3>1. state'[q] = "gone" /\ serving'[q] = {}
        BY <1>0, <2>1, <2>2 DEF Moves
      <3>2. Owned(q)'
        <4>1. IsFiniteSet(serving'[q])
          BY <3>1, FS_EmptySet
        <4> QED
          BY <1>0, <2>2, <3>1, <4>1 DEF Owned
      <3>3. Piped(q)'
        BY <1>0, <1>1, <2>1, <3>1 DEF Piped
      <3> QED
        BY <1>0, <2>2, <3>1, <3>2, <3>3, Rests
    <2>3. CASE listenType # "pipe"
      BY <1>0, <2>1, <2>3, LocalKept
    <2> QED
      BY <2>2, <2>3
  <1> QED
    BY <1>3, <1>4, <1>5, <1>6, <1>7, <1>8, <1>9, <1>10, <1>11, <1>12, <1>13
    DEF Win32AcceptNext, CycleStep

---------------------------------------------------------------------------
(***************************************************************************)
(* The theorems.                                                           *)
(***************************************************************************)

\* At the start nothing has arrived and no entry is in use.
LEMMA InitInv == Win32AcceptInit => Inv
  <1> SUFFICES ASSUME Win32AcceptInit PROVE Inv
    OBVIOUS
  <1>1. /\ arrived = 0 /\ backlog = <<>> /\ Len(backlog) = 0 /\ <<>> \in Seq(Nat)
        /\ MaxConnections \in Nat
    BY AcceptAssumption DEF Win32AcceptInit
  <1>2. EmptyTable \in Tables /\ InUse(EmptyTable) = {}
    BY DEF EmptyTable, Tables, FileTypes, InUse
  <1>3. tables \in [Processes -> Tables]
    BY <1>2 DEF Win32AcceptInit
  <1>4. Typed
    BY <1>1, <1>3 DEF Win32AcceptInit, Typed, Instances, AllHandles, None, Places
  <1>5. InOrder
    BY <1>1 DEF InOrder
  <1>6. CycleExclusive
    BY AcceptAssumption DEF Win32AcceptInit, CycleExclusive, InCycle
  <1>7. ASSUME NEW p \in Processes PROVE Local(p)
    <2>1. /\ serving[p] = {} /\ state[p] = "app" /\ pipe[p] = "fresh" /\ ~shutdown[p]
          /\ InUse(tables[p]) = {}
          /\ \A h \in AllHandles : link[p][h] = None
      BY <1>2 DEF Win32AcceptInit, AllHandles
    <2>2. Owned(p)
      BY <2>1, FS_EmptySet DEF Owned, AllHandles
    <2> QED
      BY <2>1, <2>2 DEF Local, Piped, Calling, InCycle, Stops, Through
  <1> QED
    BY <1>4, <1>5, <1>6, <1>7 DEF Inv

\* The invariant holds in every reachable state.
LEMMA Invariance == Win32AcceptSafety => []Inv
  <1>1. Inv /\ [Win32AcceptNext]_win32AcceptVars => Inv'
    <2> SUFFICES ASSUME Inv, [Win32AcceptNext]_win32AcceptVars PROVE Inv'
      OBVIOUS
    <2>1. CASE Win32AcceptNext
      BY <2>1, OrderStep, TypedStep, MutexStep, LocalStep DEF Inv
    <2>2. CASE UNCHANGED win32AcceptVars
      <3>1. /\ UNCHANGED <<listenType, acceptMutex, client, arrived, backlog, pipe, link, tables>>
            /\ UNCHANGED <<serving, holder, state, ipcFd, shutdown>>
        BY <2>2 DEF win32AcceptVars
      <3>2. Typed' /\ InOrder' /\ CycleExclusive'
        BY <3>1 DEF Inv, Typed, InOrder, Left, CycleExclusive, InCycle
      <3>3. Onward
        <4>1. Left' = Left
          BY <3>1 DEF Left
        <4> QED
          BY <3>1, <4>1, BacklogFacts DEF Inv, Typed, Onward
      <3>4. \A p \in Processes : Local(p)'
        BY <3>1, <3>3, LocalKept DEF Inv
      <3> QED
        BY <3>2, <3>4 DEF Inv
    <2> QED
      BY <2>1, <2>2
  <1> QED
    BY <1>1, InitInv, PTL DEF Win32AcceptSafety

\* One process at a time is in the accept cycle, although the mutex is released twice
\* on the way out.
THEOREM MutexCorrectness == Win32AcceptSafety => []CycleExclusive
  <1>1. Inv => CycleExclusive
    BY DEF Inv
  <1> QED
    BY <1>1, Invariance, PTL

\* Every descriptor leads to its own connection, or all are cut off, and sockets
\* leave nothing behind.
LEMMA EntriesOwnedHolds == Inv => EntriesOwned
  <1> SUFFICES ASSUME Inv, NEW p \in Processes
               PROVE  /\ \A x \in serving[p] :
                           /\ x[1] \in InUse(tables[p])
                           /\ CutOff(p) \/ link[p][tables[p][x[1]].fid] = x[2]
                      /\ listenType = "socket" =>
                           /\ {x[1] : x \in serving[p]} = InUse(tables[p])
                           /\ CutOff(p) \/ {x[2] : x \in serving[p]}
                                             = {link[p][h] : h \in SocketHandles} \ {None}
    BY DEF EntriesOwned
  <1>1. Owned(p)
    BY DEF Inv, Local
  <1>2. \A x \in serving[p] : /\ x[1] \in InUse(tables[p])
                              /\ CutOff(p) \/ link[p][tables[p][x[1]].fid] = x[2]
    BY <1>1 DEF Owned, HandleOf, Cut
  <1>3. ASSUME listenType = "socket"
        PROVE  /\ {x[1] : x \in serving[p]} = InUse(tables[p])
               /\ CutOff(p) \/ {x[2] : x \in serving[p]}
                                 = {link[p][h] : h \in SocketHandles} \ {None}
    <2>1. /\ \A i \in InUse(tables[p]) : \E x \in serving[p] : x[1] = i
          /\ \A h \in SocketHandles :
               link[p][h] # None => \E x \in serving[p] : HandleOf(p, x) = h
      BY <1>1, <1>3 DEF Owned
    <2>2. {x[1] : x \in serving[p]} = InUse(tables[p])
      BY <1>2, <2>1
    <2>3. ASSUME ~CutOff(p)
          PROVE  {x[2] : x \in serving[p]} = {link[p][h] : h \in SocketHandles} \ {None}
      <3>1. \A x \in serving[p] : /\ x[2] # None /\ HandleOf(p, x) \in SocketHandles
                                  /\ link[p][HandleOf(p, x)] = x[2]
        BY <1>1, <1>3, <2>3 DEF Owned, None, Cut
      <3>2. \A x \in serving[p] : x[2] \in {link[p][h] : h \in SocketHandles} \ {None}
        BY <3>1
      <3>3. ASSUME NEW h \in SocketHandles, link[p][h] # None
            PROVE  \E x \in serving[p] : x[2] = link[p][h]
        BY <2>1, <3>1, <3>3
      <3> QED
        BY <3>2, <3>3
    <2> QED
      BY <2>2, <2>3
  <1> QED
    BY <1>2, <1>3

\* A call got -1 because of a shutdown, of a client that had gone, of a full table, of
\* a pipe or an unknown listener, or of a handle of no mutex.
LEMMA StopsForCauseHolds == Inv => StopsForCause
  <1> SUFFICES ASSUME Inv, NEW p \in Processes, state[p] = "stopped"
               PROVE  \/ shutdown[p]
                      \/ \E c \in 1..arrived : client[c] = "gone" /\ ~Contains(backlog, c)
                      \/ MaxServing >= OpenMax \/ listenType # "socket"
                      \/ acceptMutex = "invalid"
    BY DEF StopsForCause
  <1>1. Cause(p)
    BY DEF Inv, Local, Stops, Through
  <1>2. ASSUME NEW c \in 1..arrived, Gone(c) PROVE client[c] = "gone" /\ ~Contains(backlog, c)
    <2>1. /\ Left \in Nat /\ c <= Left
          /\ \A i \in 1..Len(backlog) : backlog[i] = Left + i
      BY <1>2, BacklogFacts DEF Inv, InOrder, Gone
    <2>2. \A i \in 1..Len(backlog) : backlog[i] # c
      BY <2>1
    <2> QED
      BY <1>2, <2>2 DEF Gone, Contains
  <1> QED
    BY <1>1, <1>2 DEF Cause

\* Who is in the accept cycle, what accepting leaves behind and what ends it, for any
\* number of processes and a table of any size.
THEOREM CycleCorrectness == Win32AcceptSafety => []CycleSound
  <1>1. Inv => Win32AcceptTypeOK
    BY DEF Inv, Typed, Tables, Places, Instances, Local, Calling, Win32AcceptTypeOK
  <1>2. Inv => CycleSound
    BY <1>1, EntriesOwnedHolds, StopsForCauseHolds DEF Inv, CycleSound
  <1> QED
    BY <1>2, Invariance, PTL

---------------------------------------------------------------------------
(***************************************************************************)
(* Listeners and children.  The properties of Win32Ipc are inductive with  *)
(* one fact: the entry a child was spawned for stays in use (ChildEntry).  *)
(***************************************************************************)

Win32IpcSafety == Win32IpcInit /\ [][Win32IpcNext]_win32IpcVars

Child == [type : {"pipeSync", "socketSync"}, hListen : IpcHandles, entry : Entries,
          inherited : SUBSET IpcHandles]

IpcTyped ==
  /\ ipcTable \in Tables
  /\ DOMAIN ipcHandles \subseteq IpcHandles
  /\ listeners \in Nat
  /\ children \in Seq(Child)

ChildEntry == \A n \in DOMAIN children : children[n].entry \in InUse(ipcTable)

IpcInv ==
  IpcTyped /\ Win32IpcTypeOK /\ ListenTypeFits /\ LeftForCause /\ ChildOfListener /\ ChildEntry

\* Nothing listens at first.
LEMMA InitIpcInv == Win32IpcInit => IpcInv
  <1> SUFFICES ASSUME Win32IpcInit PROVE IpcInv
    OBVIOUS
  <1> USE DEF Win32IpcInit
  <1>1. ipcTable \in Tables /\ InUse(ipcTable) = {}
    BY DEF EmptyTable, Tables, FileTypes, InUse
  <1>2. DOMAIN ipcHandles = {} /\ DOMAIN children = {} /\ children \in Seq(Child)
    OBVIOUS
  <1>3. Cardinality(InUse(ipcTable)) = 0
    BY <1>1, FS_EmptySet
  <1> QED
    BY <1>1, <1>2, <1>3
       DEF IpcInv, IpcTyped, Win32IpcTypeOK, ListenTypeFits, LeftForCause, ChildOfListener, ChildEntry

\* A handle more is open.
LEMMA OpenedFacts ==
  ASSUME NEW h \in IpcHandles \ DOMAIN ipcHandles, NEW kind, NEW number
  PROVE  LET n == Opened(h, kind, number)
         IN  /\ DOMAIN n = DOMAIN ipcHandles \cup {h}
             /\ n[h].kind = kind
             /\ \A g \in DOMAIN ipcHandles : n[g] = ipcHandles[g]
  BY DEF Opened

\* What listeners a process has created before stay what they are.
Kept ==
  /\ DOMAIN ipcHandles \subseteq DOMAIN ipcHandles'
  /\ \A g \in DOMAIN ipcHandles : ipcHandles'[g] = ipcHandles[g]
  /\ InUse(ipcTable) \subseteq InUse(ipcTable')
  /\ \A i \in InUse(ipcTable) : ipcTable'[i] = ipcTable[i]
  /\ children' = children

\* Children do not notice.
LEMMA ChildrenKept ==
  ASSUME IpcInv, Kept
  PROVE  ChildOfListener' /\ ChildEntry'
  BY DEF IpcInv, Kept, ChildOfListener, ChildEntry

\* A call that creates nothing.
LEMMA FailsStep ==
  ASSUME IpcInv, NEW h \in IpcHandles \ DOMAIN ipcHandles, NEW number,
         CreateFails(h, number), listeners' = listeners + 1, ipcType' = TypeFor(number),
         UNCHANGED children
  PROVE  IpcInv'
  <1>1. PICK code \in Codes(h, number) :
          /\ failed' = failed \cup {code}
          /\ ipcHandles' = LeftOpen(h, number, code)
          /\ UNCHANGED <<hListen, ipcTable, inherited>>
    BY DEF CreateFails
  <1>2. /\ DOMAIN ipcHandles \subseteq DOMAIN ipcHandles'
        /\ DOMAIN ipcHandles' \subseteq IpcHandles
        /\ \A g \in DOMAIN ipcHandles : ipcHandles'[g] = ipcHandles[g]
        /\ DOMAIN ipcHandles' = DOMAIN ipcHandles \/ code \in {-12, -5, -9}
    <2>1. DOMAIN ipcHandles \cup {h} \subseteq IpcHandles
      BY DEF IpcInv, IpcTyped
    <2>2. CASE code \in {-12, -5, -9}
      <3>1. PICK kind \in {"socket", "pipe"}, n \in {0, number} : ipcHandles' = Opened(h, kind, n)
        <4>1. code = -12 => ipcHandles' = Opened(h, "socket", 0)
          BY <1>1, SMT DEF LeftOpen
        <4>2. code = -5 => ipcHandles' = Opened(h, "socket", number)
          BY <1>1, SMT DEF LeftOpen
        <4>3. code = -9 => ipcHandles' = Opened(h, "pipe", 0)
          BY <1>1, SMT DEF LeftOpen
        <4> QED
          BY <2>2, <4>1, <4>2, <4>3
      <3>2. /\ DOMAIN ipcHandles' = DOMAIN ipcHandles \cup {h}
            /\ \A g \in DOMAIN ipcHandles : ipcHandles'[g] = ipcHandles[g]
        BY <3>1, SMT DEF Opened
      <3> QED
        BY <2>1, <2>2, <3>2, SMT
    <2>3. CASE code \notin {-12, -5, -9}
      <3>1. ipcHandles' = ipcHandles
        BY <1>1, <2>3 DEF LeftOpen
      <3> QED
        BY <2>1, <3>1
    <2> QED
      BY <2>2, <2>3
  <1>3. Kept
    BY <1>1, <1>2 DEF Kept
  <1>4. ipcType' \in {"none", "socketSync", "pipeAsync"}
    BY DEF TypeFor
  <1>5. IpcTyped' /\ Win32IpcTypeOK'
    BY <1>1, <1>2, <1>4 DEF IpcInv, IpcTyped, Win32IpcTypeOK
  <1>6. ListenTypeFits' /\ LeftForCause'
    BY <1>1, <1>2 DEF IpcInv, ListenTypeFits, LeftForCause
  <1> QED
    BY <1>3, <1>5, <1>6, ChildrenKept DEF IpcInv

\* A call that creates a listener.
LEMMA SucceedsStep ==
  ASSUME IpcInv, NEW h \in IpcHandles \ DOMAIN ipcHandles, NEW number,
         CreateSucceeds(h, number), listeners' = listeners + 1, ipcType' = TypeFor(number),
         UNCHANGED children
  PROVE  IpcInv'
  <1> DEFINE type == TypeFor(number)
             kind == IF number = 0 THEN "pipe" ELSE "socket"
  <1>1. /\ HasEntry(h)
        /\ ipcTable' = Win32NewDescriptor(ipcTable, type, h, -1)
        /\ ipcHandles' = Opened(h, kind, number)
        /\ hListen' = h
        /\ inherited' = IF number = 0 THEN inherited \cup {h} ELSE inherited
        /\ failed' = failed
    BY DEF CreateSucceeds, Listens
  <1>2. /\ type \in {"pipeAsync", "socketSync"} /\ type \in FileTypes
        /\ type = (IF kind = "pipe" THEN "pipeAsync" ELSE "socketSync")
    BY DEF TypeFor, FileTypes
  <1>3. h \in Nat \ {0} /\ h \in IpcHandles
    BY IpcHandlesAssumption
  <1>4. PICK i \in Entries \ InUse(ipcTable) :
          /\ ipcTable' \in Tables
          /\ ipcTable' = [ipcTable EXCEPT ![i] = [type |-> type, fid |-> h, instance |-> 0]]
    <2>1. ipcTable \in Tables
      BY DEF IpcInv, IpcTyped
    <2>2. EntryFor(ipcTable, h, -1) \in Entries \ InUse(ipcTable)
      BY <1>1, <1>3, <2>1, EntryFacts DEF HasEntry
    <2> QED
      BY <1>1, <1>2, <1>3, <2>1, <2>2, NewDescriptorFacts
  <1>5. /\ DOMAIN ipcHandles' = DOMAIN ipcHandles \cup {h}
        /\ ipcHandles'[h].kind = kind
        /\ \A g \in DOMAIN ipcHandles : ipcHandles'[g] = ipcHandles[g]
    BY <1>1, SMT DEF Opened
  <1> HIDE DEF type, kind
  <1>6. /\ ipcTable'[i].fid = h /\ ipcTable'[i].type = type
        /\ \A j \in Entries \ {i} : ipcTable'[j] = ipcTable[j]
        /\ InUse(ipcTable') = InUse(ipcTable) \cup {i}
    <2>1. ipcTable \in [Entries -> [type : FileTypes, fid : Nat, instance : {0}]]
      BY DEF IpcInv, IpcTyped, Tables
    <2>2. /\ ipcTable'[i] = [type |-> type, fid |-> h, instance |-> 0]
          /\ \A j \in Entries \ {i} : ipcTable'[j] = ipcTable[j]
      BY <1>4, <2>1
    <2> QED
      BY <1>2, <2>2 DEF InUse
  <1>7. Kept
    BY <1>5, <1>6 DEF Kept, InUse
  <1>8. IpcTyped'
    BY <1>4, <1>5 DEF IpcInv, IpcTyped
  <1>9. Win32IpcTypeOK'
    <2>1. ipcType' \in {"none", "socketSync", "pipeAsync"} /\ hListen' \in IpcHandles \cup {0}
      BY <1>1, <1>2 DEF type
    <2>2. ASSUME NEW j \in InUse(ipcTable')
          PROVE  /\ ipcTable'[j].fid \in DOMAIN ipcHandles'
                 /\ ipcTable'[j].type = IF ipcHandles'[ipcTable'[j].fid].kind = "pipe"
                                        THEN "pipeAsync" ELSE "socketSync"
      <3>1. CASE j = i
        BY <1>2, <1>5, <1>6, <3>1
      <3>2. CASE j # i
        <4>1. j \in InUse(ipcTable) /\ ipcTable'[j] = ipcTable[j]
          BY <1>6, <3>2, <2>2 DEF InUse
        <4> QED
          BY <1>5, <4>1 DEF IpcInv, Win32IpcTypeOK
      <3> QED
        BY <3>1, <3>2
    <2>3. inherited' \subseteq DOMAIN ipcHandles'
      BY <1>1, <1>5 DEF IpcInv, Win32IpcTypeOK
    <2> QED
      BY <2>1, <2>2, <2>3 DEF IpcInv, Win32IpcTypeOK
  <1>10. ListenTypeFits'
    <2>1. IsFiniteSet(InUse(ipcTable))
      <3>1. IsFiniteSet(Entries)
        BY FS_Interval, TableAssumption DEF Entries
      <3> QED
        BY <3>1, FS_Subset DEF InUse
    <2>2. Cardinality(InUse(ipcTable')) = Cardinality(InUse(ipcTable)) + 1
      BY <1>4, <1>6, <2>1, FS_AddElement
    <2>3. ipcTable'[i].type = ipcType' /\ i \in InUse(ipcTable')
      BY <1>6 DEF type
    <2> QED
      BY <1>1, <1>6, <2>2, <2>3 DEF IpcInv, ListenTypeFits
  <1>11. LeftForCause'
    <2>1. \A g \in DOMAIN ipcHandles' :
            g = h \/ g \in DOMAIN ipcHandles
      BY <1>5
    <2>2. \A j \in InUse(ipcTable) : j \in InUse(ipcTable') /\ ipcTable'[j] = ipcTable[j]
      BY <1>7 DEF Kept
    <2>3. i \in InUse(ipcTable') /\ ipcTable'[i].fid = h
      BY <1>6
    <2> QED
      BY <1>1, <2>1, <2>2, <2>3 DEF IpcInv, LeftForCause
  <1> QED
    BY <1>7, <1>8, <1>9, <1>10, <1>11, ChildrenKept DEF IpcInv

\* A child is started, or not.
LEMMA SpawnStep ==
  ASSUME IpcInv, OS_SpawnChild
  PROVE  IpcInv'
  <1>1. PICK i \in InUse(ipcTable) :
          /\ inherited' = inherited \cup {Passed(i)}
          /\ \/ children' = children
             \/ children' = Append(children,
                  [type |-> ChildType(Passed(i)), hListen |-> Passed(i), entry |-> i,
                   inherited |-> inherited \cup {Passed(i)}])
    BY DEF OS_SpawnChild
  <1>2. UNCHANGED <<ipcType, hListen, ipcTable, ipcHandles, failed, listeners>>
    BY DEF OS_SpawnChild
  <1>3. /\ i \in Entries /\ Passed(i) = ipcTable[i].fid
        /\ Passed(i) \in DOMAIN ipcHandles /\ Passed(i) \in IpcHandles
        /\ inherited \cup {Passed(i)} \subseteq DOMAIN ipcHandles
        /\ inherited \cup {Passed(i)} \subseteq IpcHandles
        /\ ChildType(Passed(i)) = IF ipcTable[i].type = "pipeAsync" THEN "pipeSync"
                                  ELSE "socketSync"
    BY DEF InUse, Passed, ChildType, IpcInv, Win32IpcTypeOK, IpcTyped
  <1> DEFINE c == [type |-> ChildType(Passed(i)), hListen |-> Passed(i), entry |-> i,
                   inherited |-> inherited \cup {Passed(i)}]
  <1>4. /\ c \in Child /\ c.hListen = ipcTable[i].fid /\ c.entry = i
        /\ c.hListen \in c.inherited
        /\ c.type = IF ipcTable[i].type = "pipeAsync" THEN "pipeSync" ELSE "socketSync"
    BY <1>3 DEF Child
  <1>5. children' = children \/ children' = Append(children, c)
    BY <1>1
  <1> HIDE DEF c
  <1>6. /\ children' \in Seq(Child)
        /\ \A n \in DOMAIN children' :
             (n \in DOMAIN children /\ children'[n] = children[n]) \/ children'[n] = c
    BY <1>4, <1>5 DEF IpcInv, IpcTyped
  <1>7. /\ InUse(ipcTable)' = InUse(ipcTable)
        /\ \A j : ipcTable'[j] = ipcTable[j]
    BY <1>2 DEF InUse
  <1>8. ChildOfListener' /\ ChildEntry'
    <2>1. ASSUME NEW n \in DOMAIN children'
          PROVE  /\ children'[n].hListen = ipcTable[children'[n].entry].fid
                 /\ children'[n].type = IF ipcTable[children'[n].entry].type = "pipeAsync"
                                        THEN "pipeSync" ELSE "socketSync"
                 /\ children'[n].entry \in InUse(ipcTable)
      BY <1>4, <1>6 DEF IpcInv, ChildOfListener, ChildEntry
    <2> QED
      BY <1>2, <1>7, <2>1 DEF ChildOfListener, ChildEntry
  <1>9. Win32IpcTypeOK'
    BY <1>1, <1>2, <1>3, <1>4, <1>6, <1>7 DEF IpcInv, Win32IpcTypeOK
  <1>10. IpcTyped' /\ ListenTypeFits' /\ LeftForCause'
    BY <1>2, <1>6, <1>7 DEF IpcInv, IpcTyped, ListenTypeFits, LeftForCause
  <1> QED
    BY <1>8, <1>9, <1>10 DEF IpcInv

\* hListen names a listener whatever calls have failed, listenType is of that one as
\* long as none has, and every child accepts on the listener it was spawned for.
THEOREM ListenersCorrectness == Win32IpcSafety => []ListenersSound
  <1>1. IpcInv => ListenersSound
    BY DEF IpcInv, ListenersSound, ListenTypeFits
  <1>2. IpcInv /\ [Win32IpcNext]_win32IpcVars => IpcInv'
    <2> SUFFICES ASSUME IpcInv, [Win32IpcNext]_win32IpcVars PROVE IpcInv'
      OBVIOUS
    <2>1. CASE OS_CreateLocalIpcFd
      BY <2>1, FailsStep, SucceedsStep DEF OS_CreateLocalIpcFd
    <2>2. CASE OS_SpawnChild
      BY <2>2, SpawnStep
    <2>3. CASE UNCHANGED win32IpcVars
      BY <2>3 DEF win32IpcVars, IpcInv, IpcTyped, Win32IpcTypeOK, ListenTypeFits, LeftForCause,
                  ChildOfListener, ChildEntry, InUse
    <2> QED
      BY <2>1, <2>2, <2>3 DEF Win32IpcNext
  <1> QED
    BY <1>1, <1>2, InitIpcInv, PTL DEF Win32IpcSafety

---------------------------------------------------------------------------
(***************************************************************************)
(* Win32Async.  The order of standard input is not inductive: what was     *)
(* asked for before a request must be ahead of it wherever the request is, *)
(* as long as the thread may still read (StdinInTurn, TakenInTurn,         *)
(* PortInTurn), and nothing of it pending or lost (NoneLost).              *)
(***************************************************************************)

Win32AsyncSafety == Win32AsyncInit /\ [][Win32AsyncNext]_win32AsyncVars

Operations == [fd : Entries, what : {"read", "write", "stdin"}, instance : {0}]

Queues ==
  /\ requests \in Seq(Operations)
  /\ port \in Seq(Nat) /\ stdinPort \in Seq(Nat) /\ calls \in Seq(Nat)
  /\ pending \subseteq Nat /\ lost \subseteq Nat /\ taken \subseteq Nat
  /\ ports \in BOOLEAN
  /\ thread \in {"none", "waiting", "reading", "ended"}
  /\ IF thread = "reading" THEN \E x \in Nat : taken = {x} ELSE taken = {}
  /\ ~ports => port = <<>> /\ stdinPort = <<>>

Before(q, s, i) == \E j \in 1..(i - 1) : s[j] = q

\* While the thread may still read, what was asked for before is on its way.
Alive == ports /\ thread # "ended"

PortInTurn ==
  \A i \in 1..Len(port) : IsStdin(port[i]) =>
    \A q \in DOMAIN requests : Earlier(q, port[i]) =>
      q \in ToSet(calls) \/ Before(q, port, i)

TakenInTurn ==
  \A x \in taken :
    /\ IsStdin(x)
    /\ ports => \A q \in DOMAIN requests : Earlier(q, x) => q \in ToSet(calls) \cup ToSet(port)

StdinInTurn ==
  \A i \in 1..Len(stdinPort) :
    /\ IsStdin(stdinPort[i])
    /\ Alive => \A q \in DOMAIN requests : Earlier(q, stdinPort[i]) =>
                  q \in ToSet(calls) \cup ToSet(port) \cup taken \/ Before(q, stdinPort, i)

NoneLost ==
  /\ \A x \in pending : ~IsStdin(x)
  /\ Alive => \A x \in lost : ~IsStdin(x)

Turns == StdinInOrder /\ PortInTurn /\ TakenInTurn /\ StdinInTurn /\ NoneLost

QueueInv == Queues /\ OncePlaced /\ Turns

queueVars == <<requests, pending, port, stdinPort, thread, taken, ports, calls, lost>>

\* What a queue holds after one more came.
LEMMA AppendSet ==
  ASSUME NEW s \in Seq(Nat), NEW x \in Nat
  PROVE  /\ ToSet(Append(s, x)) = ToSet(s) \cup {x}
         /\ IsInjective(s) /\ x \notin ToSet(s) => IsInjective(Append(s, x))
  <1>1. /\ Append(s, x) \in Seq(Nat) /\ Len(s) \in Nat /\ Len(Append(s, x)) = Len(s) + 1
        /\ \A i \in 1..Len(s) : Append(s, x)[i] = s[i]
        /\ Append(s, x)[Len(s) + 1] = x
    BY AppendFacts
  <1> DEFINE u == Append(s, x)
  <1>2. DOMAIN s = 1..Len(s) /\ DOMAIN u = 1..(Len(s) + 1)
    BY <1>1
  <1>3. \A i \in DOMAIN u : i \in DOMAIN s \/ i = Len(s) + 1
    BY <1>1, <1>2
  <1> HIDE DEF u
  <1>4. (\A i \in DOMAIN s : i \in DOMAIN u /\ u[i] = s[i]) /\ Len(s) + 1 \in DOMAIN u
        /\ u[Len(s) + 1] = x
    BY <1>1, <1>2 DEF u
  <1>5. ToSet(u) = ToSet(s) \cup {x}
    BY <1>3, <1>4 DEF ToSet
  <1>6. ASSUME IsInjective(s), x \notin ToSet(s) PROVE IsInjective(u)
    BY <1>3, <1>4, <1>6 DEF IsInjective, ToSet
  <1> QED
    BY <1>5, <1>6 DEF u

\* What it holds without its first.
LEMMA TailSet ==
  ASSUME NEW s \in Seq(Nat), s # <<>>, IsInjective(s)
  PROVE  /\ ToSet(Tail(s)) = ToSet(s) \ {Head(s)} /\ Head(s) \in ToSet(s)
         /\ IsInjective(Tail(s))
  <1>1. /\ Tail(s) \in Seq(Nat) /\ Len(s) \in Nat \ {0} /\ Len(Tail(s)) = Len(s) - 1
        /\ \A i \in 1..Len(Tail(s)) : Tail(s)[i] = s[i + 1]
        /\ Head(s) = s[1]
    BY TailFacts
  <1> DEFINE u == Tail(s)
  <1>2. DOMAIN s = 1..Len(s) /\ DOMAIN u = 1..(Len(s) - 1)
    BY <1>1
  <1> HIDE DEF u
  <1>3. \A i \in DOMAIN u : i + 1 \in DOMAIN s /\ i + 1 # 1 /\ u[i] = s[i + 1]
    BY <1>1, <1>2 DEF u
  <1>4. \A i \in DOMAIN s : i = 1 \/ (i - 1 \in DOMAIN u /\ u[i - 1] = s[i])
    BY <1>1, <1>2 DEF u
  <1>5. 1 \in DOMAIN s /\ s[1] = Head(s)
    BY <1>1, <1>2
  <1>6. Head(s) \in ToSet(s)
    BY <1>5 DEF ToSet
  <1>7. \A i \in DOMAIN u : u[i] # Head(s)
    BY <1>3, <1>5 DEF IsInjective
  <1>8. ToSet(u) = ToSet(s) \ {Head(s)}
    BY <1>3, <1>4, <1>5, <1>7 DEF ToSet
  <1>9. IsInjective(u)
    <2> SUFFICES ASSUME NEW i \in DOMAIN u, NEW j \in DOMAIN u, u[i] = u[j] PROVE i = j
      BY DEF IsInjective
    <2>1. i + 1 = j + 1
      BY <1>3 DEF IsInjective
    <2> QED
      BY <1>2, <2>1
  <1> QED
    BY <1>6, <1>8, <1>9 DEF u

\* Every request is a number, and what is not a request is nowhere.
LEMMA PlaceFacts ==
  ASSUME QueueInv
  PROVE  /\ DOMAIN requests = 1..Len(requests) /\ Len(requests) \in Nat
         /\ New \in Nat /\ New \notin DOMAIN requests
         /\ DOMAIN port = 1..Len(port) /\ DOMAIN stdinPort = 1..Len(stdinPort)
         /\ DOMAIN calls = 1..Len(calls)
         /\ \A x : x \notin DOMAIN requests =>
              /\ x \notin ToSet(port) /\ x \notin ToSet(stdinPort) /\ x \notin ToSet(calls)
              /\ x \notin pending /\ x \notin lost /\ x \notin taken
  <1>1. /\ DOMAIN requests = 1..Len(requests) /\ Len(requests) \in Nat
        /\ DOMAIN port = 1..Len(port) /\ DOMAIN stdinPort = 1..Len(stdinPort)
        /\ DOMAIN calls = 1..Len(calls)
    BY DEF QueueInv, Queues
  <1> QED
    BY <1>1 DEF QueueInv, OncePlaced, New

\* A new request leaves the others as they are.
LEMMA RequestFacts ==
  ASSUME QueueInv, NEW n, n = New, NEW fd \in Entries, NEW what \in {"read", "write", "stdin"},
         fdTable \in Tables, Request(fd, what)
  PROVE  /\ requests' \in Seq(Operations) /\ DOMAIN requests' = DOMAIN requests \cup {n}
         /\ \A r \in DOMAIN requests : /\ requests'[r] = requests[r] /\ ~(n \in 1..(r - 1))
                                       /\ IsStdin(r)' = IsStdin(r)
         /\ requests'[n].what = what
  <1> DEFINE op == [fd |-> fd, what |-> what, instance |-> fdTable[fd].instance]
  <1>1. op \in Operations /\ op.what = what
    BY DEF Operations, Tables
  <1>2. requests' = Append(requests, op) /\ requests \in Seq(Operations)
    BY DEF Request, QueueInv, Queues
  <1> HIDE DEF op
  <1>3. /\ requests' \in Seq(Operations) /\ Len(requests) \in Nat
        /\ DOMAIN requests = 1..Len(requests) /\ DOMAIN requests' = 1..(Len(requests) + 1)
        /\ \A r \in 1..Len(requests) : requests'[r] = requests[r]
        /\ requests'[Len(requests) + 1] = op
    BY <1>1, <1>2
  <1>4. n = Len(requests) + 1
    BY DEF New
  <1>5. DOMAIN requests' = DOMAIN requests \cup {n}
    BY <1>3, <1>4
  <1> QED
    BY <1>1, <1>3, <1>4, <1>5 DEF IsStdin

\* What holds of the places of a request is untouched by a new one.
LEMMA EarlierKept ==
  ASSUME QueueInv, NEW n, n = New, NEW fd \in Entries, NEW what \in {"read", "write", "stdin"},
         fdTable \in Tables, Request(fd, what), NEW r \in DOMAIN requests
  PROVE  /\ IsStdin(r)' = IsStdin(r)
         /\ \A q \in DOMAIN requests' : Earlier(q, r)' => q \in DOMAIN requests /\ Earlier(q, r)
  <1>1. /\ DOMAIN requests' = DOMAIN requests \cup {n}
        /\ \A x \in DOMAIN requests : /\ ~(n \in 1..(x - 1)) /\ IsStdin(x)' = IsStdin(x)
    BY RequestFacts DEF IsStdin
  <1> QED
    BY <1>1 DEF Earlier

\* An operation is started.
LEMMA AsyncQueues ==
  ASSUME QueueInv, fdTable \in Tables, NEW fd \in Entries, NEW what \in {"read", "write"},
         Async(fd, what)
  PROVE  QueueInv'
  <1>1. PICK n : n = New
    OBVIOUS
  <1>2. Request(fd, what) /\ ports
        /\ UNCHANGED <<stdinPort, thread, taken, ports, calls>>
    BY DEF Async
  <1>3. /\ lost' = lost
        /\ \/ pending' = pending \cup {n} /\ port' = port
           \/ pending' = pending /\ port' = Append(port, n)
    BY <1>1, <1>2 DEF Async, MustPost, Post
  <1>4. /\ DOMAIN requests = 1..Len(requests) /\ Len(requests) \in Nat
        /\ n \in Nat /\ n \notin DOMAIN requests
        /\ DOMAIN port = 1..Len(port) /\ DOMAIN stdinPort = 1..Len(stdinPort)
        /\ DOMAIN calls = 1..Len(calls)
        /\ n \notin ToSet(port) /\ n \notin ToSet(stdinPort) /\ n \notin ToSet(calls)
        /\ n \notin pending /\ n \notin lost /\ n \notin taken
    BY <1>1, PlaceFacts
  <1>5. /\ requests' \in Seq(Operations) /\ DOMAIN requests' = DOMAIN requests \cup {n}
        /\ requests'[n].what = what
    BY <1>1, <1>2, RequestFacts
  <1>6. \A r \in DOMAIN requests :
          /\ IsStdin(r)' = IsStdin(r)
          /\ \A q \in DOMAIN requests' : Earlier(q, r)' => q \in DOMAIN requests /\ Earlier(q, r)
    BY <1>1, <1>2, EarlierKept
  <1>7. ~IsStdin(n)'
    BY <1>5 DEF IsStdin
  <1>8. /\ port \in Seq(Nat) /\ port' \in Seq(Nat) /\ Len(port) \in Nat
        /\ \A i \in 1..Len(port) : port'[i] = port[i]
        /\ \/ pending' = pending \cup {n} /\ Len(port') = Len(port) /\ ToSet(port') = ToSet(port)
              /\ IsInjective(port')
           \/ /\ pending' = pending /\ Len(port') = Len(port) + 1
              /\ port'[Len(port) + 1] = n
              /\ ToSet(port') = ToSet(port) \cup {n} /\ IsInjective(port')
    <2>1. port \in Seq(Nat) /\ Len(port) \in Nat /\ IsInjective(port)
      BY DEF QueueInv, Queues, OncePlaced
    <2>2. CASE pending' = pending \cup {n} /\ port' = port
      BY <2>1, <2>2
    <2>3. CASE pending' = pending /\ port' = Append(port, n)
      BY <1>4, <2>1, <2>3, AppendFacts, AppendSet
    <2> QED
      BY <1>3, <2>2, <2>3
  <1>9. Queues'
    BY <1>2, <1>3, <1>4, <1>5, <1>8 DEF QueueInv, Queues
  <1>10. OncePlaced'
    BY <1>2, <1>3, <1>4, <1>5, <1>8 DEF QueueInv, OncePlaced
  <1>11. /\ \A i \in 1..Len(port) : port[i] \in DOMAIN requests
         /\ \A i \in 1..Len(stdinPort) : stdinPort[i] \in DOMAIN requests
         /\ \A i \in 1..Len(calls) : calls[i] \in DOMAIN requests
         /\ pending \subseteq DOMAIN requests /\ lost \subseteq DOMAIN requests
         /\ taken \subseteq DOMAIN requests
    BY <1>4 DEF QueueInv, OncePlaced, ToSet
  <1>12. StdinInOrder'
    BY <1>2, <1>4, <1>6, <1>11 DEF QueueInv, Turns, StdinInOrder
  <1>13. PortInTurn'
    <2> SUFFICES ASSUME NEW i \in 1..Len(port'), IsStdin(port[i])', NEW q \in DOMAIN requests',
                        Earlier(q, port[i])'
                 PROVE  q \in ToSet(calls') \/ Before(q, port, i)'
      BY DEF PortInTurn
    <2>1. i \in 1..Len(port)
      BY <1>5, <1>8 DEF IsStdin
    <2>2. /\ IsStdin(port[i]) /\ q \in DOMAIN requests /\ Earlier(q, port[i])
      <3>1. port'[i] = port[i] /\ port[i] \in DOMAIN requests
        BY <1>8, <1>11, <2>1
      <3> QED
        BY <1>6, <3>1 DEF IsStdin, Earlier
    <2>3. q \in ToSet(calls) \/ Before(q, port, i)
      BY <2>1, <2>2 DEF QueueInv, Turns, PortInTurn
    <2>4. Before(q, port, i) => Before(q, port, i)'
      <3>1. \A j \in 1..(i - 1) : port'[j] = port[j]
        BY <1>8, <2>1
      <3> QED
        BY <3>1 DEF Before
    <2> QED
      BY <1>2, <2>3, <2>4
  <1>14. TakenInTurn'
    BY <1>2, <1>6, <1>8, <1>11 DEF QueueInv, Turns, TakenInTurn
  <1>15. StdinInTurn'
    BY <1>2, <1>6, <1>8, <1>11 DEF QueueInv, Turns, StdinInTurn, Alive, Before
  <1>16. NoneLost'
    BY <1>2, <1>3, <1>6, <1>7, <1>11 DEF QueueInv, Turns, NoneLost, Alive
  <1> QED
    BY <1>9, <1>10, <1>12, <1>13, <1>14, <1>15, <1>16 DEF QueueInv, Turns

\* The application asks for standard input: what it asked for before is on its
\* way as long as the thread is.
LEMMA AsyncStdinQueues ==
  ASSUME QueueInv, fdTable \in Tables, OS_AsyncReadStdin PROVE QueueInv'
  <1>1. PICK n : n = New
    OBVIOUS
  <1>2. /\ Request(STDIN, "stdin") /\ ports /\ STDIN \in Entries
        /\ stdinPort' = Append(stdinPort, n)
        /\ UNCHANGED <<pending, port, thread, taken, ports, calls, lost>>
    BY <1>1 DEF OS_AsyncReadStdin, InUse
  <1>4. /\ DOMAIN requests = 1..Len(requests) /\ Len(requests) \in Nat
        /\ n \in Nat /\ n \notin DOMAIN requests
        /\ DOMAIN port = 1..Len(port) /\ DOMAIN stdinPort = 1..Len(stdinPort)
        /\ DOMAIN calls = 1..Len(calls)
        /\ n \notin ToSet(port) /\ n \notin ToSet(stdinPort) /\ n \notin ToSet(calls)
        /\ n \notin pending /\ n \notin lost /\ n \notin taken
    BY <1>1, PlaceFacts
  <1>5. /\ requests' \in Seq(Operations) /\ DOMAIN requests' = DOMAIN requests \cup {n}
        /\ requests'[n].what = "stdin"
    BY <1>1, <1>2, RequestFacts
  <1>6. \A r \in DOMAIN requests :
          /\ IsStdin(r)' = IsStdin(r)
          /\ \A q \in DOMAIN requests' : Earlier(q, r)' => q \in DOMAIN requests /\ Earlier(q, r)
    BY <1>1, <1>2, EarlierKept
  <1>7. IsStdin(n)'
    BY <1>5 DEF IsStdin
  <1>8. /\ stdinPort' \in Seq(Nat) /\ Len(stdinPort) \in Nat /\ Len(stdinPort') = Len(stdinPort) + 1
        /\ \A i \in 1..Len(stdinPort) : stdinPort'[i] = stdinPort[i]
        /\ stdinPort'[Len(stdinPort) + 1] = n
        /\ ToSet(stdinPort') = ToSet(stdinPort) \cup {n} /\ IsInjective(stdinPort')
    <2>1. stdinPort \in Seq(Nat) /\ IsInjective(stdinPort)
      BY DEF QueueInv, Queues, OncePlaced
    <2> QED
      BY <1>2, <1>4, <2>1, AppendFacts, AppendSet
  <1>9. Queues'
    BY <1>2, <1>5, <1>8 DEF QueueInv, Queues
  <1>10. OncePlaced'
    BY <1>2, <1>4, <1>5, <1>8 DEF QueueInv, OncePlaced
  <1>11. /\ \A i \in 1..Len(port) : port[i] \in DOMAIN requests
         /\ \A i \in 1..Len(stdinPort) : stdinPort[i] \in DOMAIN requests
         /\ \A i \in 1..Len(calls) : calls[i] \in DOMAIN requests
         /\ pending \subseteq DOMAIN requests /\ lost \subseteq DOMAIN requests
         /\ taken \subseteq DOMAIN requests
    BY <1>4 DEF QueueInv, OncePlaced, ToSet
  <1>12. StdinInOrder'
    BY <1>2, <1>4, <1>6, <1>11 DEF QueueInv, Turns, StdinInOrder
  <1>13. PortInTurn'
    BY <1>2, <1>6, <1>11 DEF QueueInv, Turns, PortInTurn, Before
  <1>14. TakenInTurn'
    BY <1>2, <1>6, <1>11 DEF QueueInv, Turns, TakenInTurn
  <1>15. StdinInTurn'
    <2>1. ASSUME NEW i \in 1..Len(stdinPort')
          PROVE  /\ IsStdin(stdinPort[i])'
                 /\ Alive' => \A q \in DOMAIN requests' : Earlier(q, stdinPort[i])' =>
                      q \in ToSet(calls') \cup ToSet(port') \cup taken' \/ Before(q, stdinPort, i)'
      <3>1. CASE i \in 1..Len(stdinPort)
        <4>1. stdinPort'[i] = stdinPort[i] /\ stdinPort[i] \in DOMAIN requests
          BY <1>8, <1>11, <3>1
        <4>2. /\ IsStdin(stdinPort[i])
              /\ Alive => \A q \in DOMAIN requests : Earlier(q, stdinPort[i]) =>
                   q \in ToSet(calls) \cup ToSet(port) \cup taken \/ Before(q, stdinPort, i)
          BY <3>1 DEF QueueInv, Turns, StdinInTurn
        <4>3. \A q : Before(q, stdinPort, i) => Before(q, stdinPort, i)'
          BY <1>8, <3>1 DEF Before
        <4> QED
          BY <1>2, <1>6, <4>1, <4>2, <4>3 DEF Alive, IsStdin, Earlier, Before
      <3>2. CASE i = Len(stdinPort) + 1
        <4>1. stdinPort'[i] = n
          BY <1>8, <3>2
        <4>2. ASSUME Alive', NEW q \in DOMAIN requests', Earlier(q, n)'
              PROVE  q \in ToSet(calls') \cup ToSet(port') \cup taken' \/ Before(q, stdinPort, i)'
          <5>1. q \in DOMAIN requests /\ IsStdin(q)
            BY <1>4, <1>5, <1>6, <4>2 DEF Earlier, IsStdin
          <5>2. q \notin pending /\ q \notin lost
            BY <1>2, <4>2, <5>1 DEF QueueInv, Turns, NoneLost, Alive
          <5>3. CASE q \in ToSet(stdinPort)
            <6>1. PICK j \in 1..Len(stdinPort) : stdinPort[j] = q
              BY <1>4, <5>3 DEF ToSet
            <6> QED
              BY <1>8, <3>2, <6>1 DEF Before
          <5>4. CASE q \notin ToSet(stdinPort)
            BY <1>2, <5>1, <5>2, <5>4 DEF QueueInv, OncePlaced
          <5> QED
            BY <5>3, <5>4
        <4> QED
          BY <1>7, <4>1, <4>2 DEF IsStdin, Earlier, Before
      <3> QED
        BY <1>8, <3>1, <3>2
    <2> QED
      BY <2>1 DEF StdinInTurn, Before, IsStdin, Earlier
  <1>16. NoneLost'
    BY <1>2, <1>6, <1>11 DEF QueueInv, Turns, NoneLost, Alive
  <1> QED
    BY <1>9, <1>10, <1>12, <1>13, <1>14, <1>15, <1>16 DEF QueueInv, Turns

\* A completion comes: it is posted, or nobody is there to take it.
LEMMA CompleteQueues ==
  ASSUME QueueInv, NEW r \in pending, Complete(r) PROVE QueueInv'
  <1>1. /\ pending' = pending \ {r} /\ r \in Nat /\ ~IsStdin(r)
        /\ UNCHANGED <<requests, stdinPort, thread, taken, ports, calls>>
        /\ \/ ports /\ port' = Append(port, r) /\ lost' = lost
           \/ ~ports /\ port' = port /\ lost' = lost \cup {r}
    BY DEF Complete, Post, QueueInv, Queues, Turns, NoneLost
  <1>2. /\ DOMAIN port = 1..Len(port) /\ Len(port) \in Nat /\ port \in Seq(Nat)
        /\ r \notin ToSet(port) /\ IsInjective(port)
    BY PlaceFacts DEF QueueInv, Queues, OncePlaced
  <1>3. CASE ports /\ port' = Append(port, r) /\ lost' = lost
    <2>1. /\ port' \in Seq(Nat) /\ Len(port') = Len(port) + 1
          /\ \A i \in 1..Len(port) : port'[i] = port[i]
          /\ port'[Len(port) + 1] = r
          /\ ToSet(port') = ToSet(port) \cup {r} /\ IsInjective(port')
      BY <1>1, <1>2, <1>3, AppendFacts, AppendSet
    <2>2. Queues'
      BY <1>1, <1>3, <2>1 DEF QueueInv, Queues
    <2>3. OncePlaced'
      BY <1>1, <1>3, <2>1 DEF QueueInv, OncePlaced
    <2>4. PortInTurn'
      <3> SUFFICES ASSUME NEW i \in 1..Len(port'), IsStdin(port[i])', NEW q \in DOMAIN requests,
                          Earlier(q, port[i])'
                   PROVE  q \in ToSet(calls') \/ Before(q, port, i)'
        BY <1>1 DEF PortInTurn
      <3>1. i \in 1..Len(port)
        BY <1>1, <1>2, <2>1 DEF IsStdin
      <3>2. q \in ToSet(calls) \/ Before(q, port, i)
        BY <1>1, <2>1, <3>1 DEF QueueInv, Turns, PortInTurn, IsStdin, Earlier
      <3>3. \A j \in 1..(i - 1) : port'[j] = port[j]
        BY <1>2, <2>1, <3>1
      <3> QED
        BY <1>1, <3>2, <3>3 DEF Before
    <2>5. StdinInOrder' /\ TakenInTurn' /\ StdinInTurn' /\ NoneLost'
      BY <1>1, <1>3, <2>1
      DEF QueueInv, Turns, StdinInOrder, TakenInTurn, StdinInTurn, NoneLost, IsStdin, Earlier,
          Before, Alive
    <2> QED
      BY <2>2, <2>3, <2>4, <2>5 DEF QueueInv, Turns
  <1>4. CASE ~ports /\ port' = port /\ lost' = lost \cup {r}
    <2>1. Queues' /\ OncePlaced'
      BY <1>1, <1>4 DEF QueueInv, Queues, OncePlaced
    <2>2. Turns'
      BY <1>1, <1>4
      DEF QueueInv, Turns, StdinInOrder, PortInTurn, TakenInTurn, StdinInTurn, NoneLost, IsStdin,
          Earlier, Before, Alive
    <2> QED
      BY <2>1, <2>2 DEF QueueInv
  <1> QED
    BY <1>1, <1>3, <1>4

\* The thread takes the request that is first.
LEMMA TakeQueues ==
  ASSUME QueueInv, TakeRequest PROVE QueueInv'
  <1>1. PICK x : x = Head(stdinPort)
    OBVIOUS
  <1>2. /\ thread = "waiting" /\ stdinPort # <<>> /\ thread' = "reading" /\ taken' = {x}
        /\ stdinPort' = Tail(stdinPort)
        /\ UNCHANGED <<requests, pending, port, ports, calls, lost>>
    BY <1>1 DEF TakeRequest
  <1>3. taken = {} /\ ports /\ stdinPort \in Seq(Nat) /\ IsInjective(stdinPort)
    BY <1>2 DEF QueueInv, Queues, OncePlaced
  <1>4. /\ Len(stdinPort) \in Nat \ {0} /\ x = stdinPort[1] /\ x \in Nat
        /\ stdinPort' \in Seq(Nat) /\ Len(stdinPort') = Len(stdinPort) - 1
        /\ \A i \in 1..Len(stdinPort') : stdinPort'[i] = stdinPort[i + 1]
        /\ ToSet(stdinPort') = ToSet(stdinPort) \ {x} /\ x \in ToSet(stdinPort)
        /\ IsInjective(stdinPort')
    BY <1>1, <1>2, <1>3, TailFacts, TailSet
  <1>5. Queues'
    BY <1>2, <1>3, <1>4 DEF QueueInv, Queues
  <1>6. OncePlaced'
    BY <1>2, <1>3, <1>4 DEF QueueInv, OncePlaced
  <1>7. StdinInOrder' /\ PortInTurn' /\ NoneLost'
    BY <1>2 DEF QueueInv, Turns, StdinInOrder, PortInTurn, NoneLost, IsStdin, Earlier, Before, Alive
  <1>8. TakenInTurn'
    <2>1. /\ IsStdin(x)
          /\ \A q \in DOMAIN requests : Earlier(q, x) =>
               q \in ToSet(calls) \cup ToSet(port) \cup taken \/ Before(q, stdinPort, 1)
      BY <1>2, <1>3, <1>4 DEF QueueInv, Turns, StdinInTurn, Alive
    <2> QED
      BY <1>2, <1>3, <2>1 DEF TakenInTurn, IsStdin, Earlier, Before
  <1>9. StdinInTurn'
    <2> SUFFICES ASSUME NEW i \in 1..Len(stdinPort')
                 PROVE  /\ IsStdin(stdinPort[i])'
                        /\ \A q \in DOMAIN requests : Earlier(q, stdinPort[i])' =>
                             q \in ToSet(calls) \cup ToSet(port) \cup {x} \/ Before(q, stdinPort, i)'
      BY <1>2 DEF StdinInTurn
    <2>1. i + 1 \in 1..Len(stdinPort) /\ stdinPort'[i] = stdinPort[i + 1]
      BY <1>4
    <2>2. /\ IsStdin(stdinPort[i + 1])
          /\ \A q \in DOMAIN requests : Earlier(q, stdinPort[i + 1]) =>
               q \in ToSet(calls) \cup ToSet(port) \cup taken \/ Before(q, stdinPort, i + 1)
      BY <1>2, <1>3, <2>1 DEF QueueInv, Turns, StdinInTurn, Alive
    <2>3. ASSUME NEW q, Before(q, stdinPort, i + 1) PROVE q = x \/ Before(q, stdinPort, i)'
      <3>1. PICK j \in 1..i : stdinPort[j] = q
        BY <2>3 DEF Before
      <3>2. CASE j = 1
        BY <1>4, <3>1, <3>2
      <3>3. CASE j # 1
        <4>1. j - 1 \in 1..(i - 1) /\ j - 1 \in 1..Len(stdinPort') /\ (j - 1) + 1 = j
          BY <1>4, <3>1, <3>3
        <4>2. stdinPort'[j - 1] = q
          BY <1>4, <3>1, <4>1
        <4> QED
          BY <4>1, <4>2 DEF Before
      <3> QED
        BY <3>2, <3>3
    <2> QED
      BY <1>2, <1>3, <2>1, <2>2, <2>3 DEF IsStdin, Earlier
  <1> QED
    BY <1>5, <1>6, <1>7, <1>8, <1>9 DEF QueueInv, Turns

\* It posts what it has read for, or ends and is silent.
LEMMA ReadQueues ==
  ASSUME QueueInv, ReadStdin PROVE QueueInv'
  <1>1. PICK x \in Nat : taken = {x}
    BY DEF ReadStdin, QueueInv, Queues
  <1>2. /\ thread = "reading" /\ taken' = {}
        /\ UNCHANGED <<requests, pending, stdinPort, ports, calls>>
        /\ \/ ports /\ port' = Append(port, x) /\ lost' = lost /\ thread' = "waiting"
           \/ port' = port /\ lost' = lost \cup {x} /\ thread' = "ended"
    BY <1>1 DEF ReadStdin, AfterRead, AfterFailure, Post
  <1>3. CASE ports /\ port' = Append(port, x) /\ lost' = lost /\ thread' = "waiting"
    <2>1. /\ DOMAIN port = 1..Len(port) /\ Len(port) \in Nat /\ port \in Seq(Nat)
          /\ x \notin ToSet(port) /\ IsInjective(port)
      BY <1>1, PlaceFacts DEF QueueInv, Queues, OncePlaced
    <2>2. /\ port' \in Seq(Nat) /\ Len(port') = Len(port) + 1
          /\ \A i \in 1..Len(port) : port'[i] = port[i]
          /\ port'[Len(port) + 1] = x
          /\ ToSet(port') = ToSet(port) \cup {x} /\ IsInjective(port')
      BY <1>3, <2>1, AppendFacts, AppendSet
    <2>3. Queues'
      BY <1>2, <1>3, <2>2 DEF QueueInv, Queues
    <2>4. OncePlaced'
      BY <1>1, <1>2, <1>3, <2>2 DEF QueueInv, OncePlaced
    <2>5. PortInTurn'
      <3> SUFFICES ASSUME NEW i \in 1..Len(port'), IsStdin(port[i])', NEW q \in DOMAIN requests,
                          Earlier(q, port[i])'
                   PROVE  q \in ToSet(calls) \/ \E j \in 1..(i - 1) : port'[j] = q
        BY <1>2 DEF PortInTurn, Before
      <3>1. CASE i \in 1..Len(port)
        <4>1. q \in ToSet(calls) \/ Before(q, port, i)
          BY <1>2, <2>2, <3>1 DEF QueueInv, Turns, PortInTurn, IsStdin, Earlier
        <4>2. \A j \in 1..(i - 1) : port'[j] = port[j]
          BY <2>1, <2>2, <3>1
        <4> QED
          BY <4>1, <4>2 DEF Before
      <3>2. CASE i = Len(port) + 1
        <4>1. Earlier(q, x)
          BY <1>2, <2>2, <3>2 DEF Earlier, IsStdin
        <4>2. q \in ToSet(calls) \cup ToSet(port)
          BY <1>1, <1>3, <4>1 DEF QueueInv, Turns, TakenInTurn
        <4>3. CASE q \in ToSet(port)
          <5>1. PICK j \in 1..Len(port) : port[j] = q
            BY <2>1, <4>3 DEF ToSet
          <5> QED
            BY <2>1, <2>2, <3>2, <5>1
        <4> QED
          BY <4>2, <4>3
      <3> QED
        BY <2>1, <2>2, <3>1, <3>2
    <2>6. StdinInOrder' /\ TakenInTurn' /\ NoneLost'
      BY <1>2, <1>3
      DEF QueueInv, Turns, StdinInOrder, TakenInTurn, NoneLost, IsStdin, Earlier, Alive
    <2>7. StdinInTurn'
      BY <1>1, <1>2, <1>3, <2>2
      DEF QueueInv, Turns, StdinInTurn, IsStdin, Earlier, Before, Alive
    <2> QED
      BY <2>3, <2>4, <2>5, <2>6, <2>7 DEF QueueInv, Turns
  <1>4. CASE port' = port /\ lost' = lost \cup {x} /\ thread' = "ended"
    <2>1. Queues'
      BY <1>2, <1>4 DEF QueueInv, Queues
    <2>2. OncePlaced'
      BY <1>1, <1>2, <1>4 DEF QueueInv, OncePlaced
    <2>3. Turns'
      BY <1>2, <1>4
      DEF QueueInv, Turns, StdinInOrder, PortInTurn, TakenInTurn, StdinInTurn, NoneLost, IsStdin,
          Earlier, Before, Alive
    <2> QED
      BY <2>1, <2>2, <2>3 DEF QueueInv
  <1> QED
    BY <1>2, <1>3, <1>4

\* OS_DoIo takes the first completion and calls back.
LEMMA DequeueQueues ==
  ASSUME QueueInv, fdTable \in Tables, Dequeue PROVE QueueInv'
  <1>1. PICK x : x = Head(port)
    OBVIOUS
  <1>2. port # <<>> /\ port \in Seq(Nat) /\ IsInjective(port) /\ calls \in Seq(Nat)
        /\ IsInjective(calls) /\ Len(calls) \in Nat
    BY DEF Dequeue, QueueInv, Queues, OncePlaced
  <1>3. /\ Len(port) \in Nat \ {0} /\ x = port[1] /\ x \in Nat
        /\ Tail(port) \in Seq(Nat) /\ Len(Tail(port)) = Len(port) - 1
        /\ \A i \in 1..Len(Tail(port)) : Tail(port)[i] = port[i + 1]
        /\ ToSet(Tail(port)) = ToSet(port) \ {x} /\ x \in ToSet(port)
        /\ IsInjective(Tail(port))
    BY <1>1, <1>2, TailFacts, TailSet
  <1>4. StillValid(x)
    <2>1. x \in DOMAIN requests /\ requests \in Seq(Operations)
      BY <1>3 DEF QueueInv, Queues, OncePlaced
    <2>2. requests[x] \in Operations
      BY <2>1
    <2>3. requests[x].instance = 0 /\ requests[x].fd \in Entries
      BY <2>2 DEF Operations
    <2>4. fdTable[requests[x].fd].instance = 0
      BY <2>3 DEF Tables
    <2> QED
      BY <2>3, <2>4 DEF StillValid
  <1>5. /\ port' = Tail(port) /\ calls' = Append(calls, x)
        /\ UNCHANGED <<requests, pending, stdinPort, thread, taken, ports, lost>>
    BY <1>1, <1>4 DEF Dequeue
  <1>6. x \notin ToSet(calls)
    BY <1>3 DEF QueueInv, OncePlaced
  <1>7. /\ calls' \in Seq(Nat) /\ Len(calls') = Len(calls) + 1
        /\ \A i \in 1..Len(calls) : calls'[i] = calls[i]
        /\ calls'[Len(calls) + 1] = x
        /\ ToSet(calls') = ToSet(calls) \cup {x} /\ IsInjective(calls')
    BY <1>2, <1>3, <1>5, <1>6, AppendFacts, AppendSet
  <1>8. Queues'
    BY <1>3, <1>5, <1>7 DEF QueueInv, Queues
  <1>9. OncePlaced'
    BY <1>3, <1>5, <1>7 DEF QueueInv, OncePlaced
  <1>10. DOMAIN calls = 1..Len(calls) /\ DOMAIN calls' = 1..(Len(calls) + 1)
    BY <1>2, <1>7
  <1>11. StdinInOrder'
    <2> SUFFICES ASSUME NEW i \in 1..(Len(calls) + 1), IsStdin(calls[i])',
                        NEW q \in DOMAIN requests, Earlier(q, calls[i])'
                 PROVE  \E j \in 1..(i - 1) : calls'[j] = q
      BY <1>5, <1>10 DEF StdinInOrder
    <2>1. CASE i \in 1..Len(calls)
      <3>1. \E j \in 1..(i - 1) : calls[j] = q
        BY <1>5, <1>7, <1>10, <2>1 DEF QueueInv, Turns, StdinInOrder, IsStdin, Earlier
      <3>2. \A j \in 1..(i - 1) : calls'[j] = calls[j]
        BY <1>2, <1>7, <2>1
      <3> QED
        BY <3>1, <3>2
    <2>2. CASE i = Len(calls) + 1
      <3>1. IsStdin(x) /\ Earlier(q, x)
        BY <1>5, <1>7, <2>2 DEF IsStdin, Earlier
      <3>2. q \in ToSet(calls) \/ Before(q, port, 1)
        BY <1>3, <3>1 DEF QueueInv, Turns, PortInTurn
      <3>3. q \in ToSet(calls)
        BY <3>2 DEF Before
      <3>4. PICK j \in 1..Len(calls) : calls[j] = q
        BY <1>10, <3>3 DEF ToSet
      <3> QED
        BY <1>2, <1>7, <2>2, <3>4
    <2> QED
      BY <1>2, <2>1, <2>2
  <1>12. PortInTurn'
    <2> SUFFICES ASSUME NEW i \in 1..Len(port'), IsStdin(port[i])', NEW q \in DOMAIN requests,
                        Earlier(q, port[i])'
                 PROVE  q \in ToSet(calls') \/ \E j \in 1..(i - 1) : port'[j] = q
      BY <1>5 DEF PortInTurn, Before
    <2>1. i + 1 \in 1..Len(port) /\ port'[i] = port[i + 1]
      BY <1>3, <1>5
    <2>2. q \in ToSet(calls) \/ Before(q, port, i + 1)
      BY <1>5, <2>1 DEF QueueInv, Turns, PortInTurn, IsStdin, Earlier
    <2>3. CASE Before(q, port, i + 1)
      <3>1. PICK j \in 1..i : port[j] = q
        BY <2>3 DEF Before
      <3>2. CASE j = 1
        BY <1>3, <1>7, <3>1, <3>2
      <3>3. CASE j # 1
        <4>1. j - 1 \in 1..(i - 1) /\ j - 1 \in 1..Len(port') /\ (j - 1) + 1 = j
          BY <1>3, <1>5, <3>1, <3>3
        <4>2. port'[j - 1] = q
          BY <1>3, <1>5, <3>1, <4>1
        <4> QED
          BY <4>1, <4>2
      <3> QED
        BY <3>2, <3>3
    <2> QED
      BY <1>7, <2>2, <2>3
  <1>13. ToSet(calls') \cup ToSet(port') = ToSet(calls) \cup ToSet(port)
    BY <1>3, <1>5, <1>7
  <1>14. TakenInTurn'
    BY <1>5, <1>13 DEF QueueInv, Turns, TakenInTurn, IsStdin, Earlier
  <1>15. StdinInTurn'
    BY <1>5, <1>13 DEF QueueInv, Turns, StdinInTurn, IsStdin, Earlier, Before, Alive
  <1>16. NoneLost'
    BY <1>5 DEF QueueInv, Turns, NoneLost, IsStdin, Alive
  <1> QED
    BY <1>8, <1>9, <1>11, <1>12, <1>14, <1>15, <1>16 DEF QueueInv, Turns

\* The library is shut down, and both queues with it.
LEMMA ShutdownQueues ==
  ASSUME QueueInv, OS_LibShutdown PROVE QueueInv'
  <1>1. /\ ports' = FALSE /\ port' = <<>> /\ stdinPort' = <<>>
        /\ lost' = lost \cup ToSet(port) \cup ToSet(stdinPort)
        /\ thread' = IF thread = "waiting" THEN "ended" ELSE thread
        /\ UNCHANGED <<requests, pending, taken, calls>>
    BY DEF OS_LibShutdown
  <1>2. /\ port' \in Seq(Nat) /\ stdinPort' \in Seq(Nat) /\ Len(port') = 0 /\ Len(stdinPort') = 0
        /\ ToSet(port') = {} /\ ToSet(stdinPort') = {}
        /\ IsInjective(port') /\ IsInjective(stdinPort')
    BY <1>1 DEF ToSet, IsInjective
  <1>3. ToSet(port) \subseteq Nat /\ ToSet(stdinPort) \subseteq Nat
    BY PlaceFacts DEF QueueInv, OncePlaced
  <1>4. Queues'
    BY <1>1, <1>2, <1>3 DEF QueueInv, Queues
  <1>5. OncePlaced'
    BY <1>1, <1>2 DEF QueueInv, OncePlaced
  <1>6. Turns'
    BY <1>1, <1>2
    DEF QueueInv, Turns, StdinInOrder, PortInTurn, TakenInTurn, StdinInTurn, NoneLost, IsStdin,
        Earlier, Alive
  <1> QED
    BY <1>4, <1>5, <1>6 DEF QueueInv

\* At first there is no request.
LEMMA InitQueues ==
  ASSUME requests = <<>>, pending = {}, port = <<>>, stdinPort = <<>>, thread \in {"none", "waiting"},
         taken = {}, ports \in BOOLEAN, calls = <<>>, lost = {}
  PROVE  QueueInv
  <1>1. /\ <<>> \in Seq(Nat) /\ <<>> \in Seq(Operations) /\ Len(<<>>) = 0 /\ DOMAIN <<>> = {}
        /\ ToSet(<<>>) = {} /\ IsInjective(<<>>)
    BY DEF ToSet, IsInjective
  <1>2. Queues
    BY <1>1 DEF Queues
  <1>3. OncePlaced
    BY <1>1 DEF OncePlaced
  <1>4. Turns
    BY <1>1 DEF Turns, StdinInOrder, PortInTurn, TakenInTurn, StdinInTurn, NoneLost
  <1> QED
    BY <1>2, <1>3, <1>4 DEF QueueInv

---------------------------------------------------------------------------
\* Entries and handles.

TableInv ==
  /\ fdTable \in Tables /\ EntryOfOne
  /\ \A i \in InUse(fdTable) : fdTable[i].fid \in open

\* The entry of a standard handle.
LEMMA StandardFacts ==
  ASSUME NEW t \in Tables, NEW i \in StandardFds, i \notin InUse(t)
  PROVE  /\ Standard(t, i) \in Tables /\ i \in Entries
         /\ Standard(t, i) =
              [t EXCEPT ![i] = [type |-> "pipeSync", fid |-> OpenMax + i, instance |-> 0]]
         /\ InUse(Standard(t, i)) = InUse(t) \cup {i}
  <1>1. i \in Entries /\ OpenMax + i \in Nat /\ i \in Int
    BY TableAssumption, AsyncAssumption DEF StandardFds, Entries
  <1>2. EntryFor(t, OpenMax + i, i) = i
    BY <1>1 DEF EntryFor
  <1>3. /\ Standard(t, i) \in Tables
        /\ Standard(t, i) =
             [t EXCEPT ![i] = [type |-> "pipeSync", fid |-> OpenMax + i, instance |-> 0]]
    BY <1>1, <1>2, DescribedFacts DEF Standard, FileTypes
  <1>4. InUse(Standard(t, i)) = InUse(t) \cup {i}
    BY <1>1, <1>3 DEF InUse, Tables
  <1> QED
    BY <1>1, <1>3, <1>4

\* The three of them.
LEMMA StandardTable ==
  ASSUME NEW t \in Tables, InUse(t) = {},
         NEW u, u = Standard(Standard(Standard(t, 0), 1), 2)
  PROVE  /\ u \in Tables /\ InUse(u) = StandardFds
         /\ \A i \in StandardFds : u[i].fid = OpenMax + i
  <1>1. 0 \in StandardFds /\ 1 \in StandardFds /\ 2 \in StandardFds /\ StandardFds = {0, 1, 2}
    BY DEF StandardFds
  <1>2. PICK t0 : t0 = Standard(t, 0)
    OBVIOUS
  <1>3. PICK t1 : t1 = Standard(t0, 1)
    OBVIOUS
  <1>4. u = Standard(t1, 2)
    BY <1>2, <1>3
  <1>5. /\ t0 \in Tables /\ InUse(t0) = InUse(t) \cup {0} /\ 0 \in Entries
        /\ t0 = [t EXCEPT ![0] = [type |-> "pipeSync", fid |-> OpenMax + 0, instance |-> 0]]
    BY <1>1, <1>2, StandardFacts
  <1>6. InUse(t0) = {0} /\ 1 \notin InUse(t0)
    BY <1>5
  <1>7. /\ t1 \in Tables /\ InUse(t1) = InUse(t0) \cup {1} /\ 1 \in Entries
        /\ t1 = [t0 EXCEPT ![1] = [type |-> "pipeSync", fid |-> OpenMax + 1, instance |-> 0]]
    BY <1>1, <1>3, <1>5, <1>6, StandardFacts
  <1>8. InUse(t1) = {0, 1} /\ 2 \notin InUse(t1)
    <2>1. InUse(t1) = {0, 1}
      BY <1>6, <1>7
    <2> QED
      BY <2>1
  <1>9. /\ u \in Tables /\ InUse(u) = InUse(t1) \cup {2} /\ 2 \in Entries
        /\ u = [t1 EXCEPT ![2] = [type |-> "pipeSync", fid |-> OpenMax + 2, instance |-> 0]]
    BY <1>1, <1>4, <1>7, <1>8, StandardFacts
  <1>10. InUse(u) = StandardFds
    BY <1>1, <1>8, <1>9
  <1>11. u[0].fid = OpenMax + 0 /\ u[1].fid = OpenMax + 1 /\ u[2].fid = OpenMax + 2
    BY <1>5, <1>7, <1>9 DEF Tables
  <1> QED
    BY <1>1, <1>9, <1>10, <1>11

\* Each standard handle has the entry of its number.
LEMMA LibInitTable ==
  ASSUME Win32AsyncInit, OS_LibInit PROVE TableInv'
  <1>1. fdTable = EmptyTable /\ fdTable \in Tables /\ InUse(fdTable) = {}
    BY DEF Win32AsyncInit, EmptyTable, Tables, FileTypes, InUse
  <1>2. PICK stdio \in BOOLEAN :
          /\ fdTable' = IF stdio THEN Standard(Standard(Standard(fdTable, 0), 1), 2) ELSE fdTable
          /\ held' = IF stdio THEN {<<i, OpenMax + i>> : i \in StandardFds} ELSE {}
          /\ open' = IF stdio THEN {OpenMax + i : i \in StandardFds} ELSE {}
    BY DEF OS_LibInit
  <1>3. CASE ~stdio
    BY <1>1, <1>2, <1>3 DEF TableInv, EntryOfOne
  <1>4. CASE stdio
    <2>5. /\ fdTable' \in Tables /\ InUse(fdTable') = StandardFds
          /\ \A i \in StandardFds : fdTable'[i].fid = OpenMax + i
      BY <1>1, <1>2, <1>4, StandardTable
    <2>7. InUse(fdTable)' = StandardFds
      BY <2>5 DEF InUse
    <2>8. \A i \in StandardFds : fdTable'[i].fid = OpenMax + i /\ i \in Int
      BY <2>5 DEF StandardFds
    <2>9. held' = {<<i, fdTable'[i].fid>> : i \in StandardFds}
      BY <1>2, <1>4, <2>8
    <2>10. \A p, q \in held' : p[2] = q[2] => p = q
      <3> SUFFICES ASSUME NEW i \in StandardFds, NEW j \in StandardFds, OpenMax + i = OpenMax + j
                   PROVE  i = j
        BY <1>2, <1>4
      <3> QED
        BY <2>8, TableAssumption
    <2> QED
      BY <1>2, <1>4, <2>5, <2>7, <2>8, <2>9, <2>10 DEF TableInv, EntryOfOne
  <1> QED
    BY <1>3, <1>4

\* Entries in use have different handles.
LEMMA OneEntry ==
  ASSUME TableInv, NEW i \in InUse(fdTable), NEW j \in InUse(fdTable),
         fdTable[i].fid = fdTable[j].fid
  PROVE  i = j
  <1>1. <<i, fdTable[i].fid>> \in held /\ <<j, fdTable[j].fid>> \in held
    BY DEF TableInv, EntryOfOne
  <1>2. <<i, fdTable[i].fid>> = <<j, fdTable[j].fid>>
    BY <1>1 DEF TableInv, EntryOfOne
  <1> QED
    BY <1>2

\* The same, for the table that comes.
LEMMA OneEntryAfter ==
  ASSUME fdTable' \in Tables, held' = {<<i, fdTable'[i].fid>> : i \in InUse(fdTable')},
         \A i, j \in InUse(fdTable') : fdTable'[i].fid = fdTable'[j].fid => i = j,
         \A i \in InUse(fdTable') : fdTable'[i].fid \in open'
  PROVE  TableInv'
  <1>1. \A p, q \in held' : p[2] = q[2] => p = q
    OBVIOUS
  <1> QED
    BY <1>1 DEF TableInv, EntryOfOne

\* A handle that is not open is not in the table.
LEMMA OpenTable ==
  ASSUME TableInv, NEW h \in Handles, NEW type \in FileTypes \ {"unused"}, Open(h, type)
  PROVE  TableInv'
  <1>1. fdTable \in Tables /\ h \in Nat /\ h \notin open
    BY AsyncAssumption DEF TableInv, Open
  <1> DEFINE i == EntryFor(fdTable, h, -1)
             t == Win32NewDescriptor(fdTable, type, h, -1)
  <1>2. /\ i = -1 \/ i \in Entries \ InUse(fdTable)
        /\ t \in Tables
        /\ i \in Entries => t = [fdTable EXCEPT ![i] = [type |-> type, fid |-> h, instance |-> 0]]
    BY <1>1, EntryFacts, NewDescriptorFacts
  <1>3. IF i = -1 THEN UNCHANGED <<fdTable, open, held>>
        ELSE /\ fdTable' = t /\ open' = open \cup {h} /\ held' = held \cup {<<i, h>>}
    BY DEF Open
  <1> HIDE DEF i, t
  <1>4. CASE i = -1
    BY <1>3, <1>4 DEF TableInv, EntryOfOne, InUse
  <1>5. CASE i # -1
    <2>1. /\ i \in Entries /\ i \notin InUse(fdTable)
          /\ fdTable' = [fdTable EXCEPT ![i] = [type |-> type, fid |-> h, instance |-> 0]]
          /\ fdTable' \in Tables /\ open' = open \cup {h} /\ held' = held \cup {<<i, h>>}
      BY <1>2, <1>3, <1>5
    <2>2. /\ fdTable'[i].fid = h /\ fdTable'[i].type # "unused"
          /\ \A j \in Entries : j # i => fdTable'[j] = fdTable[j]
      BY <1>1, <2>1 DEF Tables
    <2>3. InUse(fdTable') = InUse(fdTable) \cup {i}
      BY <2>1, <2>2 DEF InUse
    <2>4. \A j \in InUse(fdTable) : j \in Entries /\ j # i
      BY <2>1 DEF InUse
    <2>5. \A j \in InUse(fdTable) : fdTable'[j] = fdTable[j] /\ fdTable[j].fid \in open
      BY <2>2, <2>4 DEF TableInv
    <2>6. held' = {<<j, fdTable'[j].fid>> : j \in InUse(fdTable')}
      <3>1. held = {<<j, fdTable[j].fid>> : j \in InUse(fdTable)}
        BY DEF TableInv, EntryOfOne
      <3>2. {<<j, fdTable'[j].fid>> : j \in InUse(fdTable')}
              = {<<j, fdTable'[j].fid>> : j \in InUse(fdTable)} \cup {<<i, fdTable'[i].fid>>}
        BY <2>3
      <3>3. {<<j, fdTable'[j].fid>> : j \in InUse(fdTable)} = held
        BY <2>5, <3>1
      <3> QED
        BY <2>1, <2>2, <3>2, <3>3
    <2>7. \A j, k \in InUse(fdTable') : fdTable'[j].fid = fdTable'[k].fid => j = k
      <3> SUFFICES ASSUME NEW j \in InUse(fdTable'), NEW k \in InUse(fdTable'),
                          fdTable'[j].fid = fdTable'[k].fid
                   PROVE  j = k
        OBVIOUS
      <3>1. CASE j \in InUse(fdTable) /\ k \in InUse(fdTable)
        <4>1. fdTable[j].fid = fdTable[k].fid
          BY <2>5, <3>1
        <4> QED
          BY <3>1, <4>1, OneEntry
      <3>2. CASE j = i /\ k \in InUse(fdTable)
        BY <1>1, <2>2, <2>5, <3>2
      <3>3. CASE k = i /\ j \in InUse(fdTable)
        BY <1>1, <2>2, <2>5, <3>3
      <3> QED
        BY <2>3, <3>1, <3>2, <3>3
    <2>8. \A j \in InUse(fdTable') : fdTable'[j].fid \in open'
      <3> SUFFICES ASSUME NEW j \in InUse(fdTable') PROVE fdTable'[j].fid \in open'
        OBVIOUS
      <3>1. CASE j = i
        BY <2>1, <2>2, <3>1
      <3>2. CASE j \in InUse(fdTable)
        <4>1. fdTable'[j].fid = fdTable[j].fid /\ fdTable[j].fid \in open
          BY <2>5, <3>2
        <4> QED
          BY <2>1, <4>1
      <3> QED
        BY <2>3, <3>1, <3>2
    <2> QED
      BY <2>1, <2>6, <2>7, <2>8, OneEntryAfter
  <1> QED
    BY <1>4, <1>5

\* The type of an entry changes.
Retyped(t, i, type) == [t EXCEPT ![i].type = type]

\* Its handle stays, and so do the other entries.
LEMMA TypeChanged ==
  ASSUME NEW t \in Tables, NEW i \in Entries, NEW type \in FileTypes
  PROVE  /\ Retyped(t, i, type) \in Tables /\ Retyped(t, i, type)[i].type = type
         /\ \A j \in Entries : /\ Retyped(t, i, type)[j].fid = t[j].fid
                               /\ j # i => Retyped(t, i, type)[j] = t[j]
  <1>1. t[i] \in [type : FileTypes, fid : Nat, instance : {0}]
    BY DEF Tables
  <1>2. /\ [t[i] EXCEPT !.type = type] \in [type : FileTypes, fid : Nat, instance : {0}]
        /\ [t[i] EXCEPT !.type = type].fid = t[i].fid
        /\ [t[i] EXCEPT !.type = type].type = type
    BY <1>1
  <1>3. PICK u : u = Retyped(t, i, type)
    OBVIOUS
  <1>4. u = [t EXCEPT ![i] = [t[i] EXCEPT !.type = type]]
    BY <1>3 DEF Retyped
  <1>5. u[i] = [t[i] EXCEPT !.type = type] /\ \A j \in Entries : j # i => u[j] = t[j]
    BY <1>4 DEF Tables
  <1>6. u \in Tables
    BY <1>2, <1>4 DEF Tables
  <1> QED
    BY <1>2, <1>3, <1>5, <1>6

\* A socket is made asynchronous.
LEMMA FlagsTable ==
  ASSUME TableInv, NEW fd \in Entries, OS_SetFlags(fd) PROVE TableInv'
  <1>1. /\ fdTable \in Tables /\ fdTable' = Retyped(fdTable, fd, "socketAsync")
        /\ fdTable[fd].type = "socketSync" /\ open' = open /\ held' = held
    BY DEF TableInv, OS_SetFlags, Retyped
  <1>2. /\ fdTable' \in Tables /\ fdTable'[fd].type = "socketAsync"
        /\ \A j \in Entries : fdTable'[j].fid = fdTable[j].fid /\ (j # fd => fdTable'[j] = fdTable[j])
    <2>1. "socketAsync" \in FileTypes
      BY DEF FileTypes
    <2> QED
      BY <1>1, <2>1, TypeChanged
  <1>3. InUse(fdTable') = InUse(fdTable)
    BY <1>1, <1>2 DEF InUse
  <1>4. \A j \in InUse(fdTable) : fdTable'[j].fid = fdTable[j].fid
    BY <1>2 DEF InUse
  <1>5. held' = {<<j, fdTable'[j].fid>> : j \in InUse(fdTable')}
    BY <1>1, <1>3, <1>4 DEF TableInv, EntryOfOne
  <1>6. \A j, k \in InUse(fdTable') : fdTable'[j].fid = fdTable'[k].fid => j = k
    BY <1>3, <1>4, OneEntry
  <1>7. \A j \in InUse(fdTable') : fdTable'[j].fid \in open'
    BY <1>1, <1>3, <1>4 DEF TableInv
  <1> QED
    BY <1>2, <1>5, <1>6, <1>7, OneEntryAfter

\* The handle of a socket is closed with its entry, and is that of no other.
LEMMA CloseTable ==
  ASSUME TableInv, NEW fd \in Entries, OS_Close(fd) PROVE TableInv'
  <1>1. /\ fdTable \in Tables /\ fdTable' = Retyped(fdTable, fd, "unused")
        /\ fd \in InUse(fdTable) /\ open \ {fdTable[fd].fid} \subseteq open'
        /\ held' = held \ {<<fd, fdTable[fd].fid>>}
    BY DEF TableInv, OS_Close, Win32FreeDescriptor, Retyped
  <1>2. /\ fdTable' \in Tables /\ fdTable'[fd].type = "unused"
        /\ \A j \in Entries : j # fd => fdTable'[j] = fdTable[j]
    <2>1. "unused" \in FileTypes
      BY DEF FileTypes
    <2> QED
      BY <1>1, <2>1, TypeChanged
  <1>3. InUse(fdTable') = InUse(fdTable) \ {fd}
    BY <1>1, <1>2 DEF InUse
  <1>4. \A j \in InUse(fdTable) \ {fd} :
          fdTable'[j] = fdTable[j] /\ fdTable[j].fid # fdTable[fd].fid
    <2> SUFFICES ASSUME NEW j \in InUse(fdTable) \ {fd}
                 PROVE  fdTable'[j] = fdTable[j] /\ fdTable[j].fid # fdTable[fd].fid
      OBVIOUS
    <2>1. j \in Entries
      BY DEF InUse
    <2> QED
      BY <1>1, <1>2, <2>1, OneEntry
  <1>5. held' = {<<j, fdTable'[j].fid>> : j \in InUse(fdTable')}
    <2>1. held = {<<j, fdTable[j].fid>> : j \in InUse(fdTable)}
      BY DEF TableInv, EntryOfOne
    <2>2. {<<j, fdTable'[j].fid>> : j \in InUse(fdTable')}
            = {<<j, fdTable[j].fid>> : j \in InUse(fdTable) \ {fd}}
      BY <1>3, <1>4
    <2>3. {<<j, fdTable[j].fid>> : j \in InUse(fdTable) \ {fd}} = held \ {<<fd, fdTable[fd].fid>>}
      BY <2>1
    <2> QED
      BY <1>1, <2>2, <2>3
  <1>6. \A j, k \in InUse(fdTable') : fdTable'[j].fid = fdTable'[k].fid => j = k
    BY <1>3, <1>4, OneEntry
  <1>7. \A j \in InUse(fdTable') : fdTable'[j].fid \in open'
    BY <1>1, <1>3, <1>4 DEF TableInv
  <1> QED
    BY <1>2, <1>5, <1>6, <1>7, OneEntryAfter

---------------------------------------------------------------------------
AsyncInv ==
  /\ TableInv /\ QueueInv
  /\ asyncPc \in {"start", "app", "io", "callback"}
  /\ asyncPc = "start" => Win32AsyncInit

\* The library is not initialized at first.
LEMMA InitAsyncInv == Win32AsyncInit => AsyncInv
  <1> SUFFICES ASSUME Win32AsyncInit PROVE AsyncInv
    OBVIOUS
  <1>1. QueueInv
    BY InitQueues DEF Win32AsyncInit
  <1>2. fdTable \in Tables /\ InUse(fdTable) = {}
    BY DEF Win32AsyncInit, EmptyTable, Tables, FileTypes, InUse
  <1>3. TableInv
    BY <1>2 DEF TableInv, EntryOfOne, Win32AsyncInit
  <1> QED
    BY <1>1, <1>3 DEF AsyncInv, Win32AsyncInit

\* Initializing the library opens the ports and perhaps starts the thread.
LEMMA LibInitQueues ==
  ASSUME QueueInv, Win32AsyncInit, OS_LibInit PROVE QueueInv'
  <1>1. /\ requests' = <<>> /\ pending' = {} /\ port' = <<>> /\ stdinPort' = <<>>
        /\ thread' \in {"none", "waiting"} /\ taken' = {} /\ ports' = TRUE /\ calls' = <<>>
        /\ lost' = {}
    BY DEF Win32AsyncInit, OS_LibInit
  <1>2. /\ UNCHANGED <<requests, pending, port, stdinPort, taken, calls, lost>>
        /\ taken = {}
    BY DEF Win32AsyncInit, OS_LibInit
  <1>3. Queues'
    BY <1>1, <1>2 DEF QueueInv, Queues
  <1>4. OncePlaced'
    BY <1>2 DEF QueueInv, OncePlaced
  <1>5. Turns'
    BY <1>1
    DEF Turns, StdinInOrder, PortInTurn, TakenInTurn, StdinInTurn, NoneLost
  <1> QED
    BY <1>3, <1>4, <1>5 DEF QueueInv

\* What concerns neither table nor queues.
LEMMA TableKept ==
  ASSUME TableInv, UNCHANGED <<fdTable, open, held>> PROVE TableInv'
  BY DEF TableInv, EntryOfOne, InUse

\* What leaves the queues alone keeps what they satisfy.
LEMMA QueuesKept ==
  ASSUME QueueInv, UNCHANGED queueVars PROVE QueueInv'
  <1> USE DEF queueVars
  <1>1. Queues'
    BY DEF QueueInv, Queues
  <1>2. OncePlaced'
    BY DEF QueueInv, OncePlaced
  <1>3. StdinInOrder'
    BY DEF QueueInv, Turns, StdinInOrder, IsStdin, Earlier
  <1>4. PortInTurn'
    BY DEF QueueInv, Turns, PortInTurn, IsStdin, Earlier, Before
  <1>5. TakenInTurn'
    BY DEF QueueInv, Turns, TakenInTurn, IsStdin, Earlier, Before
  <1>6. StdinInTurn'
    BY DEF QueueInv, Turns, StdinInTurn, IsStdin, Earlier, Before, Alive
  <1>7. NoneLost'
    BY DEF QueueInv, Turns, NoneLost, IsStdin, Alive
  <1> QED
    BY <1>1, <1>2, <1>3, <1>4, <1>5, <1>6, <1>7 DEF QueueInv, Turns

\* The invariant, action by action.
LEMMA AsyncInvStep == AsyncInv /\ [Win32AsyncNext]_win32AsyncVars => AsyncInv'
  <1> SUFFICES ASSUME AsyncInv, [Win32AsyncNext]_win32AsyncVars PROVE AsyncInv'
    OBVIOUS
  <1>0. TableInv /\ QueueInv /\ fdTable \in Tables
    BY DEF AsyncInv, TableInv
  <1>1. CASE UNCHANGED win32AsyncVars
    <2>1. TableInv' /\ QueueInv'
      BY <1>0, <1>1, TableKept, QueuesKept DEF win32AsyncVars, queueVars
    <2> QED
      BY <1>1, <2>1 DEF AsyncInv, win32AsyncVars, Win32AsyncInit
  <1>2. CASE OS_LibInit
    <2>1. Win32AsyncInit /\ asyncPc' = "app"
      BY <1>2 DEF AsyncInv, OS_LibInit
    <2> QED
      BY <1>0, <1>2, <2>1, LibInitTable, LibInitQueues DEF AsyncInv
  <1> DEFINE Started == asyncPc' \in {"app", "io", "callback"}
  <1>3. ASSUME TableInv', QueueInv', Started PROVE AsyncInv'
    BY <1>3 DEF AsyncInv
  <1>4. Free => (asyncPc' = asyncPc => Started)
    BY DEF Free
  <1>5. CASE OS_LibShutdown
    BY <1>0, <1>3, <1>4, <1>5, TableKept, ShutdownQueues DEF OS_LibShutdown
  <1>6. CASE OS_AsyncReadStdin
    BY <1>0, <1>3, <1>4, <1>6, TableKept, AsyncStdinQueues DEF OS_AsyncReadStdin
  <1>7. ASSUME NEW h \in Handles, NEW type \in {"socketSync", "pipeAsync"}, Open(h, type)
        PROVE  AsyncInv'
    <2>1. type \in FileTypes \ {"unused"}
      BY DEF FileTypes
    <2>2. UNCHANGED queueVars /\ Started
      BY <1>4, <1>7 DEF Open, queueVars
    <2> QED
      BY <1>0, <1>3, <1>7, <2>1, <2>2, OpenTable, QueuesKept
  <1>8. ASSUME NEW h \in Handles, NEW connects \in BOOLEAN, ConnectSocket(h, connects)
        PROVE  AsyncInv'
    <2>1. Open(h, "socketSync") \/ (Free /\ UNCHANGED win32AsyncVars)
      BY <1>8 DEF ConnectSocket
    <2> QED
      BY <1>1, <1>7, <2>1
  <1>9. ASSUME NEW fd \in Entries, OS_SetFlags(fd) PROVE AsyncInv'
    <2>1. UNCHANGED queueVars /\ Started
      BY <1>4, <1>9 DEF OS_SetFlags, queueVars
    <2> QED
      BY <1>0, <1>3, <1>9, <2>1, FlagsTable, QueuesKept
  <1>10. ASSUME NEW fd \in Entries, OS_Close(fd) PROVE AsyncInv'
    <2>1. UNCHANGED queueVars /\ Started
      BY <1>4, <1>10 DEF OS_Close, queueVars
    <2> QED
      BY <1>0, <1>3, <1>10, <2>1, CloseTable, QueuesKept
  <1>11. ASSUME NEW fd \in Entries, NEW what \in {"read", "write"}, Async(fd, what)
         PROVE  AsyncInv'
    BY <1>0, <1>3, <1>4, <1>11, TableKept, AsyncQueues DEF Async
  <1>12. CASE EnterIo \/ CallbackReturns \/ TimesOut
    <2>1. UNCHANGED queueVars /\ UNCHANGED <<fdTable, open, held>> /\ Started
      BY <1>12 DEF EnterIo, CallbackReturns, TimesOut, queueVars
    <2> QED
      BY <1>0, <1>3, <2>1, TableKept, QueuesKept
  <1>13. CASE Dequeue
    BY <1>0, <1>3, <1>13, TableKept, DequeueQueues DEF Dequeue
  <1>14. ASSUME TableInv', QueueInv', asyncPc' = asyncPc, ~Win32AsyncInit PROVE AsyncInv'
    BY <1>14 DEF AsyncInv
  <1>15. CASE TakeRequest
    BY <1>0, <1>14, <1>15, TableKept, TakeQueues DEF TakeRequest, Win32AsyncInit
  <1>16. CASE ReadStdin
    BY <1>0, <1>14, <1>16, TableKept, ReadQueues DEF ReadStdin, Win32AsyncInit
  <1>17. ASSUME NEW r \in 1..MaxRequests, Complete(r) PROVE AsyncInv'
    BY <1>0, <1>14, <1>17, TableKept, CompleteQueues DEF Complete, Win32AsyncInit
  <1> QED
    BY <1>1, <1>2, <1>5, <1>6, <1>7, <1>8, <1>9, <1>10, <1>11, <1>12, <1>13, <1>15, <1>16, <1>17
    DEF Win32AsyncNext, Application, OS_DoIo, StdinThread

\* Entries, handles and completions belong together one to one, and standard input
\* is called back in order, for any handles and requests.
THEOREM CompletionsCorrectness == Win32AsyncSafety => []CompletionsSound
  <1>1. AsyncInv => CompletionsSound
    <2> SUFFICES ASSUME AsyncInv PROVE CompletionsSound
      OBVIOUS
    <2>1. Win32AsyncTypeOK
      BY DEF AsyncInv, TableInv, Tables, QueueInv, Queues, Win32AsyncTypeOK
    <2> QED
      BY <2>1 DEF AsyncInv, TableInv, QueueInv, Turns, CompletionsSound
  <1> QED
    BY <1>1, InitAsyncInv, AsyncInvStep, PTL DEF Win32AsyncSafety
=============================================================================
