----------------------------- MODULE UnixProofs -----------------------------
(***************************************************************************)
(* Theorems about os_unix.c: OS_Accept in any set of processes, with and   *)
(* without the lock, and any number of connections, signals and errors;    *)
(* OS_DoIo with any number of descriptors, any size of the table and any   *)
(* operations, closes and callbacks; and any processes that listen,        *)
(* connect and spawn on any paths.                                         *)
(*                                                                         *)
(* UnixAccept: Delivery is not inductive.  Connections leave the queue in  *)
(* the order they came, so that the queue is always the last of those that *)
(* arrived (InOrder); and a descriptor is the socket of one call at most,  *)
(* even when it is closed and still taken for accepted (OneSocket), what   *)
(* the shutdown of a process can lead to.                                  *)
(*                                                                         *)
(* AsyncIo: the counters are exact only if what is posted is what select   *)
(* found (fdSetPost \subseteq ready) and if an entry of the sets that      *)
(* nobody uses is a read that was shut down (UnusedEntries).               *)
(***************************************************************************)
EXTENDS AsyncIo, UnixAccept, UnixIpc, WellFoundedInduction, FiniteSetTheorems, TLAPS

---------------------------------------------------------------------------
(***************************************************************************)
(* UnixAccept.                                                             *)
(***************************************************************************)

AcceptSafety == AcceptInit /\ [][AcceptNext]_acceptVars

Places == {"app", "lock", "check", "accept", "accepted", "failed", "release",
           "poll", "serve", "exit"}
Holding == {"accepted", "release", "poll", "serve"}

AcceptTyped ==
  /\ kind \in [Connections -> Kinds]
  /\ arrived \in 0..MaxConnections
  /\ queue \in Seq(Nat)
  /\ holder \in Processes \cup {Nobody}
  /\ pc \in [Processes -> Places]
  /\ socket \in [Processes -> Connections \cup {None}]
  /\ pending \in [Processes -> BOOLEAN]
  /\ failIntr \in BOOLEAN
  /\ closed \subseteq Connections

\* Connections 1..Left have left the queue.
Left == arrived - Len(queue)

InOrder ==
  /\ Len(queue) <= arrived
  /\ \A i \in 1..Len(queue) : queue[i] = Left + i

OneSocket ==
  /\ \A p \in Processes : socket[p] <= Left
  /\ \A p, q \in Processes : socket[p] # None /\ socket[p] = socket[q] => p = q
  /\ \A c \in closed : c <= Left

\* What a process knows of the connection it holds.
Screened ==
  /\ \A p \in Processes : pc[p] \in Holding => socket[p] # None
  /\ \A p \in Processes : pc[p] \in {"release", "poll"} => kind[socket[p]] # "foreign"
  /\ \A p \in Processes : pc[p] = "serve" => kind[socket[p]] \in {"unix", "inet"}
  /\ \A c \in closed : kind[c] \in {"silent", "foreign"}

AcceptInv == AcceptTyped /\ InOrder /\ OneSocket /\ Screened /\ LockDiscipline

\* A sequence grows by one at its end.
LEMMA AppendFacts ==
  ASSUME NEW q \in Seq(Nat), NEW n \in Nat
  PROVE  /\ Append(q, n) \in Seq(Nat)
         /\ Len(q) \in Nat /\ Len(Append(q, n)) = Len(q) + 1
         /\ \A i \in 1..Len(q) : Append(q, n)[i] = q[i]
         /\ Append(q, n)[Len(q) + 1] = n
  OBVIOUS

\* A sequence that is not empty loses its first element.
LEMMA TailFacts ==
  ASSUME NEW q \in Seq(Nat), q # <<>>
  PROVE  /\ Tail(q) \in Seq(Nat)
         /\ Len(q) \in Nat \ {0} /\ Len(Tail(q)) = Len(q) - 1
         /\ \A i \in 1..Len(Tail(q)) : Tail(q)[i] = q[i + 1]
         /\ Head(q) = q[1]
  OBVIOUS

---------------------------------------------------------------------------
(***************************************************************************)
(* Each part of the invariant is kept by every step.                       *)
(***************************************************************************)

\* At the start nothing is queued, held or accepted.
LEMMA AcceptInitInv == AcceptInit => AcceptInv
  <1> SUFFICES ASSUME AcceptInit PROVE AcceptInv
    OBVIOUS
  <1>1. queue = <<>> /\ arrived = 0 /\ Len(queue) = 0 /\ Left = 0
    <2>1. queue = <<>> /\ arrived = 0
      BY DEF AcceptInit
    <2>2. Len(<<>>) = 0
      OBVIOUS
    <2>3. Len(queue) = 0
      BY <2>1, <2>2
    <2>4. Left = 0
      <3>1. Left = arrived - Len(queue)
        BY DEF Left
      <3>2. Left = 0 - 0
        BY <3>1, <2>1, <2>3, Zenon
      <3> QED
        BY <3>2
    <2> QED
      BY <2>1, <2>3, <2>4
  <1>2. AcceptTyped
    BY <1>1, AcceptAssumption DEF AcceptInit, AcceptTyped, Places, Connections, None
  <1>3. InOrder
    BY <1>1 DEF InOrder
  <1>4. OneSocket
    BY <1>1 DEF AcceptInit, OneSocket, None
  <1>5. Screened
    BY DEF AcceptInit, Screened, Holding
  <1>6. LockDiscipline
    BY AcceptAssumption DEF AcceptInit, LockDiscipline, Inside
  <1> QED
    BY <1>2, <1>3, <1>4, <1>5, <1>6 DEF AcceptInv

\* The connection at the head of the queue is the next after those that left.
LEMMA NextToLeave ==
  ASSUME AcceptTyped, InOrder, queue # <<>>
  PROVE  /\ Head(queue) = Left + 1 /\ Head(queue) \in Connections
         /\ Tail(queue) \in Seq(Nat) /\ Len(Tail(queue)) = Len(queue) - 1
         /\ \A i \in 1..Len(Tail(queue)) : Tail(queue)[i] = queue[i + 1]
         /\ Len(queue) \in Nat \ {0}
  <1>1. /\ Tail(queue) \in Seq(Nat)
        /\ Len(queue) \in Nat \ {0} /\ Len(Tail(queue)) = Len(queue) - 1
        /\ \A i \in 1..Len(Tail(queue)) : Tail(queue)[i] = queue[i + 1]
        /\ Head(queue) = queue[1]
    BY TailFacts DEF AcceptTyped
  <1>2. queue[1] = Left + 1
    BY <1>1 DEF InOrder
  <1>3. Left + 1 \in Connections
    BY <1>1, AcceptAssumption DEF InOrder, Left, AcceptTyped, Connections
  <1> QED
    BY <1>1, <1>2, <1>3

\* Every variable keeps its type.
LEMMA TypedStep ==
  ASSUME AcceptInv, AcceptNext
  PROVE  AcceptTyped'
  <1> USE DEF AcceptTyped, Places, Goes
  <1>1. CASE Connect
    <2>1. arrived + 1 \in Nat /\ arrived' \in 0..MaxConnections
      BY <1>1, AcceptAssumption DEF Connect, AcceptInv
    <2>2. queue' \in Seq(Nat)
      BY <1>1, <2>1, AppendFacts DEF Connect, AcceptInv
    <2> QED
      BY <1>1, <2>1, <2>2 DEF Connect, AcceptInv
  <1>2. ASSUME NEW p \in Processes, Call(p) PROVE AcceptTyped'
    BY <1>2 DEF Call, AcceptInv
  <1>3. ASSUME NEW p \in Processes, AcquireLock(p) PROVE AcceptTyped'
    BY <1>3 DEF AcquireLock, AcceptInv
  <1>4. ASSUME NEW p \in Processes, Check(p) PROVE AcceptTyped'
    BY <1>4 DEF Check, Stops, AtShutdown, AcceptInv
  <1>5. ASSUME NEW p \in Processes, Accept(p) PROVE AcceptTyped'
    <2>1. Head(queue) \in Connections /\ Tail(queue) \in Seq(Nat)
      BY <1>5, NextToLeave DEF Accept, AcceptInv
    <2> QED
      BY <1>5, <2>1 DEF Accept, AcceptInv
  <1>6. ASSUME NEW p \in Processes, AcceptFails(p) PROVE AcceptTyped'
    BY <1>6 DEF AcceptFails, AcceptInv
  <1>7. ASSUME NEW p \in Processes, Fail(p) PROVE AcceptTyped'
    BY <1>7 DEF Fail, Freed, AcceptInv
  <1>8. ASSUME NEW p \in Processes, Decide(p) PROVE AcceptTyped'
    <2>1. socket[p] \in Connections
      BY <1>8 DEF Decide, AcceptInv, Screened, Holding
    <2> QED
      BY <1>8, <2>1 DEF Decide, AcceptInv
  <1>9. ASSUME NEW p \in Processes, ReleaseLock(p) PROVE AcceptTyped'
    BY <1>9 DEF ReleaseLock, AcceptInv
  <1>10. ASSUME NEW p \in Processes, Poll(p) PROVE AcceptTyped'
    <2>1. socket[p] \in Connections
      BY <1>10 DEF Poll, AcceptInv, Screened, Holding
    <2> QED
      BY <1>10, <2>1 DEF Poll, AfterSilence, AcceptInv
  <1>11. ASSUME NEW p \in Processes, ShutdownPending(p) PROVE AcceptTyped'
    BY <1>11 DEF ShutdownPending, AcceptInv
  <1>12. ASSUME NEW p \in Processes, NEW usr1 \in BOOLEAN, Interrupt(p, usr1)
         PROVE  AcceptTyped'
    BY <1>12 DEF Interrupt, AcceptInv
  <1> QED
    BY <1>1, <1>2, <1>3, <1>4, <1>5, <1>6, <1>7, <1>8, <1>9, <1>10, <1>11, <1>12
       DEF AcceptNext, ProcessStep

\* Connections come to the end of the queue and leave it at its head.
LEMMA InOrderStep ==
  ASSUME AcceptInv, AcceptNext
  PROVE  InOrder' /\ Left' \in {Left, Left + 1}
  <1>1. CASE Connect
    <2>1. /\ arrived' = arrived + 1 /\ arrived \in Nat
          /\ queue' = Append(queue, arrived + 1)
      BY <1>1, AcceptAssumption DEF Connect, AcceptInv, AcceptTyped
    <2>2. /\ Len(queue) \in Nat /\ Len(queue') = Len(queue) + 1
          /\ \A i \in 1..Len(queue) : queue'[i] = queue[i]
          /\ queue'[Len(queue) + 1] = arrived + 1
      BY <2>1, AppendFacts DEF AcceptInv, AcceptTyped
    <2>3. Left' = Left
      BY <2>1, <2>2 DEF Left
    <2>4. \A i \in 1..Len(queue') : queue'[i] = Left + i
      BY <2>1, <2>2 DEF AcceptInv, InOrder, Left
    <2> QED
      BY <2>1, <2>2, <2>3, <2>4 DEF InOrder, AcceptInv
  <1>2. ASSUME NEW p \in Processes, Accept(p)
        PROVE  InOrder' /\ Left' \in {Left, Left + 1}
    <2>1. /\ arrived' = arrived /\ arrived \in Nat /\ queue' = Tail(queue)
          /\ Len(queue) \in Nat \ {0} /\ Len(queue') = Len(queue) - 1
          /\ \A i \in 1..Len(queue') : queue'[i] = queue[i + 1]
      BY <1>2, NextToLeave, AcceptAssumption DEF Accept, AcceptInv, AcceptTyped
    <2>2. Left' = Left + 1
      BY <2>1 DEF Left
    <2>3. \A i \in 1..Len(queue') : queue'[i] = Left + 1 + i
      BY <2>1 DEF AcceptInv, InOrder, Left
    <2> QED
      BY <2>1, <2>2, <2>3 DEF InOrder, AcceptInv
  <1>3. ASSUME NEW p \in Processes,
               \/ Call(p) \/ AcquireLock(p) \/ Check(p) \/ AcceptFails(p) \/ Fail(p)
               \/ Decide(p) \/ ReleaseLock(p) \/ Poll(p) \/ ShutdownPending(p)
               \/ \E usr1 \in BOOLEAN : Interrupt(p, usr1)
        PROVE  InOrder' /\ Left' \in {Left, Left + 1}
    <2>1. UNCHANGED <<arrived, queue>>
      BY <1>3 DEF Call, AcquireLock, Check, AcceptFails, Fail, Decide, ReleaseLock,
                  Poll, ShutdownPending, Interrupt
    <2> QED
      BY <2>1 DEF AcceptInv, InOrder, Left
  <1> QED
    BY <1>1, <1>2, <1>3 DEF AcceptNext, ProcessStep

\* A socket is new, or it is given up.
LEMMA OneSocketStep ==
  ASSUME AcceptInv, AcceptNext
  PROVE  OneSocket'
  <1>0. Left \in Int /\ Left' \in Int /\ Left <= Left'
    BY InOrderStep DEF AcceptInv, AcceptTyped, Left
  <1>1. ASSUME NEW p \in Processes, Accept(p) PROVE OneSocket'
    <2>1. queue # <<>> /\ arrived' = arrived /\ queue' = Tail(queue)
          /\ closed' = closed /\ socket' = [socket EXCEPT ![p] = Head(queue)]
      BY <1>1 DEF Accept
    <2>2. /\ Head(queue) = Left + 1 /\ Len(queue') = Len(queue) - 1
          /\ Len(queue) \in Nat /\ arrived \in Nat
      BY <2>1, NextToLeave, AcceptAssumption DEF AcceptInv, AcceptTyped
    <2>3. Left' = Left + 1
      BY <2>1, <2>2 DEF Left
    <2>4. socket' = [socket EXCEPT ![p] = Left + 1]
      BY <2>1, <2>2
    <2> QED
      BY <2>1, <2>3, <2>4, <1>0, AcceptAssumption
         DEF AcceptInv, OneSocket, AcceptTyped, None, Connections
  <1>2. ASSUME NEW p \in Processes,
               socket' \in {socket, [socket EXCEPT ![p] = None]},
               closed' \in {closed, closed \cup {socket[p]}}
        PROVE  OneSocket'
    <2>1. \A q \in Processes : /\ socket[q] \in Nat /\ socket[q] <= Left
                              /\ socket'[q] \in {socket[q], None}
      BY <1>2, AcceptAssumption DEF AcceptInv, AcceptTyped, OneSocket, Connections, None
    <2>2. 0 <= Left
      BY <2>1, <1>0
    <2>3. \A q \in Processes : socket'[q] <= Left'
      BY <2>1, <2>2, <1>0 DEF None
    <2>4. \A q1, q2 \in Processes :
            socket'[q1] # None /\ socket'[q1] = socket'[q2] => q1 = q2
      BY <2>1 DEF AcceptInv, OneSocket
    <2>5. \A c \in closed : c \in Int /\ c <= Left
      BY AcceptAssumption DEF AcceptInv, OneSocket, AcceptTyped, Connections
    <2>6. \A c \in closed' : c <= Left'
      BY <1>2, <2>5, <2>1, <1>0
    <2> QED
      BY <2>3, <2>4, <2>6 DEF OneSocket
  <1>3. CASE Connect
    <2>1. socket' = socket /\ closed' = closed
      BY <1>3 DEF Connect
    <2>2. /\ \A p \in Processes : socket[p] \in Int
          /\ \A c \in closed : c \in Int
      BY AcceptAssumption DEF AcceptInv, AcceptTyped, Connections, None
    <2> QED
      BY <2>1, <2>2, <1>0 DEF AcceptInv, OneSocket
  <1>4. ASSUME NEW p \in Processes,
               \/ Call(p) \/ AcquireLock(p) \/ Check(p) \/ AcceptFails(p) \/ Fail(p)
               \/ Decide(p) \/ ReleaseLock(p) \/ Poll(p) \/ ShutdownPending(p)
               \/ \E usr1 \in BOOLEAN : Interrupt(p, usr1)
        PROVE  /\ socket' \in {socket, [socket EXCEPT ![p] = None]}
               /\ closed' \in {closed, closed \cup {socket[p]}}
    BY <1>4 DEF Call, AcquireLock, Check, AcceptFails, Fail, Decide, ReleaseLock,
                Poll, ShutdownPending, Interrupt, AcceptInv, AcceptTyped
  <1> QED
    BY <1>1, <1>2, <1>3, <1>4 DEF AcceptNext, ProcessStep

\* A connection is kept, or closed, for what it is.
LEMMA ScreenedStep ==
  ASSUME AcceptInv, AcceptNext
  PROVE  Screened'
  <1> USE DEF AcceptInv, AcceptTyped, Screened, Holding, Goes
  <1>1. CASE Connect
    BY <1>1 DEF Connect
  <1>2. ASSUME NEW p \in Processes, Call(p) PROVE Screened'
    BY <1>2 DEF Call
  <1>3. ASSUME NEW p \in Processes, AcquireLock(p) PROVE Screened'
    BY <1>3 DEF AcquireLock
  <1>4. ASSUME NEW p \in Processes, Check(p) PROVE Screened'
    BY <1>4 DEF Check, Stops, AtShutdown
  <1>5. ASSUME NEW p \in Processes, Accept(p) PROVE Screened'
    <2>1. Head(queue) # None
      BY <1>5, NextToLeave, AcceptAssumption DEF Accept, Connections, None
    <2> QED
      BY <1>5, <2>1 DEF Accept
  <1>6. ASSUME NEW p \in Processes, AcceptFails(p) PROVE Screened'
    BY <1>6 DEF AcceptFails
  <1>7. ASSUME NEW p \in Processes, Fail(p) PROVE Screened'
    BY <1>7 DEF Fail
  <1>8. ASSUME NEW p \in Processes, Decide(p) PROVE Screened'
    <2>1. kind' = kind /\ socket[p] \in Connections /\ pc[p] = "accepted"
      BY <1>8 DEF Decide
    <2>2. CASE kind[socket[p]] = "foreign"
      <3>1. /\ closed' = closed \cup {socket[p]}
            /\ socket' = [socket EXCEPT ![p] = None]
            /\ pc' = [pc EXCEPT ![p] = "check"]
        BY <1>8, <2>2 DEF Decide
      <3>2. \A c \in closed' : kind'[c] \in {"silent", "foreign"}
        BY <3>1, <2>1, <2>2
      <3> QED
        BY <3>1, <3>2, <2>1
    <2>3. CASE kind[socket[p]] # "foreign"
      <3>1. /\ closed' = closed /\ socket' = socket
            /\ pc' = [pc EXCEPT ![p] = "release"]
        BY <1>8, <2>3 DEF Decide
      <3> QED
        BY <3>1, <2>1, <2>3
    <2> QED
      BY <2>2, <2>3
  <1>9. ASSUME NEW p \in Processes, ReleaseLock(p) PROVE Screened'
    BY <1>9 DEF ReleaseLock
  <1>10. ASSUME NEW p \in Processes, Poll(p) PROVE Screened'
    <2>1. socket[p] \in Connections /\ kind[socket[p]] \in Kinds \ {"foreign"}
      BY <1>10 DEF Poll
    <2>2. CASE ~IsUnix(p) \/ IsKeeper(p)
      <3>1. kind[socket[p]] \in {"unix", "inet"}
        BY <2>1, <2>2 DEF IsUnix, IsKeeper, Kinds
      <3> QED
        BY <1>10, <2>2, <3>1 DEF Poll
    <2>3. CASE ~(~IsUnix(p) \/ IsKeeper(p))
      <3>1. kind[socket[p]] = "silent"
        BY <2>1, <2>3 DEF IsUnix, IsKeeper, Kinds
      <3> QED
        BY <1>10, <2>3, <3>1 DEF Poll, AfterSilence
    <2> QED
      BY <2>2, <2>3
  <1>11. ASSUME NEW p \in Processes, ShutdownPending(p) PROVE Screened'
    BY <1>11 DEF ShutdownPending
  <1>12. ASSUME NEW p \in Processes, NEW usr1 \in BOOLEAN, Interrupt(p, usr1)
         PROVE  Screened'
    BY <1>12 DEF Interrupt, Blocked
  <1> QED
    BY <1>1, <1>2, <1>3, <1>4, <1>5, <1>6, <1>7, <1>8, <1>9, <1>10, <1>11, <1>12
       DEF AcceptNext, ProcessStep

\* The lock passes from one process to none, and from none to one.
LEMMA LockStep ==
  ASSUME AcceptInv, AcceptNext
  PROVE  LockDiscipline'
  <1> USE DEF AcceptInv, AcceptTyped, LockDiscipline, Inside, Goes
  <1>1. CASE Connect
    BY <1>1 DEF Connect
  <1>2. ASSUME NEW p \in Processes, Call(p) PROVE LockDiscipline'
    BY <1>2 DEF Call
  <1>3. ASSUME NEW p \in Processes, AcquireLock(p) PROVE LockDiscipline'
    BY <1>3, AcceptAssumption DEF AcquireLock, MayLock
  <1>4. ASSUME NEW p \in Processes, Check(p) PROVE LockDiscipline'
    BY <1>4 DEF Check, Stops, AtShutdown
  <1>5. ASSUME NEW p \in Processes, Accept(p) PROVE LockDiscipline'
    BY <1>5 DEF Accept
  <1>6. ASSUME NEW p \in Processes, AcceptFails(p) PROVE LockDiscipline'
    BY <1>6 DEF AcceptFails
  <1>7. ASSUME NEW p \in Processes, Fail(p) PROVE LockDiscipline'
    BY <1>7, AcceptAssumption DEF Fail, Freed
  <1>8. ASSUME NEW p \in Processes, Decide(p) PROVE LockDiscipline'
    BY <1>8 DEF Decide
  <1>9. ASSUME NEW p \in Processes, ReleaseLock(p) PROVE LockDiscipline'
    BY <1>9, AcceptAssumption DEF ReleaseLock
  <1>10. ASSUME NEW p \in Processes, Poll(p) PROVE LockDiscipline'
    BY <1>10 DEF Poll, AfterSilence
  <1>11. ASSUME NEW p \in Processes, ShutdownPending(p) PROVE LockDiscipline'
    BY <1>11 DEF ShutdownPending
  <1>12. ASSUME NEW p \in Processes, NEW usr1 \in BOOLEAN, Interrupt(p, usr1)
         PROVE  LockDiscipline'
    BY <1>12 DEF Interrupt, Blocked
  <1> QED
    BY <1>1, <1>2, <1>3, <1>4, <1>5, <1>6, <1>7, <1>8, <1>9, <1>10, <1>11, <1>12
       DEF AcceptNext, ProcessStep

\* AcceptInv holds of every state of the processes.
LEMMA Invariance == AcceptSafety => []AcceptInv
  <1>1. AcceptInv /\ UNCHANGED acceptVars => AcceptInv'
    BY DEF acceptVars, AcceptInv, AcceptTyped, InOrder, Left, OneSocket, Screened,
           LockDiscipline, Inside
  <1>2. AcceptInv /\ AcceptNext => AcceptInv'
    BY TypedStep, InOrderStep, OneSocketStep, ScreenedStep, LockStep DEF AcceptInv
  <1> QED
    BY <1>1, <1>2, AcceptInitInv, PTL DEF AcceptSafety

---------------------------------------------------------------------------
\* One process at a time is between the lock and its release, and every way out
\* gives the lock back.
THEOREM LockCorrectness == AcceptSafety => []LockDiscipline
  <1>1. AcceptInv => LockDiscipline
    BY DEF AcceptInv
  <1> QED
    BY <1>1, Invariance, PTL

\* No connection has two processes, none that was accepted is closed but for a
\* cause, and none that is served is one of those to be refused.
LEMMA DeliveryHolds == AcceptInv => Delivery
  <1> SUFFICES ASSUME AcceptInv, NEW c \in 1..arrived
               PROVE  /\ c \in closed => kind[c] \in {"silent", "foreign"}
                      /\ Cardinality(Owned(c)) <= 1
                      /\ \A p \in Owned(c) : pc[p] = "serve" => kind[c] \in {"unix", "inet"}
                      /\ Contains(queue, c) => Owned(c) = {} /\ c \notin closed
    BY DEF Delivery
  <1>1. c \in closed => kind[c] \in {"silent", "foreign"}
    BY DEF AcceptInv, Screened
  <1>2. c # None /\ c \in Nat
    BY AcceptAssumption DEF AcceptInv, AcceptTyped, None
  <1>3. Cardinality(Owned(c)) <= 1
    <2>1. CASE Owned(c) = {}
      BY <2>1, FS_EmptySet
    <2>2. ASSUME NEW p \in Owned(c) PROVE Cardinality(Owned(c)) <= 1
      <3>1. Owned(c) = {p}
        BY <1>2, <2>2 DEF Owned, AcceptInv, OneSocket
      <3> QED
        BY <3>1, FS_Singleton
    <2> QED
      BY <2>1, <2>2
  <1>4. \A p \in Owned(c) : pc[p] = "serve" => kind[c] \in {"unix", "inet"}
    BY DEF Owned, AcceptInv, Screened
  <1>5. ASSUME Contains(queue, c)
        PROVE  Owned(c) = {} /\ c \notin closed
    <2>1. PICK i \in 1..Len(queue) : queue[i] = c
      BY <1>5 DEF Contains
    <2>2. Left \in Int /\ c > Left
      BY <2>1 DEF AcceptInv, InOrder, AcceptTyped, Left
    <2> QED
      BY <1>2, <2>2 DEF Owned, AcceptInv, OneSocket, AcceptTyped, Connections, None
  <1> QED
    BY <1>1, <1>3, <1>4, <1>5

\* Who accepts, and who has what was accepted, for any number of processes.
THEOREM AcceptCorrectness == AcceptSafety => []AcceptSound
  <1>1. AcceptInv => AcceptTypeOK
    BY DEF AcceptInv, AcceptTyped, Screened, Holding, Places, AcceptTypeOK
  <1>2. AcceptInv => AcceptSound
    BY <1>1, DeliveryHolds DEF AcceptInv, AcceptSound
  <1> QED
    BY <1>2, Invariance, PTL
---------------------------------------------------------------------------
(***************************************************************************)
(* AsyncIo.                                                                *)
(***************************************************************************)

AsyncSafety == AsyncInit /\ [][AsyncNext]_asyncVars

AsyncTyped ==
  /\ AsyncTypeOK
  /\ table \in Nat \ {0}
  /\ at \in Nat \X Directions
  /\ ready \subseteq Entries
  /\ forgotten \in [Directions -> Nat]

\* The read of a descriptor whose receiving side was shut down.
ShutRead(e) == e[1] \in halfOpen /\ e[2] = "rd"

UnusedEntries ==
  /\ \A e \in fdSet \cup fdSetPost : e \in inUse \/ ShutRead(e)
  /\ \A e \in fdSet \cap fdSetPost : ShutRead(e)
  /\ \A e \in inUse : e[1] \in isOpen /\ e \in fdSet \cup fdSetPost

AsyncInv ==
  AsyncTyped /\ InReach /\ UnusedEntries /\ CountersExact /\ NeverBlocks /\ fdSetPost \subseteq ready

---------------------------------------------------------------------------
(***************************************************************************)
(* The table grows until it has the entry.                                 *)
(***************************************************************************)

\* A set of numbers that is not empty has a least.
LEMMA LeastExists ==
  ASSUME NEW S \in SUBSET Nat, S # {}
  PROVE  \E x \in S : \A y \in S : x <= y
  <1> DEFINE R == {ss \in Nat \X Nat : ss[1] < ss[2]}
  <1>1. IsWellFoundedOn(R, Nat)
    BY NatLessThanWellFounded DEF OpToRel
  <1>2. PICK x \in S : \A y \in S : ~(<<y, x>> \in R)
    BY <1>1, WFMin
  <1>3. ASSUME NEW y \in S, y < x PROVE FALSE
    <2>1. <<y, x>> \in Nat \X Nat /\ <<y, x>>[1] = y /\ <<y, x>>[2] = x
      OBVIOUS
    <2>2. <<y, x>> \in R
      BY <1>3, <2>1
    <2> QED
      BY <1>2, <2>2
  <1> QED
    BY <1>3

\* Doubled on the numbers up to n.
UpTo(f, n) ==
  f \in [0..n -> Nat] /\ f[0] = 1 /\ \A k \in 1..n : f[k] = 2 * f[k - 1]

\* Every number of doublings has a result.
LEMMA UpToExists == \A n \in Nat : \E f : UpTo(f, n)
  <1> DEFINE S == {n \in Nat : ~ \E f : UpTo(f, n)}
  <1> SUFFICES ASSUME S # {} PROVE FALSE
    OBVIOUS
  <1>1. PICK m \in S : \A y \in S : m <= y
    <2>1. S \in SUBSET Nat
      OBVIOUS
    <2> HIDE DEF S
    <2> QED
      BY <2>1, LeastExists
  <1>2. CASE m = 0
    <2>1. UpTo([k \in 0..0 |-> 1], 0)
      BY DEF UpTo
    <2> QED
      BY <1>2, <2>1
  <1>3. CASE m # 0
    <2>1. m \in Nat /\ m - 1 \in Nat /\ m - 1 \notin S
      BY <1>1, <1>3
    <2>2. PICK g : UpTo(g, m - 1)
      BY <2>1
    <2> DEFINE f == [k \in 0..m |-> IF k = m THEN 2 * g[m - 1] ELSE g[k]]
    <2>3. g \in [0..(m - 1) -> Nat] /\ g[0] = 1 /\ \A k \in 1..(m - 1) : g[k] = 2 * g[k - 1]
      BY <2>2 DEF UpTo
    <2>4. \A k \in 0..m : k = m \/ k \in 0..(m - 1)
      BY <2>1
    <2>5. g[m - 1] \in Nat
      BY <2>1, <2>3
    <2>6. f \in [0..m -> Nat]
      BY <2>3, <2>4, <2>5
    <2>7. f[0] = 1
      BY <1>3, <2>1, <2>3
    <2>8. \A k \in 1..m : f[k] = 2 * f[k - 1]
      <3> SUFFICES ASSUME NEW k \in 1..m PROVE f[k] = 2 * f[k - 1]
        OBVIOUS
      <3>1. k - 1 \in 0..m /\ k - 1 # m /\ f[k - 1] = g[k - 1]
        BY <2>1
      <3>2. CASE k = m
        BY <3>1, <3>2
      <3>3. CASE k # m
        <4>1. k \in 1..(m - 1) /\ f[k] = g[k]
          BY <2>1, <3>3
        <4> QED
          BY <2>3, <3>1, <4>1
      <3> QED
        BY <3>2, <3>3
    <2>9. UpTo(f, m)
      BY <2>6, <2>7, <2>8 DEF UpTo
    <2> QED
      BY <2>9
  <1> QED
    BY <1>2, <1>3

\* There is one.
LEMMA UpToAgree ==
  ASSUME NEW n \in Nat, NEW m \in Nat, NEW f, NEW g, UpTo(f, n), UpTo(g, m)
  PROVE  \A k \in (0..n) \cap (0..m) : f[k] = g[k]
  <1> DEFINE S == {k \in (0..n) \cap (0..m) : f[k] # g[k]}
  <1> SUFFICES ASSUME S # {} PROVE FALSE
    OBVIOUS
  <1>1. PICK i \in S : \A y \in S : i <= y
    <2>1. S \in SUBSET Nat
      OBVIOUS
    <2> HIDE DEF S
    <2> QED
      BY <2>1, LeastExists
  <1>2. /\ f[0] = 1 /\ \A k \in 1..n : f[k] = 2 * f[k - 1]
        /\ g[0] = 1 /\ \A k \in 1..m : g[k] = 2 * g[k - 1]
    BY DEF UpTo
  <1>3. i # 0
    BY <1>1, <1>2
  <1>4. i \in 1..n /\ i \in 1..m /\ i - 1 \in (0..n) \cap (0..m) /\ i - 1 \notin S
    BY <1>1, <1>3
  <1>5. f[i - 1] = g[i - 1]
    BY <1>4
  <1> QED
    BY <1>1, <1>2, <1>4, <1>5

\* Doubled is what it is defined to be.
LEMMA DoubledDef == Doubled = [k \in Nat |-> IF k = 0 THEN 1 ELSE 2 * Doubled[k - 1]]
  <1> DEFINE F(n) == CHOOSE f : UpTo(f, n)
             D == [k \in Nat |-> F(k)[k]]
  <1>1. \A n \in Nat : UpTo(F(n), n)
    BY UpToExists
  <1>2. \A k \in Nat : D[k] = F(k)[k]
    OBVIOUS
  <1> HIDE DEF F
  <1>3. D[0] = 1
    BY <1>1, <1>2 DEF UpTo
  <1>4. ASSUME NEW k \in Nat \ {0} PROVE D[k] = 2 * D[k - 1]
    <2>1. k - 1 \in Nat /\ k - 1 \in (0..k) \cap (0..(k - 1)) /\ k \in 1..k
      OBVIOUS
    <2>2. F(k)[k] = 2 * F(k)[k - 1]
      BY <1>1, <2>1 DEF UpTo
    <2>3. F(k)[k - 1] = F(k - 1)[k - 1]
      BY <1>1, <2>1, UpToAgree
    <2> QED
      BY <1>2, <2>1, <2>2, <2>3
  <1>5. D = [k \in Nat |-> IF k = 0 THEN 1 ELSE 2 * D[k - 1]]
    <2>1. \A k \in Nat : D[k] = IF k = 0 THEN 1 ELSE 2 * D[k - 1]
      BY <1>3, <1>4
    <2>2. D = [k \in Nat |-> D[k]]
      OBVIOUS
    <2> HIDE DEF D
    <2> QED
      BY <2>1, <2>2
  <1>6. \E d : d = [k \in Nat |-> IF k = 0 THEN 1 ELSE 2 * d[k - 1]]
    <2> HIDE DEF D
    <2> QED
      BY <1>5
  <1> QED
    BY <1>6 DEF Doubled

\* Doubling exceeds every number.
LEMMA DoubledGrows == \A k \in Nat : Doubled[k] \in Nat /\ Doubled[k] > k
  <1> DEFINE S == {k \in Nat : ~(Doubled[k] \in Nat /\ Doubled[k] > k)}
  <1> SUFFICES ASSUME S # {} PROVE FALSE
    OBVIOUS
  <1>1. PICK m \in S : \A y \in S : m <= y
    <2>1. S \in SUBSET Nat
      OBVIOUS
    <2> HIDE DEF S
    <2> QED
      BY <2>1, LeastExists
  <1>2. \A k \in Nat : Doubled[k] = IF k = 0 THEN 1 ELSE 2 * Doubled[k - 1]
    <2> DEFINE g(k) == IF k = 0 THEN 1 ELSE 2 * Doubled[k - 1]
    <2>1. Doubled = [k \in Nat |-> g(k)]
      BY DoubledDef
    <2> HIDE DEF g
    <2>2. \A k \in Nat : Doubled[k] = g(k)
      BY <2>1
    <2> QED
      BY <2>2 DEF g
  <1>3. m # 0
    BY <1>1, <1>2
  <1>4. m - 1 \in Nat /\ m - 1 \notin S
    BY <1>1, <1>3
  <1>5. Doubled[m - 1] \in Nat /\ Doubled[m - 1] > m - 1
    BY <1>4
  <1> QED
    BY <1>1, <1>2, <1>3, <1>5

\* The table grows until it has the entry.
LEMMA GrownFacts ==
  ASSUME table \in Nat \ {0}, NEW e \in Entries
  PROVE  Grown(e) \in Nat \ {0} /\ Index(e) < Grown(e) /\ table <= Grown(e)
  <1> DEFINE S == {n \in {table * Doubled[k] : k \in 0..Index(e)} : Index(e) < n}
  <1>1. Index(e) \in Nat
    BY DEF Index, Entries, Descriptors, Directions
  <1>2. \A k \in Nat : Doubled[k] \in Nat /\ Doubled[k] > k
    BY DoubledGrows
  <1>3. ASSUME NEW i \in Nat, NEW t \in Nat \ {0}, NEW u \in Nat \ {0}
        PROVE  t * u \in Nat \ {0} /\ t <= t * u /\ u <= t * u
    BY <1>3
  <1>4. \A n \in S : n \in Nat /\ table <= n /\ Index(e) < n
    <2>1. ASSUME NEW n \in S PROVE n \in Nat /\ table <= n /\ Index(e) < n
      <3>1. PICK k \in 0..Index(e) : n = table * Doubled[k]
        OBVIOUS
      <3>2. Doubled[k] \in Nat \ {0}
        BY <1>1, <1>2
      <3>3. n \in Nat /\ table <= n
        BY <1>3, <3>1, <3>2
      <3> QED
        BY <3>3
    <2> HIDE DEF S
    <2> QED
      BY <2>1
  <1>5. S # {}
    <2>1. Doubled[Index(e)] \in Nat \ {0} /\ Doubled[Index(e)] > Index(e)
      BY <1>1, <1>2
    <2>2. table * Doubled[Index(e)] \in Nat /\ Doubled[Index(e)] <= table * Doubled[Index(e)]
      BY <1>3, <2>1
    <2>3. Index(e) < table * Doubled[Index(e)]
      BY <1>1, <2>1, <2>2
    <2>4. table * Doubled[Index(e)] \in S
      BY <1>1, <2>3
    <2> QED
      BY <2>4
  <1>6. Grown(e) = Min(S)
    BY DEF Grown
  <1> HIDE DEF S
  <1>7. \E x \in S : \A y \in S : x <= y
    <2>1. S \in SUBSET Nat
      BY <1>4
    <2> QED
      BY <2>1, <1>5, LeastExists
  <1>8. Min(S) \in S
    BY <1>7 DEF Min
  <1> QED
    BY <1>4, <1>6, <1>8

\* The larger of two descriptors.
LEMMA MaxOfTwo ==
  ASSUME NEW a \in Int, NEW b \in Int
  PROVE  Max({a, b}) = IF a >= b THEN a ELSE b
  <1>1. \E x \in {a, b} : \A y \in {a, b} : x >= y
    OBVIOUS
  <1>2. Max({a, b}) \in {a, b} /\ \A y \in {a, b} : Max({a, b}) >= y
    BY <1>1 DEF Max
  <1> QED
    BY <1>2

\* Sets of entries are finite.
LEMMA EntriesFinite ==
  ASSUME NEW S \in SUBSET Entries
  PROVE  IsFiniteSet(S) /\ Cardinality(S) \in Nat
  <1>1. IsFiniteSet(Descriptors)
    BY FS_Interval, AsyncAssumption DEF Descriptors, AsyncAssumption
  <1>2. IsFiniteSet(Directions)
    <2>1. IsFiniteSet({"rd"}) /\ Directions = {"rd"} \cup {"wr"}
      BY FS_Singleton DEF Directions
    <2> QED
      BY <2>1, FS_AddElement
  <1>3. IsFiniteSet(Entries)
    BY <1>1, <1>2, FS_Product DEF Entries
  <1>4. IsFiniteSet(S)
    BY <1>3, FS_Subset
  <1> QED
    BY <1>4, FS_CardinalityType

---------------------------------------------------------------------------
(***************************************************************************)
(* The invariant, one lemma per action.                                    *)
(***************************************************************************)

\* Nothing is posted at first.
LEMMA AsyncInitInv == AsyncInit => AsyncInv
  <1> SUFFICES ASSUME AsyncInit PROVE AsyncInv
    OBVIOUS
  <1>1. AsyncTyped
    BY AsyncAssumption
    DEF AsyncInit, AsyncTyped, AsyncTypeOK, AsyncAssumption, Zero, Descriptors, Directions, Entries
  <1>2. InReach /\ UnusedEntries /\ NeverBlocks /\ fdSetPost \subseteq ready
    BY DEF AsyncInit, InReach, UnusedEntries, NeverBlocks
  <1>3. CountersExact
    BY FS_EmptySet DEF AsyncInit, CountersExact, Posted, Zero
  <1> QED
    BY <1>1, <1>2, <1>3 DEF AsyncInv

\* An operation is started: its entry is neither posted nor waited for, unless
\* a read that was shut down left it there.
LEMMA AsyncStep ==
  ASSUME AsyncInv, NEW e \in Entries, Async(e) PROVE AsyncInv'
  <1>0. table' \in Nat \ {0} /\ Index(e) < table' /\ table <= table'
    BY GrownFacts DEF AsyncInv, AsyncTyped, Async
  <1>1. maxFd' = IF maxFd >= e[1] THEN maxFd ELSE e[1]
    <2>1. maxFd \in Int /\ e[1] \in Int
      BY AsyncAssumption DEF AsyncInv, AsyncTyped, AsyncTypeOK, Entries, Descriptors, AsyncAssumption
    <2> QED
      BY <2>1, MaxOfTwo DEF Async
  <1>2. AsyncTyped'
    BY <1>0, <1>1 DEF AsyncInv, AsyncTyped, AsyncTypeOK, Async, Entries, Free
  <1>3. InReach'
    <2> SUFFICES ASSUME NEW x \in fdSet' \cup fdSetPost' \cup inUse'
                 PROVE  x[1] <= maxFd' /\ Index(x) < table'
      BY DEF InReach
    <2>1. maxFd \in Int /\ e[1] \in Int /\ table \in Int /\ x[1] \in Int /\ Index(x) \in Int
      BY AsyncAssumption, <1>2
      DEF AsyncInv, AsyncTyped, AsyncTypeOK, Entries, Descriptors, Directions, Index, AsyncAssumption
    <2>2. CASE x = e
      BY <1>0, <1>1, <2>1, <2>2
    <2>3. CASE x # e
      <3>1. x \in fdSet \cup fdSetPost \cup inUse
        BY <2>3 DEF Async
      <3>2. x[1] <= maxFd /\ Index(x) < table
        BY <3>1 DEF AsyncInv, InReach
      <3> QED
        BY <1>0, <1>1, <2>1, <3>2
    <2> QED
      BY <2>2, <2>3
  <1>4. UnusedEntries'
    BY DEF AsyncInv, UnusedEntries, ShutRead, Async
  <1>5. CountersExact'
    BY DEF AsyncInv, CountersExact, Posted, Async
  <1>6. NeverBlocks' /\ (fdSetPost \subseteq ready)'
    BY DEF AsyncInv, NeverBlocks, Async
  <1> QED
    BY <1>2, <1>3, <1>4, <1>5, <1>6 DEF AsyncInv

\* A descriptor is closed: what it had posted goes from the set to those
\* forgotten.
LEMMA CloseStep ==
  ASSUME AsyncInv, NEW fd \in Descriptors, OS_Close(fd) PROVE AsyncInv'
  <1> DEFINE Gone(d) == Both(fd) \cap Posted(d)
  <1>1. \A x \in Entries : x \in Both(fd) <=> x[1] = fd
    BY DEF Both, Entries
  <1>2. \A d \in Directions :
          /\ Cardinality(Posted(d)) \in Nat
          /\ Cardinality(Gone(d)) \in Nat
          /\ Cardinality(Posted(d)') = Cardinality(Posted(d)) - Cardinality(Gone(d))
    <2> SUFFICES ASSUME NEW d \in Directions
                 PROVE  /\ Cardinality(Posted(d)) \in Nat
                        /\ Cardinality(Gone(d)) \in Nat
                        /\ Cardinality(Posted(d)') = Cardinality(Posted(d)) - Cardinality(Gone(d))
      OBVIOUS
    <2>1. Posted(d) \in SUBSET Entries
      BY DEF AsyncInv, AsyncTyped, AsyncTypeOK, Posted
    <2>2. Gone(d) \in SUBSET Entries /\ Posted(d) \cap Gone(d) = Gone(d)
      BY <2>1
    <2>3. Posted(d)' = Posted(d) \ Gone(d)
      BY DEF Posted, OS_Close, WithoutPosted
    <2>4. IsFiniteSet(Posted(d)) /\ Cardinality(Posted(d)) \in Nat /\ Cardinality(Gone(d)) \in Nat
      BY <2>1, <2>2, EntriesFinite
    <2>5. Cardinality(Posted(d) \ Gone(d)) = Cardinality(Posted(d)) - Cardinality(Posted(d) \cap Gone(d))
      BY <2>4, FS_Difference
    <2> QED
      BY <2>2, <2>3, <2>4, <2>5
  <1>3. AsyncTyped'
    <2>1. maxFd' \in Descriptors \cup {-1}
      BY AsyncAssumption
      DEF AsyncInv, AsyncTyped, AsyncTypeOK, Descriptors, OS_Close, LowerMaxFd, AsyncAssumption
    <2>2. forgotten' \in [Directions -> Nat]
      <3>1. \A d \in Directions : forgotten[d] \in Nat /\ Cardinality(Gone(d)) \in Nat
        BY <1>2 DEF AsyncInv, AsyncTyped
      <3>2. forgotten' = [d \in Directions |-> forgotten[d] + Cardinality(Gone(d))]
        BY DEF OS_Close
      <3> HIDE DEF Gone
      <3> QED
        BY <3>1, <3>2
    <2>3. /\ inUse' \subseteq Entries /\ fdSet' \subseteq Entries /\ fdSetPost' \subseteq Entries
          /\ ready' \subseteq Entries
      BY DEF AsyncInv, AsyncTyped, AsyncTypeOK, OS_Close, Given, WithoutPosted
    <2>4. /\ num' = num /\ table' = table /\ at' = at /\ asyncPc' = asyncPc
          /\ isOpen' \subseteq Descriptors /\ halfOpen' \subseteq isOpen'
      BY DEF AsyncInv, AsyncTyped, AsyncTypeOK, OS_Close
    <2> QED
      BY <2>1, <2>2, <2>3, <2>4 DEF AsyncInv, AsyncTyped, AsyncTypeOK
  <1>4. \A x \in fdSet' \cup fdSetPost' \cup inUse' :
          x \in Entries /\ x \in fdSet \cup fdSetPost \cup inUse /\ x[1] # fd
    BY <1>1 DEF AsyncInv, AsyncTyped, AsyncTypeOK, OS_Close, Given, WithoutPosted
  <1>5. InReach'
    <2> SUFFICES ASSUME NEW x \in fdSet' \cup fdSetPost' \cup inUse'
                 PROVE  x[1] <= maxFd' /\ Index(x) < table'
      BY DEF InReach
    <2>1. maxFd \in Int /\ fd \in Int /\ x[1] \in Int
      BY AsyncAssumption, <1>4
      DEF AsyncInv, AsyncTyped, AsyncTypeOK, Entries, Descriptors, AsyncAssumption
    <2>2. x[1] <= maxFd /\ Index(x) < table /\ x[1] # fd
      BY <1>4 DEF AsyncInv, InReach
    <2> QED
      BY <2>1, <2>2 DEF OS_Close, LowerMaxFd
  <1>6. UnusedEntries'
    BY <1>1, <1>4
    DEF AsyncInv, UnusedEntries, ShutRead, OS_Close, Given, WithoutPosted, AsyncTyped, AsyncTypeOK
  <1>7. CountersExact'
    <2> SUFFICES ASSUME NEW d \in Directions
                 PROVE  num'[d] = Cardinality(Posted(d)') + forgotten'[d]
      BY DEF CountersExact
    <2>1. num'[d] = num[d] /\ forgotten'[d] = forgotten[d] + Cardinality(Gone(d))
      BY DEF OS_Close
    <2>2. num[d] = Cardinality(Posted(d)) + forgotten[d] /\ forgotten[d] \in Nat
      BY DEF AsyncInv, AsyncTyped, CountersExact
    <2> QED
      BY <1>2, <2>1, <2>2
  <1>8. NeverBlocks' /\ (fdSetPost \subseteq ready)'
    BY DEF AsyncInv, NeverBlocks, OS_Close, WithoutPosted
  <1> QED
    BY <1>3, <1>5, <1>6, <1>7, <1>8 DEF AsyncInv

\* The receiving side is shut down.
LEMMA CloseReadStep ==
  ASSUME AsyncInv, NEW fd \in Descriptors, OS_CloseRead(fd) PROVE AsyncInv'
  <1> DEFINE r == <<fd, "rd">>
  <1>1. r \in Entries /\ r[1] = fd /\ r[2] = "rd" /\ ShutRead(r)'
    BY DEF Entries, Directions, OS_CloseRead, ShutRead
  <1>2. /\ inUse' = inUse \ {r} /\ fdSet' = (IF r \in inUse THEN fdSet \ {r} ELSE fdSet)
        /\ ready' = ready \cup {r} /\ halfOpen' = halfOpen \cup {fd} /\ fd \in isOpen
        /\ UNCHANGED <<table, fdSetPost, num, maxFd, asyncPc, at, isOpen, forgotten>>
    BY DEF OS_CloseRead
  <1> HIDE DEF r
  <1>3. AsyncTyped'
    BY <1>1, <1>2 DEF AsyncInv, AsyncTyped, AsyncTypeOK
  <1>4. InReach'
    BY <1>2 DEF AsyncInv, InReach
  <1>5. UnusedEntries'
    BY <1>1, <1>2 DEF AsyncInv, UnusedEntries, ShutRead
  <1>6. CountersExact' /\ NeverBlocks' /\ (fdSetPost \subseteq ready)'
    BY <1>2 DEF AsyncInv, CountersExact, Posted, NeverBlocks
  <1> QED
    BY <1>3, <1>4, <1>5, <1>6 DEF AsyncInv

\* A descriptor is opened.
LEMMA OpenStep ==
  ASSUME AsyncInv, NEW fd \in Descriptors, Open(fd) PROVE AsyncInv'
  BY DEF AsyncInv, AsyncTyped, AsyncTypeOK, InReach, UnusedEntries, ShutRead, CountersExact, Posted,
         NeverBlocks, Open

\* Only when nothing is posted does OS_DoIo select.
LEMMA NothingPosted ==
  ASSUME AsyncInv, Idle
  PROVE  fdSetPost = {} /\ \A d \in Directions : forgotten[d] = 0
  <1>1. ASSUME NEW d \in Directions PROVE Posted(d) = {} /\ forgotten[d] = 0
    <2>1. Posted(d) \in SUBSET Entries
      BY DEF AsyncInv, AsyncTyped, AsyncTypeOK, Posted
    <2>2. IsFiniteSet(Posted(d)) /\ Cardinality(Posted(d)) \in Nat
      BY <2>1, EntriesFinite
    <2>3. 0 = Cardinality(Posted(d)) + forgotten[d] /\ forgotten[d] \in Nat
      BY DEF AsyncInv, AsyncTyped, CountersExact, Idle, Zero
    <2>4. Cardinality(Posted(d)) = 0 /\ forgotten[d] = 0
      BY <2>2, <2>3
    <2> QED
      BY <2>2, <2>4, FS_EmptySet
  <1>2. \A e \in fdSetPost : e[2] \in Directions /\ e \in Posted(e[2])
    BY DEF AsyncInv, AsyncTyped, AsyncTypeOK, Entries, Posted
  <1> QED
    BY <1>1, <1>2

\* OS_DoIo selects, or goes on with what is posted.
LEMMA SelectStep ==
  ASSUME AsyncInv, Select PROVE AsyncInv'
  <1>1. at' \in Nat \X Directions /\ asyncPc' \in {"app", "loop"}
    BY DEF Select, Directions
  <1>2. UNCHANGED <<inUse, table, maxFd, isOpen, halfOpen, ready, forgotten>>
    BY DEF Select
  <1>3. CASE ~Idle
    <2>1. UNCHANGED <<num, fdSetPost, fdSet>>
      BY <1>3 DEF Select
    <2> QED
      BY <1>1, <1>2, <2>1
      DEF AsyncInv, AsyncTyped, AsyncTypeOK, InReach, UnusedEntries, ShutRead, CountersExact, Posted,
          NeverBlocks
  <1>4. CASE Idle
    <2>1. PICK found \in {fdSet \cap ready \cap InRange, {}} :
            /\ num' = [d \in Directions |-> Cardinality({e \in found : e[2] = d})]
            /\ fdSetPost' = fdSetPost \cup found
            /\ fdSet' = fdSet \ found
      BY <1>4 DEF Select
    <2>2. fdSetPost = {} /\ \A d \in Directions : forgotten[d] = 0
      BY <1>4, NothingPosted
    <2>3. found \subseteq fdSet /\ found \subseteq ready /\ found \subseteq Entries
      BY DEF AsyncInv, AsyncTyped
    <2>4. ASSUME NEW d \in Directions
          PROVE  num'[d] \in Int /\ num'[d] = Cardinality(Posted(d)')
      <3>1. Posted(d)' = {e \in found : e[2] = d}
        BY <2>1, <2>2 DEF Posted
      <3>2. {e \in found : e[2] = d} \in SUBSET Entries
        BY <2>3
      <3>3. Cardinality({e \in found : e[2] = d}) \in Nat
        BY <3>2, EntriesFinite
      <3> QED
        BY <2>1, <3>1, <3>3
    <2>5. num' \in [Directions -> Int]
      <3>1. num' = [d \in Directions |-> num'[d]]
        BY <2>1
      <3> QED
        BY <3>1, <2>4
    <2>6. AsyncTyped'
      BY <1>1, <1>2, <2>1, <2>3, <2>5 DEF AsyncInv, AsyncTyped, AsyncTypeOK
    <2>7. InReach'
      BY <1>2, <2>1, <2>3 DEF AsyncInv, InReach
    <2>8. UnusedEntries'
      BY <1>2, <2>1, <2>2, <2>3 DEF AsyncInv, UnusedEntries, ShutRead
    <2>9. CountersExact'
      BY <1>2, <2>2, <2>4 DEF CountersExact
    <2>10. NeverBlocks' /\ (fdSetPost \subseteq ready)'
      BY <1>1, <1>2, <2>1, <2>2, <2>3 DEF NeverBlocks
    <2> QED
      BY <2>6, <2>7, <2>8, <2>9, <2>10 DEF AsyncInv
  <1> QED
    BY <1>3, <1>4

\* What is performed was found ready.
LEMMA DispatchStep ==
  ASSUME AsyncInv, Dispatch PROVE AsyncInv'
  <1>1. at \in Entries /\ at \in fdSetPost /\ at \in inUse /\ at \in ready
        /\ at[2] \in Directions
    BY DEF AsyncInv, AsyncTyped, AsyncTypeOK, Dispatch, MustDispatch, Entries
  <1>2. /\ num' = [num EXCEPT ![at[2]] = @ - 1]
        /\ fdSetPost' = fdSetPost \ {at} /\ inUse' = inUse \ {at}
        /\ asyncPc' = "callback" /\ ready \ {at} \subseteq ready' /\ ready' \subseteq ready
        /\ UNCHANGED <<table, fdSet, maxFd, at, isOpen, halfOpen, forgotten>>
    BY <1>1 DEF Dispatch
  <1>3. num \in [Directions -> Int] /\ num' \in [Directions -> Int]
    BY <1>1, <1>2 DEF AsyncInv, AsyncTyped, AsyncTypeOK
  <1>4. AsyncTyped'
    BY <1>2, <1>3 DEF AsyncInv, AsyncTyped, AsyncTypeOK
  <1>5. InReach'
    BY <1>2 DEF AsyncInv, InReach
  <1>6. UnusedEntries'
    BY <1>1, <1>2 DEF AsyncInv, UnusedEntries, ShutRead
  <1>7. CountersExact'
    <2> SUFFICES ASSUME NEW d \in Directions
                 PROVE  num'[d] = Cardinality(Posted(d)') + forgotten'[d]
      BY DEF CountersExact
    <2>1. num[d] = Cardinality(Posted(d)) + forgotten[d] /\ forgotten'[d] = forgotten[d]
          /\ forgotten[d] \in Nat
      BY <1>2 DEF AsyncInv, AsyncTyped, CountersExact
    <2>2. Posted(d) \in SUBSET Entries
      BY DEF AsyncInv, AsyncTyped, AsyncTypeOK, Posted
    <2>3. IsFiniteSet(Posted(d)) /\ Cardinality(Posted(d)) \in Nat
      BY <2>2, EntriesFinite
    <2>4. Posted(d)' = Posted(d) \ {at}
      BY <1>2 DEF Posted
    <2>5. Cardinality(Posted(d) \ {at}) =
            IF at \in Posted(d) THEN Cardinality(Posted(d)) - 1 ELSE Cardinality(Posted(d))
      BY <2>3, FS_RemoveElement
    <2>6. at \in Posted(d) <=> d = at[2]
      BY <1>1 DEF Posted
    <2>7. num'[d] = IF d = at[2] THEN num[d] - 1 ELSE num[d]
      BY <1>2, <1>3
    <2> QED
      BY <2>1, <2>3, <2>4, <2>5, <2>6, <2>7
  <1>8. NeverBlocks' /\ (fdSetPost \subseteq ready)'
    BY <1>2 DEF AsyncInv, NeverBlocks
  <1> QED
    BY <1>4, <1>5, <1>6, <1>7, <1>8 DEF AsyncInv

\* The loop goes on, or ends.
LEMMA LoopStep ==
  ASSUME AsyncInv, Return \/ PassOver \/ LoopEnds PROVE AsyncInv'
  <1>1. UNCHANGED <<inUse, table, fdSet, fdSetPost, num, maxFd, isOpen, halfOpen, ready,
                    forgotten>>
    BY DEF Return, PassOver, LoopEnds
  <1>2. asyncPc' \in {"app", "loop"}
    BY DEF Return, PassOver, LoopEnds
  <1>3. at' \in Nat \X Directions
    <2>1. at[1] \in Nat /\ <<0, "rd">> \in Nat \X Directions
      BY DEF AsyncInv, AsyncTyped, Directions
    <2>2. After(at) \in Nat \X Directions
      BY <2>1 DEF After, Directions
    <2> QED
      BY <2>1, <2>2 DEF Return, PassOver, LoopEnds
  <1> QED
    BY <1>1, <1>2, <1>3
    DEF AsyncInv, AsyncTyped, AsyncTypeOK, InReach, UnusedEntries, ShutRead, CountersExact, Posted,
        NeverBlocks

\* A descriptor becomes ready.
LEMMA BecomesStep ==
  ASSUME AsyncInv, NEW e \in Entries, Becomes(e) PROVE AsyncInv'
  BY DEF AsyncInv, AsyncTyped, AsyncTypeOK, InReach, UnusedEntries, ShutRead, CountersExact, Posted,
         NeverBlocks, Becomes

\* The invariant says that an operation has one state.
LEMMA InvSound == AsyncInv => DoIoSound
  <1> SUFFICES ASSUME AsyncInv PROVE DoIoSound
    OBVIOUS
  <1>1. OneState
    BY DEF AsyncInv, UnusedEntries, ShutRead, OneState
  <1> QED
    BY <1>1 DEF DoIoSound, AsyncInv, AsyncTyped

\* The table, the sets and the counters of OS_DoIo agree on what is waited for,
\* what is posted and what is closed, through everything callbacks do, and
\* OS_DoIo never performs what would block.
THEOREM DoIoCorrectness == AsyncSafety => []DoIoSound
  <1>1. ASSUME AsyncInv, [AsyncNext]_asyncVars PROVE AsyncInv'
    <2>1. CASE UNCHANGED asyncVars
      BY <1>1, <2>1
      DEF asyncVars, AsyncInv, AsyncTyped, AsyncTypeOK, InReach, UnusedEntries, ShutRead, CountersExact,
          Posted, NeverBlocks
    <2>2. CASE AsyncNext
      BY <1>1, <2>2, AsyncStep, CloseStep, CloseReadStep, OpenStep, SelectStep,
         DispatchStep, LoopStep, BecomesStep
      DEF AsyncNext, Application, DoIo
    <2> QED
      BY <1>1, <2>1, <2>2
  <1> QED
    BY <1>1, AsyncInitInv, InvSound, PTL DEF AsyncSafety

---------------------------------------------------------------------------
(***************************************************************************)
(* UnixIpc.                                                                *)
(***************************************************************************)

UnixIpcSafety == UnixIpcInit /\ [][UnixIpcNext]_unixIpcVars

Objects == [is : {"closed", "terminal", "listener", "link"}, of : Nat]
IpcTyped ==
  /\ state \in [IpcProcesses -> {"running", "exited"}]
  /\ fds \in [IpcProcesses -> [Fds -> Objects]]
  /\ held \in [IpcProcesses -> SUBSET Fds]
  /\ sockets \in Seq(BindPaths)
  /\ files \in [Names -> Nat]

UnixIpcInv == IpcTyped /\ UnixIpcTypeOK /\ DescriptorsOwned

\* The descriptor the system gives is the least unused one.
LEMMA NewFdFacts ==
  ASSUME IpcTyped, NEW p \in IpcProcesses, Unused(p) # {}
  PROVE  NewFd(p) \in Fds /\ fds[p][NewFd(p)] = Closed
  <1>1. Unused(p) \in SUBSET Nat
    BY IpcAssumption DEF Unused, Fds
  <1>2. \E x \in Unused(p) : \A y \in Unused(p) : x <= y
    BY <1>1, LeastExists
  <1>3. NewFd(p) \in Unused(p)
    BY <1>2 DEF NewFd, Min
  <1> QED
    BY <1>3 DEF Unused

\* A set of numbers that is bounded has a greatest.
LEMMA GreatestExists ==
  ASSUME NEW n \in Nat, NEW S \in SUBSET (0..n), S # {}
  PROVE  Max(S) \in S
  <1> DEFINE D == {k \in 0..n : n - k \in S}
  <1>1. D \in SUBSET Nat
    OBVIOUS
  <1>2. D # {}
    <2>1. PICK x \in S : TRUE
      OBVIOUS
    <2>2. x \in 0..n
      OBVIOUS
    <2>3. n - x \in 0..n /\ n - (n - x) = x
      BY <2>2
    <2> QED
      BY <2>1, <2>3
  <1>3. PICK k \in D : \A j \in D : k <= j
    <2> HIDE DEF D
    <2> QED
      BY <1>1, <1>2, LeastExists
  <1>4. k \in 0..n /\ n - k \in S
    OBVIOUS
  <1>5. ASSUME NEW y \in S PROVE n - k >= y
    <2>1. y \in 0..n
      OBVIOUS
    <2>2. n - y \in 0..n /\ n - (n - y) = y
      BY <2>1
    <2>3. n - y \in D
      BY <2>2
    <2>4. k <= n - y
      BY <1>3, <2>3
    <2> QED
      BY <1>4, <2>1, <2>4
  <1>6. \E x \in S : \A y \in S : x >= y
    BY <1>4, <1>5
  <1> QED
    BY <1>6 DEF Max

\* The kinds of objects differ.
LEMMA ObjectFacts ==
  /\ Closed \in Objects /\ Terminal \in Objects /\ Link \in Objects
  /\ \A i \in Nat : Listener(i) \in Objects /\ Listener(i).is = "listener"
                    /\ Listener(i).of = i /\ Listener(i) # Closed
  /\ Closed.is = "closed" /\ Terminal.is = "terminal" /\ Link.is = "link"
  BY DEF Closed, Terminal, Link, Listener, Objects

---------------------------------------------------------------------------
\* The table of a process after exit, and after a call that gives a descriptor.
LEMMA ExitInv ==
  ASSUME UnixIpcInv, NEW p \in IpcProcesses, Exit(p), sockets' = sockets,
         files' \in [Names -> Nat], \A n \in Names : files'[n] \in 0..Len(sockets)
  PROVE  UnixIpcInv'
  <1>1. /\ state' = [state EXCEPT ![p] = "exited"]
        /\ fds' = [fds EXCEPT ![p] = AllClosed]
        /\ held' = [held EXCEPT ![p] = {}]
    BY DEF Exit, Closing
  <1>2. AllClosed \in [Fds -> Objects] /\ \A d \in Fds : AllClosed[d] = Closed
    BY ObjectFacts DEF AllClosed
  <1>3. IpcTyped'
    BY <1>1, <1>2 DEF UnixIpcInv, IpcTyped
  <1>4. UnixIpcTypeOK'
    BY <1>1, <1>2, ObjectFacts DEF UnixIpcInv, IpcTyped, UnixIpcTypeOK
  <1>5. DescriptorsOwned'
    BY <1>1, <1>2 DEF UnixIpcInv, IpcTyped, DescriptorsOwned
  <1> QED
    BY <1>3, <1>4, <1>5 DEF UnixIpcInv

LEMMA GivesInv ==
  ASSUME UnixIpcInv, NEW p \in IpcProcesses, NEW d \in Fds, NEW object \in Objects,
         Gives(p, d, object), state[p] = "running", state' = state,
         sockets' \in Seq(BindPaths), Len(sockets) <= Len(sockets'),
         object.is = "listener" => object.of \in DOMAIN sockets',
         files' \in [Names -> Nat], \A n \in Names : files'[n] \in 0..Len(sockets')
  PROVE  UnixIpcInv'
  <1>1. /\ fds' = [fds EXCEPT ![p][d] = object]
        /\ held' = [held EXCEPT ![p] = held[p] \cup {d}]
    BY DEF Gives, UnixIpcInv, IpcTyped
  <1>2. IpcTyped'
    BY <1>1 DEF UnixIpcInv, IpcTyped
  <1>3. /\ \A q \in IpcProcesses, e \in Fds :
             fds'[q][e] = IF q = p /\ e = d THEN object ELSE fds[q][e]
        /\ \A q \in IpcProcesses : held'[q] = IF q = p THEN held[q] \cup {d} ELSE held[q]
    BY <1>1 DEF UnixIpcInv, IpcTyped
  <1>4. DOMAIN sockets \subseteq DOMAIN sockets'
    BY DEF UnixIpcInv, IpcTyped
  <1>5. UnixIpcTypeOK'
    BY <1>2, <1>3, <1>4 DEF UnixIpcInv, IpcTyped, UnixIpcTypeOK
  <1>6. DescriptorsOwned'
    BY <1>3 DEF UnixIpcInv, DescriptorsOwned
  <1> QED
    BY <1>2, <1>5, <1>6 DEF UnixIpcInv

\* Appending a socket.
LEMMA AppendSocket ==
  ASSUME IpcTyped, NEW b \in BindPaths
  PROVE  LET s == Append(sockets, b)
         IN  /\ s \in Seq(BindPaths) /\ Len(s) = Len(sockets) + 1
             /\ s[Len(sockets) + 1] = b
             /\ \A i \in 1..Len(sockets) : s[i] = sockets[i]
             /\ Len(sockets) \in Nat
  BY DEF IpcTyped

\* What is bound to the paths after unlink, and after bind.
LEMMA PathFacts ==
  ASSUME UnixIpcInv, NEW b \in BindPaths
  PROVE  /\ b.name \in Names /\ Len(sockets) \in Nat
         /\ Unlinked(b) \in [Names -> Nat]
         /\ \A n \in Names : Unlinked(b)[n] \in 0..Len(sockets)
         /\ b.family = "unix" => Unlinked(b)[b.name] = 0
         /\ AfterBind(b) \in [Names -> Nat]
         /\ \A n \in Names : AfterBind(b)[n] \in 0..(Len(sockets) + 1)
         /\ AfterBind(b)[b.name] = Len(sockets) + 1
  <1>1. b.name \in Names
    BY DEF Names
  <1>2. /\ Len(sockets) \in Nat /\ files \in [Names -> Nat]
        /\ \A n \in Names : files[n] \in 0..Len(sockets)
    BY DEF UnixIpcInv, IpcTyped, UnixIpcTypeOK
  <1>3. /\ Unlinked(b) \in [Names -> Nat]
        /\ \A n \in Names : Unlinked(b)[n] \in 0..Len(sockets)
        /\ b.family = "unix" => Unlinked(b)[b.name] = 0
    BY <1>1, <1>2 DEF Unlinked
  <1>4. /\ AfterBind(b) \in [Names -> Nat]
        /\ \A n \in Names : AfterBind(b)[n] =
             IF n = b.name THEN Len(sockets) + 1 ELSE Unlinked(b)[n]
    BY <1>1, <1>2, <1>3 DEF AfterBind
  <1> QED
    BY <1>1, <1>2, <1>3, <1>4

\* OS_CreateLocalIpcFd.
LEMMA CreateInv ==
  ASSUME UnixIpcInv, NEW p \in IpcProcesses, NEW b \in BindPaths,
         CreateLocalIpcFd(p, b)
  PROVE  UnixIpcInv'
  <1>1. CASE CreateFails(p, b)
    <2>1. Exit(p) /\ sockets' = sockets /\ (files' = files \/ files' = Unlinked(b))
      BY <1>1 DEF CreateFails
    <2>2. /\ files' \in [Names -> Nat]
          /\ \A n \in Names : files'[n] \in 0..Len(sockets)
      BY <2>1, PathFacts DEF UnixIpcInv, IpcTyped, UnixIpcTypeOK
    <2> QED
      BY <2>1, <2>2, ExitInv
  <1>2. CASE ~CreateFails(p, b)
    <2>1. /\ state[p] = "running" /\ Unused(p) # {}
          /\ Gives(p, NewFd(p), Listener(Len(sockets) + 1))
          /\ sockets' = Append(sockets, b) /\ state' = state
          /\ files' = IF b.family = "unix" THEN AfterBind(b) ELSE files
      BY <1>2 DEF CreateLocalIpcFd
    <2>2. NewFd(p) \in Fds
      BY <2>1, NewFdFacts DEF UnixIpcInv
    <2>3. /\ sockets' \in Seq(BindPaths) /\ Len(sockets') = Len(sockets) + 1
          /\ Len(sockets) \in Nat
      BY <2>1, AppendSocket DEF UnixIpcInv
    <2>4. /\ files' \in [Names -> Nat]
          /\ \A n \in Names : files'[n] \in 0..Len(sockets')
      <3>1. CASE b.family = "unix"
        BY <2>1, <2>3, <3>1, PathFacts
      <3>2. CASE b.family # "unix"
        BY <2>1, <2>3, <3>2 DEF UnixIpcInv, IpcTyped, UnixIpcTypeOK
      <3> QED
        BY <3>1, <3>2
    <2>5. /\ Listener(Len(sockets) + 1) \in Objects
          /\ Listener(Len(sockets) + 1).of = Len(sockets) + 1
      BY <2>3, ObjectFacts
    <2>6. Len(sockets) + 1 \in DOMAIN sockets' /\ Len(sockets) <= Len(sockets')
      BY <2>3
    <2> QED
      BY <2>1, <2>2, <2>3, <2>4, <2>5, <2>6, GivesInv
  <1> QED
    BY <1>1, <1>2

\* OS_FcgiConnect: a refused connection leaves no descriptor.
LEMMA ConnectInv ==
  ASSUME UnixIpcInv, NEW p \in IpcProcesses, NEW b \in BindPaths, FcgiConnect(p, b)
  PROVE  UnixIpcInv'
  <1>1. sockets' = sockets /\ files' = files /\ state[p] = "running"
    BY DEF FcgiConnect
  <1>2. /\ files \in [Names -> Nat] /\ \A n \in Names : files[n] \in 0..Len(sockets)
        /\ sockets \in Seq(BindPaths) /\ Len(sockets) \in Nat
    BY DEF UnixIpcInv, IpcTyped, UnixIpcTypeOK
  <1>3. CASE Exit(p)
    BY <1>1, <1>2, <1>3, ExitInv
  <1>4. CASE Unused(p) # {} /\ Gives(p, NewFd(p), Link) /\ state' = state
    <2>1. NewFd(p) \in Fds
      BY <1>4, NewFdFacts DEF UnixIpcInv
    <2> QED
      BY <1>1, <1>2, <1>4, <2>1, ObjectFacts, GivesInv
  <1>5. CASE /\ fds' = [fds EXCEPT ![p] = AfterRefusedConnect(@, NewFd(p))]
             /\ UNCHANGED <<state, held>>
    <2>1. fds' = fds
      BY <1>5 DEF AfterRefusedConnect, UnixIpcInv, IpcTyped
    <2> QED
      BY <1>1, <1>5, <2>1 DEF UnixIpcInv, IpcTyped, UnixIpcTypeOK, DescriptorsOwned
  <1> QED
    BY <1>3, <1>4, <1>5 DEF FcgiConnect

\* What a child has: the listener as its standard input, and what else its parent
\* had.
LEMMA ChildTableFacts ==
  ASSUME NEW t \in [Fds -> Objects], NEW d \in Fds, t[d].is = "listener"
  PROVE  LET c == ChildTable(t, d)
         IN  /\ c \in [Fds -> Objects]
             /\ c[1] = Closed /\ c[2] = Closed
             /\ c[0] = IF d = 0 THEN Closed ELSE t[d]
             /\ \A e \in Fds \ {0, 1, 2} : c[e] = IF e = d THEN Closed ELSE t[e]
  <1>1. {0, 1, 2} \subseteq Fds /\ t[d] # Closed
    BY IpcAssumption, ObjectFacts DEF Fds
  <1> DEFINE input == Without(t, 0)
             placed == IF d = 0 THEN input ELSE Moved(input, d)
  <1>2. /\ input \in [Fds -> Objects] /\ input[0] = Closed
        /\ \A e \in Fds \ {0} : input[e] = t[e]
    BY <1>1, ObjectFacts DEF Without
  <1>3. /\ placed \in [Fds -> Objects]
        /\ placed[0] = IF d = 0 THEN Closed ELSE t[d]
        /\ \A e \in Fds \ {0} : placed[e] = IF e = d THEN Closed ELSE t[e]
    <2> HIDE DEF input
    <2>1. CASE d = 0
      BY <1>2, <2>1
    <2>2. CASE d # 0
      <3>1. placed = [input EXCEPT ![0] = input[d], ![d] = Closed] /\ input[d] = t[d]
        BY <1>1, <1>2, <2>2 DEF Moved
      <3> HIDE DEF placed
      <3> QED
        BY <1>1, <1>2, <2>2, <3>1, ObjectFacts
    <2> QED
      BY <2>1, <2>2
  <1>4. ChildTable(t, d) = Without(Without(placed, 1), 2)
    BY DEF ChildTable
  <1> HIDE DEF placed
  <1> QED
    BY <1>1, <1>3, <1>4, ObjectFacts DEF Without

\* What the step of a successful OS_SpawnChild is.
Spawns(p, d, c) ==
  /\ state[c] # "running" /\ state' = [state EXCEPT ![c] = "running"]
  /\ fds' = [fds EXCEPT ![c] = ChildTable(fds[p], d)]
  /\ held' = [held EXCEPT ![c] = (held[p] \ {1, 2, d}) \cup {0}]

LEMMA SpawnInv ==
  ASSUME UnixIpcInv, NEW p \in IpcProcesses, NEW d \in Fds, SpawnChild(p, d)
  PROVE  UnixIpcInv'
  <1>1. sockets' = sockets /\ files' = files /\ state[p] = "running"
        /\ fds[p][d].is = "listener"
    BY DEF SpawnChild
  <1>2. /\ files \in [Names -> Nat] /\ \A n \in Names : files[n] \in 0..Len(sockets)
    BY DEF UnixIpcInv, IpcTyped, UnixIpcTypeOK
  <1>3. CASE Exit(p)
    BY <1>1, <1>2, <1>3, ExitInv
  <1>4. ASSUME NEW c \in IpcProcesses, Spawns(p, d, c) PROVE UnixIpcInv'
    <2>1. /\ state' = [state EXCEPT ![c] = "running"]
          /\ fds' = [fds EXCEPT ![c] = ChildTable(fds[p], d)]
          /\ held' = [held EXCEPT ![c] = (held[p] \ {1, 2, d}) \cup {0}]
      BY <1>4 DEF Spawns
    <2>2. fds[p] \in [Fds -> Objects] /\ held[p] \subseteq Fds /\ {0, 1, 2} \subseteq Fds
      BY IpcAssumption DEF UnixIpcInv, IpcTyped, Fds
    <2> DEFINE t == ChildTable(fds[p], d)
    <2>3. /\ t \in [Fds -> Objects]
          /\ t[1] = Closed /\ t[2] = Closed
          /\ t[0] = IF d = 0 THEN Closed ELSE fds[p][d]
          /\ \A e \in Fds \ {0, 1, 2} : t[e] = IF e = d THEN Closed ELSE fds[p][e]
      BY <1>1, <2>2, ChildTableFacts
    <2> HIDE DEF t
    <2>4. fds' = [fds EXCEPT ![c] = t]
      BY <2>1 DEF t
    <2>5. IpcTyped'
      BY <1>1, <2>1, <2>2, <2>3, <2>4 DEF UnixIpcInv, IpcTyped
    <2>6. \A e \in Fds : t[e].is = "listener" => t[e].of \in DOMAIN sockets
      BY <2>2, <2>3, ObjectFacts DEF UnixIpcInv, UnixIpcTypeOK
    <2>7. UnixIpcTypeOK'
      BY <1>1, <2>1, <2>4, <2>5, <2>6 DEF UnixIpcInv, IpcTyped, UnixIpcTypeOK
    <2>8. \A e \in Fds : t[e] # Closed => e \in (held[p] \ {1, 2, d}) \cup {0}
      BY <2>2, <2>3 DEF UnixIpcInv, DescriptorsOwned
    <2>9. DescriptorsOwned'
      BY <2>1, <2>4, <2>8 DEF UnixIpcInv, IpcTyped, DescriptorsOwned
    <2> QED
      BY <2>5, <2>7, <2>9 DEF UnixIpcInv
  <1>5. ASSUME NEW c \in IpcProcesses, state[c] # "running",
               state' = [state EXCEPT ![c] = "exited"], UNCHANGED <<fds, held>>
        PROVE  UnixIpcInv'
    BY <1>1, <1>5 DEF UnixIpcInv, IpcTyped, UnixIpcTypeOK, DescriptorsOwned
  <1> QED
    BY <1>3, <1>4, <1>5 DEF SpawnChild, Spawns

---------------------------------------------------------------------------
LEMMA UnixIpcInitInv == UnixIpcInit => UnixIpcInv
  <1> SUFFICES ASSUME UnixIpcInit PROVE UnixIpcInv
    OBVIOUS
  <1>1. PICK p \in IpcProcesses, t \in {AllClosed, Standard} :
          /\ state = [q \in IpcProcesses |-> IF q = p THEN "running" ELSE "exited"]
          /\ fds = [q \in IpcProcesses |-> IF q = p THEN t ELSE AllClosed]
          /\ held = [q \in IpcProcesses |->
                       IF q = p THEN {d \in Fds : t[d] # Closed} ELSE {}]
    BY DEF UnixIpcInit
  <1>2. sockets = <<>> /\ files = [n \in Names |-> 0]
    BY DEF UnixIpcInit
  <1>3. /\ t \in [Fds -> Objects] /\ AllClosed \in [Fds -> Objects]
        /\ \A d \in Fds : AllClosed[d] = Closed /\ t[d].is # "listener"
    BY ObjectFacts DEF AllClosed, Standard
  <1>4. IpcTyped
    BY <1>1, <1>2, <1>3 DEF IpcTyped
  <1>5. UnixIpcTypeOK
    BY <1>1, <1>2, <1>3, ObjectFacts DEF UnixIpcTypeOK
  <1>6. DescriptorsOwned
    BY <1>1, <1>3 DEF DescriptorsOwned
  <1> QED
    BY <1>4, <1>5, <1>6 DEF UnixIpcInv

LEMMA UnixIpcInvStep == UnixIpcInv /\ [UnixIpcNext]_unixIpcVars => UnixIpcInv'
  <1> SUFFICES ASSUME UnixIpcInv, [UnixIpcNext]_unixIpcVars PROVE UnixIpcInv'
    OBVIOUS
  <1>0. /\ files \in [Names -> Nat] /\ \A n \in Names : files[n] \in 0..Len(sockets)
    BY DEF UnixIpcInv, IpcTyped, UnixIpcTypeOK
  <1>1. ASSUME NEW p \in IpcProcesses, Crash(p) PROVE UnixIpcInv'
    BY <1>0, <1>1, ExitInv DEF Crash
  <1>2. ASSUME NEW p \in IpcProcesses, Start(p) PROVE UnixIpcInv'
    <2>1. /\ state' = [state EXCEPT ![p] = "running"]
          /\ fds' = [fds EXCEPT ![p] = Standard]
          /\ held' = [held EXCEPT ![p] = {0, 1, 2}]
          /\ UNCHANGED <<sockets, files>>
      BY <1>2 DEF Start
    <2>2. /\ Standard \in [Fds -> Objects] /\ {0, 1, 2} \subseteq Fds
          /\ \A d \in Fds : Standard[d].is # "listener"
          /\ \A d \in Fds : Standard[d] # Closed => d \in {0, 1, 2}
      BY ObjectFacts, IpcAssumption DEF Standard, Fds
    <2>3. IpcTyped'
      BY <2>1, <2>2 DEF UnixIpcInv, IpcTyped
    <2>4. UnixIpcTypeOK'
      BY <2>1, <2>2 DEF UnixIpcInv, IpcTyped, UnixIpcTypeOK
    <2>5. DescriptorsOwned'
      BY <2>1, <2>2 DEF UnixIpcInv, IpcTyped, DescriptorsOwned
    <2> QED
      BY <2>3, <2>4, <2>5 DEF UnixIpcInv
  <1>3. ASSUME NEW p \in IpcProcesses, NEW d \in Fds, IpcClose(p, d)
        PROVE  UnixIpcInv'
    <2>1. /\ fds' = [fds EXCEPT ![p][d] = Closed]
          /\ held' = [held EXCEPT ![p] = held[p] \ {d}]
          /\ UNCHANGED <<state, sockets, files>>
      BY <1>3 DEF IpcClose, UnixIpcInv, IpcTyped
    <2>2. IpcTyped'
      BY <2>1, ObjectFacts DEF UnixIpcInv, IpcTyped
    <2>3. /\ \A q \in IpcProcesses, e \in Fds :
               fds'[q][e] = IF q = p /\ e = d THEN Closed ELSE fds[q][e]
          /\ \A q \in IpcProcesses :
               held'[q] = IF q = p THEN held[q] \ {d} ELSE held[q]
      BY <2>1 DEF UnixIpcInv, IpcTyped
    <2>4. UnixIpcTypeOK'
      BY <2>1, <2>2, <2>3, ObjectFacts DEF UnixIpcInv, IpcTyped, UnixIpcTypeOK
    <2>5. DescriptorsOwned'
      BY <2>3 DEF UnixIpcInv, DescriptorsOwned
    <2> QED
      BY <2>2, <2>4, <2>5 DEF UnixIpcInv
  <1>4. CASE UNCHANGED unixIpcVars
    BY <1>4 DEF unixIpcVars, UnixIpcInv, IpcTyped, UnixIpcTypeOK, DescriptorsOwned
  <1> QED
    BY <1>1, <1>2, <1>3, <1>4, CreateInv, ConnectInv, SpawnInv DEF UnixIpcNext

---------------------------------------------------------------------------
\* A child that starts to run was spawned for the listener its parent named.
LEMMA SpawnedFor ==
  ASSUME UnixIpcInv, NEW c \in IpcProcesses, state[c] # "running",
         state'[c] = "running", NEW p \in IpcProcesses, NEW d \in Fds \ {0},
         SpawnChild(p, d)
  PROVE  /\ fds'[c][0] = fds[p][d] /\ fds'[c][1] = Closed /\ fds'[c][2] = Closed
         /\ \A e \in Fds \ {0, 1, 2, d} : fds'[c][e] = fds[p][e]
  <1>1. state \in [IpcProcesses -> {"running", "exited"}]
        /\ fds \in [IpcProcesses -> [Fds -> Objects]]
    BY DEF UnixIpcInv, IpcTyped
  <1>2. ~Exit(p)
    BY <1>1 DEF Exit
  <1>3. PICK k \in IpcProcesses :
          \/ Spawns(p, d, k)
          \/ state[k] # "running" /\ state' = [state EXCEPT ![k] = "exited"]
    BY <1>2 DEF SpawnChild, Spawns
  <1>4. Spawns(p, d, k)
    BY <1>1, <1>3
  <1>5. k = c
    BY <1>1, <1>4 DEF Spawns
  <1>6. fds'[c] = ChildTable(fds[p], d)
    BY <1>1, <1>4, <1>5 DEF Spawns
  <1>7. fds[p] \in [Fds -> Objects] /\ fds[p][d].is = "listener"
    BY <1>1 DEF SpawnChild
  <1> QED
    BY <1>6, <1>7, ChildTableFacts

\* An address in use is that of a socket on which a running process listens.
LEMMA RefusedForCause ==
  ASSUME UnixIpcInv, UnixIpcNext, NEW p \in IpcProcesses, p \in refused' \ refused
  PROVE  \E b \in BindPaths : b.family = "inet" /\ \E i \in DOMAIN sockets :
           sockets[i] = b /\ Listening(i)
  <1>1. PICK q \in IpcProcesses, b \in BindPaths :
          CreateFails(q, b) /\ ~CreateFault(b) /\ b.fault = "none" /\ InUse(b)
    <2>1. PICK q \in IpcProcesses :
            \/ Crash(q) \/ Start(q)
            \/ \E b \in BindPaths : CreateLocalIpcFd(q, b) \/ FcgiConnect(q, b)
            \/ \E d \in Fds : SpawnChild(q, d) \/ IpcClose(q, d)
      BY DEF UnixIpcNext
    <2>2. PICK b \in BindPaths : CreateLocalIpcFd(q, b)
      BY <2>1 DEF Crash, Start, FcgiConnect, SpawnChild, IpcClose
    <2>3. CreateFails(q, b)
      BY <2>2 DEF CreateLocalIpcFd
    <2> QED
      BY <2>3 DEF CreateFails
  <1>2. b.family = "inet"
    BY <1>1, PathFacts, IpcAssumption DEF InUse
  <1>3. Behind(b) # 0
    BY <1>1, <1>2 DEF InUse
  <1> DEFINE found == {i \in DOMAIN sockets : sockets[i] = b /\ Listening(i)}
  <1>4. Behind(b) = IF found = {} THEN 0 ELSE Max(found)
    BY <1>2 DEF Behind
  <1>5. found # {}
    BY <1>3, <1>4
  <1>6. PICK i \in DOMAIN sockets : sockets[i] = b /\ Listening(i)
    BY <1>5
  <1> QED
    BY <1>2, <1>6

\* The only step that creates a socket is OS_CreateLocalIpcFd.
LEMMA CreatedBy ==
  ASSUME UnixIpcInv, UnixIpcNext, NEW b \in BindPaths, sockets' = Append(sockets, b)
  PROVE  \E p \in IpcProcesses :
           /\ Unused(p) # {} /\ ~InUse(b)
           /\ Gives(p, NewFd(p), Listener(Len(sockets) + 1))
           /\ files' = IF b.family = "unix" THEN AfterBind(b) ELSE files
  <1>1. sockets \in Seq(BindPaths)
    BY DEF UnixIpcInv, IpcTyped
  <1>2. sockets' # sockets
    BY <1>1, AppendSocket DEF UnixIpcInv
  <1>3. PICK p \in IpcProcesses :
            \/ Crash(p) \/ Start(p)
            \/ \E a \in BindPaths : CreateLocalIpcFd(p, a) \/ FcgiConnect(p, a)
            \/ \E d \in Fds : SpawnChild(p, d) \/ IpcClose(p, d)
    BY DEF UnixIpcNext
  <1>4. PICK a \in BindPaths : CreateLocalIpcFd(p, a)
    BY <1>2, <1>3 DEF Crash, Start, FcgiConnect, SpawnChild, IpcClose
  <1>5. /\ Unused(p) # {} /\ ~InUse(a)
        /\ Gives(p, NewFd(p), Listener(Len(sockets) + 1))
        /\ sockets' = Append(sockets, a)
        /\ files' = IF a.family = "unix" THEN AfterBind(a) ELSE files
    BY <1>2, <1>4 DEF CreateLocalIpcFd, CreateFails
  <1>6. a = b
    BY <1>5, AppendSocket DEF UnixIpcInv
  <1> QED
    BY <1>5, <1>6

\* Who listens after a listener was given: who did before, and the new one.
LEMMA ListeningAfter ==
  ASSUME UnixIpcInv, NEW p \in IpcProcesses, NEW n \in Nat, Unused(p) # {},
         Gives(p, NewFd(p), Listener(n))
  PROVE  /\ Listening(n)'
         /\ \A i \in Nat : i # n => (Listening(i)' <=> Listening(i))
  <1>1. NewFd(p) \in Fds /\ fds[p][NewFd(p)] = Closed
    BY NewFdFacts DEF UnixIpcInv
  <1> DEFINE d == NewFd(p)
  <1>2. \A q \in IpcProcesses, e \in Fds :
          fds'[q][e] = IF q = p /\ e = d THEN Listener(n) ELSE fds[q][e]
    <2>1. fds' = [fds EXCEPT ![p][d] = Listener(n)]
      BY DEF Gives
    <2> HIDE DEF d
    <2> QED
      BY <2>1 DEF UnixIpcInv, IpcTyped
  <1> HIDE DEF d
  <1>3. d \in Fds /\ fds[p][d] = Closed
    BY <1>1 DEF d
  <1>4. \A i \in Nat : Listener(i) # Closed
    BY ObjectFacts
  <1>5. \A i \in Nat : i # n => Listener(i) # Listener(n)
    BY ObjectFacts
  <1> QED
    BY <1>2, <1>3, <1>4, <1>5 DEF Listening

\* Clients get to the socket that was created last.
LEMMA ReachedAfter ==
  ASSUME UnixIpcInv, UnixIpcNext, NEW b \in BindPaths, sockets' = Append(sockets, b)
  PROVE  Behind(b)' = Len(sockets') /\ Listening(Behind(b))'
  <1>0. PICK n \in Nat : n = Len(sockets) + 1
    BY AppendSocket DEF UnixIpcInv
  <1>1. PICK p \in IpcProcesses :
           /\ Unused(p) # {} /\ ~InUse(b)
           /\ Gives(p, NewFd(p), Listener(n))
           /\ files' = IF b.family = "unix" THEN AfterBind(b) ELSE files
    BY <1>0, CreatedBy
  <1>2. /\ sockets' \in Seq(BindPaths) /\ Len(sockets') = n /\ sockets'[n] = b
        /\ \A i \in 1..Len(sockets) : sockets'[i] = sockets[i]
        /\ Len(sockets) \in Nat /\ n # 0
    BY <1>0, AppendSocket DEF UnixIpcInv
  <1>3. Listening(n)' /\ \A i \in Nat : i # n => (Listening(i)' <=> Listening(i))
    BY <1>1, <1>2, ListeningAfter
  <1> DEFINE found == IF b.family = "unix" THEN {files'[b.name]} \ {0}
                      ELSE {i \in DOMAIN sockets' : sockets'[i] = b /\ Listening(i)'}
  <1>4. found = {n}
    <2>1. CASE b.family = "unix"
      <3>1. files'[b.name] = n
        BY <1>0, <1>1, <2>1, PathFacts
      <3> QED
        BY <1>2, <2>1, <3>1
    <2>2. CASE b.family # "unix"
      <3>1. Behind(b) = 0
        BY <1>1, <2>2 DEF InUse
      <3> DEFINE before == {i \in DOMAIN sockets : sockets[i] = b /\ Listening(i)}
      <3>2. before = {}
        <4>1. Behind(b) = IF before = {} THEN 0 ELSE Max(before)
          BY <2>2 DEF Behind
        <4>2. before \in SUBSET (0..Len(sockets)) /\ 0 \notin before
          BY DEF UnixIpcInv, IpcTyped
        <4> HIDE DEF before
        <4> QED
          BY <1>2, <3>1, <4>1, <4>2, GreatestExists
      <3>3. DOMAIN sockets' = 1..n /\ DOMAIN sockets = 1..Len(sockets)
            /\ 1..n = 1..Len(sockets) \cup {n} /\ 1..Len(sockets) \subseteq Nat
            /\ n \notin 1..Len(sockets)
        BY <1>0, <1>2 DEF UnixIpcInv, IpcTyped
      <3>4. \A i \in 1..Len(sockets) : ~(sockets'[i] = b /\ Listening(i)')
        BY <1>2, <1>3, <3>2, <3>3
      <3> QED
        BY <1>2, <1>3, <2>2, <3>3, <3>4
    <2> QED
      BY <2>1, <2>2
  <1>5. Behind(b)' = IF found = {} THEN 0 ELSE Max(found)
    BY DEF Behind
  <1> HIDE DEF found
  <1>6. Max(found) = n
    BY <1>2, <1>4 DEF Max
  <1>7. Behind(b)' = n
    BY <1>4, <1>5, <1>6
  <1> QED
    BY <1>2, <1>3, <1>7 DEF Listening

\* A process has the descriptors it was given and none more, a child the listener
\* it was spawned for, a client the server that listened last, and a server that
\* is started again its address (os_unix.c: OS_CreateLocalIpcFd, OS_FcgiConnect,
\* OS_SpawnChild).
THEOREM ListenersReachedCorrectness == UnixIpcSafety => ListenersReached
  <1>1. UnixIpcInv => UnixIpcTypeOK /\ DescriptorsOwned
    BY DEF UnixIpcInv
  <1>2. UnixIpcInv /\ [UnixIpcNext]_unixIpcVars
          => [\A c \in IpcProcesses :
                /\ state[c] # "running" /\ state'[c] = "running"
                => \A p \in IpcProcesses, d \in Fds \ {0} :
                     SpawnChild(p, d) =>
                       /\ fds'[c][0] = fds[p][d] /\ fds'[c][1] = Closed /\ fds'[c][2] = Closed
                       /\ \A e \in Fds \ {0, 1, 2, d} : fds'[c][e] = fds[p][e]]_unixIpcVars
    BY SpawnedFor
  <1>3. UnixIpcInv /\ [UnixIpcNext]_unixIpcVars
          => [\A p \in IpcProcesses :
                p \in refused' \ refused
                => \E b \in BindPaths : b.family = "inet" /\ \E i \in DOMAIN sockets :
                     sockets[i] = b /\ Listening(i)]_unixIpcVars
    BY RefusedForCause
  <1>4. UnixIpcInv /\ [UnixIpcNext]_unixIpcVars
          => [\A b \in BindPaths :
                sockets' = Append(sockets, b)
                => Behind(b)' = Len(sockets') /\ Listening(Behind(b))']_unixIpcVars
    BY ReachedAfter
  <1> QED
    BY <1>1, <1>2, <1>3, <1>4, UnixIpcInitInv, UnixIpcInvStep, PTL
    DEF UnixIpcSafety, ListenersReached, ChildListens, InUseForCause,
        ReachedOnceCreated
=============================================================================
