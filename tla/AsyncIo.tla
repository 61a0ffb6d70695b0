------------------------------ MODULE AsyncIo ------------------------------
(***************************************************************************)
(* Asynchronous input and output of os_unix.c: the table of operations,    *)
(* the descriptor sets and the posted sets of OS_DoIo, which selects when  *)
(* nothing is posted, then performs what is posted and calls back.  The    *)
(* application runs inside callbacks, where it may start and close.        *)
(*                                                                         *)
(* An operation is a pair <<fd, d>> of a descriptor and a direction, "rd"  *)
(* or "wr".  A select that finds nothing has timed out.                    *)
(***************************************************************************)
EXTENDS Integers, Sequences, FiniteSets, FiniteSetsExt

CONSTANTS
  MaxDescriptor, \* descriptors are 0..MaxDescriptor
  TableSize,     \* entries of the table at first, asyncIoTableSize
  MaxOperations  \* operations the application starts

ASSUME AsyncAssumption ==
  /\ MaxDescriptor \in Nat /\ TableSize \in Nat \ {0, 1} /\ MaxOperations \in Nat

Descriptors == 0..MaxDescriptor
Directions == {"rd", "wr"}
Entries == Descriptors \X Directions

VARIABLES
  inUse,     \* entries of the table in use
  table,     \* asyncIoTableSize
  fdSet,     \* readFdSet and writeFdSet
  fdSetPost, \* readFdSetPost and writeFdSetPost
  num,       \* numRdPosted and numWrPosted
  maxFd,
  asyncPc,   \* the application, OS_DoIo's loop, a callback in the loop, or a
             \* read or write that blocks
  at,        \* where the loop is: the entry it looks at next
  isOpen,    \* descriptors open
  halfOpen,  \* descriptors whose receiving side was shut down
  ready,     \* entries that would not block
  started,   \* operations started so far
  forgotten  \* entries closed while posted, in each direction

asyncVars == <<inUse, table, fdSet, fdSetPost, num, maxFd, asyncPc, at, isOpen,
               halfOpen, ready, started, forgotten>>

Zero == [d \in Directions |-> 0]

\* OS_LibInit.
AsyncInit ==
  /\ inUse = {} /\ table = TableSize
  /\ fdSet = {} /\ fdSetPost = {} /\ num = Zero /\ maxFd = -1
  /\ asyncPc = "app" /\ at = <<0, "rd">>
  /\ isOpen = {0} /\ halfOpen = {} /\ ready = {}
  /\ started = 0 /\ forgotten = Zero

---------------------------------------------------------------------------
\* What the application does, on its own or in a callback.

Free == asyncPc \in {"app", "callback"}

\* AIO_RD_IX and AIO_WR_IX.
Index(e) == 2 * e[1] + (IF e[2] = "rd" THEN 0 ELSE 1)

\* Mutant of Grown: the table grows once.
GrownOnce(e) == IF Index(e) >= table THEN 2 * table ELSE table

\* What k calls of GrowAsyncTable multiply the table by.
Doubled[k \in Nat] == IF k = 0 THEN 1 ELSE 2 * Doubled[k - 1]

\* GrowAsyncTable until the entry is there.
Grown(e) == Min({n \in {table * Doubled[k] : k \in 0..Index(e)} : Index(e) < n})

\* OS_AsyncRead, OS_AsyncWrite, and OS_AsyncReadStdin for descriptor 0.
Async(e) ==
  /\ Free /\ started < MaxOperations
  /\ e[1] \in isOpen /\ e \notin inUse
  /\ started' = started + 1
  /\ inUse' = inUse \cup {e}
  /\ table' = Grown(e)
  /\ fdSet' = fdSet \cup {e}
  /\ maxFd' = Max({maxFd, e[1]})
  /\ UNCHANGED <<fdSetPost, num, asyncPc, at, isOpen, halfOpen, ready, forgotten>>

Both(fd) == {fd} \X Directions
Posted(d) == {e \in fdSetPost : e[2] = d}

\* Mutant of WithoutPosted: a closed descriptor stays posted.
StillPosted(fd) == fdSetPost

WithoutPosted(fd) == fdSetPost \ Both(fd)

\* Mutant of LowerMaxFd: any close takes one off.
LowerAlways(fd) == maxFd - 1

LowerMaxFd(fd) == IF maxFd = fd THEN maxFd - 1 ELSE maxFd

\* Mutant of Given: the write of a closed descriptor stays in the table.
GivenRead(fd) == inUse \ {<<fd, "rd">>}

Given(fd) == inUse \ Both(fd)

\* OS_Close: the entries are given up, but a posted one is still counted.
OS_Close(fd) ==
  /\ Free /\ fd \in isOpen
  /\ isOpen' = isOpen \ {fd} /\ halfOpen' = halfOpen \ {fd}
  /\ ready' = ready \ Both(fd)
  /\ inUse' = Given(fd)
  /\ fdSet' = fdSet \ Both(fd) /\ fdSetPost' = WithoutPosted(fd)
  /\ maxFd' = LowerMaxFd(fd)
  /\ forgotten' = [d \in Directions |->
       forgotten[d] + Cardinality(Both(fd) \cap Posted(d))]
  /\ UNCHANGED <<table, num, asyncPc, at, started>>

\* OS_CloseRead: a read that is posted stays so, with nobody to take it.
OS_CloseRead(fd) ==
  /\ Free /\ fd \in isOpen \ halfOpen
  /\ halfOpen' = halfOpen \cup {fd}
  /\ ready' = ready \cup {<<fd, "rd">>}
  /\ inUse' = inUse \ {<<fd, "rd">>}
  /\ fdSet' = IF <<fd, "rd">> \in inUse THEN fdSet \ {<<fd, "rd">>} ELSE fdSet
  /\ UNCHANGED <<table, fdSetPost, num, maxFd, asyncPc, at, isOpen, started,
                 forgotten>>

Open(fd) ==
  /\ Free /\ fd \notin isOpen
  /\ isOpen' = isOpen \cup {fd}
  /\ UNCHANGED <<inUse, table, fdSet, fdSetPost, num, maxFd, asyncPc, at, halfOpen,
                 ready, started, forgotten>>

---------------------------------------------------------------------------
\* OS_DoIo.

Idle == num = Zero

\* Mutant of InRange: the number of descriptors taken for the last one.
BelowMaxFd == {e \in Entries : e[1] < maxFd}

InRange == {e \in Entries : e[1] <= maxFd}

\* The first half: select when nothing is posted.
Select ==
  /\ asyncPc = "app"
  /\ IF Idle
     THEN \E found \in {fdSet \cap ready \cap InRange, {}} :
            /\ num' = [d \in Directions |-> Cardinality({e \in found : e[2] = d})]
            /\ fdSetPost' = fdSetPost \cup found
            /\ fdSet' = fdSet \ found
            /\ asyncPc' = IF found = {} THEN "app" ELSE "loop"
     ELSE asyncPc' = "loop" /\ UNCHANGED <<num, fdSetPost, fdSet>>
  /\ at' = <<0, "rd">>
  /\ UNCHANGED <<inUse, table, maxFd, isOpen, halfOpen, ready, started, forgotten>>

After(e) == IF e[2] = "rd" THEN <<e[1], "wr">> ELSE <<e[1] + 1, "rd">>

\* Mutant of MustDispatch: the posted sets are not consulted.
DispatchAny == at \in inUse

MustDispatch == at \in fdSetPost /\ at \in inUse

\* The second half: the loop reaches an entry that is posted and in use.  The
\* count is lowered and the entry free before the callback runs.
Dispatch ==
  /\ asyncPc = "loop" /\ at[1] <= maxFd /\ MustDispatch
  /\ num' = [num EXCEPT ![at[2]] = @ - 1]
  /\ fdSetPost' = fdSetPost \ {at}
  /\ inUse' = inUse \ {at}
  /\ asyncPc' = IF at \in ready THEN "callback" ELSE "blocked"
  /\ ready' = IF at[1] \in halfOpen /\ at[2] = "rd" THEN ready ELSE ready \ {at}
  /\ UNCHANGED <<table, fdSet, maxFd, at, isOpen, halfOpen, started, forgotten>>

Return ==
  /\ asyncPc = "callback"
  /\ asyncPc' = "loop" /\ at' = After(at)
  /\ UNCHANGED <<inUse, table, fdSet, fdSetPost, num, maxFd, isOpen, halfOpen,
                 ready, started, forgotten>>

PassOver ==
  /\ asyncPc = "loop" /\ at[1] <= maxFd /\ ~MustDispatch
  /\ at' = After(at)
  /\ UNCHANGED <<inUse, table, fdSet, fdSetPost, num, maxFd, asyncPc, isOpen,
                 halfOpen, ready, started, forgotten>>

LoopEnds ==
  /\ asyncPc = "loop" /\ at[1] > maxFd
  /\ asyncPc' = "app"
  /\ at' = <<0, "rd">>
  /\ UNCHANGED <<inUse, table, fdSet, fdSetPost, num, maxFd, isOpen, halfOpen,
                 ready, started, forgotten>>

\* The other end of a connection sends, or takes what was sent; what came
\* before the operation was started comes right after it.
Becomes(e) ==
  /\ e \in fdSet \ ready
  /\ ready' = ready \cup {e}
  /\ UNCHANGED <<inUse, table, fdSet, fdSetPost, num, maxFd, asyncPc, at, isOpen,
                 halfOpen, started, forgotten>>

Application == \/ \E e \in Entries : Async(e)
               \/ \E fd \in Descriptors : OS_Close(fd) \/ OS_CloseRead(fd) \/ Open(fd)
DoIo == Select \/ Dispatch \/ Return \/ PassOver \/ LoopEnds
AsyncNext == Application \/ DoIo \/ \E e \in Entries : Becomes(e)

\* The application calls OS_DoIo again and again, its callbacks return, and
\* select returns what is ready.
Finds == Select /\ asyncPc' = "loop"
AsyncFairness == /\ WF_asyncVars(Dispatch \/ Return \/ PassOver \/ LoopEnds)
                 /\ WF_asyncVars(Finds)

---------------------------------------------------------------------------
\* Properties.

AsyncTypeOK ==
  /\ inUse \subseteq Entries /\ fdSet \subseteq Entries /\ fdSetPost \subseteq Entries
  /\ num \in [Directions -> Int] /\ maxFd \in Descriptors \cup {-1}
  /\ isOpen \subseteq Descriptors /\ halfOpen \subseteq isOpen
  /\ asyncPc \in {"app", "loop", "callback", "blocked"}

\* Every descriptor of the sets is in reach of the loops of OS_DoIo, however
\* descriptors were closed, and its entry is in the table.
InReach ==
  \A e \in fdSet \cup fdSetPost \cup inUse : e[1] <= maxFd /\ Index(e) < table

\* An operation in use is waited for or posted, never both, and never on a
\* descriptor that was closed, so that no callback comes for a closed one.
OneState ==
  \A e \in Entries :
    /\ e \in inUse => e[1] \in isOpen
    /\ e \in inUse => e \in fdSet \cup fdSetPost
    /\ ~(e \in fdSet /\ e \in fdSetPost) \/ e[1] \in halfOpen

\* The counters are the sizes of the posted sets, but for the entries that a
\* close has taken out of them.
CountersExact ==
  \A d \in Directions : num[d] = Cardinality(Posted(d)) + forgotten[d]

\* OS_DoIo never reads or writes where it would wait: what it performs was
\* found ready and not touched since, also after the descriptor was reused.
NeverBlocks == asyncPc # "blocked"

\* The table, the sets and the counters of OS_DoIo agree on what is waited for,
\* what is posted and what is closed, through everything callbacks do.
DoIoSound == AsyncTypeOK /\ InReach /\ OneState /\ CountersExact /\ NeverBlocks

\* An operation whose descriptor is ready is performed or closed, unless a
\* posted entry was closed, or its read shut down, before.
Lost == forgotten # Zero \/ halfOpen # {}
Performed ==
  \A e \in Entries : (e \in inUse /\ e \in ready) ~> (e \notin inUse \/ Lost)
============================================================================
