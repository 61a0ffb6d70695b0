----------------------------- MODULE Win32Async -----------------------------
(***************************************************************************)
(* Asynchronous input and output of os_win32.c: operations are overlapped  *)
(* requests on handles bound to a completion port, OS_DoIo takes the       *)
(* completions and calls back, and a thread of its own reads the standard  *)
(* input and posts what looks like completions.                            *)
(*                                                                         *)
(* A request is in the system (pending), in one of the two ports, with the *)
(* thread, called back (and its memory freed), or lost.                    *)
(***************************************************************************)
EXTENDS Win32Table, Sequences, SequencesExt

CONSTANTS
  Handles,    \* values the system gives to handles and sockets; the standard
              \* handles are OpenMax and the two after it
  MaxRequests \* operations the application starts

ASSUME AsyncAssumption ==
  /\ OpenMax > 2
  /\ Handles \subseteq Nat \ ({0} \cup OpenMax..(OpenMax + 2)) /\ MaxRequests \in Nat

VARIABLES
  fdTable,
  open,      \* handles the system has open for the process
  held,      \* pairs of a descriptor and its handle that the application holds
  stale,     \* requests whose descriptor was closed before they were called back
  requests,  \* started: the entry, its instance, what
  pending,   \* requests the system has not completed
  port,      \* hIoCompPort
  stdinPort, \* hStdinCompPort
  thread,    \* StdinThread: "none", "waiting", "reading", "ended"
  taken,     \* the request it reads for
  ports,     \* both ports are open
  calls,     \* requests called back, in order
  lost,      \* requests no completion can come for
  asyncPc    \* "start", "app", "io" in OS_DoIo's loop, "callback"

win32AsyncVars == <<fdTable, open, held, stale, requests, pending, port,
                    stdinPort, thread, taken, ports, calls, lost, asyncPc>>

STDIN == 0
StandardFds == 0..2

Win32AsyncInit ==
  /\ fdTable = EmptyTable /\ open = {} /\ held = {}
  /\ stale = {}
  /\ requests = <<>> /\ pending = {} /\ port = <<>> /\ stdinPort = <<>>
  /\ thread = "none" /\ taken = {} /\ ports = FALSE
  /\ calls = <<>> /\ lost = {}
  /\ asyncPc = "start"

---------------------------------------------------------------------------
\* Opening and closing.

\* A standard handle gets the entry of its number.
Standard(t, i) == Win32NewDescriptor(t, "pipeSync", OpenMax + i, i)

\* OS_LibInit, with the standard descriptors or without; the thread is only
\* started for a request with content.
OS_LibInit ==
  /\ asyncPc = "start"
  /\ asyncPc' = "app" /\ ports' = TRUE
  /\ \E stdio, content \in BOOLEAN :
       /\ thread' = IF stdio /\ content THEN "waiting" ELSE "none"
       /\ fdTable' = IF stdio
                     THEN Standard(Standard(Standard(fdTable, 0), 1), 2)
                     ELSE fdTable
       /\ held' = IF stdio THEN {<<i, OpenMax + i>> : i \in StandardFds} ELSE {}
       /\ open' = IF stdio THEN {OpenMax + i : i \in StandardFds} ELSE {}
  /\ UNCHANGED <<stale, requests, pending, port, stdinPort, taken, calls, lost>>

Free == asyncPc \in {"app", "callback"}

\* A handle of a connection that OS_Accept takes ("socketSync") or that
\* OS_FcgiConnect makes to a pipe ("pipeAsync"); without an entry it is closed.
Open(h, type) ==
  /\ Free /\ ports /\ h \notin open
  /\ LET i == EntryFor(fdTable, h, -1) IN
     IF i = -1
     THEN UNCHANGED <<fdTable, open, held>>
     ELSE /\ fdTable' = Win32NewDescriptor(fdTable, type, h, -1)
          /\ open' = open \cup {h} /\ held' = held \cup {<<i, h>>}
  /\ UNCHANGED <<stale, requests, pending, port, stdinPort, thread, taken, ports,
                 calls, lost, asyncPc>>

\* OS_FcgiConnect to a port: connect is taken to return nonzero for success, so
\* that only a socket that did not connect gets an entry.
ConnectSocket(h, connects) ==
  IF connects THEN Free /\ ports /\ h \notin open /\ UNCHANGED win32AsyncVars
              ELSE Open(h, "socketSync")

OS_SetFlags(fd) ==
  /\ Free /\ ports /\ fdTable[fd].type = "socketSync"
  /\ fdTable' = [fdTable EXCEPT ![fd].type = "socketAsync"]
  /\ UNCHANGED <<open, held, stale, requests, pending, port, stdinPort, thread,
                 taken, ports, calls, lost, asyncPc>>

IsSocket(fd) == fdTable[fd].type \in {"socketSync", "socketAsync"}

\* The handle of a pipe is not closed, and what was started stays pending; the
\* requests of a socket complete soon.  Applications leave the standard output
\* and error open.
OS_Close(fd) ==
  /\ Free /\ fd \in InUse(fdTable)
  /\ fdTable[fd].fid \notin {OpenMax + 1, OpenMax + 2}
  /\ open' = IF IsSocket(fd) THEN open \ {fdTable[fd].fid} ELSE open
  /\ held' = held \ {<<fd, fdTable[fd].fid>>}
  /\ fdTable' = Win32FreeDescriptor(fdTable, fd)
  /\ stale' = stale \cup {r \in DOMAIN requests :
                         requests[r].fd = fd /\ ~Contains(calls, r)}
  /\ UNCHANGED <<requests, pending, port, stdinPort, thread, taken, ports, calls,
                 lost, asyncPc>>

\* The ports are closed; the thread that waits at one ends.
OS_LibShutdown ==
  /\ Free /\ ports
  /\ ports' = FALSE
  /\ lost' = lost \cup ToSet(port) \cup ToSet(stdinPort)
  /\ port' = <<>> /\ stdinPort' = <<>>
  /\ thread' = IF thread = "waiting" THEN "ended" ELSE thread
  /\ UNCHANGED <<fdTable, open, held, stale, requests, pending, taken, calls,
                 asyncPc>>

---------------------------------------------------------------------------
\* Starting operations.

Request(fd, what) ==
  requests' = Append(requests, [fd |-> fd, what |-> what,
                                instance |-> fdTable[fd].instance])
New == Len(requests) + 1
IsAsync(fd) == fdTable[fd].type \in {"pipeAsync", "socketAsync"}

\* PostQueuedCompletionStatus, or the system, for a port that may be closed.
Post(r) == IF ports THEN port' = Append(port, r) /\ UNCHANGED lost
                    ELSE lost' = lost \cup {r} /\ UNCHANGED port

\* Mutant of MustPost: what the system will complete is posted, too.
MustPostAll(outcome) == outcome # "done"

\* After a failure that leaves no request in the system.
MustPost(outcome) == outcome \in {"noData", "error"}

\* OS_AsyncRead and OS_AsyncWrite: ReadFile or WriteFile returns at once, leaves
\* the request pending, or fails; the completion is posted whatever they return.
Async(fd, what) ==
  /\ Free /\ ports /\ IsAsync(fd) /\ Len(requests) < MaxRequests
  /\ Request(fd, what)
  /\ \E outcome \in {"done", "pending", "noData", "error"} :
       /\ outcome = "noData" => what = "read"
       /\ pending' = IF outcome = "pending" THEN pending \cup {New} ELSE pending
       /\ IF outcome = "done" \/ MustPost(outcome) THEN Post(New)
                                                   ELSE UNCHANGED <<port, lost>>
  /\ UNCHANGED <<fdTable, open, held, stale, stdinPort, thread, taken, ports,
                 calls, asyncPc>>

OS_AsyncReadStdin ==
  /\ Free /\ ports /\ STDIN \in InUse(fdTable) /\ Len(requests) < MaxRequests
  /\ Request(STDIN, "stdin")
  /\ stdinPort' = Append(stdinPort, New)
  /\ UNCHANGED <<fdTable, open, held, stale, pending, port, thread, taken, ports, calls,
                 lost, asyncPc>>

---------------------------------------------------------------------------
\* The system and StdinThread.

Complete(r) ==
  /\ r \in pending
  /\ pending' = pending \ {r}
  /\ Post(r)
  /\ UNCHANGED <<fdTable, open, held, stale, requests, stdinPort, thread, taken, ports,
                 calls, asyncPc>>

TakeRequest ==
  /\ thread = "waiting" /\ stdinPort # <<>>
  /\ thread' = "reading" /\ taken' = {Head(stdinPort)}
  /\ stdinPort' = Tail(stdinPort)
  /\ UNCHANGED <<fdTable, open, held, stale, requests, pending, port, ports, calls,
                 lost, asyncPc>>

\* Mutant of AfterFailure: the thread carries on without telling anybody.
AfterFailureOn == "waiting"

AfterFailure == "ended"

\* Mutant of AfterRead: the thread keeps the request it has posted.
AfterReadKept == taken

AfterRead == {}

\* ReadFile returns data, or fails, also at the end of the input: then the
\* thread ends and nothing is posted.
ReadStdin ==
  /\ thread = "reading"
  /\ taken' = AfterRead
  /\ \/ /\ \A r \in taken : Post(r)
        /\ thread' = IF ports THEN "waiting" ELSE "ended"
     \/ /\ lost' = lost \cup taken /\ thread' = AfterFailure
        /\ UNCHANGED port
  /\ UNCHANGED <<fdTable, open, held, stale, requests, pending, stdinPort, ports,
                 calls, asyncPc>>

StdinThread == TakeRequest \/ ReadStdin

---------------------------------------------------------------------------
\* OS_DoIo.

EnterIo ==
  /\ asyncPc = "app"
  /\ asyncPc' = "io"
  /\ UNCHANGED <<fdTable, open, held, stale, requests, pending, port, stdinPort,
                 thread, taken, ports, calls, lost>>

\* Mutant of StillValid: the comparison is the wrong way round.
StillValidNot(r) == requests[r].instance # fdTable[requests[r].fd].instance

\* "call callback if descriptor still valid"
StillValid(r) == requests[r].instance = fdTable[requests[r].fd].instance

Dequeue ==
  /\ asyncPc = "io" /\ port # <<>>
  /\ port' = Tail(port)
  /\ IF StillValid(Head(port))
     THEN calls' = Append(calls, Head(port)) /\ asyncPc' = "callback" /\ UNCHANGED lost
     ELSE lost' = lost \cup {Head(port)} /\ UNCHANGED <<calls, asyncPc>>
  /\ UNCHANGED <<fdTable, open, held, stale, requests, pending, stdinPort, thread,
                 taken, ports>>

\* The callback returns; the loop goes on unless the time is up.
CallbackReturns ==
  /\ asyncPc = "callback"
  /\ asyncPc' \in {"io", "app"}
  /\ UNCHANGED <<fdTable, open, held, stale, requests, pending, port, stdinPort,
                 thread, taken, ports, calls, lost>>

TimesOut ==
  /\ asyncPc = "io" /\ port = <<>>
  /\ asyncPc' = "app"
  /\ UNCHANGED <<fdTable, open, held, stale, requests, pending, port, stdinPort,
                 thread, taken, ports, calls, lost>>

OS_DoIo == EnterIo \/ Dequeue \/ CallbackReturns \/ TimesOut

Application ==
  \/ OS_LibInit \/ OS_LibShutdown \/ OS_AsyncReadStdin
  \/ \E h \in Handles : \/ \E type \in {"socketSync", "pipeAsync"} : Open(h, type)
                        \/ \E connects \in BOOLEAN : ConnectSocket(h, connects)
  \/ \E fd \in Entries : \/ OS_SetFlags(fd) \/ OS_Close(fd)
                         \/ \E what \in {"read", "write"} : Async(fd, what)

Win32AsyncNext ==
  \/ Application \/ OS_DoIo \/ StdinThread
  \/ \E r \in 1..MaxRequests : Complete(r)

\* The application calls OS_DoIo again and again, and its callbacks return.
Win32AsyncFairness == WF_win32AsyncVars(OS_DoIo)

---------------------------------------------------------------------------
\* Properties.

Win32AsyncTypeOK ==
  /\ fdTable \in [Entries -> [type : FileTypes, fid : Nat, instance : {0}]]
  /\ asyncPc \in {"start", "app", "io", "callback"} /\ ports \in BOOLEAN
  /\ thread \in {"none", "waiting", "reading", "ended"}
  /\ taken # {} <=> thread = "reading"

\* Two connections never share an entry, and an entry leads to the handle that
\* it was given away for, however small handles collide with entries in use and
\* are reused by the system.
EntryOfOne ==
  /\ held = {<<i, fdTable[i].fid>> : i \in InUse(fdTable)}
  /\ \A p, q \in held : p[2] = q[2] => p = q

\* Every request is in exactly one place: its completion comes at most once, and
\* never after its memory was freed, whatever ReadFile and WriteFile return and
\* however descriptors are closed and given away again.
OncePlaced ==
  /\ DOMAIN requests = ToSet(port) \cup ToSet(stdinPort) \cup ToSet(calls)
                         \cup pending \cup lost \cup taken
  /\ ToSet(port) \cap (ToSet(stdinPort) \cup ToSet(calls) \cup pending \cup lost \cup taken) = {}
  /\ ToSet(stdinPort) \cap (ToSet(calls) \cup pending \cup lost \cup taken) = {}
  /\ ToSet(calls) \cap (pending \cup lost \cup taken) = {}
  /\ pending \cap (lost \cup taken) = {} /\ lost \cap taken = {}
  /\ IsInjective(port) /\ IsInjective(stdinPort) /\ IsInjective(calls)

\* Reads of the standard input are called back in the order they were asked
\* for, without a gap.
IsStdin(r) == requests[r].what = "stdin"
Earlier(q, r) == q \in 1..(r - 1) /\ IsStdin(q)
StdinInOrder ==
  \A i \in DOMAIN calls : IsStdin(calls[i]) =>
    \A q \in DOMAIN requests : Earlier(q, calls[i]) => \E j \in 1..(i - 1) : calls[j] = q

\* Entries, handles and completions belong together one to one.
CompletionsSound == Win32AsyncTypeOK /\ EntryOfOne /\ OncePlaced /\ StdinInOrder

\* What the declaration of OVERLAPPED_REQUEST says of its instance, that it "won't
\* match after a close": no request is called back whose descriptor was closed.
NoStaleCallback == stale \cap ToSet(calls) = {}

\* A completion that has come while its descriptor is open is called back, if
\* the application keeps calling OS_DoIo, does not shut the library down and does
\* not close the descriptor first ("call callback if descriptor still valid").
CalledBack ==
  \A r \in 1..MaxRequests :
    Contains(port, r) /\ r \notin stale ~> Contains(calls, r) \/ ~ports \/ r \in stale
=============================================================================
