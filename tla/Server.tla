------------------------------ MODULE Server ------------------------------
(***************************************************************************)
(* class wsh_server and handle_listener (server.cpp): the main thread      *)
(* accepts connections and hands each of them to the thread pool; the      *)
(* worker that takes it serves its requests one after the other until the  *)
(* connection ends.                                                        *)
(*                                                                         *)
(* Composes ThreadPool (the variables it declares are shared under their   *)
(* own names): the main thread is the pool's only caller, the k-th         *)
(* accepted connection is task k, and the task a worker runs is            *)
(* handle_listener on it.  ka_timer (timer.h) is the flag expired[k]: its  *)
(* thread is started by start(), which nobody calls.                       *)
(*                                                                         *)
(* Abstractions: a request is what the control of handle_listener tells    *)
(* apart: "keep" and "close" (its Connection header), and "throwing": it is*)
(* malformed, so that a conversion in lines 54-62 throws, or well formed   *)
(* and given to a handler that throws (handle_mime, handle_cgi,            *)
(* handle_fastcgi).  A request reaches the server at once or in two pieces,*)
(* and a read may return several requests, or a piece of one.  The response*)
(* is built by "serve" in one step.                                        *)
(***************************************************************************)
EXTENDS Integers, Sequences, FiniteSets

CONSTANTS
  Workers,           \* the pool's threads, config.threadpool_capacity many
  Main,              \* the thread in wsh_server::run
  None,              \* the pool's mutex is free
  MaxConnections,    \* bound: clients that ever connect
  MaxKeepAliveReq,   \* config.max_keep_alive_req
  MaxOutstanding,    \* requests a client sends before it waits for a response
  Kinds,             \* the requests clients send
  Splitting          \* bound: connections with requests of more than one piece

ASSUME ConnectionsAssumption ==
  /\ MaxConnections \in Nat
  /\ MaxKeepAliveReq \in Nat \ {0}
  /\ MaxOutstanding \in Nat \ {0}
  /\ Kinds \subseteq {"keep", "close", "throwing"}
  /\ Splitting \subseteq 1..MaxConnections

VARIABLES
  isAllRunning, joinable, task_queue, mtx, wpc, task, cpc, submitted,
  destroyed, undefined

Pool == INSTANCE ThreadPool WITH
  MaxThreadCount <- Cardinality(Workers),
  Callers        <- {Main},
  Operations     <- {"enqueue"},
  MaxTasks       <- MaxConnections

VARIABLES
  pending,       \* accepted, not yet enqueued by the main thread; 0: none
  peer,          \* peer[k]: the client: "absent", "connected", "fin", "rst"
  sock,          \* sock[k]: the server's socket: "none", "open", "closed"
  inbox,         \* inbox[k]: requests begun by the client, not read to their end
  sending,       \* sending[k]: the end of the last one has not been sent
  cut,           \* cut[k]: the beginning of the first one has been read
  outstanding,   \* outstanding[k]: responses the client waits for
  hpc,           \* hpc[k]: where handle_listener is
  current,       \* current[k]: the request being handled
  completed,     \* completed[k]: completed_session_counter
  expired,       \* expired[k]: ktimer.m_expired
  aborted,       \* std::terminate: an exception left a thread
  whole          \* history.  whole[k]: no read began or ended within a request

poolVars == <<isAllRunning, joinable, task_queue, mtx, wpc, task, cpc,
              submitted, destroyed, undefined>>
handlerVars == <<hpc, current, completed, expired>>
requestVars == <<inbox, sending, cut, whole>>
connVars == <<pending, peer, sock, requestVars, outstanding, handlerVars,
              aborted>>
vars == <<poolVars, connVars>>

Connections == 1..MaxConnections
\* What the bytes of a read may be taken for.
Readings == {"keep", "close", "throwing"}
HandlerStates == {"none", "check", "read", "serve", "reply", "exit", "ended"}

ServerTypeOK ==
  /\ Pool!TypeOK
  /\ pending \in 0..MaxConnections
  /\ peer \in [Connections -> {"absent", "connected", "fin", "rst"}]
  /\ sock \in [Connections -> {"none", "open", "closed"}]
  /\ inbox \in [Connections -> Seq(Kinds)]
  /\ sending \in [Connections -> BOOLEAN]
  /\ cut \in [Connections -> BOOLEAN]
  /\ whole \in [Connections -> BOOLEAN]
  /\ outstanding \in [Connections -> 0..MaxOutstanding]
  /\ hpc \in [Connections -> HandlerStates]
  /\ current \in [Connections -> Readings \cup {"none"}]
  /\ completed \in [Connections -> 0..MaxKeepAliveReq]
  /\ expired \in [Connections -> BOOLEAN]
  /\ aborted \in BOOLEAN

Init ==
  /\ Pool!Init
  /\ pending = 0
  /\ peer = [k \in Connections |-> "absent"]
  /\ sock = [k \in Connections |-> "none"]
  /\ inbox = [k \in Connections |-> <<>>]
  /\ sending = [k \in Connections |-> FALSE]
  /\ cut = [k \in Connections |-> FALSE]
  /\ whole = [k \in Connections |-> TRUE]
  /\ outstanding = [k \in Connections |-> 0]
  /\ hpc = [k \in Connections |-> "none"]
  /\ current = [k \in Connections |-> "none"]
  /\ completed = [k \in Connections |-> 0]
  /\ expired = [k \in Connections |-> FALSE]
  /\ aborted = FALSE

---------------------------------------------------------------------------
\* Clients (external).  Connections are numbered in the order they arrive.

Connect(k) ==
  /\ ~aborted
  /\ peer[k] = "absent"
  /\ k > 1 => peer[k - 1] # "absent"
  /\ peer' = [peer EXCEPT ![k] = "connected"]
  /\ UNCHANGED <<poolVars, pending, sock, requestVars, outstanding, handlerVars,
                 aborted>>

\* All of a request arrives, or the first piece of it.
Request(k, kind) ==
  /\ ~aborted
  /\ peer[k] = "connected"
  /\ sock[k] # "closed"
  /\ ~sending[k]
  /\ outstanding[k] < MaxOutstanding
  /\ inbox' = [inbox EXCEPT ![k] = Append(@, kind)]
  /\ \E split \in BOOLEAN :
       /\ split => k \in Splitting
       /\ sending' = [sending EXCEPT ![k] = split]
  /\ outstanding' = [outstanding EXCEPT ![k] = @ + 1]
  /\ UNCHANGED <<poolVars, pending, peer, sock, cut, whole, handlerVars, aborted>>

\* The other piece arrives.  A client may leave before it has sent it.
RequestRest(k) ==
  /\ ~aborted
  /\ peer[k] = "connected"
  /\ sock[k] # "closed"
  /\ sending[k]
  /\ sending' = [sending EXCEPT ![k] = FALSE]
  /\ UNCHANGED <<poolVars, pending, peer, sock, inbox, cut, whole, outstanding,
                 handlerVars, aborted>>

\* The client has sent everything it will send.
Fin(k) ==
  /\ ~aborted
  /\ peer[k] = "connected"
  /\ peer' = [peer EXCEPT ![k] = "fin"]
  /\ UNCHANGED <<poolVars, pending, sock, requestVars, outstanding, handlerVars,
                 aborted>>

\* The connection breaks.
Reset(k) ==
  /\ ~aborted
  /\ peer[k] \in {"connected", "fin"}
  /\ sock[k] # "closed"
  /\ peer' = [peer EXCEPT ![k] = "rst"]
  /\ UNCHANGED <<poolVars, pending, sock, requestVars, outstanding, handlerVars,
                 aborted>>

---------------------------------------------------------------------------
\* wsh_server::run, the main thread.

Accepted == Cardinality({k \in Connections : sock[k] # "none"})

\* acceptor.accept(sock) and the new listener_wrapper.
Accept(k) ==
  /\ ~aborted
  /\ pending = 0
  /\ k = Accepted + 1
  /\ peer[k] # "absent"
  /\ sock' = [sock EXCEPT ![k] = "open"]
  /\ pending' = k
  /\ UNCHANGED <<poolVars, peer, requestVars, outstanding, handlerVars, aborted>>

\* acceptor.accept may throw for a connection that broke before it was
\* accepted; nobody catches.
AcceptThrows(k) ==
  /\ ~aborted
  /\ pending = 0
  /\ k = Accepted + 1
  /\ peer[k] = "rst"
  /\ aborted' = TRUE
  /\ UNCHANGED <<poolVars, pending, peer, sock, requestVars, outstanding,
                 handlerVars>>

\* thread_pool.enqueue(handle_listener, l_wrap)
Submit ==
  /\ ~aborted
  /\ pending # 0
  /\ Pool!Enqueue(Main)
  /\ pending' = 0
  /\ UNCHANGED <<peer, sock, requestVars, outstanding, handlerVars, aborted>>

---------------------------------------------------------------------------
\* handle_listener on connection k, executed by worker w.

HandlerAt(w, k, pc) ==
  /\ ~aborted
  /\ wpc[w] = "run"
  /\ task[w] = k
  /\ hpc[k] = pc

GoTo(k, pc) == hpc' = [hpc EXCEPT ![k] = pc]

\* Mutants of ShouldClose: both reasons needed, the counter compared too late.
ShouldCloseBoth(k) == expired[k] /\ completed[k] >= MaxKeepAliveReq
ShouldCloseLate(k) == expired[k] \/ completed[k] > MaxKeepAliveReq

\* The test at the head of the loop (line 33).
ShouldClose(k) == expired[k] \/ completed[k] >= MaxKeepAliveReq

\* Mutant of AfterClose: the `break` after socks.close() is missing.
NoBreak(k) == "read"

\* Where the handler goes after socks.close().
AfterClose(k) == "exit"

\* Mutant of AfterReadError: `continue` instead of `break`.
RetryRead(k) == "check"

\* Where the handler goes after a read error: `break`.
AfterReadError(k) == "exit"

\* Mutant of SocketAfterDelete: the listener_wrapper is never deleted.
SocketLeaked(k) == sock[k]

\* `delete source` drops the last reference to the socket: it is closed.
SocketAfterDelete(k) == "closed"

\* Mutant of MayThrow: any response may fail.
AlwaysMayThrow(k) == TRUE

\* remote_endpoint() and write_some() throw once the connection is broken.
MayThrow(k) == peer[k] = "rst"

Check(w, k) ==
  /\ HandlerAt(w, k, "check")
  /\ IF ShouldClose(k)
     THEN /\ sock' = [sock EXCEPT ![k] = "closed"]
          /\ GoTo(k, AfterClose(k))
     ELSE /\ GoTo(k, "read")
          /\ UNCHANGED sock
  /\ UNCHANGED <<poolVars, pending, peer, requestVars, outstanding, current,
                 completed, expired, aborted>>

\* Mutant of Unread: the buffer is not consumed.
UnreadStale(k, n) == inbox[k]

\* What a read of n requests leaves unread.
Unread(k, n) == SubSeq(inbox[k], n + 1, Len(inbox[k]))

\* Mutant of AtEof: the end of the stream overtakes the data before it.
AtEofEarly(k) == peer[k] = "fin"

\* What has arrived is read: no request, or a piece of one, of which the other
\* has not been sent.
NothingToRead(k) == inbox[k] = <<>> \/ (Len(inbox[k]) = 1 /\ cut[k] /\ sending[k])

\* read_some reports the end of the stream after everything before it is read.
AtEof(k) == peer[k] = "fin" /\ NothingToRead(k)

\* A read may return n requests, each to its end, and the first piece of the next.
Readable(k, n, piece) ==
  /\ n = 0 => piece /\ ~cut[k]
  /\ n = Len(inbox[k]) => n > 0 /\ ~sending[k] /\ ~piece
  /\ piece => k \in Splitting

\* What is parsed of them: the first request, unless the read has a piece of it.
Parsed(k, n) == IF n = 0 \/ cut[k] THEN Readings ELSE {Head(inbox[k])}

\* read_some returns what has arrived, or the beginning of it: all of it is one
\* `message`, of which one request is parsed; the rest is lost.
ReadData(w, k) ==
  /\ HandlerAt(w, k, "read")
  /\ \E n \in 0..Len(inbox[k]), piece \in BOOLEAN :
       /\ Readable(k, n, piece)
       /\ inbox' = [inbox EXCEPT ![k] = Unread(k, n)]
       /\ cut' = [cut EXCEPT ![k] = piece]
       /\ whole' = [whole EXCEPT ![k] = @ /\ ~cut[k] /\ ~piece]
       /\ \E kind \in Parsed(k, n) : current' = [current EXCEPT ![k] = kind]
  /\ GoTo(k, "serve")
  /\ UNCHANGED <<poolVars, pending, peer, sock, sending, outstanding, completed,
                 expired, aborted>>

ReadEof(w, k) ==
  /\ HandlerAt(w, k, "read")
  /\ AtEof(k)
  /\ sock' = [sock EXCEPT ![k] = "closed"]
  /\ GoTo(k, AfterClose(k))
  /\ UNCHANGED <<poolVars, pending, peer, requestVars, outstanding, current,
                 completed, expired, aborted>>

\* read_some reports an error; unread data may be lost with it.
ReadError(w, k) ==
  /\ HandlerAt(w, k, "read")
  /\ peer[k] = "rst"
  /\ GoTo(k, AfterReadError(k))
  /\ UNCHANGED <<poolVars, pending, peer, sock, requestVars, outstanding, current,
                 completed, expired, aborted>>

\* Parse the request, produce the response (lines 51-104); `Connection: close`
\* calls ktimer.terminate().
Serve(w, k) ==
  /\ HandlerAt(w, k, "serve")
  /\ current[k] # "throwing"
  /\ expired' = [expired EXCEPT ![k] = @ \/ current[k] = "close"]
  /\ GoTo(k, "reply")
  /\ UNCHANGED <<poolVars, pending, peer, sock, requestVars, outstanding, current,
                 completed, aborted>>

\* A conversion of lines 54-62 throws, or the handler that lines 70-93 call does
\* (std::stoi, a substr, urlDecode, string_to_wstring, the size of a body);
\* nobody catches.
ServeThrows(w, k) ==
  /\ HandlerAt(w, k, "serve")
  /\ current[k] = "throwing"
  /\ aborted' = TRUE
  /\ UNCHANGED <<poolVars, pending, peer, sock, requestVars, outstanding,
                 handlerVars>>

\* write_some succeeds (a blocking socket takes all of it).  A client that waits
\* for no response gets one all the same when a request was read in pieces.
Reply(w, k) ==
  /\ HandlerAt(w, k, "reply")
  /\ outstanding' = [outstanding EXCEPT ![k] = IF @ > 0 THEN @ - 1 ELSE 0]
  /\ completed' = [completed EXCEPT ![k] = @ + 1]
  /\ GoTo(k, "check")
  /\ UNCHANGED <<poolVars, pending, peer, sock, requestVars, current, expired,
                 aborted>>

ReplyThrows(w, k) ==
  /\ HandlerAt(w, k, "reply")
  /\ MayThrow(k)
  /\ aborted' = TRUE
  /\ UNCHANGED <<poolVars, pending, peer, sock, requestVars, outstanding,
                 handlerVars>>

\* delete source; return to thread_in_pool.
End(w, k) ==
  /\ HandlerAt(w, k, "exit")
  /\ sock' = [sock EXCEPT ![k] = SocketAfterDelete(k)]
  /\ GoTo(k, "ended")
  /\ Pool!Finish(w)
  /\ UNCHANGED <<pending, peer, requestVars, outstanding, current, completed,
                 expired, aborted>>

HandlerStep(w, k) ==
  \/ Check(w, k)
  \/ ReadData(w, k) \/ ReadEof(w, k) \/ ReadError(w, k)
  \/ Serve(w, k) \/ ServeThrows(w, k)
  \/ Reply(w, k) \/ ReplyThrows(w, k)
  \/ End(w, k)

\* The worker takes connection k: handle_listener starts.
StartHandler(w, k) ==
  /\ ~aborted
  /\ Pool!Take(w)
  /\ task'[w] = k
  /\ wpc'[w] = "run"
  /\ GoTo(k, "check")
  /\ UNCHANGED <<pending, peer, sock, requestVars, outstanding, current, completed,
                 expired, aborted>>

\* The rest of thread_in_pool.
PoolStep(w) ==
  /\ ~aborted
  /\ Pool!Lock(w) \/ Pool!Wait(w)
  /\ UNCHANGED connVars

SpuriousWake(w) ==
  /\ ~aborted
  /\ Pool!SpuriousWake(w)
  /\ UNCHANGED connVars

---------------------------------------------------------------------------
ClientStep(k) ==
  \/ Connect(k) \/ RequestRest(k) \/ Fin(k) \/ Reset(k)
  \/ \E kind \in Kinds : Request(k, kind)

AcceptStep == \E k \in Connections : Accept(k) \/ AcceptThrows(k)

\* What worker w does unless it is blocked.
WorkerStep(w) ==
  \/ PoolStep(w)
  \/ \E k \in Connections : StartHandler(w, k) \/ HandlerStep(w, k)

Next ==
  \/ Submit
  \/ AcceptStep
  \/ \E k \in Connections : ClientStep(k)
  \/ \E w \in Workers : WorkerStep(w) \/ SpuriousWake(w)

Safety == Init /\ [][Next]_vars

\* The operating system schedules every thread of the server, and the main
\* thread obtains a mutex that is free again and again (workers may wake
\* spuriously for ever).
ServerFairness ==
  /\ WF_vars(AcceptStep)
  /\ SF_vars(Submit)
  /\ \A w \in Workers : WF_vars(WorkerStep(w))

\* Clients may stay connected and silent for ever.
Spec == Safety /\ ServerFairness

---------------------------------------------------------------------------
\* Properties.

Queued(k)  == \E i \in 1..Len(task_queue) : task_queue[i] = k
Holders(k) == {w \in Workers : wpc[w] = "run" /\ task[w] = k}

\* An open socket is owned by exactly one of the main thread, the queue and one
\* worker, whatever way the handler leaves (end of stream, read error, close
\* asked for, request budget): none is leaked and none is served twice.
SocketOwned ==
  \A k \in Connections :
    LET owners == Cardinality(Holders(k))
                    + (IF Queued(k) THEN 1 ELSE 0)
                    + (IF pending = k THEN 1 ELSE 0)
    IN  owners <= 1 /\ (sock[k] = "open" => owners = 1)

\* handle_listener never reads from or writes to a socket it has closed.
NoUseAfterClose ==
  \A k \in Connections :
    hpc[k] \in {"check", "read", "serve", "reply"} => sock[k] = "open"

\* A socket from accept to close: owned by one, used while it is open, and closed.
SocketSafe == ServerTypeOK /\ SocketOwned /\ NoUseAfterClose

\* With clients that wait for a response before the next request, the server
\* leaves a client without a response only if it ends the connection itself:
\* Connection: close, or the request budget, which may close the socket under a
\* request in flight.  Its reading and its end-of-stream handling never do.
RequestsNotDropped ==
  \A k \in Connections :
    sock[k] = "closed" /\ peer[k] # "rst" /\ outstanding[k] > 0
      => expired[k] \/ completed[k] = MaxKeepAliveReq

\* As long as no read of a connection began or ended within a request, every
\* response answers a request that the client has sent and that was not answered
\* before, although one read may swallow several requests.  (A read that returns
\* a piece of a request is answered, and the rest of the request once more.)
NoUnsolicitedResponse ==
  \A k \in Connections :
    whole[k] => Len(inbox[k]) + (IF hpc[k] \in {"serve", "reply"} THEN 1 ELSE 0)
                  <= outstanding[k]

\* The process only dies of an uncaught exception where a connection that broke
\* is accepted or answered, or where a conversion of a request or its handler
\* throws; and if every read of the connection ended where a request ends,
\* clients send such requests: it is none that reading the rest of one made up.
AbortHasCause ==
  aborted =>
    \E k \in Connections :
      \/ /\ peer[k] = "rst"
         /\ hpc[k] = "reply" \/ (pending = 0 /\ k = Accepted + 1)
      \/ /\ hpc[k] = "serve" /\ current[k] = "throwing"
         /\ whole[k] => "throwing" \in Kinds

\* A client whose connection a handler has begun to serve, and that waits for a
\* response, gets one without any help from other clients and without sending the
\* rest of a request, or the connection ends.
Answered ==
  \A k \in Connections :
    hpc[k] # "none" /\ outstanding[k] > 0
      ~> outstanding[k] = 0 \/ sock[k] = "closed" \/ aborted

\* Once the client asked for Connection: close, or the budget is used up, the
\* server closes the socket although the client stays connected and silent.
ClosesWhenDone ==
  \A k \in Connections :
    expired[k] \/ completed[k] >= MaxKeepAliveReq
      ~> sock[k] = "closed" \/ aborted

\* Provided every client leaves in the end, each one is accepted and gets a
\* worker, also when there are more connections than workers.
EveryConnectionServed ==
  (\A k \in Connections : peer[k] = "connected" ~> peer[k] # "connected")
    => \A k \in Connections : peer[k] = "connected" ~> hpc[k] # "none" \/ aborted
===========================================================================
