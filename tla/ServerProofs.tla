--------------------------- MODULE ServerProofs ---------------------------
(***************************************************************************)
(* Theorems about Server, for every number of workers, connections,        *)
(* outstanding requests and any request budget.                            *)
(*                                                                         *)
(* SocketSafe is not inductive.  What makes it so is where each connection *)
(* is: the main thread accepts them in order and hands them on in that     *)
(* order, so that those that wait in the queue of the pool are the last    *)
(* ones it was given (InLine), and a handler is neither at its beginning   *)
(* nor at its end exactly while one worker runs it (Handling).             *)
(***************************************************************************)
EXTENDS Server, FiniteSetTheorems, TLAPS

\* The connections that were accepted, and those that a worker has taken.
accepted == IF pending = 0 THEN submitted ELSE pending
taken == submitted - Len(task_queue)

InLine ==
  /\ submitted <= MaxConnections
  /\ pending # 0 => pending = submitted + 1
  /\ \A k \in Connections : sock[k] # "none" <=> k <= accepted
  /\ Len(task_queue) <= submitted
  /\ \A i \in 1..Len(task_queue) : task_queue[i] = taken + i

Begun == {"check", "read", "serve", "reply"}

Handling ==
  /\ \A w \in Workers :
       wpc[w] = "run" => /\ task[w] \in 1..taken
                         /\ hpc[task[w]] \notin {"none", "ended"}
  /\ \A v, w \in Workers :
       wpc[v] = "run" /\ wpc[w] = "run" /\ task[v] = task[w] => v = w
  /\ \A k \in Connections : hpc[k] = "none" <=> k > taken
  /\ \A k \in Connections :
       hpc[k] \notin {"none", "ended"}
         => \E w \in Workers : wpc[w] = "run" /\ task[w] = k

\* What a handler does to its socket.
Sockets ==
  \A k \in Connections :
    /\ hpc[k] = "none" => sock[k] # "closed"
    /\ hpc[k] \in Begun => sock[k] = "open"
    /\ hpc[k] = "ended" => sock[k] = "closed"

\* A handler that is past the test of its budget has not used it up.
InBudget ==
  \A k \in Connections :
    hpc[k] \in {"read", "serve", "reply"} => completed[k] < MaxKeepAliveReq

\* A request read in part is still in the inbox, and is none of a connection whose
\* reads all ended where a request ends.
Reads ==
  \A k \in Connections :
    /\ cut[k] => inbox[k] # <<>> /\ ~whole[k]
    /\ whole[k] /\ hpc[k] = "serve" => current[k] \in Kinds

IInv ==
  /\ ServerTypeOK /\ InLine /\ Handling /\ Sockets /\ InBudget
  /\ Reads /\ NoUnsolicitedResponse

---------------------------------------------------------------------------
(***************************************************************************)
(* Sequences and intervals.                                                *)
(***************************************************************************)

\* What enqueue makes of the queue.
LEMMA AppendFacts ==
  ASSUME NEW n \in Nat, NEW q \in Seq(1..n)
  PROVE  /\ Append(q, n + 1) \in Seq(1..(n + 1))
         /\ Len(q) \in Nat /\ Len(Append(q, n + 1)) = Len(q) + 1
         /\ \A i \in 1..Len(q) : Append(q, n + 1)[i] = q[i]
         /\ Append(q, n + 1)[Len(q) + 1] = n + 1
  <1>1. q \in Seq(1..(n + 1))
    <2>1. \A i \in 1..Len(q) : q[i] \in 1..(n + 1)
      OBVIOUS
    <2> QED
      BY <2>1
  <1> QED
    BY <1>1

\* What a worker makes of it.
LEMMA TailFacts ==
  ASSUME NEW n \in Nat, NEW q \in Seq(1..n), q # <<>>
  PROVE  /\ Tail(q) \in Seq(1..n)
         /\ Len(q) \in Nat \ {0} /\ Len(Tail(q)) = Len(q) - 1
         /\ \A i \in 1..Len(Tail(q)) : Tail(q)[i] = q[i + 1]
         /\ Head(q) = q[1] /\ Head(q) \in 1..n
  OBVIOUS

\* What a read takes from the requests that arrived.
LEMMA UnreadFacts ==
  ASSUME NEW S, NEW q \in Seq(S), NEW n \in 0..Len(q)
  PROVE  /\ SubSeq(q, n + 1, Len(q)) \in Seq(S)
         /\ Len(SubSeq(q, n + 1, Len(q))) = Len(q) - n
         /\ Len(q) \in Nat /\ (n > 0 => Head(q) \in S)
  OBVIOUS

\* A request arrives.
LEMMA ArriveFacts ==
  ASSUME NEW S, NEW q \in Seq(S), NEW x \in S
  PROVE  /\ Append(q, x) \in Seq(S)
         /\ Len(q) \in Nat /\ Len(Append(q, x)) = Len(q) + 1
         /\ Append(q, x) # <<>>
  OBVIOUS

\* accept takes the connection after those that have a socket.
LEMMA AcceptedCounts ==
  ASSUME ServerTypeOK, InLine
  PROVE  accepted \in 0..MaxConnections /\ Accepted = accepted
  <1>1. accepted \in 0..MaxConnections
    BY ConnectionsAssumption DEF ServerTypeOK, Pool!TypeOK, InLine, accepted
  <1>2. {k \in Connections : sock[k] # "none"} = 1..accepted
    BY <1>1, ConnectionsAssumption DEF InLine, Connections
  <1>3. Cardinality(1..accepted) = accepted
    BY <1>1, FS_Interval
  <1> QED
    BY <1>1, <1>2, <1>3 DEF Accepted

---------------------------------------------------------------------------
(***************************************************************************)
(* What the steps of the pool are for the server.                          *)
(***************************************************************************)

poolRest == <<isAllRunning, joinable, cpc, destroyed, undefined>>

\* enqueue adds the connection and wakes at most one worker.
LEMMA SubmitFacts ==
  ASSUME ServerTypeOK, Submit
  PROVE  /\ submitted' = submitted + 1 /\ submitted < MaxConnections
         /\ task_queue' = Append(task_queue, submitted + 1)
         /\ wpc' \in [Workers -> Pool!WorkerStates]
         /\ \A w \in Workers : wpc'[w] = "run" <=> wpc[w] = "run"
         /\ UNCHANGED <<task, mtx, poolRest>>
  <1>1. Pool!Enqueue(Main)
    BY DEF Submit
  <1>2. wpc' \in Pool!NotifyOne
    BY <1>1 DEF Pool!Enqueue
  <1>3. /\ wpc' \in [Workers -> Pool!WorkerStates]
        /\ \A w \in Workers : wpc'[w] = "run" <=> wpc[w] = "run"
    BY <1>2 DEF ServerTypeOK, Pool!TypeOK, Pool!NotifyOne, Pool!Waiters,
                Pool!WorkerStates
  <1> QED
    BY <1>1, <1>3 DEF Pool!Enqueue, Pool!PushBack, poolRest

\* A worker takes the connection that waited longest.
LEMMA StartFacts ==
  ASSUME ServerTypeOK, NEW w \in Workers, NEW k \in Connections, StartHandler(w, k)
  PROVE  /\ task_queue # <<>> /\ k = Head(task_queue)
         /\ task_queue' = Tail(task_queue)
         /\ wpc[w] = "test" /\ wpc' = [wpc EXCEPT ![w] = "run"]
         /\ task' = [task EXCEPT ![w] = k]
         /\ mtx' = None /\ UNCHANGED <<submitted, poolRest>>
  <1>1. Pool!Take(w) /\ wpc'[w] = "run" /\ task'[w] = k
    BY DEF StartHandler
  <1>2. task_queue # <<>>
    BY <1>1 DEF Pool!Take
  <1>3. /\ task' = [task EXCEPT ![w] = Head(task_queue)]
        /\ task_queue' = Tail(task_queue)
        /\ wpc[w] = "test" /\ wpc' = [wpc EXCEPT ![w] = "run"]
        /\ mtx' = None /\ UNCHANGED <<submitted, poolRest>>
    BY <1>1, <1>2 DEF Pool!Take, Pool!PopFront, poolRest
  <1>4. task'[w] = Head(task_queue)
    BY <1>3 DEF ServerTypeOK, Pool!TypeOK
  <1> QED
    BY <1>1, <1>2, <1>3, <1>4

\* The other steps of a worker run nothing and take nothing.
LEMMA QuietFacts ==
  ASSUME ServerTypeOK, NEW w \in Workers, PoolStep(w) \/ SpuriousWake(w)
  PROVE  /\ wpc' \in [Workers -> Pool!WorkerStates]
         /\ \A v \in Workers : wpc'[v] = "run" <=> wpc[v] = "run"
         /\ mtx' \in Workers \cup {mtx, None}
         /\ UNCHANGED <<task, task_queue, submitted, poolRest, connVars>>
  BY DEF ServerTypeOK, Pool!TypeOK, PoolStep, SpuriousWake, Pool!Lock, Pool!Wait,
         Pool!SpuriousWake, Pool!WorkerStates, poolRest

---------------------------------------------------------------------------
(***************************************************************************)
(* Types.                                                                  *)
(***************************************************************************)

\* At the start nobody is connected.
LEMMA InitIInv == Init => IInv
  <1> SUFFICES ASSUME Init PROVE IInv
    OBVIOUS
  <1>0. Pool!Init
    BY DEF Init
  <1>1. /\ isAllRunning = TRUE /\ joinable = {} /\ task_queue = <<>> /\ mtx = None
        /\ task = [w \in Workers |-> 0] /\ cpc = [c \in {Main} |-> "idle"]
        /\ submitted = 0 /\ destroyed = FALSE /\ undefined = FALSE
    BY <1>0 DEF Pool!Init
  <1>2. wpc \in [Workers -> {"unborn", "lock"}]
    BY <1>0 DEF Pool!Init
  <1>3. Pool!TypeOK
    <2>1. task_queue \in Seq(1..submitted) /\ submitted \in Nat
      BY <1>1
    <2>2. task \in [Workers -> 0..submitted] /\ cpc \in [{Main} -> Pool!CallerStates]
      BY <1>1 DEF Pool!CallerStates
    <2>3. wpc \in [Workers -> Pool!WorkerStates]
      BY <1>2 DEF Pool!WorkerStates
    <2> QED
      BY <1>1, <2>1, <2>2, <2>3 DEF Pool!TypeOK
  <1>4. Len(<<>>) = 0 /\ <<>> \in Seq(Kinds)
    OBVIOUS
  <1>5. ServerTypeOK
    <2>1. inbox \in [Connections -> Seq(Kinds)]
      BY <1>4 DEF Init
    <2>2. /\ pending \in 0..MaxConnections
          /\ outstanding \in [Connections -> 0..MaxOutstanding]
          /\ completed \in [Connections -> 0..MaxKeepAliveReq]
          /\ sending \in [Connections -> BOOLEAN]
          /\ cut \in [Connections -> BOOLEAN] /\ whole \in [Connections -> BOOLEAN]
      BY ConnectionsAssumption DEF Init
    <2>3. /\ peer \in [Connections -> {"absent", "connected", "fin", "rst"}]
          /\ sock \in [Connections -> {"none", "open", "closed"}]
          /\ hpc \in [Connections -> HandlerStates]
          /\ current \in [Connections -> Readings \cup {"none"}]
          /\ expired \in [Connections -> BOOLEAN] /\ aborted \in BOOLEAN
      BY DEF Init, HandlerStates
    <2> QED
      BY <1>3, <2>1, <2>2, <2>3 DEF ServerTypeOK
  <1>6. submitted = 0 /\ pending = 0 /\ Len(task_queue) = 0
    BY <1>1, <1>4 DEF Init
  <1>7. accepted = 0 /\ taken = 0
    BY <1>6 DEF accepted, taken
  <1>8. InLine
    BY <1>6, <1>7, ConnectionsAssumption DEF Init, InLine, Connections
  <1>9. Handling
    BY <1>2, <1>7 DEF Init, Handling, Connections
  <1>10. Sockets /\ InBudget
    BY DEF Init, Sockets, InBudget, Begun
  <1>11. Reads /\ NoUnsolicitedResponse
    BY <1>4 DEF Init, Reads, NoUnsolicitedResponse
  <1> QED
    BY <1>5, <1>8, <1>9, <1>10, <1>11 DEF IInv

\* Steps that leave the pool alone.
ConnectionStep(k) ==
  \/ Accept(k) \/ AcceptThrows(k) \/ ClientStep(k)
  \/ \E w \in Workers : HandlerStep(w, k) /\ ~End(w, k)

\* Every step is one of a connection, of the main thread or of a worker.
LEMMA StepKinds ==
  ASSUME Next
  PROVE  \/ \E k \in Connections : ConnectionStep(k)
         \/ \E w \in Workers, k \in Connections : End(w, k) \/ StartHandler(w, k)
         \/ Submit
         \/ \E w \in Workers : PoolStep(w) \/ SpuriousWake(w)
  BY DEF Next, AcceptStep, WorkerStep, ConnectionStep

\* Steps of a connection leave the pool alone.
LEMMA PoolAlone ==
  ASSUME NEW k \in Connections, ConnectionStep(k)
  PROVE  UNCHANGED poolVars
  BY DEF ConnectionStep, Accept, AcceptThrows, ClientStep, Connect, Fin, Reset,
         Request, RequestRest, HandlerStep, Check, ReadData, ReadEof, ReadError, Serve,
         ServeThrows, Reply, ReplyThrows

\* The pool's variables keep their types.
LEMMA PoolTypes ==
  ASSUME IInv, Next
  PROVE  Pool!TypeOK'
  <1> USE DEF IInv, ServerTypeOK
  <1>1. CASE UNCHANGED poolVars
    BY <1>1 DEF Pool!TypeOK, poolVars
  <1>2. CASE Submit
    <2>1. task_queue' \in Seq(1..submitted') /\ submitted' \in Nat
      <3>1. submitted \in Nat /\ task_queue \in Seq(1..submitted)
        BY DEF Pool!TypeOK
      <3>2. Append(task_queue, submitted + 1) \in Seq(1..(submitted + 1))
        BY <3>1, AppendFacts
      <3>3. submitted' = submitted + 1 /\ task_queue' = Append(task_queue, submitted + 1)
        BY <1>2, SubmitFacts
      <3>4. task_queue' \in Seq(1..submitted')
        BY <3>2, <3>3, Zenon
      <3> QED
        BY <3>1, <3>3, <3>4
    <2>2. task \in [Workers -> 0..submitted']
      BY <1>2, SubmitFacts DEF Pool!TypeOK
    <2> QED
      BY <1>2, <2>1, <2>2, SubmitFacts DEF Pool!TypeOK, poolRest
  <1>3. ASSUME NEW w \in Workers, NEW k \in Connections, StartHandler(w, k)
        PROVE  Pool!TypeOK'
    <2>1. Tail(task_queue) \in Seq(1..submitted) /\ k \in 1..submitted
      <3>1. submitted \in Nat /\ task_queue \in Seq(1..submitted)
        BY DEF Pool!TypeOK
      <3> QED
        BY <1>3, <3>1, StartFacts, TailFacts
    <2>2. /\ task_queue' = Tail(task_queue) /\ submitted' = submitted
          /\ task' = [task EXCEPT ![w] = k]
      BY <1>3, StartFacts
    <2>3. task_queue' \in Seq(1..submitted') /\ submitted' \in Nat
      BY <2>1, <2>2 DEF Pool!TypeOK
    <2>4. task' \in [Workers -> 0..submitted']
      BY <2>1, <2>2 DEF Pool!TypeOK
    <2>5. wpc' \in [Workers -> Pool!WorkerStates]
      BY <1>3, StartFacts DEF Pool!TypeOK, Pool!WorkerStates
    <2> QED
      BY <1>3, <2>3, <2>4, <2>5, StartFacts DEF Pool!TypeOK, poolRest
  <1>4. ASSUME NEW w \in Workers, NEW k \in Connections, End(w, k)
        PROVE  Pool!TypeOK'
    BY <1>4 DEF End, Pool!Finish, Pool!TypeOK, Pool!WorkerStates
  <1>5. ASSUME NEW w \in Workers, PoolStep(w) \/ SpuriousWake(w)
        PROVE  Pool!TypeOK'
    BY <1>5, QuietFacts DEF Pool!TypeOK, poolRest
  <1> QED
    BY <1>1, <1>2, <1>3, <1>4, <1>5, StepKinds, PoolAlone

\* accept and the end of a handler keep the budget and the requests in order.
LEMMA ConnectionTypes ==
  ASSUME IInv, Next
  PROVE  ServerTypeOK'
  <1> USE PoolTypes, ConnectionsAssumption DEF IInv, ServerTypeOK
  <1>1. ASSUME NEW k \in Connections, ClientStep(k)
        PROVE  ServerTypeOK'
    <2>1. ASSUME NEW kind \in Kinds, Request(k, kind)
          PROVE  ServerTypeOK'
      <3>1. inbox' \in [Connections -> Seq(Kinds)]
        BY <2>1, ArriveFacts DEF Request
      <3> QED
        BY <2>1, <3>1 DEF Request, handlerVars, requestVars
    <2>2. CASE Connect(k) \/ RequestRest(k) \/ Fin(k) \/ Reset(k)
      BY <2>2 DEF Connect, Fin, Reset, RequestRest, handlerVars, requestVars
    <2> QED
      BY <1>1, <2>1, <2>2 DEF ClientStep
  <1>2. ASSUME NEW k \in Connections, Accept(k) \/ AcceptThrows(k)
        PROVE  ServerTypeOK'
    <2>1. CASE Accept(k)
      <3>1. pending' \in 0..MaxConnections
        BY <2>1 DEF Accept, Connections
      <3>2. sock' = [sock EXCEPT ![k] = "open"]
        BY <2>1 DEF Accept
      <3> QED
        BY <2>1, <3>1, <3>2 DEF Accept, handlerVars, requestVars
    <2>2. CASE AcceptThrows(k)
      BY <2>2 DEF AcceptThrows, handlerVars, requestVars
    <2> QED
      BY <1>2, <2>1, <2>2
  <1>3. CASE Submit
    BY <1>3 DEF Submit, handlerVars, requestVars
  <1>4. ASSUME NEW w \in Workers, NEW k \in Connections, HandlerStep(w, k)
        PROVE  ServerTypeOK'
    <2> USE DEF HandlerAt, GoTo, HandlerStates
    <2>1. CASE ReadData(w, k)
      <3>1. PICK n \in 0..Len(inbox[k]), piece \in BOOLEAN :
              /\ Readable(k, n, piece)
              /\ inbox' = [inbox EXCEPT ![k] = Unread(k, n)]
              /\ cut' = [cut EXCEPT ![k] = piece]
              /\ whole' = [whole EXCEPT ![k] = @ /\ ~cut[k] /\ ~piece]
              /\ \E kind \in Parsed(k, n) : current' = [current EXCEPT ![k] = kind]
        BY <2>1 DEF ReadData
      <3>2. inbox' \in [Connections -> Seq(Kinds)]
        BY <3>1, UnreadFacts DEF Unread
      <3>3. Parsed(k, n) \subseteq Readings
        BY <3>1, UnreadFacts DEF Parsed, Readings
      <3> QED
        BY <2>1, <3>1, <3>2, <3>3 DEF ReadData
    <2>2. CASE Check(w, k) \/ ReadEof(w, k) \/ ReadError(w, k) \/ End(w, k)
      BY <2>2 DEF Check, ReadEof, ReadError, End, AfterClose, AfterReadError,
                  SocketAfterDelete, requestVars
    <2>3. CASE Serve(w, k) \/ ServeThrows(w, k) \/ ReplyThrows(w, k)
      BY <2>3 DEF Serve, ServeThrows, ReplyThrows, handlerVars, requestVars
    <2>4. CASE Reply(w, k)
      <3>1. completed[k] < MaxKeepAliveReq
        BY <2>4 DEF Reply, InBudget
      <3>2. (IF outstanding[k] > 0 THEN outstanding[k] - 1 ELSE 0) \in 0..MaxOutstanding
        OBVIOUS
      <3> QED
        BY <2>4, <3>1, <3>2 DEF Reply, requestVars
    <2> QED
      BY <1>4, <2>1, <2>2, <2>3, <2>4 DEF HandlerStep
  <1>5. ASSUME NEW w \in Workers, NEW k \in Connections, StartHandler(w, k)
        PROVE  ServerTypeOK'
    BY <1>5 DEF StartHandler, GoTo, HandlerStates, requestVars
  <1>6. ASSUME NEW w \in Workers, PoolStep(w) \/ SpuriousWake(w)
        PROVE  ServerTypeOK'
    BY <1>6, QuietFacts DEF connVars, handlerVars, requestVars
  <1> QED
    BY <1>1, <1>2, <1>3, <1>4, <1>5, <1>6 DEF Next, AcceptStep, WorkerStep

---------------------------------------------------------------------------
(***************************************************************************)
(* Where the connections are.                                              *)
(***************************************************************************)

\* Only accept and the main thread change what has been accepted, only the main
\* thread and a start what waits.
LEMMA InLineStep ==
  ASSUME IInv, Next
  PROVE  InLine'
  <1> USE DEF IInv
  <1>0. /\ submitted \in Nat /\ pending \in Nat /\ Len(task_queue) \in Nat
        /\ task_queue \in Seq(1..submitted)
    BY ConnectionsAssumption DEF ServerTypeOK, Pool!TypeOK
  <1>1. ASSUME NEW k \in Connections, Accept(k)
        PROVE  InLine'
    <2>1. /\ k = accepted + 1 /\ pending = 0 /\ pending' = k
          /\ sock' = [sock EXCEPT ![k] = "open"]
          /\ submitted' = submitted /\ task_queue' = task_queue
      BY <1>1, AcceptedCounts DEF Accept, poolVars
    <2>2. accepted' = accepted + 1 /\ accepted = submitted
      BY <2>1, <1>0 DEF accepted
    <2>3. \A j \in Connections : sock'[j] # "none" <=> j <= accepted'
      <3>1. \A j \in Connections : sock'[j] = IF j = k THEN "open" ELSE sock[j]
        BY <2>1 DEF ServerTypeOK
      <3> QED
        BY <3>1, <2>1, <2>2, <1>0 DEF InLine, Connections
    <2>4. taken' = taken
      BY <2>1 DEF taken
    <2> QED
      BY <1>0, <2>1, <2>2, <2>3, <2>4 DEF InLine
  <1>2. CASE Submit
    <2>1. /\ pending # 0 /\ pending' = 0 /\ sock' = sock
          /\ submitted' = submitted + 1 /\ submitted < MaxConnections
          /\ task_queue' = Append(task_queue, submitted + 1)
      BY <1>2, SubmitFacts DEF Submit
    <2>2. /\ Len(task_queue') = Len(task_queue) + 1
          /\ \A i \in 1..Len(task_queue) : task_queue'[i] = task_queue[i]
          /\ task_queue'[Len(task_queue) + 1] = submitted + 1
      BY <2>1, <1>0, AppendFacts
    <2>3. accepted' = accepted
      BY <2>1 DEF accepted, InLine
    <2>4. taken' = taken
      BY <2>1, <2>2, <1>0 DEF taken
    <2>5. \A i \in 1..Len(task_queue') : task_queue'[i] = taken + i
      <3>1. taken + (Len(task_queue) + 1) = submitted + 1
        BY <1>0 DEF taken
      <3>2. \A i \in 1..Len(task_queue) : task_queue'[i] = taken + i
        BY <2>2 DEF InLine
      <3> QED
        BY <2>2, <3>1, <3>2, <1>0
    <2> QED
      BY <1>0, <2>1, <2>2, <2>3, <2>4, <2>5, ConnectionsAssumption DEF InLine
  <1>3. ASSUME NEW w \in Workers, NEW k \in Connections, StartHandler(w, k)
        PROVE  InLine'
    <2>1. /\ task_queue # <<>> /\ task_queue' = Tail(task_queue)
          /\ UNCHANGED <<submitted, pending, sock>>
      BY <1>3, StartFacts DEF StartHandler
    <2>2. /\ Len(task_queue) \in Nat \ {0} /\ Len(task_queue') = Len(task_queue) - 1
          /\ \A i \in 1..Len(task_queue') : task_queue'[i] = task_queue[i + 1]
      BY <2>1, <1>0, TailFacts
    <2>3. accepted' = accepted
      BY <2>1 DEF accepted
    <2>4. taken' = taken + 1
      BY <2>1, <2>2, <1>0 DEF taken
    <2>5. \A i \in 1..Len(task_queue') : task_queue'[i] = taken' + i
      BY <2>2, <2>4, <1>0 DEF InLine, taken
    <2> QED
      BY <1>0, <2>1, <2>2, <2>3, <2>5 DEF InLine
  <1>4. ASSUME UNCHANGED <<submitted, task_queue, pending>>,
               \A k \in Connections : sock'[k] # "none" <=> sock[k] # "none"
        PROVE  InLine'
    BY <1>4 DEF InLine, accepted, taken
  <1>5. ASSUME NEW k \in Connections,
               ClientStep(k) \/ AcceptThrows(k)
        PROVE  InLine'
    BY <1>4, <1>5 DEF ClientStep, AcceptThrows, Connect, Fin, Reset, Request, RequestRest, poolVars
  <1>6. ASSUME NEW w \in Workers, NEW k \in Connections, HandlerStep(w, k)
        PROVE  InLine'
    <2>1. sock[k] # "none"
      <3>1. task[w] = k /\ wpc[w] = "run"
        BY <1>6 DEF HandlerStep, Check, ReadData, ReadEof, ReadError, Serve,
                    ServeThrows, Reply, ReplyThrows, End, HandlerAt
      <3> QED
        BY <3>1, <1>0 DEF Handling, InLine, taken, accepted
    <2>2. /\ UNCHANGED <<submitted, task_queue, pending>>
          /\ sock' \in {sock, [sock EXCEPT ![k] = "closed"]}
      BY <1>6 DEF HandlerStep, Check, ReadData, ReadEof, ReadError, Serve,
                  ServeThrows, Reply, ReplyThrows, End, poolVars,
                  Pool!Finish, SocketAfterDelete
    <2> QED
      BY <1>4, <2>1, <2>2 DEF ServerTypeOK
  <1>7. ASSUME NEW w \in Workers, PoolStep(w) \/ SpuriousWake(w)
        PROVE  InLine'
    BY <1>4, <1>7, QuietFacts DEF connVars
  <1> QED
    BY <1>1, <1>2, <1>3, <1>5, <1>6, <1>7 DEF Next, AcceptStep, WorkerStep

\* A handler that goes on stays with its worker; its first and last steps are the
\* worker's start and return.
LEMMA HandlingStep ==
  ASSUME IInv, Next
  PROVE  Handling'
  <1> USE DEF IInv
  <1>0. /\ submitted \in Nat /\ Len(task_queue) \in Nat
        /\ task_queue \in Seq(1..submitted)
        /\ wpc \in [Workers -> Pool!WorkerStates]
        /\ task \in [Workers -> Nat]
        /\ hpc \in [Connections -> HandlerStates]
    BY DEF ServerTypeOK, Pool!TypeOK
  <1>1. ASSUME NEW w \in Workers, NEW k \in Connections, StartHandler(w, k)
        PROVE  Handling'
    <2>1. /\ task_queue # <<>> /\ k = Head(task_queue)
          /\ task_queue' = Tail(task_queue) /\ submitted' = submitted
          /\ wpc[w] = "test" /\ wpc' = [wpc EXCEPT ![w] = "run"]
          /\ task' = [task EXCEPT ![w] = k]
          /\ hpc' = [hpc EXCEPT ![k] = "check"]
      BY <1>1, StartFacts DEF StartHandler, GoTo
    <2>2. k = taken + 1 /\ taken' = taken + 1 /\ taken \in Nat
      BY <2>1, <1>0, TailFacts DEF InLine, taken
    <2>3. \A v \in Workers :
            wpc'[v] = "run" => /\ task'[v] \in 1..taken'
                               /\ hpc'[task'[v]] \notin {"none", "ended"}
      BY <2>1, <2>2, <1>0 DEF Handling, Connections
    <2>4. \A u, v \in Workers :
            wpc'[u] = "run" /\ wpc'[v] = "run" /\ task'[u] = task'[v] => u = v
      BY <2>1, <2>2, <1>0 DEF Handling
    <2>5. \A j \in Connections : hpc'[j] = "none" <=> j > taken'
      BY <2>1, <2>2, <1>0 DEF Handling, Connections
    <2>6. \A j \in Connections :
            hpc'[j] \notin {"none", "ended"}
              => \E v \in Workers : wpc'[v] = "run" /\ task'[v] = j
      <3>1. \A v \in Workers : wpc[v] = "run" => wpc'[v] = "run" /\ task'[v] = task[v]
        BY <2>1, <1>0
      <3>2. wpc'[w] = "run" /\ task'[w] = k
        BY <2>1, <1>0
      <3>3. \A j \in Connections : j # k => hpc'[j] = hpc[j]
        BY <2>1, <1>0
      <3> QED
        BY <3>1, <3>2, <3>3 DEF Handling
    <2> QED
      BY <2>3, <2>4, <2>5, <2>6 DEF Handling
  <1>2. ASSUME NEW w \in Workers, NEW k \in Connections, End(w, k)
        PROVE  Handling'
    <2>1. /\ wpc[w] = "run" /\ task[w] = k /\ hpc[k] = "exit"
          /\ wpc' = [wpc EXCEPT ![w] = "lock"] /\ hpc' = [hpc EXCEPT ![k] = "ended"]
          /\ UNCHANGED <<task, task_queue, submitted>>
      BY <1>2 DEF End, HandlerAt, GoTo, Pool!Finish
    <2>2. taken' = taken
      BY <2>1 DEF taken
    <2>3. \A v \in Workers : wpc'[v] = "run" => v # w /\ wpc[v] = "run" /\ task[v] # k
      BY <2>1, <1>0 DEF Handling
    <2>4. \A v \in Workers : v # w => wpc'[v] = wpc[v]
      BY <2>1, <1>0
    <2>5. \A j \in Connections : hpc'[j] = IF j = k THEN "ended" ELSE hpc[j]
      BY <2>1, <1>0
    <2>6. \A v \in Workers : wpc[v] = "run" => task[v] \in Connections
      BY <1>0, ConnectionsAssumption DEF Handling, InLine, taken, Connections
    <2>7. \A j \in Connections :
            hpc'[j] \notin {"none", "ended"}
              => \E v \in Workers : wpc'[v] = "run" /\ task'[v] = j
      BY <2>1, <2>4, <2>5 DEF Handling
    <2> QED
      BY <2>1, <2>2, <2>3, <2>5, <2>6, <2>7 DEF Handling
  <1>3. ASSUME \A v \in Workers : wpc'[v] = "run" <=> wpc[v] = "run",
               task' = task, taken' = taken,
               \A j \in Connections :
                 \/ hpc'[j] = hpc[j]
                 \/ {hpc[j], hpc'[j]} \cap {"none", "ended"} = {}
        PROVE  Handling'
    <2>1. \A v \in Workers : wpc[v] = "run" => task[v] \in Connections
      BY <1>0, ConnectionsAssumption DEF Handling, InLine, taken, Connections
    <2> QED
      BY <1>3, <2>1 DEF Handling
  <1>4. ASSUME NEW k \in Connections, ConnectionStep(k)
        PROVE  Handling'
    <2>1. wpc' = wpc /\ task' = task /\ taken' = taken
      BY <1>4, PoolAlone DEF poolVars, taken
    <2>2. CASE hpc' = hpc
      BY <1>3, <2>1, <2>2
    <2>3. CASE hpc' # hpc
      <3>1. PICK w \in Workers : HandlerStep(w, k) /\ ~End(w, k)
        BY <1>4, <2>3 DEF ConnectionStep, Accept, AcceptThrows, ClientStep, Connect,
                          Fin, Reset, Request, RequestRest, handlerVars, requestVars
      <3>2. /\ hpc[k] \in Begun
            /\ \E place \in Begun \cup {"exit"} : hpc' = [hpc EXCEPT ![k] = place]
        BY <2>3, <3>1
           DEF HandlerStep, Check, ReadData, ReadEof, ReadError, Serve, ServeThrows,
               Reply, ReplyThrows, HandlerAt, GoTo, AfterClose, AfterReadError,
               handlerVars, requestVars, Begun
      <3> QED
        BY <1>3, <2>1, <3>2, <1>0 DEF Begun
    <2> QED
      BY <2>2, <2>3
  <1>5. CASE Submit
    <2>1. /\ hpc' = hpc /\ task' = task /\ submitted' = submitted + 1
          /\ task_queue' = Append(task_queue, submitted + 1)
          /\ \A w \in Workers : wpc'[w] = "run" <=> wpc[w] = "run"
      BY <1>5, SubmitFacts DEF Submit, handlerVars, requestVars
    <2>2. taken' = taken
      BY <2>1, <1>0, AppendFacts DEF taken
    <2> QED
      BY <1>3, <2>1, <2>2
  <1>6. ASSUME NEW w \in Workers, PoolStep(w) \/ SpuriousWake(w)
        PROVE  Handling'
    BY <1>3, <1>6, QuietFacts DEF connVars, handlerVars, requestVars, taken
  <1> QED
    BY <1>1, <1>2, <1>4, <1>5, <1>6, StepKinds

---------------------------------------------------------------------------
(***************************************************************************)
(* Sockets, the budget and the responses.                                  *)
(***************************************************************************)

\* A socket is open while a handler uses it and closed behind it.
LEMMA SocketsStep ==
  ASSUME IInv, Next
  PROVE  Sockets'
  <1> USE DEF IInv
  <1>0. /\ hpc \in [Connections -> HandlerStates]
        /\ sock \in [Connections -> {"none", "open", "closed"}]
        /\ submitted \in Nat /\ Len(task_queue) \in Nat
    BY DEF ServerTypeOK, Pool!TypeOK
  <1>1. CASE UNCHANGED <<hpc, sock>>
    BY <1>1 DEF Sockets
  <1>2. ASSUME NEW k \in Connections, Accept(k)
        PROVE  Sockets'
    <2>1. /\ k > submitted /\ hpc' = hpc
          /\ sock' = [sock EXCEPT ![k] = "open"]
      BY <1>2, AcceptedCounts, <1>0 DEF Accept, accepted, handlerVars, requestVars
    <2>2. hpc[k] = "none"
      BY <2>1, <1>0 DEF Handling, taken, Connections
    <2> QED
      BY <2>1, <2>2, <1>0 DEF Sockets, Begun
  <1>3. ASSUME NEW w \in Workers, NEW k \in Connections, StartHandler(w, k)
        PROVE  Sockets'
    <2>1. k = Head(task_queue) /\ task_queue # <<>>
      BY <1>3, StartFacts
    <2>2. k <= accepted
      <3>1. k \in 1..submitted
        BY <2>1, TailFacts DEF ServerTypeOK, Pool!TypeOK
      <3> QED
        BY <3>1, <1>0, ConnectionsAssumption DEF InLine, accepted, ServerTypeOK
    <2>3. hpc[k] = "none"
      <3>1. k = taken + 1
        BY <2>1, TailFacts DEF ServerTypeOK, Pool!TypeOK, InLine, taken
      <3> QED
        BY <3>1, <1>0 DEF Handling, taken
    <2>4. sock[k] = "open"
      BY <2>2, <2>3, <1>0 DEF Sockets, InLine
    <2>5. sock' = sock /\ hpc' = [hpc EXCEPT ![k] = "check"]
      BY <1>3 DEF StartHandler, GoTo
    <2> QED
      BY <2>4, <2>5, <1>0 DEF Sockets, Begun
  <1>4. ASSUME NEW w \in Workers, NEW k \in Connections, HandlerStep(w, k)
        PROVE  Sockets'
    <2> USE DEF HandlerAt, GoTo, Sockets, Begun
    <2>1. CASE Check(w, k) \/ ReadEof(w, k) \/ ReadError(w, k) \/ End(w, k)
      BY <2>1, <1>0 DEF Check, ReadEof, ReadError, End, AfterClose, AfterReadError,
                        SocketAfterDelete
    <2>2. CASE ReadData(w, k) \/ Serve(w, k) \/ Reply(w, k)
      BY <2>2, <1>0 DEF ReadData, Serve, Reply
    <2>3. CASE ServeThrows(w, k) \/ ReplyThrows(w, k)
      BY <2>3, <1>1 DEF ServeThrows, ReplyThrows, handlerVars, requestVars
    <2> QED
      BY <1>4, <2>1, <2>2, <2>3 DEF HandlerStep
  <1>5. ASSUME NEW k \in Connections, ClientStep(k) \/ AcceptThrows(k)
        PROVE  Sockets'
    BY <1>1, <1>5 DEF ClientStep, AcceptThrows, Connect, Fin, Reset, Request, RequestRest,
                      handlerVars, requestVars
  <1>6. CASE Submit
    BY <1>1, <1>6 DEF Submit, handlerVars, requestVars
  <1>7. ASSUME NEW w \in Workers, PoolStep(w) \/ SpuriousWake(w)
        PROVE  Sockets'
    BY <1>1, <1>7 DEF PoolStep, SpuriousWake, connVars, handlerVars, requestVars
  <1> QED
    BY <1>2, <1>3, <1>4, <1>5, <1>6, <1>7 DEF Next, AcceptStep, WorkerStep

\* The test at the head of the loop is the only way to a request.
LEMMA InBudgetStep ==
  ASSUME IInv, Next
  PROVE  InBudget'
  <1> USE DEF IInv, InBudget
  <1>0. /\ hpc \in [Connections -> HandlerStates]
        /\ completed \in [Connections -> 0..MaxKeepAliveReq]
    BY DEF ServerTypeOK
  <1>1. CASE UNCHANGED <<hpc, completed>>
    BY <1>1
  <1>2. ASSUME NEW w \in Workers, NEW k \in Connections, StartHandler(w, k)
        PROVE  InBudget'
    BY <1>2, <1>0 DEF StartHandler, GoTo
  <1>3. ASSUME NEW w \in Workers, NEW k \in Connections, HandlerStep(w, k)
        PROVE  InBudget'
    <2> USE DEF HandlerAt, GoTo
    <2>1. CASE Check(w, k)
      BY <2>1, <1>0, ConnectionsAssumption DEF Check, ShouldClose, AfterClose
    <2>2. CASE ReadEof(w, k) \/ ReadError(w, k) \/ End(w, k)
      BY <2>2, <1>0 DEF ReadEof, ReadError, End, AfterClose, AfterReadError
    <2>3. CASE ReadData(w, k) \/ Serve(w, k) \/ Reply(w, k)
      BY <2>3, <1>0 DEF ReadData, Serve, Reply
    <2>4. CASE ServeThrows(w, k) \/ ReplyThrows(w, k)
      BY <2>4, <1>1 DEF ServeThrows, ReplyThrows, handlerVars, requestVars
    <2> QED
      BY <1>3, <2>1, <2>2, <2>3, <2>4 DEF HandlerStep
  <1>4. ASSUME NEW k \in Connections, Accept(k) \/ ClientStep(k) \/ AcceptThrows(k)
        PROVE  InBudget'
    BY <1>1, <1>4 DEF Accept, ClientStep, AcceptThrows, Connect, Fin, Reset, Request, RequestRest,
                      handlerVars, requestVars
  <1>5. CASE Submit
    BY <1>1, <1>5 DEF Submit, handlerVars, requestVars
  <1>6. ASSUME NEW w \in Workers, PoolStep(w) \/ SpuriousWake(w)
        PROVE  InBudget'
    BY <1>1, <1>6 DEF PoolStep, SpuriousWake, connVars, handlerVars, requestVars
  <1> QED
    BY <1>2, <1>3, <1>4, <1>5, <1>6 DEF Next, AcceptStep, WorkerStep

\* A read is all that reads a piece of a request or parses one; only a client sends.
LEMMA ReadsStep ==
  ASSUME IInv, Next
  PROVE  Reads'
  <1> USE DEF IInv, Reads
  <1>0. /\ hpc \in [Connections -> HandlerStates]
        /\ cut \in [Connections -> BOOLEAN] /\ whole \in [Connections -> BOOLEAN]
        /\ current \in [Connections -> Readings \cup {"none"}]
        /\ inbox \in [Connections -> Seq(Kinds)]
    BY DEF ServerTypeOK
  <1>1. ASSUME UNCHANGED <<inbox, cut, whole, current>>,
               \A k \in Connections : hpc'[k] = "serve" => hpc[k] = "serve"
        PROVE  Reads'
    BY <1>1
  <1>2. ASSUME NEW k \in Connections, NEW kind \in Kinds, Request(k, kind)
        PROVE  Reads'
    <2>1. Append(inbox[k], kind) # <<>>
      <3>1. inbox[k] \in Seq(Kinds)
        BY <1>0
      <3> QED
        BY <3>1, ArriveFacts
    <2>2. /\ inbox' = [inbox EXCEPT ![k] = Append(inbox[k], kind)]
          /\ UNCHANGED <<hpc, cut, whole, current>>
      BY <1>2 DEF Request, handlerVars
    <2> QED
      BY <2>1, <2>2, <1>0
  <1>3. ASSUME NEW w \in Workers, NEW k \in Connections, ReadData(w, k)
        PROVE  Reads'
    <2>1. PICK n \in 0..Len(inbox[k]), piece \in BOOLEAN :
            /\ Readable(k, n, piece)
            /\ inbox' = [inbox EXCEPT ![k] = Unread(k, n)]
            /\ cut' = [cut EXCEPT ![k] = piece]
            /\ whole' = [whole EXCEPT ![k] = @ /\ ~cut[k] /\ ~piece]
            /\ \E kind \in Parsed(k, n) : current' = [current EXCEPT ![k] = kind]
      BY <1>3 DEF ReadData
    <2>2. hpc' = [hpc EXCEPT ![k] = "serve"]
      BY <1>3 DEF ReadData, GoTo
    <2>3. piece => Unread(k, n) # <<>>
      <3>1. Len(Unread(k, n)) = Len(inbox[k]) - n /\ Len(inbox[k]) \in Nat
        BY <1>0, UnreadFacts DEF Unread
      <3>2. Len(<<>>) = 0
        OBVIOUS
      <3> QED
        BY <2>1, <3>1, <3>2 DEF Readable
    <2>4. ~cut[k] /\ ~piece => Parsed(k, n) \subseteq Kinds
      BY <2>1, <1>0, UnreadFacts DEF Readable, Parsed
    <2> QED
      BY <2>1, <2>2, <2>3, <2>4, <1>0
  <1>4. ASSUME NEW w \in Workers, NEW k \in Connections, HandlerStep(w, k)
        PROVE  Reads'
    <2>1. CASE Check(w, k) \/ ReadEof(w, k) \/ ReadError(w, k) \/ Serve(w, k)
               \/ Reply(w, k) \/ End(w, k)
      <3>1. /\ UNCHANGED <<inbox, cut, whole, current>>
            /\ \E place \in HandlerStates \ {"serve"} : hpc' = [hpc EXCEPT ![k] = place]
        BY <2>1 DEF Check, ReadEof, ReadError, Serve, Reply, End, GoTo, AfterClose,
                    AfterReadError, HandlerStates, requestVars
      <3> QED
        BY <1>1, <3>1, <1>0
    <2>2. CASE ServeThrows(w, k) \/ ReplyThrows(w, k)
      BY <1>1, <2>2 DEF ServeThrows, ReplyThrows, handlerVars, requestVars
    <2> QED
      BY <1>3, <1>4, <2>1, <2>2 DEF HandlerStep
  <1>5. ASSUME NEW w \in Workers, NEW k \in Connections, StartHandler(w, k)
        PROVE  Reads'
    <2>1. /\ UNCHANGED <<inbox, cut, whole, current>>
          /\ hpc' = [hpc EXCEPT ![k] = "check"]
      BY <1>5 DEF StartHandler, GoTo, requestVars
    <2> QED
      BY <1>1, <2>1, <1>0
  <1>6. ASSUME NEW k \in Connections,
               \/ Accept(k) \/ AcceptThrows(k) \/ Connect(k) \/ RequestRest(k)
               \/ Fin(k) \/ Reset(k)
        PROVE  Reads'
    BY <1>1, <1>6 DEF Accept, AcceptThrows, Connect, RequestRest, Fin, Reset,
                      handlerVars, requestVars
  <1>7. CASE Submit
    BY <1>1, <1>7 DEF Submit, handlerVars, requestVars
  <1>8. ASSUME NEW w \in Workers, PoolStep(w) \/ SpuriousWake(w)
        PROVE  Reads'
    BY <1>1, <1>8 DEF PoolStep, SpuriousWake, connVars, handlerVars, requestVars
  <1> QED
    BY <1>2, <1>4, <1>5, <1>6, <1>7, <1>8 DEF Next, AcceptStep, WorkerStep, ClientStep

\* What a handler owes for the requests it has read and not answered.
Owes(k) == IF hpc[k] \in {"serve", "reply"} THEN 1 ELSE 0

\* What a step may do to the requests of a connection: nothing but the arrival of
\* the rest of one, the arrival of one, a read, an answer.
Quiet(k) ==
  /\ Len(inbox[k])' = Len(inbox[k]) /\ outstanding'[k] = outstanding[k]
  /\ Owes(k)' = Owes(k)
  /\ whole'[k] = whole[k] /\ cut'[k] = cut[k] /\ (sending'[k] => sending[k])

Arrival(k) ==
  /\ Len(inbox[k])' = Len(inbox[k]) + 1 /\ outstanding'[k] = outstanding[k] + 1
  /\ Owes(k)' = Owes(k)
  /\ whole'[k] = whole[k] /\ cut'[k] = cut[k] /\ ~sending[k]

Reading(k) ==
  /\ \E n \in 0..Len(inbox[k]) :
       /\ Len(inbox[k])' = Len(inbox[k]) - n
       /\ whole'[k] => whole[k] /\ n > 0
  /\ Owes(k) = 0 /\ Owes(k)' = 1 /\ outstanding'[k] = outstanding[k]

Answer(k) ==
  /\ Len(inbox[k])' = Len(inbox[k])
  /\ outstanding'[k] = IF outstanding[k] > 0 THEN outstanding[k] - 1 ELSE 0
  /\ Owes(k) = 1 /\ Owes(k)' = 0
  /\ whole'[k] = whole[k] /\ cut'[k] = cut[k] /\ sending'[k] = sending[k]

Accounting(k) == Quiet(k) \/ Arrival(k) \/ Reading(k) \/ Answer(k)

\* Every step does one of these to the requests of a connection.
LEMMA AccountingStep ==
  ASSUME IInv, Next
  PROVE  \A k \in Connections : Accounting(k)
  <1> USE DEF IInv
  <1>0. /\ hpc \in [Connections -> HandlerStates]
        /\ inbox \in [Connections -> Seq(Kinds)]
        /\ outstanding \in [Connections -> 0..MaxOutstanding]
        /\ sending \in [Connections -> BOOLEAN]
        /\ cut \in [Connections -> BOOLEAN] /\ whole \in [Connections -> BOOLEAN]
        /\ \A k \in Connections : Len(inbox[k]) \in Nat
    <2>1. inbox \in [Connections -> Seq(Kinds)]
      BY DEF ServerTypeOK
    <2>2. \A k \in Connections : Len(inbox[k]) \in Nat
      BY <2>1, ArriveFacts
    <2> QED
      BY <2>1, <2>2 DEF ServerTypeOK
  <1>1. CASE UNCHANGED <<hpc, requestVars, outstanding>>
    BY <1>1 DEF Accounting, Quiet, Owes, requestVars
  <1>2. ASSUME NEW j \in Connections, UNCHANGED <<requestVars, outstanding>>,
               \E place \in HandlerStates : hpc' = [hpc EXCEPT ![j] = place],
               hpc[j] \in {"serve", "reply"} <=> hpc'[j] \in {"serve", "reply"}
        PROVE  \A k \in Connections : Accounting(k)
    BY <1>2, <1>0 DEF Accounting, Quiet, Owes, requestVars
  <1>3. ASSUME NEW j \in Connections, NEW kind \in Kinds, Request(j, kind)
        PROVE  \A k \in Connections : Accounting(k)
    <2>1. /\ inbox' = [inbox EXCEPT ![j] = Append(inbox[j], kind)]
          /\ outstanding' = [outstanding EXCEPT ![j] = outstanding[j] + 1]
          /\ \E split \in BOOLEAN : sending' = [sending EXCEPT ![j] = split]
          /\ ~sending[j] /\ UNCHANGED <<hpc, cut, whole>>
      BY <1>3 DEF Request, handlerVars
    <2>2. Len(inbox'[j]) = Len(inbox[j]) + 1
      BY <2>1, <1>0, ArriveFacts
    <2>3. Arrival(j)
      BY <2>1, <2>2, <1>0 DEF Arrival, Owes
    <2>4. \A k \in Connections : k # j => Quiet(k)
      BY <2>1, <1>0 DEF Quiet, Owes
    <2> QED
      BY <2>3, <2>4 DEF Accounting
  <1>4. ASSUME NEW w \in Workers, NEW j \in Connections, HandlerStep(w, j)
        PROVE  \A k \in Connections : Accounting(k)
    <2> USE DEF HandlerAt, GoTo
    <2>1. CASE ReadData(w, j)
      <3>1. PICK n \in 0..Len(inbox[j]), piece \in BOOLEAN :
              /\ Readable(j, n, piece)
              /\ inbox' = [inbox EXCEPT ![j] = Unread(j, n)]
              /\ cut' = [cut EXCEPT ![j] = piece]
              /\ whole' = [whole EXCEPT ![j] = @ /\ ~cut[j] /\ ~piece]
        BY <2>1 DEF ReadData
      <3>2. Len(inbox'[j]) = Len(inbox[j]) - n
        BY <3>1, <1>0, UnreadFacts DEF Unread
      <3>3. /\ hpc[j] = "read" /\ hpc' = [hpc EXCEPT ![j] = "serve"]
            /\ outstanding' = outstanding /\ sending' = sending
        BY <2>1 DEF ReadData
      <3>4. whole'[j] => whole[j] /\ n > 0
        BY <3>1, <1>0 DEF Readable
      <3>5. Owes(j) = 0 /\ Owes(j)' = 1
        BY <3>3, <1>0 DEF Owes
      <3>6. Reading(j)
        BY <3>2, <3>3, <3>4, <3>5 DEF Reading
      <3>7. \A k \in Connections : k # j => Quiet(k)
        BY <3>1, <3>3, <1>0 DEF Quiet, Owes
      <3> QED
        BY <3>6, <3>7 DEF Accounting
    <2>2. CASE Reply(w, j)
      <3>1. /\ hpc[j] = "reply" /\ hpc' = [hpc EXCEPT ![j] = "check"]
            /\ outstanding' = [outstanding EXCEPT
                 ![j] = IF outstanding[j] > 0 THEN outstanding[j] - 1 ELSE 0]
            /\ UNCHANGED <<inbox, cut, whole, sending>>
        BY <2>2 DEF Reply, requestVars
      <3>2. Answer(j)
        BY <3>1, <1>0 DEF Answer, Owes
      <3>3. \A k \in Connections : k # j => Quiet(k)
        BY <3>1, <1>0 DEF Quiet, Owes
      <3> QED
        BY <3>2, <3>3 DEF Accounting
    <2>3. CASE Check(w, j) \/ ReadEof(w, j) \/ ReadError(w, j) \/ Serve(w, j) \/ End(w, j)
      <3>1. /\ UNCHANGED <<requestVars, outstanding>>
            /\ \E place \in HandlerStates : hpc' = [hpc EXCEPT ![j] = place]
            /\ hpc[j] \in {"serve", "reply"} <=> hpc'[j] \in {"serve", "reply"}
        BY <2>3, <1>0 DEF Check, ReadEof, ReadError, Serve, End, AfterClose, AfterReadError,
                    HandlerStates
      <3> QED
        BY <1>2, <3>1
    <2>4. CASE ServeThrows(w, j) \/ ReplyThrows(w, j)
      BY <1>1, <2>4 DEF ServeThrows, ReplyThrows, handlerVars
    <2> QED
      BY <1>4, <2>1, <2>2, <2>3, <2>4 DEF HandlerStep
  <1>5. ASSUME NEW w \in Workers, NEW j \in Connections, StartHandler(w, j)
        PROVE  \A k \in Connections : Accounting(k)
    <2>1. hpc[j] = "none"
      <3>1. task_queue # <<>> /\ j = Head(task_queue)
        BY <1>5, StartFacts
      <3>2. /\ j = taken + 1 /\ taken \in Int
        BY <3>1, TailFacts DEF ServerTypeOK, Pool!TypeOK, InLine, taken
      <3> QED
        BY <3>2 DEF Handling
    <2>2. /\ UNCHANGED <<requestVars, outstanding>>
          /\ hpc' = [hpc EXCEPT ![j] = "check"]
      BY <1>5 DEF StartHandler, GoTo
    <2> QED
      BY <1>2, <2>1, <2>2, <1>0 DEF HandlerStates
  <1>6. ASSUME NEW j \in Connections,
               Accept(j) \/ AcceptThrows(j) \/ Connect(j) \/ Fin(j) \/ Reset(j)
        PROVE  \A k \in Connections : Accounting(k)
    BY <1>1, <1>6 DEF Accept, AcceptThrows, Connect, Fin, Reset, handlerVars
  <1>7. ASSUME NEW j \in Connections, RequestRest(j)
        PROVE  \A k \in Connections : Accounting(k)
    <2>1. /\ sending' = [sending EXCEPT ![j] = FALSE]
          /\ UNCHANGED <<hpc, inbox, cut, whole, outstanding>>
      BY <1>7 DEF RequestRest, handlerVars
    <2> QED
      BY <2>1, <1>0 DEF Accounting, Quiet, Owes
  <1>8. CASE Submit
    BY <1>1, <1>8 DEF Submit, handlerVars
  <1>9. ASSUME NEW w \in Workers, PoolStep(w) \/ SpuriousWake(w)
        PROVE  \A k \in Connections : Accounting(k)
    BY <1>1, <1>9, QuietFacts DEF connVars, handlerVars
  <1> QED
    BY <1>3, <1>4, <1>5, <1>6, <1>7, <1>8, <1>9 DEF Next, AcceptStep, WorkerStep, ClientStep

\* Whatever a step does to the requests of a connection that were read whole, none is
\* answered twice.
LEMMA UnsolicitedStep ==
  ASSUME IInv, Next
  PROVE  NoUnsolicitedResponse'
  <1>1. \A k \in Connections : Accounting(k)
    BY AccountingStep
  <1>2. \A k \in Connections :
          /\ Len(inbox[k]) \in Nat /\ outstanding[k] \in Int /\ Owes(k) \in {0, 1}
          /\ whole[k] => Len(inbox[k]) + Owes(k) <= outstanding[k]
    BY ArriveFacts, ConnectionsAssumption
       DEF IInv, ServerTypeOK, NoUnsolicitedResponse, Owes
  <1>3. \A k \in Connections :
          whole'[k] => Len(inbox[k])' + Owes(k)' <= outstanding'[k]
    BY <1>1, <1>2 DEF Accounting, Quiet, Arrival, Reading, Answer
  <1> QED
    BY <1>3 DEF NoUnsolicitedResponse, Owes

\* IInv holds of every state of the server.
LEMMA Invariance == Safety => []IInv
  <1>1. IInv /\ Next => IInv'
    BY ConnectionTypes, InLineStep, HandlingStep, SocketsStep, InBudgetStep,
       ReadsStep, UnsolicitedStep DEF IInv
  <1>2. IInv /\ UNCHANGED vars => IInv'
    BY DEF vars, poolVars, connVars, handlerVars, requestVars, IInv, ServerTypeOK, Pool!TypeOK,
           InLine, Handling, Sockets, InBudget, Reads, NoUnsolicitedResponse, accepted,
           taken
  <1> QED
    BY <1>1, <1>2, InitIInv, PTL DEF Safety

---------------------------------------------------------------------------
(***************************************************************************)
(* Theorems.                                                               *)
(***************************************************************************)

\* A connection that waits, is about to wait or is served has one owner.
LEMMA OwnersCount == IInv => SocketOwned
  <1> SUFFICES ASSUME IInv, NEW k \in Connections
               PROVE  LET owners == Cardinality(Holders(k))
                                      + (IF Queued(k) THEN 1 ELSE 0)
                                      + (IF pending = k THEN 1 ELSE 0)
                      IN  owners <= 1 /\ (sock[k] = "open" => owners = 1)
    BY DEF SocketOwned
  <1> USE DEF IInv
  <1>0. /\ submitted \in Nat /\ pending \in Nat /\ k \in Nat \ {0}
        /\ Len(task_queue) \in Nat /\ taken \in Nat
    BY ConnectionsAssumption
       DEF ServerTypeOK, Pool!TypeOK, InLine, taken, Connections
  <1>1. Queued(k) <=> taken < k /\ k <= submitted
    <2>1. ASSUME Queued(k) PROVE taken < k /\ k <= submitted
      <3>1. PICK i \in 1..Len(task_queue) : k = taken + i
        BY <2>1 DEF Queued, InLine
      <3> QED
        BY <3>1, <1>0 DEF taken
    <2>2. ASSUME taken < k, k <= submitted PROVE Queued(k)
      <3>1. k - taken \in 1..Len(task_queue)
        BY <2>2, <1>0 DEF taken
      <3>2. task_queue[k - taken] = k
        BY <3>1, <1>0 DEF InLine
      <3> QED
        BY <3>1, <3>2 DEF Queued
    <2> QED
      BY <2>1, <2>2
  <1>2. CASE Holders(k) = {}
    <2>1. Cardinality(Holders(k)) = 0
      BY <1>2, FS_EmptySet
    <2>2. sock[k] = "open" => k > taken /\ k <= accepted
      <3>1. hpc[k] \in {"none", "ended"}
        BY <1>2 DEF Handling, Holders
      <3> QED
        BY <3>1 DEF Handling, Sockets, InLine
    <2>3. pending = k => ~Queued(k)
      BY <1>0, <1>1 DEF InLine
    <2>4. sock[k] = "open" => Queued(k) \/ pending = k
      BY <2>2, <1>0, <1>1 DEF InLine, accepted
    <2> QED
      BY <2>1, <2>3, <2>4
  <1>3. ASSUME NEW w \in Holders(k)
        PROVE  /\ Cardinality(Holders(k)) = 1
               /\ ~Queued(k) /\ pending # k
    <2>1. wpc[w] = "run" /\ task[w] = k /\ w \in Workers
      BY <1>3 DEF Holders
    <2>2. Holders(k) = {w}
      BY <2>1 DEF Holders, Handling
    <2>3. Cardinality(Holders(k)) = 1
      BY <2>2, FS_Singleton
    <2>4. k <= taken
      BY <2>1, <1>0 DEF Handling
    <2> QED
      BY <2>3, <2>4, <1>0, <1>1 DEF InLine, taken
  <1>4. CASE Holders(k) # {}
    <2>1. PICK w : w \in Holders(k)
      BY <1>4
    <2> QED
      BY <2>1, <1>3
  <1> QED
    BY <1>2, <1>4

\* From accept to close a socket has one owner, whatever way the handler leaves, and
\* no handler uses it after its close.
THEOREM SocketCorrectness == Safety => []SocketSafe
  <1>1. IInv => NoUseAfterClose
    BY DEF IInv, Sockets, Begun, NoUseAfterClose
  <1>2. IInv => SocketSafe
    BY <1>1, OwnersCount DEF IInv, SocketSafe
  <1> QED
    BY <1>2, Invariance, PTL

\* Every response answers a request that was sent and not answered before, as long as
\* no read of the connection began or ended within a request.
THEOREM ResponseCorrectness == Safety => []NoUnsolicitedResponse
  <1>1. IInv => NoUnsolicitedResponse
    BY DEF IInv
  <1> QED
    BY <1>1, Invariance, PTL

\* The process only dies where a connection that broke is accepted or answered, or
\* where a conversion of a request or its handler throws; and where requests were
\* read whole, of a request the clients send.
THEOREM AbortCorrectness == Safety => []AbortHasCause
  <1>1. Init => AbortHasCause
    BY DEF Init, AbortHasCause
  <1>2. ASSUME aborted PROVE ~Next
    BY <1>2 DEF Next, Submit, AcceptStep, Accept, AcceptThrows, ClientStep, Connect,
                Fin, Reset, Request, RequestRest, WorkerStep, PoolStep, SpuriousWake, StartHandler,
                HandlerStep, Check, ReadData, ReadEof, ReadError, Serve, ServeThrows,
                Reply, ReplyThrows, End, HandlerAt
  <1>3. ASSUME IInv, Next PROVE AbortHasCause'
    <2> USE DEF AbortHasCause
    <2>1. CASE aborted' = aborted
      BY <1>2, <1>3, <2>1
    <2>2. ASSUME NEW k \in Connections, AcceptThrows(k) PROVE AbortHasCause'
      BY <2>2 DEF AcceptThrows, Accepted
    <2>3. ASSUME NEW w \in Workers, NEW k \in Connections, ServeThrows(w, k)
          PROVE  AbortHasCause'
      BY <1>3, <2>3
         DEF ServeThrows, HandlerAt, handlerVars, requestVars, IInv, Reads
    <2>4. ASSUME NEW w \in Workers, NEW k \in Connections, ReplyThrows(w, k)
          PROVE  AbortHasCause'
      BY <2>4 DEF ReplyThrows, HandlerAt, MayThrow, handlerVars
    <2>5. ASSUME NEW w \in Workers, NEW k \in Connections, HandlerStep(w, k)
          PROVE  AbortHasCause'
      BY <2>1, <2>3, <2>4, <2>5
         DEF HandlerStep, Check, ReadData, ReadEof, ReadError, Serve, Reply, End
    <2>6. ASSUME NEW k \in Connections, Accept(k) \/ ClientStep(k)
          PROVE  AbortHasCause'
      BY <2>1, <2>6 DEF Accept, ClientStep, Connect, Fin, Reset, Request, RequestRest
    <2>7. ASSUME NEW w \in Workers,
                 \/ PoolStep(w) \/ SpuriousWake(w)
                 \/ \E k \in Connections : StartHandler(w, k)
          PROVE  AbortHasCause'
      BY <2>1, <2>7 DEF PoolStep, SpuriousWake, StartHandler, connVars
    <2>8. CASE Submit
      BY <2>1, <2>8 DEF Submit
    <2> QED
      BY <1>3, <2>2, <2>5, <2>6, <2>7, <2>8 DEF Next, AcceptStep, WorkerStep
  <1>4. AbortHasCause /\ UNCHANGED vars => AbortHasCause'
    BY DEF AbortHasCause, Accepted, vars, connVars, handlerVars, requestVars
  <1> QED
    BY <1>1, <1>3, <1>4, Invariance, PTL DEF Safety

\* With clients that wait for each response, what a client waits for can still be
\* read or is in the handler, and a handler leaves only for a cause.
Readables(k) ==
  IF Len(inbox[k]) = 1 /\ cut[k] /\ sending[k] THEN 0 ELSE Len(inbox[k])

Exact == \A k \in Connections : outstanding[k] <= Readables(k) + Owes(k)

LeftForCause ==
  \A k \in Connections :
    hpc[k] \in {"exit", "ended"} =>
      /\ sock[k] # "closed" => peer[k] = "rst"
      /\ \/ peer[k] = "rst" \/ outstanding[k] = 0
         \/ expired[k] \/ completed[k] = MaxKeepAliveReq

\* The handler answers the one request a client waits for, or what it has read of it.
LEMMA ExactStep ==
  ASSUME IInv, Exact, Next, MaxOutstanding = 1
  PROVE  Exact'
  <1>1. \A k \in Connections : Accounting(k)
    BY AccountingStep
  <1>2. \A k \in Connections :
          /\ Len(inbox[k]) \in Nat /\ outstanding[k] \in 0..1 /\ Owes(k) \in {0, 1}
          /\ Len(inbox[k])' \in Nat
          /\ cut[k] => Len(inbox[k]) > 0
    <2>1. \A k \in Connections : inbox[k] = <<>> \/ Len(inbox[k]) > 0
      BY DEF IInv, ServerTypeOK
    <2>2. ServerTypeOK'
      BY ConnectionTypes
    <2>3. \A k \in Connections : Len(inbox[k])' \in Nat
      BY <2>2, ArriveFacts DEF ServerTypeOK
    <2> QED
      BY <2>1, <2>3, ArriveFacts DEF IInv, ServerTypeOK, Reads, Owes
  <1>3. ASSUME NEW k \in Connections
        PROVE  outstanding'[k] <= Readables(k)' + Owes(k)'
    <2>1. outstanding[k] <= Readables(k) + Owes(k)
      BY DEF Exact
    <2>2. CASE Quiet(k)
      BY <1>2, <2>1, <2>2 DEF Quiet, Readables
    <2>3. CASE Arrival(k)
      BY <1>2, <2>1, <2>3 DEF Arrival, Readables
    <2>4. CASE Reading(k)
      BY <1>2, <2>4 DEF Reading, Readables
    <2>5. CASE Answer(k)
      BY <1>2, <2>5 DEF Answer, Readables
    <2> QED
      BY <1>1, <2>2, <2>3, <2>4, <2>5 DEF Accounting
  <1> QED
    BY <1>3 DEF Exact

\* Every step that leaves the loop of a handler has such a cause, and causes stay.
LEMMA LeftForCauseStep ==
  ASSUME IInv, Exact, LeftForCause, Next
  PROVE  LeftForCause'
  <1> USE DEF IInv, LeftForCause
  <1>0. /\ hpc \in [Connections -> HandlerStates]
        /\ sock \in [Connections -> {"none", "open", "closed"}]
        /\ peer \in [Connections -> {"absent", "connected", "fin", "rst"}]
        /\ outstanding \in [Connections -> 0..MaxOutstanding]
        /\ completed \in [Connections -> 0..MaxKeepAliveReq]
        /\ expired \in [Connections -> BOOLEAN]
    BY DEF ServerTypeOK
  <1>1. CASE UNCHANGED <<hpc, sock, peer, outstanding, completed, expired>>
    BY <1>1
  <1>2. ASSUME NEW k \in Connections, Accept(k)
        PROVE  LeftForCause'
    <2>1. /\ sock' = [sock EXCEPT ![k] = "open"]
          /\ UNCHANGED <<hpc, peer, outstanding, completed, expired>>
      BY <1>2 DEF Accept, handlerVars, requestVars
    <2>2. hpc[k] = "none"
      <3>1. submitted \in Nat /\ Len(task_queue) \in Nat
        BY DEF ServerTypeOK, Pool!TypeOK
      <3>2. k > submitted
        BY <1>2, <3>1, AcceptedCounts DEF Accept, accepted
      <3> QED
        BY <3>1, <3>2 DEF Handling, taken, Connections
    <2> QED
      BY <2>1, <2>2, <1>0
  <1>3. ASSUME NEW k \in Connections, ClientStep(k)
        PROVE  LeftForCause'
    <2>1. CASE Connect(k) \/ RequestRest(k) \/ Fin(k) \/ Reset(k)
      BY <2>1, <1>0 DEF Connect, RequestRest, Fin, Reset, handlerVars, requestVars
    <2>2. ASSUME NEW kind \in Kinds, Request(k, kind) PROVE LeftForCause'
      BY <2>2, <1>0 DEF Request, handlerVars, requestVars
    <2> QED
      BY <1>3, <2>1, <2>2 DEF ClientStep
  <1>4. ASSUME NEW w \in Workers, NEW k \in Connections, HandlerStep(w, k)
        PROVE  LeftForCause'
    <2> USE DEF HandlerAt, GoTo
    <2>1. CASE Check(w, k)
      BY <2>1, <1>0, ConnectionsAssumption DEF Check, ShouldClose, AfterClose
    <2>2. CASE ReadEof(w, k)
      <3>1. outstanding[k] = 0
        <4>1. NothingToRead(k) /\ hpc[k] = "read"
          BY <2>2 DEF ReadEof, AtEof
        <4>2. Len(<<>>) = 0
          OBVIOUS
        <4>3. Readables(k) = 0
          BY <4>1, <4>2 DEF NothingToRead, Readables
        <4>4. Owes(k) = 0 /\ outstanding[k] <= Readables(k) + Owes(k)
          BY <4>1 DEF Exact, Owes
        <4>5. outstanding[k] <= 0 + 0
          BY <4>3, <4>4, Zenon
        <4> QED
          BY <4>5, <1>0
      <3> QED
        BY <2>2, <3>1, <1>0 DEF ReadEof, AfterClose
    <2>3. CASE ReadError(w, k)
      BY <2>3, <1>0 DEF ReadError, AfterReadError
    <2>4. CASE ReadData(w, k) \/ Serve(w, k) \/ Reply(w, k)
      BY <2>4, <1>0 DEF ReadData, Serve, Reply
    <2>5. CASE ServeThrows(w, k) \/ ReplyThrows(w, k)
      BY <1>1, <2>5 DEF ServeThrows, ReplyThrows, handlerVars, requestVars
    <2>6. CASE End(w, k)
      BY <2>6, <1>0 DEF End, SocketAfterDelete
    <2> QED
      BY <1>4, <2>1, <2>2, <2>3, <2>4, <2>5, <2>6 DEF HandlerStep
  <1>5. ASSUME NEW w \in Workers, NEW k \in Connections, StartHandler(w, k)
        PROVE  LeftForCause'
    BY <1>5, <1>0 DEF StartHandler, GoTo
  <1>6. CASE Submit
    BY <1>1, <1>6 DEF Submit, handlerVars, requestVars
  <1>7. ASSUME NEW k \in Connections, AcceptThrows(k)
        PROVE  LeftForCause'
    BY <1>1, <1>7 DEF AcceptThrows, handlerVars, requestVars
  <1>8. ASSUME NEW w \in Workers, PoolStep(w) \/ SpuriousWake(w)
        PROVE  LeftForCause'
    BY <1>1, <1>8 DEF PoolStep, SpuriousWake, connVars, handlerVars, requestVars
  <1> QED
    BY <1>2, <1>3, <1>4, <1>5, <1>6, <1>7, <1>8 DEF Next, AcceptStep, WorkerStep

\* With clients that wait for each response, a client is left without one only by a
\* close that was asked for or by the budget, or when the connection breaks.
THEOREM RequestsCorrectness == MaxOutstanding = 1 /\ Safety => []RequestsNotDropped
  <1> SUFFICES ASSUME MaxOutstanding = 1
               PROVE  Safety => []RequestsNotDropped
    OBVIOUS
  <1>1. Init => Exact /\ LeftForCause
    <2> SUFFICES ASSUME Init PROVE Exact /\ LeftForCause
      OBVIOUS
    <2>1. Len(<<>>) = 0
      OBVIOUS
    <2> QED
      BY <2>1 DEF Init, Exact, Readables, Owes, LeftForCause
  <1>2. IInv /\ Exact /\ LeftForCause /\ [Next]_vars => (Exact /\ LeftForCause)'
    <2>1. Exact /\ LeftForCause /\ UNCHANGED vars => (Exact /\ LeftForCause)'
      BY DEF Exact, Readables, Owes, LeftForCause, vars, connVars, handlerVars, requestVars
    <2> QED
      BY <2>1, ExactStep, LeftForCauseStep
  <1>3. IInv /\ LeftForCause => RequestsNotDropped
    <2> SUFFICES ASSUME IInv, LeftForCause, NEW k \in Connections, sock[k] = "closed",
                        peer[k] # "rst", outstanding[k] > 0
                 PROVE  expired[k] \/ completed[k] = MaxKeepAliveReq
      BY DEF RequestsNotDropped
    <2>1. hpc[k] \in {"exit", "ended"}
      BY DEF IInv, Sockets, Begun, ServerTypeOK, HandlerStates
    <2> QED
      BY <2>1 DEF LeftForCause
  <1> QED
    BY <1>1, <1>2, <1>3, Invariance, PTL DEF Safety

\* The server is a user of the pool: what it does to it are the pool's own steps, so
\* that every safety property of the pool holds in the server.
THEOREM UsesPool == Safety => Pool!Safety
  <1>1. Init => Pool!Init
    BY DEF Init
  <1>2. [Next]_vars => [Pool!Next]_(Pool!vars)
    <2>1. UNCHANGED poolVars => UNCHANGED Pool!vars
      BY DEF poolVars, Pool!vars
    <2>2. UNCHANGED vars => UNCHANGED poolVars
      BY DEF vars
    <2>3. ASSUME NEW w \in Workers, NEW k \in Connections, End(w, k) \/ StartHandler(w, k)
          PROVE  Pool!Next
      BY <2>3 DEF End, StartHandler, Pool!Next, Pool!WorkerStep
    <2>4. CASE Submit
      BY <2>4 DEF Submit, Pool!Next, Pool!CallerStep
    <2>5. ASSUME NEW w \in Workers, PoolStep(w) \/ SpuriousWake(w)
          PROVE  Pool!Next
      BY <2>5 DEF PoolStep, SpuriousWake, Pool!Next, Pool!WorkerStep
    <2> QED
      BY <2>1, <2>2, <2>3, <2>4, <2>5, StepKinds, PoolAlone
  <1> QED
    BY <1>1, <1>2, PTL DEF Safety, Pool!Safety
===========================================================================
