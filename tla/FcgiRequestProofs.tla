------------------------- MODULE FcgiRequestProofs -------------------------
(***************************************************************************)
(* The requests of a FastCGI process, for any number of connections, sizes *)
(* of buffers and of writes, and writes that fail: what is left between    *)
(* two of them, what the web server can make of the records, and that a    *)
(* request is answered.                                                    *)
(***************************************************************************)
EXTENDS FcgiRequest, WellFoundedInduction, SequenceTheorems, TLAPS

\* The request structure: what the streams and the connection are used for is
\* known of it; how often its streams were closed, and with what status, is not.
Requests == [ipcFd : Nat, keep : BOOLEAN, detached : BOOLEAN,
             nWriters : {request.nWriters}, appStatus : {request.appStatus},
             in : {"null", "ok", "error"}]

\* Connections are numbered as they come; only the last one can be open, and the
\* one of the request was not shut down.
Connections ==
  /\ accepts \in Nat /\ request.ipcFd <= accepts
  /\ open = {request.ipcFd} \ {NullFd}
  /\ shut \subseteq 1..accepts
  /\ request.ipcFd \notin shut

\* The streams of the request exist as long as its input stream does; FCGI_Accept
\* has none.
Streams ==
  /\ gen \in Nat /\ up \in BOOLEAN
  /\ up <=> request.in # "null"

Results == {"none", "accepting", "ok", "failed"}
StdFiles ==
  /\ acceptState \in [called : BOOLEAN, isCGI : BOOLEAN, result : Results]
  /\ std \in [Files -> [stdio : {"null", "file", "process"}, fcgx : Nat]]
  /\ \A f \in Files : std[f].fcgx \in 0..gen
  /\ acceptState.result = "accepting" => ~up
  /\ FilesValid

RequestInv == request \in Requests /\ Connections /\ Streams /\ StdFiles

---------------------------------------------------------------------------
\* What the request structure is after FCGX_Free.
LEMMA ReleasedFacts ==
  ASSUME NEW n, NEW a, NEW close \in BOOLEAN,
         NEW r \in [ipcFd : Nat, keep : BOOLEAN, detached : BOOLEAN,
                    nWriters : {n}, appStatus : {a}, in : {"null", "ok", "error"}]
  PROVE  LET q == Released(r, close)
         IN  /\ q \in [ipcFd : Nat, keep : BOOLEAN, detached : BOOLEAN,
                       nWriters : {n}, appStatus : {a},
                       in : {"null", "ok", "error"}]
             /\ q.in = "null"
             /\ q.ipcFd = IF close THEN NullFd ELSE r.ipcFd
  BY DEF Released, NullFd

\* A change of the count of open streams leaves the rest of the request alone.
LEMMA RecountedFacts ==
  ASSUME RequestInv, NEW n
  PROVE  LET q == [request EXCEPT !.nWriters = n]
         IN  /\ q \in [ipcFd : Nat, keep : BOOLEAN, detached : BOOLEAN,
                       nWriters : {n}, appStatus : {request.appStatus},
                       in : {"null", "ok", "error"}]
             /\ q.ipcFd = request.ipcFd /\ q.in = request.in /\ q.nWriters = n
             /\ q.appStatus = request.appStatus
  BY DEF RequestInv, Requests

\* Closing the connection of a request, which is forgotten then.
LEMMA ClosedFacts ==
  ASSUME RequestInv, NEW shutdown, IpcClose(request.ipcFd, shutdown),
         request'.ipcFd = NullFd, accepts' \in Nat, accepts' = accepts
  PROVE  Connections'
  <1>1. /\ request.ipcFd \in Nat /\ accepts \in Nat /\ request.ipcFd <= accepts
        /\ open = {request.ipcFd} \ {NullFd} /\ shut \subseteq 1..accepts
    BY DEF RequestInv, Requests, Connections
  <1>2. open' = {}
    BY <1>1 DEF IpcClose
  <1>3. shut' \subseteq 1..accepts
    <2>1. request.ipcFd # NullFd => request.ipcFd \in 1..accepts
      BY <1>1 DEF NullFd
    <2> QED
      BY <1>1, <2>1 DEF IpcClose
  <1>4. NullFd \notin shut' /\ NullFd <= accepts
    BY <1>1, <1>3 DEF NullFd
  <1> QED
    BY <1>1, <1>2, <1>3, <1>4 DEF Connections

\* FCGX_Finish_r leaves no stream, and the connection is closed and forgotten or
\* neither.
LEMMA FinishFacts ==
  ASSUME RequestInv, Finish_r, accepts' = accepts, gen' = gen
  PROVE  request' \in Requests' /\ Connections' /\ Streams' /\ up' = FALSE
  <1>1. PICK s \in Finished :
          /\ request' = Released([request EXCEPT !.nWriters = s.nWriters], MustClose(s))
          /\ up' = FALSE
          /\ IF MustClose(s) THEN IpcClose(request.ipcFd, ~request.detached)
                             ELSE UNCHANGED <<open, shut>>
    BY DEF Finish_r
  <1> DEFINE q == [request EXCEPT !.nWriters = s.nWriters]
  <1>2. /\ q \in [ipcFd : Nat, keep : BOOLEAN, detached : BOOLEAN,
                  nWriters : {s.nWriters}, appStatus : {request.appStatus},
                  in : {"null", "ok", "error"}]
        /\ q.ipcFd = request.ipcFd
    BY RecountedFacts
  <1>3. MustClose(s) \in BOOLEAN
    BY DEF MustClose
  <1>4. /\ request' \in [ipcFd : Nat, keep : BOOLEAN, detached : BOOLEAN,
                     nWriters : {s.nWriters}, appStatus : {request.appStatus},
                     in : {"null", "ok", "error"}]
        /\ request'.in = "null"
        /\ request'.ipcFd = IF MustClose(s) THEN NullFd ELSE request.ipcFd
    <2> HIDE DEF q
    <2>1. request' = Released(q, MustClose(s))
      BY <1>1 DEF q
    <2> QED
      BY <1>2, <1>3, <2>1, ReleasedFacts
  <1>5. request' \in Requests'
    BY <1>4 DEF Requests
  <1>6. Streams'
    BY <1>1, <1>4 DEF Streams, RequestInv
  <1>7. Connections'
    <2>1. CASE MustClose(s)
      <3>1. IpcClose(request.ipcFd, ~request.detached) /\ request'.ipcFd = NullFd
        BY <1>1, <1>4, <2>1
      <3>2. accepts \in Nat
        BY DEF RequestInv, Connections
      <3> QED
        BY <3>1, <3>2, ClosedFacts
    <2>2. CASE ~MustClose(s)
      BY <1>1, <1>4, <2>2 DEF Connections, RequestInv, NullFd
    <2> QED
      BY <2>1, <2>2
  <1> QED
    BY <1>1, <1>5, <1>6, <1>7

\* FCGI_Finish, whoever calls it.
LEMMA FCGI_FinishFacts ==
  ASSUME RequestInv, FCGI_Finish, acceptState' = acceptState
  PROVE  RequestInv'
  <1>1. CASE ~acceptState.called \/ acceptState.isCGI
    BY <1>1 DEF FCGI_Finish, streamVars, RequestInv, Requests, Connections, Streams,
                StdFiles, FilesValid
  <1>2. CASE ~(~acceptState.called \/ acceptState.isCGI)
    <2>1. Finish_r /\ std' = Forgotten(std) /\ gen' = gen /\ accepts' = accepts
      BY <1>2 DEF FCGI_Finish
    <2>2. request' \in Requests' /\ Connections' /\ Streams' /\ up' = FALSE
      BY <2>1, FinishFacts
    <2>3. /\ std' \in [Files -> [stdio : {"null", "file", "process"}, fcgx : Nat]]
          /\ \A f \in Files : std'[f].fcgx = 0
      BY <2>1 DEF Forgotten, RequestInv, StdFiles
    <2>4. StdFiles'
      BY <2>1, <2>2, <2>3 DEF StdFiles, FilesValid, RequestInv, Streams
    <2> QED
      BY <2>2, <2>4 DEF RequestInv
  <1> QED
    BY <1>1, <1>2

\* An operation on a writer changes nothing that RequestInv speaks of but the
\* count of open streams.
LEMMA WriterOp ==
  ASSUME RequestInv, NEW w, NEW outcomes, OnWriter(w, outcomes),
         UNCHANGED <<accepts, gen, up, open, shut>>
  PROVE  request' \in Requests' /\ Connections' /\ Streams'
  <1>1. PICK x \in outcomes : request' = [request EXCEPT !.nWriters = x.n]
    BY DEF OnWriter
  <1>2. /\ request' \in [ipcFd : Nat, keep : BOOLEAN, detached : BOOLEAN,
                     nWriters : {x.n}, appStatus : {request.appStatus},
                     in : {"null", "ok", "error"}]
        /\ request'.ipcFd = request.ipcFd /\ request'.in = request.in
    BY <1>1, RecountedFacts
  <1> QED
    BY <1>2 DEF Requests, Connections, Streams, RequestInv

---------------------------------------------------------------------------
\* Before the first request there is no connection and no stream.
LEMMA InitRequestInv == Init => RequestInv
  <1> SUFFICES ASSUME Init PROVE RequestInv
    OBVIOUS
  <1>1. /\ request = [ipcFd |-> 0, keep |-> FALSE, detached |-> FALSE,
                  nWriters |-> 0, appStatus |-> 0, in |-> "null"]
        /\ gen = 0 /\ up = FALSE /\ open = {} /\ shut = {} /\ accepts = 0
    BY DEF Init, InitRequest, NullFd
  <1>2. request \in Requests
    <2>1. request.nWriters = 0 /\ request.appStatus = 0
      BY <1>1
    <2> QED
      BY <1>1, <2>1 DEF Requests
  <1>3. Connections /\ Streams
    <2>1. request.ipcFd = 0 /\ request.in = "null"
      BY <1>1
    <2>2. Connections
      BY <1>1, <2>1 DEF Connections, NullFd
    <2> QED
      BY <1>1, <2>1, <2>2 DEF Streams
  <1>4. StdFiles
    BY <1>1 DEF Init, StdFiles, FilesValid, Results
  <1> QED
    BY <1>2, <1>3, <1>4 DEF RequestInv

\* Steps of the loop of FCGX_Accept_r.
LEMMA AcceptLoop ==
  ASSUME RequestInv, AcceptFails \/ OS_Accept \/ TryAgain \/ Begin
  PROVE  RequestInv'
  <1> USE DEF RequestInv
  <1>1. CASE AcceptFails
    BY <1>1 DEF AcceptFails, streamVars, Requests, Connections, Streams, StdFiles,
                FilesValid, InAccept, Results
  <1>2. CASE OS_Accept
    <2>1. /\ request' = [request EXCEPT !.ipcFd = accepts + 1] /\ accepts' = accepts + 1
          /\ open' = open \cup {accepts + 1} /\ shut' = shut /\ request.ipcFd = NullFd
          /\ UNCHANGED <<gen, up, std, acceptState>>
      BY <1>2 DEF OS_Accept
    <2>2. /\ request' \in Requests' /\ request'.ipcFd = accepts + 1 /\ request'.in = request.in
      BY <2>1 DEF Requests, Connections
    <2>3. Connections'
      BY <2>1, <2>2 DEF Connections, NullFd
    <2>4. Streams' /\ StdFiles'
      BY <2>1, <2>2 DEF Streams, StdFiles, FilesValid
    <2> QED
      BY <2>2, <2>3, <2>4
  <1>3. CASE TryAgain
    <2>1. PICK keep \in BOOLEAN : request' = Released([request EXCEPT !.keep = keep], TRUE)
      BY <1>3 DEF TryAgain
    <2>2. /\ InAccept /\ IpcClose(request.ipcFd, ~request.detached)
          /\ UNCHANGED <<gen, up, std, acceptState, accepts>>
      BY <1>3 DEF TryAgain
    <2>3. request' \in Requests' /\ request'.ipcFd = NullFd /\ request'.in = "null"
      BY <2>1 DEF Released, Requests, NullFd
    <2>4. Connections'
      <3>1. accepts \in Nat
        BY DEF Connections
      <3> HIDE DEF RequestInv
      <3> QED
        BY <2>2, <2>3, <3>1, ClosedFacts
    <2>5. Streams' /\ StdFiles'
      BY <2>2, <2>3 DEF InAccept, Streams, StdFiles, FilesValid
    <2> QED
      BY <2>3, <2>4, <2>5
  <1>4. CASE Begin
    <2>1. PICK keep \in BOOLEAN, in \in {"ok", "error"} :
            request' = [request EXCEPT !.keep = keep, !.in = in, !.nWriters = 2]
      BY <1>4 DEF Begin
    <2>2. /\ request.ipcFd # NullFd /\ gen' = gen + 1 /\ up' = TRUE
          /\ std' = [f \in Files |-> [stdio |-> "null", fcgx |-> gen + 1]]
          /\ acceptState' = [acceptState EXCEPT !.result = "ok"]
          /\ UNCHANGED <<open, shut>>
          /\ accepts' = accepts \/ accepts' = accepts + 1
      BY <1>4 DEF Begin
    <2>3. request' \in Requests' /\ request'.ipcFd = request.ipcFd /\ request'.in # "null"
      BY <2>1 DEF Requests
    <2>4. Connections'
      <3>1. accepts \in Nat /\ request.ipcFd \in Nat /\ request.ipcFd <= accepts
        BY DEF Requests, Connections
      <3>2. /\ accepts' \in Nat /\ request.ipcFd <= accepts'
            /\ 1..accepts \subseteq 1..accepts'
        BY <2>2, <3>1
      <3> QED
        BY <2>2, <2>3, <3>2 DEF Connections
    <2>5. Streams'
      BY <2>2, <2>3 DEF Streams
    <2>6. StdFiles'
      BY <2>2 DEF StdFiles, FilesValid, Streams, Results
    <2> QED
      BY <2>3, <2>4, <2>5, <2>6
  <1> QED
    BY <1>1, <1>2, <1>3, <1>4

\* Steps of the library and of the end of the process.
LEMMA LibrarySteps ==
  ASSUME RequestInv,
         \/ InitFails \/ OpenSocket \/ AskIsCGI \/ AcceptCGI \/ FCGI_Accept
         \/ Finish \/ Exit
  PROVE  RequestInv'
  <1>1. CASE InitFails \/ OpenSocket \/ AskIsCGI
    BY <1>1 DEF RequestInv, InitFails, OpenSocket, AskIsCGI, streamVars, Requests,
                Connections, Streams, StdFiles, FilesValid
  <1>2. CASE AcceptCGI
    <2>1. UNCHANGED streamVars
      BY <1>2 DEF AcceptCGI
    <2>2. CASE acceptState.called
      BY <1>2, <2>1, <2>2 DEF RequestInv, AcceptCGI, streamVars, Requests,
           Connections, Streams, StdFiles, FilesValid, Results
    <2>3. CASE ~acceptState.called
      <3>1. /\ acceptState' = [called |-> TRUE, isCGI |-> TRUE, result |-> "ok"]
            /\ std' = [f \in Files |-> [stdio |-> "process", fcgx |-> 0]]
        BY <1>2, <2>3 DEF AcceptCGI
      <3>2. StdFiles'
        BY <2>1, <3>1 DEF RequestInv, StdFiles, FilesValid, Streams, Results,
                          streamVars
      <3> QED
        BY <2>1, <3>2 DEF RequestInv, streamVars, Requests, Connections, Streams
    <2> QED
      BY <2>2, <2>3
  <1>3. CASE FCGI_Accept
    <2>1. /\ acceptState' = [called |-> TRUE, isCGI |-> FALSE, result |-> "accepting"]
          /\ Finish_r /\ UNCHANGED <<gen, std, accepts>>
      BY <1>3 DEF FCGI_Accept
    <2>2. request' \in Requests' /\ Connections' /\ Streams' /\ up' = FALSE
      BY <2>1, FinishFacts
    <2>3. StdFiles'
      BY <2>1, <2>2 DEF RequestInv, StdFiles, FilesValid, Results
    <2> QED
      BY <2>2, <2>3 DEF RequestInv
  <1>4. CASE Finish \/ Exit
    BY <1>4, FCGI_FinishFacts DEF Finish, Exit
  <1> QED
    BY <1>1, <1>2, <1>3, <1>4

\* Operations on the standard files.
LEMMA FileSteps ==
  ASSUME RequestInv, NEW w \in Writers,
         \/ \E n \in WriteSizes : Put(w, n)
         \/ FCGI_fflush(w) \/ FCGI_fclose(w) \/ CloseFile(w) \/ FCGI_clearerr(w)
  PROVE  RequestInv'
  <1>0. w \in Files
    BY DEF Writers, Files
  <1>1. CASE \E n \in WriteSizes : Put(w, n)
    <2>1. PICK n \in WriteSizes : Put(w, n)
      BY <1>1
    <2>2. /\ OnWriter(w, PutStr(w, X(w), n))
          /\ UNCHANGED <<accepts, gen, up, open, shut, acceptState, std>>
      BY <2>1 DEF Put, StreamOp
    <2> QED
      BY <2>2, WriterOp DEF RequestInv, StdFiles, FilesValid
  <1>2. CASE FCGI_fflush(w)
    <2>1. /\ OnWriter(w, FFlush(w, X(w)))
          /\ UNCHANGED <<accepts, gen, up, open, shut, acceptState, std>>
      BY <1>2 DEF FCGI_fflush, StreamOp
    <2> QED
      BY <2>1, WriterOp DEF RequestInv, StdFiles, FilesValid
  <1>3. CASE FCGI_fclose(w)
    <2>1. /\ OnWriter(w, FClose(w, X(w), request.appStatus))
          /\ UNCHANGED <<accepts, gen, up, open, shut, acceptState>>
      BY <1>3 DEF FCGI_fclose, StreamOp
    <2>2. \/ std' = std
          \/ \E to \in {"null", "file"} :
               std' = [std EXCEPT ![w] = [stdio |-> to, fcgx |-> 0]]
      BY <1>3 DEF FCGI_fclose
    <2>3. StdFiles'
      BY <1>0, <2>1, <2>2 DEF RequestInv, StdFiles, FilesValid, Streams
    <2> QED
      BY <2>1, <2>3, WriterOp DEF RequestInv
  <1>4. CASE CloseFile(w)
    <2>1. UNCHANGED <<streamVars, acceptState>> /\ std' = [std EXCEPT ![w].stdio = "null"]
      BY <1>4 DEF CloseFile
    <2>2. /\ std' \in [Files -> [stdio : {"null", "file", "process"}, fcgx : Nat]]
          /\ \A f \in Files : std'[f].fcgx = std[f].fcgx
      BY <1>0, <2>1 DEF RequestInv, StdFiles
    <2>3. StdFiles'
      BY <2>1, <2>2 DEF RequestInv, StdFiles, FilesValid, streamVars
    <2> QED
      BY <2>1, <2>3 DEF RequestInv, streamVars, Requests, Connections, Streams
  <1>5. CASE FCGI_clearerr(w)
    BY <1>5 DEF FCGI_clearerr, StreamOp, RequestInv, Requests, Connections, Streams,
                StdFiles, FilesValid
  <1> QED
    BY <1>1, <1>2, <1>3, <1>4, <1>5

\* What else an application does with its request.
LEMMA RequestSteps ==
  ASSUME RequestInv,
         \/ ReadFails \/ (\E s \in Statuses : FCGI_SetExitStatus(s))
         \/ FCGX_Attach \/ FCGX_Detach
  PROVE  RequestInv'
  <1>1. CASE ReadFails
    <2>1. /\ request' = [request EXCEPT !.in = "error"] /\ up
          /\ UNCHANGED <<accepts, gen, up, open, shut, acceptState, std>>
      BY <1>1 DEF ReadFails, StreamOp, Usable
    <2>2. request' \in Requests' /\ request'.ipcFd = request.ipcFd /\ request'.in = "error"
      BY <2>1 DEF RequestInv, Requests
    <2> QED
      BY <2>1, <2>2 DEF RequestInv, Connections, Streams, StdFiles, FilesValid
  <1>2. CASE \E s \in Statuses : FCGI_SetExitStatus(s)
    <2>1. PICK s \in Statuses : FCGI_SetExitStatus(s)
      BY <1>2
    <2>2. /\ request' = [request EXCEPT !.appStatus = s]
          /\ UNCHANGED <<accepts, gen, up, open, shut, acceptState, std>>
      BY <2>1 DEF FCGI_SetExitStatus, SetExitStatus
    <2>3. request' \in Requests' /\ request'.ipcFd = request.ipcFd /\ request'.in = request.in
      BY <2>2 DEF RequestInv, Requests
    <2> QED
      BY <2>2, <2>3 DEF RequestInv, Connections, Streams, StdFiles, FilesValid
  <1>3. CASE FCGX_Attach \/ FCGX_Detach
    <2>1. PICK d \in BOOLEAN : request' = [request EXCEPT !.detached = d]
      BY <1>3 DEF FCGX_Attach, FCGX_Detach
    <2>2. UNCHANGED <<accepts, gen, up, open, shut, acceptState, std>>
      BY <1>3 DEF FCGX_Attach, FCGX_Detach, StreamOp
    <2>3. request' \in Requests' /\ request'.ipcFd = request.ipcFd /\ request'.in = request.in
      BY <2>1 DEF RequestInv, Requests
    <2> QED
      BY <2>2, <2>3 DEF RequestInv, Connections, Streams, StdFiles, FilesValid
  <1> QED
    BY <1>1, <1>2, <1>3

\* The invariant is kept.
LEMMA RequestInvStep == RequestInv /\ [Next]_vars => RequestInv'
  <1> SUFFICES ASSUME RequestInv, [Next]_vars PROVE RequestInv'
    OBVIOUS
  <1>1. CASE AcceptFails \/ OS_Accept \/ TryAgain \/ Begin
    BY <1>1, AcceptLoop
  <1>2. CASE \/ InitFails \/ OpenSocket \/ AskIsCGI \/ AcceptCGI \/ FCGI_Accept
             \/ Finish \/ Exit
    BY <1>2, LibrarySteps
  <1>3. CASE \E w \in Writers : \/ \E n \in WriteSizes : Put(w, n)
                                \/ FCGI_fflush(w) \/ FCGI_fclose(w) \/ CloseFile(w)
                                \/ FCGI_clearerr(w)
    BY <1>3, FileSteps
  <1>4. CASE \/ ReadFails \/ (\E s \in Statuses : FCGI_SetExitStatus(s))
             \/ FCGX_Attach \/ FCGX_Detach
    BY <1>4, RequestSteps
  <1>5. CASE UNCHANGED vars
    BY <1>5 DEF vars, RequestInv, Requests, Connections, Streams, StdFiles, FilesValid
  <1> QED
    BY <1>1, <1>2, <1>3, <1>4, <1>5 DEF Next

\* Between requests nothing of the last one is left: one connection at most is
\* open, it is the one of the request and was not shut down, and no standard file
\* points at a stream that was freed (FCGX_Finish_r, FCGX_Free, FCGI_Finish).
THEOREM NothingLeftCorrectness == Spec => []NothingLeft
  <1>1. RequestInv => NothingLeft
    <2> SUFFICES ASSUME RequestInv PROVE NothingLeft
      OBVIOUS
    <2>1. ConnectionOwned
      BY DEF RequestInv, Connections, ConnectionOwned
    <2> QED
      BY <2>1 DEF RequestInv, StdFiles, NothingLeft
  <1> QED
    BY <1>1, InitRequestInv, RequestInvStep, PTL DEF Spec
---------------------------------------------------------------------------
(***************************************************************************)
(* What is defined one step after the other, up to a number.               *)
(***************************************************************************)

\* A set of numbers that is not empty has a least.
LEMMA LeastExists ==
  ASSUME NEW S \in SUBSET Nat, S # {}
  PROVE  \E x \in S : \A y \in S : x <= y
  <1> DEFINE R == {ss \in Nat \X Nat : ss[1] < ss[2]}
  <1>1. IsWellFoundedOn(R, Nat)
    BY NatLessThanWellFounded DEF OpToRel
  <1>2. PICK x \in S : \A y \in S : ~(<<y, x>> \in R)
    BY <1>1, WFMin
  <1>3. ASSUME NEW y \in S, y < x PROVE FALSE
    <2>1. <<y, x>> \in Nat \X Nat /\ <<y, x>>[1] = y /\ <<y, x>>[2] = x
      OBVIOUS
    <2>2. <<y, x>> \in R
      BY <1>3, <2>1
    <2> QED
      BY <1>2, <2>2
  <1> QED
    BY <1>3

\* What holds of 0 and, with any number, of the next holds of all up to n.
LEMMA UpToNumber ==
  ASSUME NEW n \in Nat, NEW Q, 0 \in Q, \A i \in 0..(n - 1) : i \in Q => i + 1 \in Q
  PROVE  \A i \in 0..n : i \in Q
  <1> DEFINE S == {i \in 0..n : i \notin Q}
  <1> SUFFICES ASSUME S # {} PROVE FALSE
    OBVIOUS
  <1>1. S \in SUBSET Nat
    OBVIOUS
  <1>2. PICK m \in S : \A y \in S : m <= y
    <2> HIDE DEF S
    <2> QED
      BY <1>1, LeastExists
  <1>3. m \in 0..n /\ m \notin Q /\ m # 0
    OBVIOUS
  <1>4. m - 1 \in 0..(n - 1) /\ m - 1 \in 0..n /\ (m - 1) + 1 = m /\ ~(m <= m - 1)
    BY <1>3
  <1>5. m - 1 \notin S
    BY <1>2, <1>4
  <1> QED
    BY <1>3, <1>4, <1>5

\* step takes what is in A to what is in A, and g is what n of them come to.
Stays(step, n, A) == \A i \in 1..n : \A a \in A : step[i][a] \in A
Iterates(g, base, step, n, A) ==
  /\ g \in [0..n -> A]
  /\ g = [i \in 0..n |-> IF i = 0 THEN base ELSE step[i][g[i - 1]]]

\* n steps can be taken from base.
LEMMA Iterated ==
  ASSUME NEW n \in Nat, NEW A, NEW base \in A, NEW step, Stays(step, n, A)
  PROVE  \E g : Iterates(g, base, step, n, A)
  <1> USE DEF Stays
  <1> DEFINE Run(g, m) ==
               /\ g \in [0..m -> A] /\ g[0] = base
               /\ \A i \in 1..m : g[i] = step[i][g[i - 1]]
             Q == {m \in 0..n : \E g : Run(g, m)}
  <1>1. 0 \in Q
    <2>1. Run([i \in 0..0 |-> base], 0) /\ 0 \in 0..n
      OBVIOUS
    <2> HIDE DEF Run
    <2> QED
      BY <2>1
  <1>2. ASSUME NEW m \in 0..(n - 1), m \in Q PROVE m + 1 \in Q
    <2>1. PICK g : Run(g, m)
      BY <1>2
    <2>2. /\ m \in Nat /\ m + 1 \in 1..n /\ m \in 0..m /\ ~(m + 1 \in 0..m)
          /\ \A i \in 0..(m + 1) : i = m + 1 \/ i \in 0..m
      OBVIOUS
    <2>3. g[m] \in A /\ step[m + 1][g[m]] \in A
      BY <2>1, <2>2
    <2> DEFINE h == [i \in 0..(m + 1) |-> IF i = m + 1 THEN step[m + 1][g[m]]
                                          ELSE g[i]]
    <2>4. h \in [0..(m + 1) -> A] /\ h[0] = base
      BY <2>1, <2>2, <2>3
    <2>5. ASSUME NEW i \in 1..(m + 1) PROVE h[i] = step[i][h[i - 1]]
      <3>1. i - 1 \in 0..(m + 1) /\ i - 1 # m + 1 /\ h[i - 1] = g[i - 1]
        BY <2>2
      <3>2. CASE i = m + 1
        BY <3>1, <3>2
      <3>3. CASE i # m + 1
        <4>1. i \in 1..m /\ h[i] = g[i]
          BY <2>2, <3>3
        <4> QED
          BY <2>1, <3>1, <4>1
      <3> QED
        BY <3>2, <3>3
    <2>6. Run(h, m + 1)
      BY <2>4, <2>5
    <2>7. m + 1 \in 0..n
      OBVIOUS
    <2> HIDE DEF Run, h
    <2> QED
      BY <2>6, <2>7
  <1>3. n \in Q
    <2> HIDE DEF Q
    <2>1. n \in 0..n
      OBVIOUS
    <2> QED
      BY <1>1, <1>2, <2>1, UpToNumber
  <1>4. PICK g : Run(g, n)
    BY <1>3
  <1>5. g = [i \in 0..n |-> IF i = 0 THEN base ELSE step[i][g[i - 1]]]
    <2>1. \A i \in 0..n : i = 0 \/ i \in 1..n
      OBVIOUS
    <2>2. DOMAIN g = 0..n /\ g = [i \in 0..n |-> g[i]]
      BY <1>4
    <2> QED
      BY <1>4, <2>1, <2>2
  <1> QED
    BY <1>4, <1>5 DEF Iterates

---------------------------------------------------------------------------
(***************************************************************************)
(* What the web server has of the units on the connection.                 *)
(***************************************************************************)

Tags == Writers \cup {"end"}
Heads == [kind : {"head"}, t : Tags, len : Nat, pad : Nat, status : Nat]
Units == Heads \cup [kind : {"data"}, n : Nat] \cup [kind : {"header", "pad", "body"}]
Peers == [head : Nat, left : Nat, pad : Nat, t : Tags \cup {"none"}, status : Nat,
          got : [Writers -> Seq(Units)], eof : [Writers -> Nat], ends : Seq(Nat),
          late : BOOLEAN, sync : BOOLEAN]

\* A header that begins a record, and what else is sent, are units.
LEMMA UnitFacts ==
  /\ \A n \in Nat : Data(n) \in Units /\ Data(n).kind = "data"
  /\ \A k \in {"header", "pad", "body"} : Unit(k) \in Units /\ Unit(k).kind = k
  /\ \A u \in Units : u.kind = "head" => u \in Heads
  BY DEF Data, Unit, Units, Heads

\* A header leaves the web server in a record.
LEMMA OpenedType ==
  ASSUME NEW p \in Peers, NEW h \in Heads
  PROVE  Opened(p, h) \in Peers
  <1>1. /\ h.t \in Tags /\ h.len \in Nat /\ h.pad \in Nat /\ h.status \in Nat
        /\ HeaderLen - 1 \in Nat
    BY WriterAssumption DEF Heads
  <1> DEFINE e == [w \in Writers |-> p.eof[w] + (IF w = h.t /\ h.len = 0 THEN 1 ELSE 0)]
             l == p.late \/ p.ends # <<>>
  <1>2. e \in [Writers -> Nat] /\ l \in BOOLEAN
    BY DEF Peers
  <1>3. Opened(p, h) = [p EXCEPT !.head = HeaderLen - 1, !.left = h.len, !.pad = h.pad,
                                 !.t = h.t, !.status = h.status, !.late = l, !.eof = e]
    BY DEF Opened
  <1>4. h.t \in Tags \cup {"none"}
    BY <1>1
  <1> HIDE DEF e, l
  <1> QED
    BY <1>1, <1>2, <1>3, <1>4 DEF Peers

\* A unit of the content leaves it there.
LEMMA TakenType ==
  ASSUME NEW p \in Peers, NEW u \in Units, p.left > 0
  PROVE  Taken(p, u) \in Peers
  <1>1. p.left - 1 \in Nat
    BY DEF Peers
  <1>2. CASE p.t \in Writers
    <2> DEFINE g == [p.got EXCEPT ![p.t] = Append(@, u)]
    <2>1. p.got[p.t] \in Seq(Units)
      BY <1>2 DEF Peers
    <2>2. Append(p.got[p.t], u) \in Seq(Units)
      BY <2>1
    <2>3. g \in [Writers -> Seq(Units)]
      BY <2>2 DEF Peers
    <2>4. Taken(p, u) = [p EXCEPT !.left = p.left - 1, !.got = g]
      BY <1>2 DEF Taken, Peers
    <2> HIDE DEF g
    <2> QED
      BY <1>1, <2>3, <2>4 DEF Peers
  <1>3. CASE p.t \notin Writers
    <2> DEFINE e == IF p.left = 1 THEN Append(p.ends, p.status) ELSE p.ends
    <2>1. p.ends \in Seq(Nat) /\ p.status \in Nat
      BY DEF Peers
    <2>2. e \in Seq(Nat)
      BY <2>1
    <2>3. Taken(p, u) = [p EXCEPT !.left = p.left - 1, !.ends = e]
      BY <1>3 DEF Taken, Peers
    <2> HIDE DEF e
    <2> QED
      BY <1>1, <2>2, <2>3 DEF Peers
  <1> QED
    BY <1>2, <1>3

\* Nothing yet, and the web server that no longer knows where it is.
LEMMA FreshType == Fresh \in Peers /\ Lost \in Peers
  <1>1. /\ [w \in Writers |-> <<>>] \in [Writers -> Seq(Units)]
        /\ [w \in Writers |-> 0] \in [Writers -> Nat]
        /\ <<>> \in Seq(Nat)
    OBVIOUS
  <1>2. Fresh \in Peers
    BY <1>1 DEF Fresh, Peers
  <1> QED
    BY <1>2 DEF Lost, Peers

\* Whatever comes, the web server is in one of its states.
LEMMA ConsumeType ==
  ASSUME NEW p \in Peers, NEW u \in Units
  PROVE  Consume(p, u) \in Peers
  <1>1. CASE ~p.sync
    BY <1>1 DEF Consume
  <1>3. p.head \in Nat /\ p.left \in Nat /\ p.pad \in Nat
    BY DEF Peers
  <1>2. CASE p.sync /\ p.head > 0
    <2>1. Consume(p, u) = [p EXCEPT !.head = p.head - 1]
      BY <1>2, <1>3 DEF Consume, BetweenRecords
    <2>2. p.head - 1 \in Nat
      BY <1>2, <1>3
    <2> QED
      BY <2>1, <2>2 DEF Peers
  <1>4. CASE p.sync /\ p.head = 0 /\ p.left > 0
    <2>1. Consume(p, u) = Taken(p, u)
      BY <1>3, <1>4 DEF Consume, BetweenRecords
    <2> QED
      BY <1>4, <2>1, TakenType
  <1>5. CASE p.sync /\ p.head = 0 /\ p.left = 0 /\ p.pad > 0
    <2>1. Consume(p, u) = [p EXCEPT !.pad = p.pad - 1]
      BY <1>3, <1>5 DEF Consume, BetweenRecords
    <2>2. p.pad - 1 \in Nat
      BY <1>3, <1>5
    <2> QED
      BY <2>1, <2>2 DEF Peers
  <1>6. CASE p.sync /\ p.head = 0 /\ p.left = 0 /\ p.pad = 0
    <2>1. Consume(p, u) = IF u.kind = "head" THEN Opened(p, u) ELSE Lost
      BY <1>6 DEF Consume, BetweenRecords
    <2> QED
      BY <2>1, OpenedType, FreshType, UnitFacts
  <1> QED
    BY <1>1, <1>2, <1>3, <1>4, <1>5, <1>6

\* The states the web server goes through, one for each unit.
Through(f, p, u) ==
  /\ f \in [0..Len(u) -> Peers] /\ f[0] = p
  /\ \A i \in 1..Len(u) : f[i] = Consume(f[i - 1], u[i])

\* Received is where that ends.
LEMMA ReceivedFacts ==
  ASSUME NEW p \in Peers, NEW u \in Seq(Units)
  PROVE  \E f : Through(f, p, u) /\ Received(p, u) = f[Len(u)]
  <1> DEFINE n == Len(u)
             After(g) == [i \in 0..n |-> IF i = 0 THEN p ELSE Consume(g[i - 1], u[i])]
             step == [i \in 1..n |-> [q \in Peers |-> Consume(q, u[i])]]
  <1>1. n \in Nat /\ \A i \in 1..n : u[i] \in Units
    OBVIOUS
  <1> HIDE DEF n
  <1>2. ASSUME NEW i \in 1..n, NEW q \in Peers
        PROVE  step[i][q] = Consume(q, u[i]) /\ step[i][q] \in Peers
    BY <1>1, ConsumeType
  <1>3. PICK f : Iterates(f, p, step, n, Peers)
    <2>1. Stays(step, n, Peers)
      <3> HIDE DEF step
      <3> QED
        BY <1>2 DEF Stays
    <2> HIDE DEF step
    <2> QED
      BY <1>1, <2>1, Iterated
  <1>4. \A i \in 0..n : (IF i = 0 THEN p ELSE step[i][f[i - 1]])
                        = (IF i = 0 THEN p ELSE Consume(f[i - 1], u[i]))
    <2>1. \A i \in 0..n : i # 0 => i \in 1..n /\ i - 1 \in 0..n
      BY <1>1
    <2> HIDE DEF step
    <2> QED
      BY <1>2, <1>3, <2>1 DEF Iterates
  <1>5. f = After(f)
    <2> HIDE DEF step
    <2> QED
      BY <1>3, <1>4 DEF Iterates
  <1>6. PICK g : g = After(g) /\ Received(p, u) = g[n]
    <2>1. Received(p, u) = (CHOOSE g : g = After(g))[n]
      BY DEF Received, n
    <2> HIDE DEF After
    <2> QED
      BY <1>5, <2>1
  <1>7. \A i \in 0..n : g[i] = IF i = 0 THEN p ELSE Consume(g[i - 1], u[i])
    BY <1>6
  <1>8. \A i \in 0..n : g[i] \in Peers
    <2> DEFINE Q == {i \in 0..n : g[i] \in Peers}
    <2>1. 0 \in Q
      BY <1>1, <1>7
    <2>2. ASSUME NEW i \in 0..(n - 1), i \in Q PROVE i + 1 \in Q
      <3>1. i + 1 \in 1..n /\ i + 1 \in 0..n /\ i + 1 # 0 /\ (i + 1) - 1 = i
        BY <1>1
      <3>2. g[i + 1] = Consume(g[i], u[i + 1])
        BY <1>7, <3>1
      <3> QED
        BY <1>1, <2>2, <3>1, <3>2, ConsumeType
    <2> HIDE DEF Q
    <2>3. \A i \in 0..n : i \in Q
      BY <1>1, <2>1, <2>2, UpToNumber
    <2> QED
      BY <2>3 DEF Q
  <1>9. DOMAIN g = 0..n
    BY <1>6
  <1>10. g = [i \in 0..n |-> g[i]]
    <2>1. g = [i \in 0..n |-> IF i = 0 THEN p ELSE Consume(g[i - 1], u[i])]
      BY <1>6
    <2> QED
      BY <1>7, <2>1
  <1>11. g \in [0..n -> Peers]
    BY <1>8, <1>10
  <1>12. \A i \in 1..n : i \in 0..n /\ i # 0
    BY <1>1
  <1>13. Through(g, p, u)
    BY <1>1, <1>7, <1>11, <1>12 DEF Through, n
  <1> QED
    BY <1>6, <1>13 DEF n

\* There is one way through.
LEMMA ThroughOne ==
  ASSUME NEW p \in Peers, NEW u \in Seq(Units), NEW f, NEW g,
         Through(f, p, u), Through(g, p, u)
  PROVE  \A i \in 0..Len(u) : f[i] = g[i]
  <1> DEFINE Q == {i \in 0..Len(u) : f[i] = g[i]}
  <1>1. 0 \in Q
    BY DEF Through
  <1>2. ASSUME NEW i \in 0..(Len(u) - 1), i \in Q PROVE i + 1 \in Q
    <2>1. i + 1 \in 1..Len(u) /\ i + 1 \in 0..Len(u) /\ (i + 1) - 1 = i
      OBVIOUS
    <2>2. f[i + 1] = Consume(f[i], u[i + 1]) /\ g[i + 1] = Consume(g[i], u[i + 1])
      BY <2>1 DEF Through
    <2> QED
      BY <1>2, <2>1, <2>2
  <1> HIDE DEF Q
  <1>3. \A i \in 0..Len(u) : i \in Q
    BY <1>1, <1>2, UpToNumber
  <1> QED
    BY <1>3 DEF Q

\* Whoever went through has received.
LEMMA ReceivedBy ==
  ASSUME NEW p \in Peers, NEW u \in Seq(Units), NEW f, Through(f, p, u)
  PROVE  Received(p, u) = f[Len(u)]
  <1>1. PICK g : Through(g, p, u) /\ Received(p, u) = g[Len(u)]
    BY ReceivedFacts
  <1>2. Len(u) \in 0..Len(u)
    OBVIOUS
  <1> QED
    BY <1>1, <1>2, ThroughOne

\* Its state after any units is one of its states.
LEMMA ReceivedType ==
  ASSUME NEW p \in Peers, NEW u \in Seq(Units)
  PROVE  Received(p, u) \in Peers
  <1>1. PICK f : Through(f, p, u) /\ Received(p, u) = f[Len(u)]
    BY ReceivedFacts
  <1>2. Len(u) \in 0..Len(u)
    OBVIOUS
  <1> QED
    BY <1>1, <1>2 DEF Through

\* Nothing changes nothing, and what comes in two parts comes one after the other.
LEMMA ReceivedNone ==
  ASSUME NEW p \in Peers
  PROVE  Received(p, <<>>) = p
  <1>1. <<>> \in Seq(Units) /\ Len(<<>>) = 0
    OBVIOUS
  <1>2. PICK f : Through(f, p, <<>>) /\ Received(p, <<>>) = f[Len(<<>>)]
    BY <1>1, ReceivedFacts
  <1> QED
    BY <1>1, <1>2 DEF Through

\* The same for two sequences.
LEMMA ReceivedConcat ==
  ASSUME NEW p \in Peers, NEW u \in Seq(Units), NEW v \in Seq(Units)
  PROVE  Received(p, u \o v) = Received(Received(p, u), v)
  <1> DEFINE w == u \o v
             m == Len(u)
             n == Len(v)
  <1>1. /\ m \in Nat /\ n \in Nat /\ w \in Seq(Units) /\ Len(w) = m + n
        /\ \A i \in 1..m : w[i] = u[i]
        /\ \A i \in 1..n : w[m + i] = v[i]
    OBVIOUS
  <1>2. PICK f : Through(f, p, u) /\ Received(p, u) = f[m]
    BY ReceivedFacts
  <1>3. Received(p, u) \in Peers
    BY ReceivedType
  <1>4. PICK g : Through(g, Received(p, u), v) /\ Received(Received(p, u), v) = g[n]
    BY <1>3, ReceivedFacts
  <1> HIDE DEF w, m, n
  <1>5. /\ f \in [0..m -> Peers] /\ f[0] = p
        /\ \A i \in 1..m : f[i] = Consume(f[i - 1], u[i])
    BY <1>2 DEF Through, m
  <1>6. /\ g \in [0..n -> Peers] /\ g[0] = f[m]
        /\ \A i \in 1..n : g[i] = Consume(g[i - 1], v[i])
    BY <1>2, <1>4 DEF Through, n
  <1> DEFINE h == [i \in 0..(m + n) |-> IF i <= m THEN f[i] ELSE g[i - m]]
  <1>7. h \in [0..(m + n) -> Peers]
    <2>1. \A i \in 0..(m + n) : IF i <= m THEN i \in 0..m ELSE i - m \in 0..n
      BY <1>1
    <2> QED
      BY <1>5, <1>6, <2>1
  <1>8. h[0] = p /\ h[m + n] = g[n]
    <2>1. 0 \in 0..(m + n) /\ m + n \in 0..(m + n) /\ 0 <= m
          /\ (m + n <= m => n = 0 /\ m + n = m) /\ (m + n) - m = n
      BY <1>1
    <2> QED
      BY <1>5, <1>6, <2>1
  <1>9. ASSUME NEW i \in 1..(m + n) PROVE h[i] = Consume(h[i - 1], w[i])
    <2>1. i \in 0..(m + n) /\ i - 1 \in 0..(m + n)
      BY <1>1
    <2>2. CASE i <= m
      <3>1. i \in 1..m /\ i - 1 <= m
        BY <1>1, <2>2
      <3> QED
        BY <1>1, <1>5, <2>1, <2>2, <3>1
    <2>3. CASE ~(i <= m)
      <3>1. i - m \in 1..n /\ m + (i - m) = i /\ (i - m) - 1 = (i - 1) - m
        BY <1>1, <2>3
      <3>2. h[i] = Consume(g[(i - 1) - m], w[i])
        BY <1>1, <1>6, <2>1, <2>3, <3>1
      <3>3. h[i - 1] = g[(i - 1) - m]
        <4>1. CASE i - 1 <= m
          <5>1. i - 1 = m /\ (i - 1) - m = 0
            BY <1>1, <2>3, <4>1
          <5> QED
            BY <1>6, <2>1, <4>1, <5>1
        <4>2. CASE ~(i - 1 <= m)
          BY <2>1, <4>2
        <4> QED
          BY <4>1, <4>2
      <3> QED
        BY <3>2, <3>3
    <2> QED
      BY <2>2, <2>3
  <1>10. Through(h, p, w)
    BY <1>1, <1>7, <1>8, <1>9 DEF Through
  <1> HIDE DEF h
  <1>11. Received(p, w) = h[m + n]
    BY <1>1, <1>10, ReceivedBy
  <1> QED
    BY <1>4, <1>8, <1>11 DEF w

\* One unit alone.
LEMMA ReceivedOne ==
  ASSUME NEW p \in Peers, NEW u \in Units
  PROVE  Received(p, <<u>>) = Consume(p, u)
  <1>1. <<u>> \in Seq(Units) /\ Len(<<u>>) = 1 /\ <<u>>[1] = u
    OBVIOUS
  <1>2. PICK f : Through(f, p, <<u>>) /\ Received(p, <<u>>) = f[Len(<<u>>)]
    BY <1>1, ReceivedFacts
  <1> QED
    BY <1>1, <1>2 DEF Through

\* One unit more.
LEMMA ReceivedAppend ==
  ASSUME NEW p \in Peers, NEW u \in Seq(Units), NEW x \in Units
  PROVE  Received(p, Append(u, x)) = Consume(Received(p, u), x)
  <1>1. Append(u, x) = u \o <<x>> /\ <<x>> \in Seq(Units)
    OBVIOUS
  <1>2. Received(p, u) \in Peers
    BY ReceivedType
  <1>3. Received(p, u \o <<x>>) = Received(Received(p, u), <<x>>)
    BY <1>1, ReceivedConcat
  <1>4. Received(Received(p, u), <<x>>) = Consume(Received(p, u), x)
    BY <1>2, ReceivedOne
  <1> QED
    BY <1>1, <1>3, <1>4

---------------------------------------------------------------------------
(***************************************************************************)
(* What records leave the web server with.                                 *)
(***************************************************************************)

\* The rest of a header.
LEMMA HeadTaken ==
  ASSUME NEW q \in Peers, q.sync, NEW u \in Seq(Units), q.head = Len(u)
  PROVE  Received(q, u) = [q EXCEPT !.head = 0]
  <1> DEFINE n == Len(u)
             e == [i \in 0..n |-> [q EXCEPT !.head = n - i]]
  <1>1. n \in Nat
    OBVIOUS
  <1>2. e[0] = q /\ e[n] = [q EXCEPT !.head = 0]
    <2>1. 0 \in 0..n /\ n \in 0..n /\ n - n = 0 /\ n - 0 = n
      BY <1>1
    <2>2. [q EXCEPT !.head = n] = q
      BY DEF Peers
    <2> HIDE DEF n
    <2> QED
      BY <2>1, <2>2
  <1>3. e \in [0..n -> Peers]
    <2>1. \A i \in 0..n : n - i \in Nat
      BY <1>1
    <2> HIDE DEF n
    <2> QED
      BY <2>1 DEF Peers
  <1>4. ASSUME NEW i \in 1..n PROVE e[i] = Consume(e[i - 1], u[i])
    <2> DEFINE r == [q EXCEPT !.head = n - (i - 1)]
    <2>1. i \in 0..n /\ i - 1 \in 0..n /\ n - (i - 1) > 0 /\ (n - (i - 1)) - 1 = n - i
      BY <1>1
    <2>2. r.sync /\ r.head = n - (i - 1)
      BY DEF Peers
    <2>3. Consume(r, u[i]) = [r EXCEPT !.head = r.head - 1]
      <3> HIDE DEF r, n
      <3>1. r.head > 0
        BY <2>1, <2>2
      <3>2. r.head # 0
        BY <2>1, <2>2
      <3> QED
        BY <2>2, <3>1, <3>2 DEF Consume, BetweenRecords
    <2>4. [r EXCEPT !.head = r.head - 1] = [q EXCEPT !.head = n - i]
      <3> HIDE DEF n
      <3> QED
        BY <2>1, <2>2
    <2>5. e[i - 1] = r /\ e[i] = [q EXCEPT !.head = n - i]
      <3> HIDE DEF n
      <3> QED
        BY <2>1
    <2> QED
      BY <2>3, <2>4, <2>5
  <1>5. Through(e, q, u)
    <2> HIDE DEF e
    <2> QED
      BY <1>2, <1>3, <1>4 DEF Through
  <1> HIDE DEF e
  <1> QED
    BY <1>2, <1>5, ReceivedBy

\* The padding of a record.
LEMMA PadTaken ==
  ASSUME NEW q \in Peers, q.sync, NEW u \in Seq(Units),
         q.head = 0, q.left = 0, q.pad = Len(u)
  PROVE  Received(q, u) = [q EXCEPT !.pad = 0]
  <1> DEFINE n == Len(u)
             e == [i \in 0..n |-> [q EXCEPT !.pad = n - i]]
  <1>1. n \in Nat
    OBVIOUS
  <1>2. e[0] = q /\ e[n] = [q EXCEPT !.pad = 0]
    <2>1. 0 \in 0..n /\ n \in 0..n /\ n - n = 0 /\ n - 0 = n
      BY <1>1
    <2>2. [q EXCEPT !.pad = n] = q
      BY DEF Peers
    <2> HIDE DEF n
    <2> QED
      BY <2>1, <2>2
  <1>3. e \in [0..n -> Peers]
    <2>1. \A i \in 0..n : n - i \in Nat
      BY <1>1
    <2> HIDE DEF n
    <2> QED
      BY <2>1 DEF Peers
  <1>4. ASSUME NEW i \in 1..n PROVE e[i] = Consume(e[i - 1], u[i])
    <2> DEFINE r == [q EXCEPT !.pad = n - (i - 1)]
    <2>1. i \in 0..n /\ i - 1 \in 0..n /\ n - (i - 1) > 0 /\ (n - (i - 1)) - 1 = n - i
      BY <1>1
    <2>2. r.sync /\ r.head = 0 /\ r.left = 0 /\ r.pad = n - (i - 1)
      BY DEF Peers
    <2>3. Consume(r, u[i]) = [r EXCEPT !.pad = r.pad - 1]
      <3> HIDE DEF r, n
      <3>1. r.pad > 0 /\ r.pad # 0
        BY <2>1, <2>2
      <3> QED
        BY <2>2, <3>1 DEF Consume, BetweenRecords
    <2>4. [r EXCEPT !.pad = r.pad - 1] = [q EXCEPT !.pad = n - i]
      <3> HIDE DEF n
      <3> QED
        BY <2>1, <2>2
    <2>5. e[i - 1] = r /\ e[i] = [q EXCEPT !.pad = n - i]
      <3> HIDE DEF n
      <3> QED
        BY <2>1
    <2> QED
      BY <2>3, <2>4, <2>5
  <1>5. Through(e, q, u)
    <2> HIDE DEF e
    <2> QED
      BY <1>2, <1>3, <1>4 DEF Through
  <1> HIDE DEF e
  <1> QED
    BY <1>2, <1>5, ReceivedBy

\* The start of a sequence, and one more of it.
LEMMA StartFacts ==
  ASSUME NEW u \in Seq(Units)
  PROVE  /\ SubSeq(u, 1, 0) = <<>> /\ SubSeq(u, 1, Len(u)) = u
         /\ \A i \in 0..Len(u) : SubSeq(u, 1, i) \in Seq(Units)
         /\ \A i \in 1..Len(u) : SubSeq(u, 1, i) = Append(SubSeq(u, 1, i - 1), u[i])
  OBVIOUS

\* One after another, appended.
LEMMA AppendedFacts ==
  ASSUME NEW g \in Seq(Units), NEW s \in Seq(Units), NEW x \in Units
  PROVE  Append(g \o s, x) = g \o Append(s, x) /\ g \o s \in Seq(Units)
  OBVIOUS

\* The content of a record of a stream.
LEMMA DataTaken ==
  ASSUME NEW q \in Peers, q.sync, NEW u \in Seq(Units),
         q.head = 0, q.left = Len(u), q.t \in Writers
  PROVE  Received(q, u) = [q EXCEPT !.left = 0,
                                    !.got = [q.got EXCEPT ![q.t] = q.got[q.t] \o u]]
  <1> DEFINE n == Len(u)
             S(i) == SubSeq(u, 1, i)
             g(i) == [q.got EXCEPT ![q.t] = q.got[q.t] \o S(i)]
             e == [i \in 0..n |-> [q EXCEPT !.left = n - i, !.got = g(i)]]
  <1>1. n \in Nat /\ q.got \in [Writers -> Seq(Units)] /\ q.got[q.t] \in Seq(Units)
    BY DEF Peers
  <1>2. e[0] = q /\ e[n] = [q EXCEPT !.left = 0, !.got = g(n)] /\ S(n) = u
    <2>1. 0 \in 0..n /\ n \in 0..n /\ n - n = 0 /\ n - 0 = n
      BY <1>1
    <2>2. q.got[q.t] \o S(0) = q.got[q.t] /\ S(n) = u
      BY <1>1, StartFacts
    <2>3. g(0) = q.got
      <3> HIDE DEF S
      <3> QED
        BY <1>1, <2>2
    <2>4. [q EXCEPT !.left = n, !.got = q.got] = q
      BY DEF Peers
    <2> HIDE DEF n, g, S
    <2> QED
      BY <2>1, <2>2, <2>3, <2>4
  <1>3. \A i \in 0..n : g(i) \in [Writers -> Seq(Units)]
    <2> SUFFICES ASSUME NEW i \in 0..n PROVE g(i) \in [Writers -> Seq(Units)]
      OBVIOUS
    <2>1. q.got[q.t] \o S(i) \in Seq(Units)
      BY <1>1, StartFacts, AppendedFacts
    <2> HIDE DEF S
    <2> QED
      BY <1>1, <2>1
  <1>4. e \in [0..n -> Peers]
    <2>1. \A i \in 0..n : n - i \in Nat
      BY <1>1
    <2> HIDE DEF n, g
    <2> QED
      BY <1>3, <2>1 DEF Peers
  <1>5. ASSUME NEW i \in 1..n PROVE e[i] = Consume(e[i - 1], u[i])
    <2> DEFINE r == [q EXCEPT !.left = n - (i - 1), !.got = g(i - 1)]
    <2>1. i \in 0..n /\ i - 1 \in 0..n /\ n - (i - 1) > 0 /\ (n - (i - 1)) - 1 = n - i
      BY <1>1
    <2>2. r.sync /\ r.head = 0 /\ r.left = n - (i - 1) /\ r.t = q.t /\ r.got = g(i - 1)
      <3> HIDE DEF g, n
      <3> QED
        BY DEF Peers
    <2>3. Consume(r, u[i]) = [r EXCEPT !.left = r.left - 1,
                                       !.got = [r.got EXCEPT ![r.t] = Append(r.got[r.t], u[i])]]
      <3> HIDE DEF r, n
      <3>1. r.left > 0
        BY <2>1, <2>2
      <3>2. Consume(r, u[i]) = Taken(r, u[i])
        BY <2>2, <3>1 DEF Consume, BetweenRecords
      <3> QED
        BY <2>2, <3>2 DEF Taken
    <2>4. [r.got EXCEPT ![r.t] = Append(r.got[r.t], u[i])] = g(i)
      <3>1. S(i) = Append(S(i - 1), u[i]) /\ S(i - 1) \in Seq(Units) /\ u[i] \in Units
        BY <2>1, StartFacts
      <3>2. Append(q.got[q.t] \o S(i - 1), u[i]) = q.got[q.t] \o S(i)
        <4> DEFINE a == q.got[q.t]
                   b == S(i - 1)
                   x == u[i]
        <4>1. a \in Seq(Units) /\ b \in Seq(Units) /\ x \in Units
          BY <1>1, <3>1
        <4>2. S(i) = Append(b, x)
          BY <3>1
        <4> HIDE DEF S, a, b, x
        <4>3. Append(a \o b, x) = a \o Append(b, x)
          BY <4>1, AppendedFacts
        <4>4. Append(a \o b, x) = a \o S(i)
          BY <4>2, <4>3
        <4> QED
          BY <4>4 DEF a, b, x
      <3> HIDE DEF S
      <3>3. g(i - 1)[q.t] = q.got[q.t] \o S(i - 1)
        BY <1>1
      <3>4. r.got = g(i - 1) /\ r.t = q.t
        BY <2>2
      <3>5. [g(i - 1) EXCEPT ![q.t] = q.got[q.t] \o S(i)] = g(i)
        BY <1>1
      <3> HIDE DEF g, r
      <3> QED
        BY <3>2, <3>3, <3>4, <3>5
    <2>5. [r EXCEPT !.left = r.left - 1, !.got = g(i)] = [q EXCEPT !.left = n - i, !.got = g(i)]
      <3> HIDE DEF n, g
      <3> QED
        BY <2>1, <2>2
    <2>6. e[i - 1] = r /\ e[i] = [q EXCEPT !.left = n - i, !.got = g(i)]
      <3> HIDE DEF n, g
      <3> QED
        BY <2>1
    <2> HIDE DEF r, e, g
    <2> QED
      BY <2>3, <2>4, <2>5, <2>6
  <1>6. Through(e, q, u)
    <2> HIDE DEF e
    <2> QED
      BY <1>2, <1>4, <1>5 DEF Through
  <1>7. Received(q, u) = e[n]
    <2> HIDE DEF e
    <2> QED
      BY <1>6, ReceivedBy
  <1> HIDE DEF S, e
  <1> QED
    BY <1>2, <1>7

\* The content of the record that ends the request.
LEMMA EndTaken ==
  ASSUME NEW q \in Peers, q.sync, NEW u \in Seq(Units),
         q.head = 0, q.left = Len(u), Len(u) > 0, q.t \notin Writers
  PROVE  Received(q, u) = [q EXCEPT !.left = 0, !.ends = Append(q.ends, q.status)]
  <1> DEFINE n == Len(u)
             d(i) == IF i = n THEN Append(q.ends, q.status) ELSE q.ends
             e == [i \in 0..n |-> [q EXCEPT !.left = n - i, !.ends = d(i)]]
  <1>1. n \in Nat /\ n > 0 /\ q.ends \in Seq(Nat) /\ q.status \in Nat
    BY DEF Peers
  <1>2. e[0] = q /\ e[n] = [q EXCEPT !.left = 0, !.ends = Append(q.ends, q.status)]
    <2>1. 0 \in 0..n /\ n \in 0..n /\ n - n = 0 /\ n - 0 = n /\ 0 # n
      BY <1>1
    <2>2. [q EXCEPT !.left = n, !.ends = q.ends] = q
      BY DEF Peers
    <2> HIDE DEF n
    <2> QED
      BY <2>1, <2>2
  <1>3. \A i \in 0..n : d(i) \in Seq(Nat)
    BY <1>1
  <1>4. e \in [0..n -> Peers]
    <2>1. \A i \in 0..n : n - i \in Nat
      BY <1>1
    <2> HIDE DEF n, d
    <2> QED
      BY <1>3, <2>1 DEF Peers
  <1>5. ASSUME NEW i \in 1..n PROVE e[i] = Consume(e[i - 1], u[i])
    <2> DEFINE r == [q EXCEPT !.left = n - (i - 1), !.ends = d(i - 1)]
    <2>1. /\ i \in 0..n /\ i - 1 \in 0..n /\ n - (i - 1) > 0 /\ (n - (i - 1)) - 1 = n - i
          /\ i - 1 # n /\ (n - (i - 1) = 1 <=> i = n)
      BY <1>1
    <2>2. /\ r.sync /\ r.head = 0 /\ r.left = n - (i - 1) /\ r.t = q.t /\ r.ends = q.ends
          /\ r.status = q.status
      <3> HIDE DEF n
      <3> QED
        BY <2>1 DEF Peers
    <2>3. Consume(r, u[i]) = [r EXCEPT !.left = r.left - 1, !.ends = d(i)]
      <3> HIDE DEF r, n
      <3>1. r.left > 0 /\ (r.left = 1 <=> i = n)
        BY <2>1, <2>2
      <3>2. Consume(r, u[i]) = Taken(r, u[i])
        BY <2>2, <3>1 DEF Consume, BetweenRecords
      <3>3. Taken(r, u[i]) = [r EXCEPT !.left = r.left - 1,
                 !.ends = IF r.left = 1 THEN Append(r.ends, r.status) ELSE r.ends]
        BY <2>2 DEF Taken
      <3> QED
        BY <2>2, <3>1, <3>2, <3>3
    <2>4. [r EXCEPT !.left = r.left - 1, !.ends = d(i)] = [q EXCEPT !.left = n - i, !.ends = d(i)]
      <3> HIDE DEF n, d
      <3> QED
        BY <2>1, <2>2
    <2>5. e[i - 1] = r /\ e[i] = [q EXCEPT !.left = n - i, !.ends = d(i)]
      <3> HIDE DEF n, d
      <3> QED
        BY <2>1
    <2> HIDE DEF r, e, d
    <2> QED
      BY <2>3, <2>4, <2>5
  <1>6. Through(e, q, u)
    <2> HIDE DEF e
    <2> QED
      BY <1>2, <1>4, <1>5 DEF Through
  <1> HIDE DEF e
  <1> QED
    BY <1>2, <1>6, ReceivedBy

\* The records that are sent, as units.
LEMMA FillFacts ==
  ASSUME NEW n \in Nat, NEW k \in {"header", "pad", "body"}
  PROVE  Fill(n, k) \in Seq(Units) /\ Len(Fill(n, k)) = n
  <1>1. Unit(k) \in Units
    BY UnitFacts
  <1> QED
    BY <1>1 DEF Fill

HeadUnit(t, len, pad, st) ==
  [kind |-> "head", t |-> t, len |-> len, pad |-> pad, status |-> st]

\* The first unit of a header names the record.
LEMMA HeadUnitFacts ==
  ASSUME NEW t \in Tags, NEW len \in Nat, NEW pad \in Nat, NEW st \in Nat
  PROVE  LET h == HeadUnit(t, len, pad, st)
         IN  /\ h \in Heads /\ h \in Units /\ h.kind = "head"
             /\ h.t = t /\ h.len = len /\ h.pad = pad /\ h.status = st
  BY DEF HeadUnit, Heads, Units

\* A header is that unit and HeaderLen - 1 more.
LEMMA MakeHeaderFacts ==
  ASSUME NEW t \in Tags, NEW len \in Nat, NEW pad \in Nat, NEW st \in Nat
  PROVE  /\ MakeHeader(t, len, pad, st)
              = <<HeadUnit(t, len, pad, st)>> \o Fill(HeaderLen - 1, "header")
         /\ MakeHeader(t, len, pad, st) \in Seq(Units)
         /\ Len(MakeHeader(t, len, pad, st)) = HeaderLen
  <1>1. HeaderLen \in Nat /\ HeaderLen - 1 \in Nat
    BY WriterAssumption
  <1> DEFINE h == HeadUnit(t, len, pad, st)
             f == Fill(HeaderLen - 1, "header")
  <1>2. h \in Units /\ f \in Seq(Units) /\ Len(f) = HeaderLen - 1
    BY <1>1, FillFacts, HeadUnitFacts
  <1>3. MakeHeader(t, len, pad, st) = <<h>> \o f
    BY DEF MakeHeader, HeadUnit
  <1> HIDE DEF h, f
  <1>4. <<h>> \o f \in Seq(Units) /\ Len(<<h>> \o f) = 1 + Len(f)
    BY <1>2
  <1> QED
    BY <1>1, <1>2, <1>3, <1>4 DEF h, f

\* A header puts the web server at the start of the content of its record.
LEMMA HeaderReceived ==
  ASSUME NEW p \in Peers, p.sync, BetweenRecords(p),
         NEW t \in Tags, NEW len \in Nat, NEW pad \in Nat, NEW st \in Nat
  PROVE  LET q == Received(p, MakeHeader(t, len, pad, st))
         IN  /\ q \in Peers /\ q.sync
             /\ q.head = 0 /\ q.left = len /\ q.pad = pad /\ q.t = t /\ q.status = st
             /\ q.late = (p.late \/ p.ends # <<>>) /\ q.ends = p.ends /\ q.got = p.got
             /\ q.eof = [v \in Writers |-> p.eof[v] + (IF v = t /\ len = 0 THEN 1 ELSE 0)]
  <1> DEFINE h == HeadUnit(t, len, pad, st)
             f == Fill(HeaderLen - 1, "header")
             o == Opened(p, h)
             m == MakeHeader(t, len, pad, st)
  <1>1. /\ h \in Heads /\ h \in Units /\ h.kind = "head"
        /\ h.t = t /\ h.len = len /\ h.pad = pad /\ h.status = st
    BY HeadUnitFacts
  <1>2. m = <<h>> \o f
    BY MakeHeaderFacts
  <1>3. f \in Seq(Units) /\ Len(f) = HeaderLen - 1
    BY WriterAssumption, FillFacts
  <1> HIDE DEF h, f, m
  <1>4. o \in Peers
    BY <1>1, OpenedType
  <1>5. Consume(p, h) = o
    <2>1. p.head = 0 /\ p.left = 0 /\ p.pad = 0
      BY DEF BetweenRecords
    <2> QED
      BY <1>1, <2>1 DEF Consume
  <1>6. Received(p, m) = Received(o, f)
    <2>1. <<h>> \in Seq(Units)
      BY <1>1
    <2>2. Received(p, <<h>>) = o
      BY <1>1, <1>5, ReceivedOne
    <2> QED
      BY <1>2, <1>3, <2>1, <2>2, ReceivedConcat
  <1>7. /\ o.sync /\ o.head = HeaderLen - 1 /\ o.left = len /\ o.pad = pad /\ o.t = t
        /\ o.status = st /\ o.late = (p.late \/ p.ends # <<>>) /\ o.ends = p.ends
        /\ o.got = p.got
        /\ o.eof = [v \in Writers |-> p.eof[v] + (IF v = t /\ len = 0 THEN 1 ELSE 0)]
    BY <1>1 DEF Opened, Peers
  <1> HIDE DEF o
  <1>8. Received(o, f) = [o EXCEPT !.head = 0]
    BY <1>3, <1>4, <1>7, HeadTaken
  <1>9. [o EXCEPT !.head = 0] \in Peers
    BY <1>4 DEF Peers
  <1>10. LET q == [o EXCEPT !.head = 0]
         IN  /\ q.sync
             /\ q.head = 0 /\ q.left = len /\ q.pad = pad /\ q.t = t /\ q.status = st
             /\ q.late = (p.late \/ p.ends # <<>>) /\ q.ends = p.ends /\ q.got = p.got
             /\ q.eof = [v \in Writers |-> p.eof[v] + (IF v = t /\ len = 0 THEN 1 ELSE 0)]
    BY <1>4, <1>7 DEF Peers
  <1> QED
    BY <1>6, <1>8, <1>9, <1>10 DEF m

\* The web server q, which was p, has got d of the stream w since, and e ends of it.
Advanced(p, q, w, d, e) ==
  /\ q \in Peers /\ q.sync /\ BetweenRecords(q)
  /\ q.late = (p.late \/ p.ends # <<>>) /\ q.ends = p.ends
  /\ q.got = [p.got EXCEPT ![w] = p.got[w] \o d]
  /\ q.eof = [p.eof EXCEPT ![w] = p.eof[w] + e]

\* The record that ends a stream.
LEMMA EofSent ==
  ASSUME NEW p \in Peers, p.sync, BetweenRecords(p), NEW w \in Writers
  PROVE  Advanced(p, Received(p, MakeHeader(w, 0, 0, 0)), w, <<>>, 1)
  <1> DEFINE q == Received(p, MakeHeader(w, 0, 0, 0))
  <1>1. w \in Tags
    BY DEF Tags
  <1>2. /\ q \in Peers /\ q.sync /\ q.head = 0 /\ q.left = 0 /\ q.pad = 0
        /\ q.late = (p.late \/ p.ends # <<>>) /\ q.ends = p.ends /\ q.got = p.got
        /\ q.eof = [v \in Writers |-> p.eof[v] + (IF v = w /\ 0 = 0 THEN 1 ELSE 0)]
    BY <1>1, HeaderReceived
  <1> HIDE DEF q
  <1>3. p.got \in [Writers -> Seq(Units)] /\ p.eof \in [Writers -> Nat]
    BY DEF Peers
  <1>4. q.got = [p.got EXCEPT ![w] = p.got[w] \o <<>>]
    <2>1. p.got[w] \in Seq(Units)
      BY <1>3
    <2>2. p.got[w] \o <<>> = p.got[w]
      BY <2>1
    <2> QED
      BY <1>2, <1>3, <2>2
  <1>5. q.eof = [p.eof EXCEPT ![w] = p.eof[w] + 1]
    <2>1. \A v \in Writers : p.eof[v] + 0 = p.eof[v]
      BY <1>3
    <2> QED
      BY <1>2, <1>3, <2>1
  <1> QED
    BY <1>2, <1>4, <1>5 DEF Advanced, BetweenRecords, q

\* The record that ends the request.
EndRecord(st) == MakeHeader("end", EndLen, 0, st) \o Fill(EndLen, "body")

\* An END_REQUEST record that has come ended the request with its status.
LEMMA EndSent ==
  ASSUME NEW p \in Peers, p.sync, BetweenRecords(p), NEW st \in Nat
  PROVE  LET q == Received(p, EndRecord(st))
         IN  /\ EndRecord(st) \in Seq(Units)
             /\ q \in Peers /\ q.sync /\ BetweenRecords(q)
             /\ q.late = (p.late \/ p.ends # <<>>) /\ q.ends = Append(p.ends, st)
             /\ q.got = p.got /\ q.eof = p.eof
  <1> DEFINE m == MakeHeader("end", EndLen, 0, st)
             f == Fill(EndLen, "body")
             o == Received(p, m)
  <1>0. EndLen \in Nat /\ EndLen # 0 /\ EndLen > 0
    BY WriterAssumption
  <1>1. m \in Seq(Units) /\ f \in Seq(Units) /\ Len(f) = EndLen
    BY <1>0, MakeHeaderFacts, FillFacts DEF Tags
  <1>2. /\ o \in Peers /\ o.sync /\ o.head = 0 /\ o.left = EndLen /\ o.pad = 0
        /\ o.t = "end" /\ o.status = st
        /\ o.late = (p.late \/ p.ends # <<>>) /\ o.ends = p.ends /\ o.got = p.got
        /\ o.eof = [v \in Writers |-> p.eof[v] + (IF v = "end" /\ EndLen = 0 THEN 1 ELSE 0)]
    <2>1. "end" \in Tags /\ 0 \in Nat
      BY DEF Tags
    <2> QED
      BY <1>0, <2>1, HeaderReceived
  <1>3. Received(p, m \o f) = Received(o, f) /\ m \o f \in Seq(Units)
    <2> HIDE DEF m, f
    <2> QED
      BY <1>1, ReceivedConcat
  <1> HIDE DEF o, f
  <1>4. Received(o, f) = [o EXCEPT !.left = 0, !.ends = Append(o.ends, o.status)]
    <2>1. o.t \notin Writers
      BY <1>2 DEF Writers
    <2>2. f \in Seq(Units) /\ o.left = Len(f) /\ Len(f) > 0
      BY <1>0, <1>1, <1>2
    <2>3. o \in Peers /\ o.sync /\ o.head = 0
      BY <1>2
    <2> HIDE DEF m
    <2> QED
      BY <2>1, <2>2, <2>3, EndTaken
  <1>5. o.eof = p.eof
    <2>1. p.eof \in [Writers -> Nat] /\ \A v \in Writers : p.eof[v] + 0 = p.eof[v]
      BY DEF Peers
    <2> QED
      BY <1>0, <1>2, <2>1
  <1>6. Append(p.ends, st) \in Seq(Nat)
    BY DEF Peers
  <1>7. [o EXCEPT !.left = 0, !.ends = Append(p.ends, st)] \in Peers
    BY <1>2, <1>6 DEF Peers
  <1>8. LET q == [o EXCEPT !.left = 0, !.ends = Append(p.ends, st)]
        IN  /\ q.sync /\ BetweenRecords(q)
            /\ q.late = (p.late \/ p.ends # <<>>) /\ q.ends = Append(p.ends, st)
            /\ q.got = p.got /\ q.eof = p.eof
    BY <1>2, <1>5 DEF Peers, BetweenRecords
  <1>9. EndRecord(st) = m \o f
    BY DEF EndRecord, f
  <1> DEFINE x == [o EXCEPT !.left = 0, !.ends = Append(p.ends, st)]
  <1>10. Received(p, EndRecord(st)) = x
    <2>1. o.ends = p.ends /\ o.status = st
      BY <1>2
    <2>2. Received(o, f) = x
      BY <1>4, <2>1
    <2>3. Received(p, m \o f) = Received(o, f)
      BY <1>3
    <2> HIDE DEF x, m
    <2> QED
      BY <1>9, <2>2, <2>3
  <1>11. EndRecord(st) \in Seq(Units)
    BY <1>3, <1>9
  <1>12. /\ x \in Peers /\ x.sync /\ BetweenRecords(x)
         /\ x.late = (p.late \/ p.ends # <<>>) /\ x.ends = Append(p.ends, st)
         /\ x.got = p.got /\ x.eof = p.eof
    BY <1>7, <1>8
  <1> HIDE DEF x
  <1> QED
    BY <1>10, <1>11, <1>12

\* The padding of a record takes no more than is missing to a multiple of Align.
LEMMA AlignIntFacts ==
  ASSUME NEW n \in Nat
  PROVE  /\ AlignInt(n) \in Nat /\ AlignInt(n) >= n
         /\ n <= OutBuffLen - HeaderLen => AlignInt(n) <= OutBuffLen - HeaderLen
  <1> DEFINE a == Align
             k == (n + a - 1) \div a
  <1>1. a \in Nat /\ a > 0 /\ HeaderLen \in Nat /\ OutBuffLen \in Nat
    BY WriterAssumption
  <1>2. k \in Nat /\ n + a - 1 >= a * k /\ n + a - 1 < a * k + a
    <2> HIDE DEF a
    <2> QED
      BY <1>1
  <1>3. AlignInt(n) = k * a
    BY DEF AlignInt
  <1>4. k * a \in Nat /\ k * a >= n
    <2> HIDE DEF k, a
    <2> QED
      BY <1>1, <1>2
  <1>5. ASSUME n <= OutBuffLen - HeaderLen PROVE k * a <= OutBuffLen - HeaderLen
    <2> DEFINE i == OutBuffLen \div a
               j == HeaderLen \div a
    <2>1. OutBuffLen % a = 0 /\ HeaderLen % a = 0
      BY WriterAssumption
    <2>2. i \in Int /\ j \in Int /\ OutBuffLen = a * i /\ HeaderLen = a * j
      <3> HIDE DEF a
      <3> QED
        BY <1>1, <2>1
    <2> HIDE DEF i, j, k, a
    <2>3. PICK m \in Int : m = i - j
      BY <2>2
    <2>4. a * m = a * i - a * j
      BY <1>1, <2>2, <2>3
    <2>5. a * k < a * m + a
      BY <1>1, <1>2, <1>5, <2>2, <2>4
    <2>6. k <= m
      <3>1. CASE k >= m + 1
        <4>1. a * k >= a * (m + 1) /\ a * (m + 1) = a * m + a
          BY <1>1, <1>2, <2>3, <3>1
        <4>2. a * k \in Int /\ a * m \in Int /\ a \in Int
          BY <1>1, <1>2, <2>3
        <4> QED
          BY <2>5, <4>1, <4>2
      <3> QED
        BY <1>2, <2>3, <3>1
    <2>7. k * a <= m * a
      BY <1>1, <1>2, <2>3, <2>6
    <2> QED
      BY <1>1, <1>2, <2>2, <2>3, <2>4, <2>7
  <1> HIDE DEF k, a
  <1> QED
    BY <1>3, <1>4, <1>5

\* A buffer has room for what is in it and its padding.
WriterStates == [data : Seq(Units), wrote : Nat, any : BOOLEAN, isClosed : BOOLEAN,
                 closeCalled : BOOLEAN, errno : {"none", "os"}]

\* A buffer that leaves room for a header has room for its padding, because OutBuffLen
\* and HeaderLen are multiples of Align.
LEMMA PaddingFacts ==
  ASSUME NEW s \in WriterStates
  PROVE  /\ Padding(s) \in Seq(Units) /\ Len(Padding(s)) \in Nat
         /\ Len(s.data) <= OutBuffLen - HeaderLen
              => Len(s.data \o Padding(s)) <= OutBuffLen - HeaderLen
         /\ s.data \o Padding(s) \in Seq(Units)
  <1> DEFINE n == Len(s.data)
             k == AlignInt(n) - n
  <1>1. s.data \in Seq(Units) /\ n \in Nat
    BY DEF WriterStates
  <1>2. k \in Nat /\ (n <= OutBuffLen - HeaderLen => n + k <= OutBuffLen - HeaderLen)
    <2> HIDE DEF n
    <2>1. AlignInt(n) \in Nat /\ AlignInt(n) >= n
          /\ (n <= OutBuffLen - HeaderLen => AlignInt(n) <= OutBuffLen - HeaderLen)
      BY <1>1, AlignIntFacts
    <2>2. n + (AlignInt(n) - n) = AlignInt(n) /\ AlignInt(n) - n \in Nat
      BY <1>1, <2>1
    <2> QED
      BY <2>1, <2>2
  <1>3. Padding(s) = Fill(k, "pad")
    BY DEF Padding
  <1> HIDE DEF k
  <1>4. Fill(k, "pad") \in Seq(Units) /\ Len(Fill(k, "pad")) = k
    BY <1>2, FillFacts
  <1> DEFINE f == Fill(k, "pad")
  <1>5. s.data \o f \in Seq(Units) /\ Len(s.data \o f) = n + k
    <2> HIDE DEF f
    <2>1. f \in Seq(Units) /\ Len(f) = k
      BY <1>4 DEF f
    <2> QED
      BY <1>1, <2>1
  <1> HIDE DEF n
  <1> QED
    BY <1>2, <1>3, <1>4, <1>5 DEF n

\* A record of what is in the buffer.
LEMMA DataRecordType ==
  ASSUME NEW w \in Writers, NEW s \in WriterStates
  PROVE  DataRecord(w, s) \in Seq(Units)
  <1> DEFINE d == s.data
             f == Padding(s)
             m == MakeHeader(w, Len(d), Len(f), 0)
  <1>1. d \in Seq(Units) /\ f \in Seq(Units) /\ Len(d) \in Nat /\ Len(f) \in Nat
    BY PaddingFacts DEF WriterStates
  <1> HIDE DEF d, f
  <1>2. m \in Seq(Units)
    BY <1>1, MakeHeaderFacts DEF Tags
  <1> HIDE DEF m
  <1>3. m \o d \o f \in Seq(Units) /\ <<>> \in Seq(Units)
    BY <1>1, <1>2
  <1> QED
    BY <1>3 DEF DataRecord, d, f, m

\* It takes the content of the buffer to the web server.
LEMMA DataSent ==
  ASSUME NEW p \in Peers, p.sync, BetweenRecords(p), NEW w \in Writers,
         NEW s \in WriterStates
  PROVE  /\ DataRecord(w, s) \in Seq(Units)
         /\ s.data # <<>> => /\ DataRecord(w, s) # <<>>
                             /\ Advanced(p, Received(p, DataRecord(w, s)), w, s.data, 0)
         /\ s.data = <<>> => DataRecord(w, s) = <<>>
  <1>1. CASE s.data = <<>>
    BY <1>1 DEF DataRecord
  <1>2. CASE s.data # <<>>
    <2> DEFINE d == s.data
               f == Padding(s)
               m == MakeHeader(w, Len(d), Len(f), 0)
               o == Received(p, m)
               r == Received(o, d)
    <2>1. d \in Seq(Units) /\ f \in Seq(Units) /\ Len(d) \in Nat /\ Len(f) \in Nat
          /\ Len(d) # 0
      BY <1>2, PaddingFacts DEF WriterStates
    <2> HIDE DEF d, f
    <2>2. w \in Tags
      BY DEF Tags
    <2>3. m \in Seq(Units) /\ Len(m) = HeaderLen
      BY <2>1, <2>2, MakeHeaderFacts
    <2>4. /\ o \in Peers /\ o.sync /\ o.head = 0 /\ o.left = Len(d) /\ o.pad = Len(f)
          /\ o.t = w
          /\ o.late = (p.late \/ p.ends # <<>>) /\ o.ends = p.ends /\ o.got = p.got
          /\ o.eof = [v \in Writers |-> p.eof[v] + (IF v = w /\ Len(d) = 0 THEN 1 ELSE 0)]
      BY <2>1, <2>2, HeaderReceived
    <2> HIDE DEF m
    <2>5. DataRecord(w, s) = m \o d \o f
      BY <1>2 DEF DataRecord, d, f, m
    <2>6. m \o d \in Seq(Units) /\ m \o d \o f \in Seq(Units)
          /\ Len(m \o d \o f) = Len(m) + Len(d) + Len(f)
      BY <2>1, <2>3
    <2>7. m \o d \o f # <<>>
      BY <2>1, <2>3, <2>6, WriterAssumption
    <2>8. Received(p, m \o d \o f) = Received(r, f)
      <3>1. Received(p, (m \o d) \o f) = Received(Received(p, m \o d), f)
        BY <2>1, <2>6, ReceivedConcat
      <3>2. Received(p, m \o d) = r
        BY <2>1, <2>3, ReceivedConcat
      <3> QED
        BY <3>1, <3>2
    <2> HIDE DEF o
    <2>9. r = [o EXCEPT !.left = 0, !.got = [o.got EXCEPT ![o.t] = o.got[o.t] \o d]]
      BY <2>1, <2>4, DataTaken
    <2>10. r \in Peers
      BY <2>1, <2>4, ReceivedType
    <2>11. /\ r.sync /\ r.head = 0 /\ r.left = 0 /\ r.pad = Len(f)
           /\ r.late = o.late /\ r.ends = o.ends /\ r.eof = o.eof
           /\ r.got = [p.got EXCEPT ![w] = p.got[w] \o d]
      BY <2>4, <2>9 DEF Peers
    <2> HIDE DEF r
    <2>12. Received(r, f) = [r EXCEPT !.pad = 0] /\ Received(r, f) \in Peers
      BY <2>1, <2>10, <2>11, PadTaken, ReceivedType
    <2>13. o.eof = [p.eof EXCEPT ![w] = p.eof[w] + 0]
      <3>1. p.eof \in [Writers -> Nat] /\ \A v \in Writers : p.eof[v] + 0 = p.eof[v]
        BY DEF Peers
      <3> QED
        BY <2>1, <2>4, <3>1
    <2>14. Advanced(p, Received(r, f), w, d, 0)
      <3> DEFINE q == [r EXCEPT !.pad = 0]
      <3>1. /\ q.sync /\ q.head = 0 /\ q.left = 0 /\ q.pad = 0
            /\ q.late = r.late /\ q.ends = r.ends /\ q.eof = r.eof /\ q.got = r.got
        BY <2>10, <2>11 DEF Peers
      <3> HIDE DEF q
      <3>2. Received(r, f) = q /\ q \in Peers
        BY <2>12 DEF q
      <3> QED
        BY <2>4, <2>11, <2>13, <3>1, <3>2 DEF Advanced, BetweenRecords
    <2> QED
      BY <1>2, <2>5, <2>6, <2>7, <2>8, <2>14 DEF d
  <1> QED
    BY <1>1, <1>2

---------------------------------------------------------------------------
(***************************************************************************)
(* What an operation on a writer comes to.                                 *)
(***************************************************************************)

Outcomes == [s : WriterStates, p : Peers, n : Int, f : Nat, ok : BOOLEAN,
             eof : BOOLEAN, raw : Seq(Units)]

\* What is buffered has room, and nothing is after the close.
Fits(s) ==
  /\ s \in WriterStates /\ Len(s.data) <= OutBuffLen - HeaderLen
  /\ s.closeCalled => s.isClosed /\ s.data = <<>>

\* The first n units an application writes.
Upto(n) == [i \in 1..n |-> Data(i)]

\* No write has failed: the web server has what was written, but for what is still
\* buffered, and the end of a stream that was closed.
Clean(w, s, p) ==
  /\ p.sync /\ BetweenRecords(p) /\ ~p.late
  /\ s.errno = "none" /\ (s.isClosed <=> s.closeCalled)
  /\ p.got[w] \o s.data = Upto(s.wrote)
  /\ ~s.closeCalled => /\ p.ends = <<>> /\ p.eof[w] = 0
                       /\ s.any <=> p.got[w] # <<>>
  /\ s.closeCalled => p.eof[w] = IF w = "err" /\ p.got[w] = <<>> THEN 0 ELSE 1

\* Nothing has come of another stream.
Elsewhere(w, p, q) ==
  \A v \in Writers \ {w} : q.got[v] = p.got[v] /\ q.eof[v] = p.eof[v]

\* What b has become while at most k units were written on w, which is not closed.
During(w, b, x, k) ==
  /\ x \in Outcomes /\ Fits(x.s) /\ x.n = b.n /\ x.f <= b.f
  /\ x.s.closeCalled = b.s.closeCalled /\ x.s.wrote <= b.s.wrote + k
  /\ x.s.errno = "none" => b.s.errno = "none" /\ x.f = b.f
  /\ x.f = b.f /\ Clean(w, b.s, b.p)
       => Clean(w, x.s, x.p) /\ Elsewhere(w, b.p, x.p) /\ x.p.ends = b.p.ends

\* A write changes the web server, or uses up a failure.
LEMMA WriteAllFacts ==
  ASSUME NEW x \in Outcomes, NEW u \in Seq(Units), NEW y \in WriteAll(x, u)
  PROVE  /\ y \in Outcomes /\ y.s = x.s /\ y.n = x.n /\ y.raw = x.raw /\ y.eof = x.eof
         /\ \/ y.ok /\ y.f = x.f /\ y.p = Received(x.p, u)
            \/ ~y.ok /\ y.f = x.f - 1
  <1>1. x.p \in Peers /\ x.f \in Nat
    BY DEF Outcomes
  <1>2. CASE y = [x EXCEPT !.p = Received(x.p, u), !.ok = TRUE]
    <2>1. Received(x.p, u) \in Peers
      BY <1>1, ReceivedType
    <2> QED
      BY <1>2, <2>1 DEF Outcomes
  <1>3. CASE \E q \in IF x.f = 0 THEN {} ELSE {x.p, Lost} :
               y = [x EXCEPT !.p = q, !.f = x.f - 1, !.ok = FALSE]
    <2>1. PICK q \in {x.p, Lost} : y = [x EXCEPT !.p = q, !.f = x.f - 1, !.ok = FALSE]
      BY <1>3
    <2>2. x.f # 0
      BY <1>3
    <2>3. x.f - 1 \in Nat
      BY <1>1, <2>2
    <2>4. q \in Peers
      BY <1>1, FreshType
    <2> QED
      BY <2>1, <2>3, <2>4 DEF Outcomes
  <1> QED
    BY <1>2, <1>3 DEF WriteAll

\* A stream that an application fills and one after a failure.
LEMMA StreamFacts ==
  ASSUME NEW s \in WriterStates
  PROVE  /\ WithError(s) \in WriterStates /\ WithError(s).errno = "os"
         /\ WithError(s).isClosed
         /\ WithError(s).data = s.data /\ WithError(s).wrote = s.wrote
         /\ WithError(s).closeCalled = s.closeCalled
  BY DEF WithError, WriterStates

\* The buffer is written: it was empty, it is now, or the stream has failed.
LEMMA EmptyBuffFacts ==
  ASSUME NEW x \in Outcomes, Fits(x.s), NEW w \in Writers, NEW y \in EmptyBuff(w, x)
  PROVE  /\ y \in Outcomes /\ Fits(y.s) /\ y.n = x.n /\ y.eof = x.eof
         /\ y.s.wrote = x.s.wrote /\ y.s.closeCalled = x.s.closeCalled
         /\ \/ x.s.data = <<>> /\ y = x
            \/ /\ x.s.data # <<>> /\ y.f = x.f /\ y.p = Received(x.p, DataRecord(w, x.s))
               /\ y.s.data = <<>> /\ y.s.any /\ y.s.errno = x.s.errno
               /\ y.s.isClosed = x.s.isClosed
            \/ x.s.data # <<>> /\ y.f = x.f - 1 /\ y.s.errno = "os" /\ y.s.isClosed
  <1>1. CASE x.s.data = <<>>
    BY <1>1 DEF EmptyBuff
  <1>2. CASE x.s.data # <<>>
    <2> DEFINE z == [x EXCEPT !.s.any = TRUE]
               u == DataRecord(w, x.s)
    <2>1. x.s \in WriterStates /\ x.p \in Peers /\ ~x.s.closeCalled
      BY <1>2 DEF Outcomes, Fits
    <2>2. z \in Outcomes /\ z.s = [x.s EXCEPT !.any = TRUE] /\ z.p = x.p /\ z.n = x.n
          /\ z.f = x.f /\ z.eof = x.eof
      BY <2>1 DEF Outcomes, WriterStates
    <2>3. u \in Seq(Units)
      BY <2>1, DataRecordType
    <2>4. PICK v \in WriteAll(z, u) : y = Emptied(v)
      BY <1>2 DEF EmptyBuff
    <2> HIDE DEF z, u
    <2>5. /\ v \in Outcomes /\ v.s = z.s /\ v.n = z.n /\ v.eof = z.eof
          /\ \/ v.ok /\ v.f = z.f /\ v.p = Received(z.p, u)
             \/ ~v.ok /\ v.f = z.f - 1
      BY <2>2, <2>3, <2>4, WriteAllFacts
    <2>6. /\ v.s \in WriterStates /\ v.s.data = x.s.data /\ v.s.wrote = x.s.wrote /\ v.s.any
          /\ v.s.closeCalled = x.s.closeCalled /\ v.s.errno = x.s.errno
          /\ v.s.isClosed = x.s.isClosed
      BY <2>1, <2>2, <2>5 DEF WriterStates
    <2>7. CASE v.ok
      <3>1. y = [v EXCEPT !.s = [v.s EXCEPT !.data = <<>>]]
        BY <2>4, <2>5, <2>7 DEF Emptied
      <3>2. <<>> \in Seq(Units) /\ Len(<<>>) = 0 /\ 0 <= OutBuffLen - HeaderLen
        BY WriterAssumption
      <3>3. /\ y \in Outcomes /\ y.s = [v.s EXCEPT !.data = <<>>]
            /\ y.p = v.p /\ y.f = v.f /\ y.n = v.n /\ y.eof = v.eof
        BY <2>5, <2>6, <3>1, <3>2 DEF Outcomes, WriterStates
      <3>4. /\ y.s \in WriterStates /\ y.s.data = <<>> /\ y.s.any
            /\ y.s.wrote = v.s.wrote /\ y.s.closeCalled = v.s.closeCalled
            /\ y.s.errno = v.s.errno /\ y.s.isClosed = v.s.isClosed
        BY <2>6, <3>2, <3>3 DEF WriterStates
      <3>5. Fits(y.s)
        BY <2>1, <2>6, <3>2, <3>4 DEF Fits
      <3> QED
        BY <1>2, <2>2, <2>5, <2>6, <2>7, <3>3, <3>4, <3>5 DEF u
    <2>8. CASE ~v.ok
      <3> DEFINE t == [v.s EXCEPT !.data = v.s.data \o Padding(v.s)]
      <3>1. y = [v EXCEPT !.s = WithError(t)]
        BY <2>8, <2>4, <2>5 DEF Emptied
      <3>2. /\ v.s.data \o Padding(v.s) \in Seq(Units)
            /\ Len(v.s.data \o Padding(v.s)) <= OutBuffLen - HeaderLen
        <4>1. Len(v.s.data) <= OutBuffLen - HeaderLen
          BY <2>6 DEF Fits
        <4> QED
          BY <2>6, <4>1, PaddingFacts
      <3>3. /\ t \in WriterStates /\ t.data = v.s.data \o Padding(v.s)
            /\ t.wrote = v.s.wrote /\ t.closeCalled = v.s.closeCalled
        BY <2>6, <3>2 DEF WriterStates
      <3> HIDE DEF t
      <3>4. /\ WithError(t) \in WriterStates /\ WithError(t).errno = "os"
            /\ WithError(t).isClosed /\ WithError(t).data = t.data
            /\ WithError(t).wrote = t.wrote /\ WithError(t).closeCalled = t.closeCalled
        BY <3>3, StreamFacts
      <3>5. y \in Outcomes /\ y.s = WithError(t) /\ y.n = v.n /\ y.f = v.f /\ y.eof = v.eof
        BY <2>5, <3>1, <3>4 DEF Outcomes
      <3>6. Fits(y.s)
        BY <2>1, <2>6, <3>2, <3>3, <3>4, <3>5 DEF Fits
      <3> QED
        BY <1>2, <2>2, <2>5, <2>6, <2>8, <3>3, <3>4, <3>5, <3>6
    <2> QED
      BY <2>7, <2>8
  <1> QED
    BY <1>1, <1>2

\* What has become of b is not more than it was.
LEMMA DuringStart ==
  ASSUME NEW w, NEW b \in Outcomes, Fits(b.s)
  PROVE  During(w, b, b, 0)
  <1>1. b.f \in Nat /\ b.s.wrote \in Nat
    BY DEF Outcomes, WriterStates
  <1> QED
    BY <1>1 DEF During, Elsewhere

\* A bound on the units written may be raised.
LEMMA DuringMore ==
  ASSUME NEW w, NEW b \in Outcomes, NEW x, NEW k \in Nat, During(w, b, x, k)
  PROVE  During(w, b, x, k + 1)
  <1>1. b.s.wrote \in Nat /\ x.s.wrote \in Nat
    BY DEF Outcomes, WriterStates, During
  <1>2. x.s.wrote <= b.s.wrote + (k + 1)
    BY <1>1 DEF During
  <1> QED
    BY <1>2 DEF During

\* What a record changes of the web server, stream by stream.
LEMMA AdvancedFacts ==
  ASSUME NEW p \in Peers, NEW q, NEW w \in Writers, NEW d \in Seq(Units), NEW e,
         Advanced(p, q, w, d, e)
  PROVE  /\ q.got[w] = p.got[w] \o d /\ q.eof[w] = p.eof[w] + e
         /\ Elsewhere(w, p, q)
         /\ p.got[w] \in Seq(Units) /\ q.got[w] \in Seq(Units) /\ p.eof[w] \in Nat
  <1>1. p.got \in [Writers -> Seq(Units)] /\ p.eof \in [Writers -> Nat]
    BY DEF Peers
  <1>2. q.got \in [Writers -> Seq(Units)]
    BY DEF Peers, Advanced
  <1> QED
    BY <1>1, <1>2 DEF Advanced, Elsewhere

\* Where the write of a buffer leaves a stream nothing has failed on.
LEMMA CleanEmptied ==
  ASSUME NEW w \in Writers, NEW s \in WriterStates, NEW p \in Peers, Clean(w, s, p),
         ~s.closeCalled, s.data # <<>>,
         NEW t \in WriterStates, t.data = <<>>, t.any, t.errno = s.errno,
         t.isClosed = s.isClosed, t.closeCalled = s.closeCalled, t.wrote = s.wrote,
         NEW q, q = Received(p, DataRecord(w, s))
  PROVE  Clean(w, t, q) /\ Elsewhere(w, p, q) /\ q.ends = p.ends
  <1>1. /\ p.sync /\ BetweenRecords(p) /\ ~p.late /\ p.ends = <<>> /\ p.eof[w] = 0
        /\ p.got[w] \o s.data = Upto(s.wrote) /\ s.errno = "none" /\ ~s.isClosed
    BY DEF Clean
  <1>2. Advanced(p, q, w, s.data, 0)
    BY <1>1, DataSent
  <1>3. s.data \in Seq(Units)
    BY DEF WriterStates
  <1>4. /\ q.got[w] = p.got[w] \o s.data /\ q.eof[w] = p.eof[w] + 0 /\ Elsewhere(w, p, q)
        /\ p.got[w] \in Seq(Units) /\ q.got[w] \in Seq(Units) /\ p.eof[w] \in Nat
    <2> DEFINE d == s.data
               e == 0
    <2>1. Advanced(p, q, w, d, e) /\ d \in Seq(Units)
      BY <1>2, <1>3
    <2> HIDE DEF d, e
    <2>2. /\ q.got[w] = p.got[w] \o d /\ q.eof[w] = p.eof[w] + e /\ Elsewhere(w, p, q)
          /\ p.got[w] \in Seq(Units) /\ q.got[w] \in Seq(Units) /\ p.eof[w] \in Nat
      BY <2>1, AdvancedFacts
    <2> QED
      BY <2>2 DEF d, e
  <1>5. q.sync /\ BetweenRecords(q) /\ ~q.late /\ q.ends = <<>>
    BY <1>1, <1>2 DEF Advanced
  <1>6. q.got[w] \o t.data = Upto(t.wrote) /\ q.got[w] # <<>>
    <2>1. q.got[w] \o <<>> = q.got[w]
      BY <1>4
    <2>2. q.got[w] # <<>>
      <3> DEFINE a == p.got[w]
                 c == s.data
      <3>1. a \in Seq(Units) /\ c \in Seq(Units) /\ c # <<>>
        BY <1>3, <1>4
      <3> HIDE DEF a, c
      <3>2. a \o c # <<>>
        BY <3>1
      <3> QED
        BY <1>4, <3>2 DEF a, c
    <2> QED
      BY <1>1, <1>4, <2>1, <2>2
  <1>7. q.eof[w] = 0
    BY <1>1, <1>4
  <1> QED
    BY <1>1, <1>4, <1>5, <1>6, <1>7 DEF Clean

\* EmptyBuffProc.
LEMMA EmptyBuffKeeps ==
  ASSUME NEW w \in Writers, NEW b \in Outcomes, NEW x, NEW k \in Nat, During(w, b, x, k),
         NEW y \in EmptyBuff(w, x)
  PROVE  During(w, b, y, k) /\ y.eof = x.eof
  <1>1. /\ x \in Outcomes /\ Fits(x.s) /\ x.n = b.n /\ x.f <= b.f
        /\ x.s.closeCalled = b.s.closeCalled /\ x.s.wrote <= b.s.wrote + k
        /\ x.s.errno = "none" => b.s.errno = "none" /\ x.f = b.f
    BY DEF During
  <1>2. /\ y \in Outcomes /\ Fits(y.s) /\ y.n = x.n /\ y.eof = x.eof
        /\ y.s.wrote = x.s.wrote /\ y.s.closeCalled = x.s.closeCalled
        /\ \/ x.s.data = <<>> /\ y = x
           \/ /\ x.s.data # <<>> /\ y.f = x.f /\ y.p = Received(x.p, DataRecord(w, x.s))
              /\ y.s.data = <<>> /\ y.s.any /\ y.s.errno = x.s.errno
              /\ y.s.isClosed = x.s.isClosed
           \/ x.s.data # <<>> /\ y.f = x.f - 1 /\ y.s.errno = "os" /\ y.s.isClosed
    BY <1>1, EmptyBuffFacts
  <1>3. x.f \in Nat /\ b.f \in Nat /\ y.f \in Nat
    BY <1>1, <1>2 DEF Outcomes
  <1>4. CASE x.s.data = <<>> /\ y = x
    BY <1>4
  <1>5. CASE /\ x.s.data # <<>> /\ y.f = x.f /\ y.p = Received(x.p, DataRecord(w, x.s))
             /\ y.s.data = <<>> /\ y.s.any /\ y.s.errno = x.s.errno
             /\ y.s.isClosed = x.s.isClosed
    <2>1. ASSUME y.f = b.f, Clean(w, b.s, b.p)
          PROVE  Clean(w, y.s, y.p) /\ Elsewhere(w, b.p, y.p) /\ y.p.ends = b.p.ends
      <3>1. Clean(w, x.s, x.p) /\ Elsewhere(w, b.p, x.p) /\ x.p.ends = b.p.ends
        BY <1>5, <2>1 DEF During
      <3>2. ~x.s.closeCalled /\ x.s \in WriterStates /\ x.p \in Peers /\ y.s \in WriterStates
        BY <1>1, <1>2, <1>5 DEF Fits, Outcomes
      <3>3. Clean(w, y.s, y.p) /\ Elsewhere(w, x.p, y.p) /\ y.p.ends = x.p.ends
        BY <1>2, <1>5, <3>1, <3>2, CleanEmptied
      <3> QED
        BY <3>1, <3>3 DEF Elsewhere
    <2> QED
      BY <1>1, <1>2, <1>3, <1>5, <2>1 DEF During
  <1>6. CASE x.s.data # <<>> /\ y.f = x.f - 1 /\ y.s.errno = "os" /\ y.s.isClosed
    <2>1. y.f < b.f /\ y.f <= b.f /\ y.f # b.f
      BY <1>1, <1>3, <1>6
    <2> QED
      BY <1>1, <1>2, <1>6, <2>1 DEF During
  <1> QED
    BY <1>2, <1>4, <1>5, <1>6

\* What is written next to what was written.
LEMMA UptoFacts ==
  ASSUME NEW n \in Nat
  PROVE  /\ Upto(n) \in Seq(Units) /\ Len(Upto(n)) = n
         /\ Append(Upto(n), Data(n + 1)) = Upto(n + 1)
  <1>1. \A i \in 1..n : Data(i) \in Units
    BY UnitFacts
  <1>2. Upto(n) \in Seq(Units) /\ Len(Upto(n)) = n /\ \A i \in 1..n : Upto(n)[i] = Data(i)
    BY <1>1 DEF Upto
  <1> DEFINE s == Append(Upto(n), Data(n + 1))
  <1>3. /\ Len(s) = n + 1 /\ DOMAIN s = 1..(n + 1) /\ s[n + 1] = Data(n + 1)
        /\ \A i \in 1..n : s[i] = Upto(n)[i]
    BY <1>2
  <1>4. s = [i \in 1..(n + 1) |-> s[i]]
    <2>1. s \in Seq(Units)
      BY <1>2, UnitFacts
    <2> HIDE DEF s
    <2> QED
      BY <1>3, <2>1
  <1>5. \A i \in 1..(n + 1) : s[i] = Data(i)
    <2> HIDE DEF s
    <2>1. \A i \in 1..(n + 1) : i \in 1..n \/ i = n + 1
      OBVIOUS
    <2> QED
      BY <1>2, <1>3, <2>1
  <1> HIDE DEF s
  <1>6. s = Upto(n + 1)
    BY <1>4, <1>5 DEF Upto
  <1> QED
    BY <1>2, <1>6 DEF s

\* A unit that has room.
LEMMA StoreFacts ==
  ASSUME NEW s, Fits(s), Room(s) > 0
  PROVE  /\ Fits(Store(s)) /\ ~s.closeCalled
         /\ Store(s).data = Append(s.data, Data(s.wrote + 1))
         /\ Store(s).wrote = s.wrote + 1 /\ Store(s).any = s.any
         /\ Store(s).isClosed = s.isClosed /\ Store(s).closeCalled = s.closeCalled
         /\ Store(s).errno = s.errno
  <1>1. /\ s \in WriterStates /\ s.data \in Seq(Units) /\ s.wrote \in Nat
        /\ Len(s.data) \in Nat
    BY DEF Fits, WriterStates
  <1>2. ~s.closeCalled /\ Len(s.data) + 1 <= OutBuffLen - HeaderLen
    <2>1. OutBuffLen \in Nat /\ HeaderLen \in Nat
      BY WriterAssumption
    <2>2. ~s.closeCalled
      BY DEF Room
    <2>3. OutBuffLen - HeaderLen - Len(s.data) > 0
      BY <2>2 DEF Room
    <2> DEFINE n == Len(s.data)
    <2>4. n \in Nat /\ OutBuffLen - HeaderLen - n > 0
      BY <1>1, <2>3
    <2> HIDE DEF n
    <2>5. n + 1 <= OutBuffLen - HeaderLen
      BY <2>1, <2>4
    <2> QED
      BY <2>2, <2>5 DEF n
  <1> DEFINE d == Append(s.data, Data(s.wrote + 1))
  <1>3. d \in Seq(Units) /\ Len(d) = Len(s.data) + 1 /\ s.wrote + 1 \in Nat
    <2>1. Data(s.wrote + 1) \in Units
      BY <1>1, UnitFacts
    <2> QED
      BY <1>1, <2>1
  <1>4. Store(s) = [s EXCEPT !.wrote = s.wrote + 1, !.data = d]
    BY DEF Store
  <1> HIDE DEF d
  <1>5. /\ Store(s) \in WriterStates /\ Store(s).data = d
        /\ Store(s).wrote = s.wrote + 1 /\ Store(s).any = s.any
        /\ Store(s).isClosed = s.isClosed /\ Store(s).closeCalled = s.closeCalled
        /\ Store(s).errno = s.errno
    BY <1>1, <1>3, <1>4 DEF WriterStates
  <1>6. Fits(Store(s))
    BY <1>1, <1>2, <1>3, <1>5 DEF Fits
  <1> QED
    BY <1>2, <1>5, <1>6 DEF d

\* A unit that is put where there is room follows what was written before it.
LEMMA StoreKeeps ==
  ASSUME NEW w \in Writers, NEW b \in Outcomes, NEW x, NEW k \in Nat, During(w, b, x, k),
         Room(x.s) > 0
  PROVE  During(w, b, [x EXCEPT !.s = Store(x.s)], k + 1)
  <1> DEFINE y == [x EXCEPT !.s = Store(x.s)]
  <1>1. /\ x \in Outcomes /\ Fits(x.s) /\ x.n = b.n /\ x.f <= b.f
        /\ x.s.closeCalled = b.s.closeCalled /\ x.s.wrote <= b.s.wrote + k
        /\ x.s.errno = "none" => b.s.errno = "none" /\ x.f = b.f
    BY DEF During
  <1>2. /\ Fits(Store(x.s)) /\ ~x.s.closeCalled
        /\ Store(x.s).data = Append(x.s.data, Data(x.s.wrote + 1))
        /\ Store(x.s).wrote = x.s.wrote + 1 /\ Store(x.s).any = x.s.any
        /\ Store(x.s).isClosed = x.s.isClosed /\ Store(x.s).closeCalled = x.s.closeCalled
        /\ Store(x.s).errno = x.s.errno
    BY <1>1, StoreFacts
  <1>3. /\ y \in Outcomes /\ y.s = Store(x.s) /\ y.p = x.p /\ y.n = x.n /\ y.f = x.f
    BY <1>1, <1>2 DEF Outcomes, Fits
  <1> HIDE DEF y
  <1>4. x.s.wrote + 1 <= b.s.wrote + (k + 1)
    <2>1. x.s.wrote \in Nat /\ b.s.wrote \in Nat
      BY <1>1 DEF Outcomes, WriterStates
    <2> QED
      BY <1>1, <2>1
  <1>5. ASSUME y.f = b.f, Clean(w, b.s, b.p)
        PROVE  Clean(w, y.s, y.p) /\ Elsewhere(w, b.p, y.p) /\ y.p.ends = b.p.ends
    <2>1. Clean(w, x.s, x.p) /\ Elsewhere(w, b.p, x.p) /\ x.p.ends = b.p.ends
      BY <1>3, <1>5 DEF During
    <2>2. x.p.got[w] \o Append(x.s.data, Data(x.s.wrote + 1)) = Upto(x.s.wrote + 1)
      <3> DEFINE a == x.p.got[w]
                 c == x.s.data
                 n == x.s.wrote
      <3>1. a \in Seq(Units) /\ c \in Seq(Units) /\ n \in Nat
        BY <1>1 DEF Outcomes, Peers, WriterStates
      <3>2. a \o c = Upto(n)
        BY <2>1 DEF Clean
      <3>3. Data(n + 1) \in Units
        BY <3>1, UnitFacts
      <3> HIDE DEF a, c, n
      <3>4. a \o Append(c, Data(n + 1)) = Append(a \o c, Data(n + 1))
        BY <3>1, <3>3, AppendedFacts
      <3>5. a \o Append(c, Data(n + 1)) = Upto(n + 1)
        BY <3>1, <3>2, <3>4, UptoFacts
      <3> QED
        BY <3>5 DEF a, c, n
    <2>3. Clean(w, y.s, y.p)
      BY <1>2, <1>3, <2>1, <2>2 DEF Clean
    <2> QED
      BY <1>3, <2>1, <2>3
  <1>6. During(w, b, y, k + 1)
    BY <1>1, <1>2, <1>3, <1>4, <1>5 DEF During
  <1> QED
    BY <1>6 DEF y

\* That nothing more has room is noted, and nothing else changes.
LEMMA EofKeeps ==
  ASSUME NEW w \in Writers, NEW b \in Outcomes, NEW x, NEW k \in Nat, During(w, b, x, k)
  PROVE  During(w, b, [x EXCEPT !.eof = TRUE], k)
  <1> DEFINE y == [x EXCEPT !.eof = TRUE]
  <1>1. x \in Outcomes
    BY DEF During
  <1>2. y \in Outcomes /\ y.s = x.s /\ y.p = x.p /\ y.n = x.n /\ y.f = x.f
    BY <1>1 DEF Outcomes
  <1> HIDE DEF y
  <1>3. During(w, b, y, k)
    BY <1>2 DEF During
  <1> QED
    BY <1>3 DEF y

\* FCGX_PutChar writes one unit at most.
LEMMA PutCharKeeps ==
  ASSUME NEW w \in Writers, NEW b \in Outcomes, NEW x, NEW k \in Nat, During(w, b, x, k),
         NEW y \in PutChar(w, x)
  PROVE  During(w, b, y, k + 1)
  <1>0. x \in Outcomes /\ x.eof \in BOOLEAN /\ Room(x.s) \in Int
    <2>1. x \in Outcomes /\ Len(x.s.data) \in Nat
      BY DEF During, Outcomes, WriterStates
    <2> QED
      BY <2>1, WriterAssumption DEF Outcomes, Room
  <1>1. CASE x.eof
    <2>1. y = x
      BY <1>1 DEF PutChar
    <2> QED
      BY <2>1, DuringMore
  <1>2. CASE ~x.eof /\ Room(x.s) > 0
    <2>1. y = [x EXCEPT !.s = Store(x.s)]
      BY <1>2 DEF PutChar
    <2> QED
      BY <1>2, <2>1, StoreKeeps
  <1>3. CASE ~x.eof /\ Room(x.s) = 0 /\ x.s.isClosed
    <2>1. y = [x EXCEPT !.eof = TRUE]
      BY <1>3 DEF PutChar
    <2>2. During(w, b, y, k)
      BY <2>1, EofKeeps
    <2> QED
      BY <2>2, DuringMore
  <1>4. CASE ~x.eof /\ ~(Room(x.s) > 0) /\ ~(Room(x.s) = 0 /\ x.s.isClosed)
    <2>1. PICK z \in EmptyBuff(w, x) :
            y = IF Room(z.s) > 0 THEN [z EXCEPT !.s = Store(z.s)] ELSE [z EXCEPT !.eof = TRUE]
      BY <1>4 DEF PutChar
    <2>2. During(w, b, z, k)
      BY EmptyBuffKeeps
    <2>3. CASE Room(z.s) > 0
      BY <2>1, <2>2, <2>3, StoreKeeps
    <2>4. CASE ~(Room(z.s) > 0)
      <3>1. During(w, b, [z EXCEPT !.eof = TRUE], k)
        BY <2>2, EofKeeps
      <3>2. y = [z EXCEPT !.eof = TRUE]
        BY <2>1, <2>4
      <3> QED
        BY <3>1, <3>2, DuringMore
    <2> QED
      BY <2>3, <2>4
  <1> QED
    BY <1>0, <1>1, <1>2, <1>3, <1>4

\* FCGX_PutStr of n units writes n at most.
LEMMA PutStrKeeps ==
  ASSUME NEW w \in Writers, NEW b \in Outcomes, Fits(b.s), NEW n \in Nat,
         NEW y \in PutStr(w, b, n)
  PROVE  During(w, b, y, n)
  <1> DEFINE Good == {x \in Outcomes : Fits(x.s)}
             A == SUBSET Good
             Each(Y) == UNION {PutChar(w, x) : x \in Y}
             After(g) == [i \in 0..n |-> IF i = 0 THEN {b} ELSE Each(g[i - 1])]
             step == [i \in 1..n |-> [Y \in A |-> Each(Y)]]
  <1>1. {b} \in A
    OBVIOUS
  <1>2. ASSUME NEW Y \in A PROVE Each(Y) \in A
    <2> SUFFICES ASSUME NEW x \in Y, NEW z \in PutChar(w, x) PROVE z \in Good
      OBVIOUS
    <2>1. x \in Outcomes /\ Fits(x.s)
      OBVIOUS
    <2>2. During(w, x, x, 0)
      BY <2>1, DuringStart
    <2>3. During(w, x, z, 0 + 1)
      BY <2>1, <2>2, PutCharKeeps
    <2> QED
      BY <2>3 DEF During
  <1>3. ASSUME NEW i \in 1..n, NEW Y \in A
        PROVE  step[i][Y] = Each(Y) /\ step[i][Y] \in A
    <2> HIDE DEF A, Each
    <2> QED
      BY <1>2
  <1> HIDE DEF A, Each
  <1>4. PICK f : Iterates(f, {b}, step, n, A)
    <2>1. Stays(step, n, A)
      <3> HIDE DEF step
      <3> QED
        BY <1>3 DEF Stays
    <2> HIDE DEF step
    <2> QED
      BY <1>1, <2>1, Iterated
  <1>5. f = After(f)
    <2>1. \A i \in 0..n : (IF i = 0 THEN {b} ELSE step[i][f[i - 1]])
                          = (IF i = 0 THEN {b} ELSE Each(f[i - 1]))
      <3>1. \A i \in 0..n : i # 0 => i \in 1..n /\ i - 1 \in 0..n
        OBVIOUS
      <3> HIDE DEF step
      <3> QED
        BY <1>3, <1>4, <3>1 DEF Iterates
    <2> HIDE DEF step
    <2> QED
      BY <1>4, <2>1 DEF Iterates
  <1>6. PICK g : g = After(g) /\ PutStr(w, b, n) = g[n]
    <2>1. PutStr(w, b, n) = (CHOOSE g : g = After(g))[n]
      BY DEF PutStr, Each
    <2> HIDE DEF After
    <2> QED
      BY <1>5, <2>1
  <1>7. \A i \in 0..n : g[i] = IF i = 0 THEN {b} ELSE Each(g[i - 1])
    BY <1>6
  <1> DEFINE Q == {i \in 0..n : \A x \in g[i] : During(w, b, x, i)}
  <1>8. 0 \in Q
    <2>1. g[0] = {b} /\ 0 \in 0..n
      BY <1>7
    <2> QED
      BY <2>1, DuringStart
  <1>9. ASSUME NEW i \in 0..(n - 1), i \in Q PROVE i + 1 \in Q
    <2>1. i \in Nat /\ i \in 0..n /\ i + 1 \in 0..n /\ i + 1 # 0 /\ (i + 1) - 1 = i
      OBVIOUS
    <2>2. g[i + 1] = Each(g[i])
      BY <1>7, <2>1
    <2>3. ASSUME NEW z \in g[i + 1] PROVE During(w, b, z, i + 1)
      <3>1. PICK x \in g[i] : z \in PutChar(w, x)
        BY <2>2, <2>3 DEF Each
      <3>2. During(w, b, x, i)
        BY <1>9
      <3> QED
        BY <2>1, <3>1, <3>2, PutCharKeeps
    <2> QED
      BY <2>1, <2>3
  <1>10. n \in Q
    <2> HIDE DEF Q
    <2>1. n \in 0..n
      OBVIOUS
    <2> QED
      BY <1>8, <1>9, <2>1, UpToNumber
  <1> QED
    BY <1>6, <1>10

\* FCGX_FFlush writes none.
LEMMA FFlushKeeps ==
  ASSUME NEW w \in Writers, NEW b \in Outcomes, Fits(b.s), NEW y \in FFlush(w, b)
  PROVE  During(w, b, y, 0)
  <1>1. During(w, b, b, 0)
    BY DuringStart
  <1>2. CASE b.s.isClosed
    BY <1>1, <1>2 DEF FFlush
  <1>3. CASE ~b.s.isClosed
    <2>1. y \in EmptyBuff(w, b)
      BY <1>3 DEF FFlush
    <2> QED
      BY <1>1, <2>1, EmptyBuffKeeps
  <1> QED
    BY <1>2, <1>3

---------------------------------------------------------------------------
(***************************************************************************)
(* What the close of a writer comes to.                                    *)
(***************************************************************************)

\* y has become of b, with m streams open, while u was written: what is in the
\* buffer and what the web server has come to what u does to the web server of b.
Writing(b, y, u, m) ==
  /\ y \in Outcomes /\ y.n = m
  /\ y.s.data = b.s.data /\ y.s.wrote = b.s.wrote /\ y.s.closeCalled = b.s.closeCalled
  /\ y.f <= b.f /\ (y.s.errno = "none" => b.s.errno = "none" /\ y.f = b.f)
  /\ y.f = b.f /\ b.s.errno = "none" /\ ~b.s.isClosed
       => /\ y.s.errno = "none" /\ ~y.s.isClosed
          /\ Received(y.p, y.raw) = Received(b.p, u)

\* A write of the buffer while a stream is closed: what was in it has come, unless
\* a write failed.
LEMMA RawEmptyKeeps ==
  ASSUME NEW b \in Outcomes, NEW y, NEW u \in Seq(Units), NEW m, Writing(b, y, u, m),
         NEW z \in RawEmpty(y)
  PROVE  Writing(b, z, u, m) /\ (z.ok => z.raw = <<>>) /\ (z.f = b.f => z.ok)
  <1> DEFINE x == [y EXCEPT !.s.any = TRUE]
  <1>1. y \in Outcomes /\ y.s \in WriterStates /\ y.p \in Peers /\ y.raw \in Seq(Units)
        /\ y.f \in Nat /\ b.f \in Nat /\ y.f <= b.f
    BY DEF Writing, Outcomes
  <1>2. /\ x \in Outcomes /\ x.s = [y.s EXCEPT !.any = TRUE] /\ x.p = y.p /\ x.n = y.n
        /\ x.f = y.f /\ x.raw = y.raw
    BY <1>1 DEF Outcomes, WriterStates
  <1>3. /\ x.s \in WriterStates /\ x.s.data = y.s.data /\ x.s.wrote = y.s.wrote
        /\ x.s.closeCalled = y.s.closeCalled /\ x.s.errno = y.s.errno
        /\ x.s.isClosed = y.s.isClosed
    <2> DEFINE t == y.s
    <2>1. t \in WriterStates /\ x.s = [t EXCEPT !.any = TRUE]
      BY <1>1, <1>2
    <2> HIDE DEF t, x
    <2>2. /\ x.s \in WriterStates /\ x.s.data = t.data /\ x.s.wrote = t.wrote
          /\ x.s.closeCalled = t.closeCalled /\ x.s.errno = t.errno
          /\ x.s.isClosed = t.isClosed
      BY <2>1 DEF WriterStates
    <2> QED
      BY <2>2 DEF t
  <1>4. PICK v \in WriteAll(x, y.raw) :
          z = IF v.ok THEN [v EXCEPT !.raw = <<>>] ELSE [v EXCEPT !.s = WithError(v.s)]
    BY DEF RawEmpty
  <1> HIDE DEF x
  <1>5. /\ v \in Outcomes /\ v.s = x.s /\ v.n = x.n
        /\ \/ v.ok /\ v.f = x.f /\ v.p = Received(x.p, y.raw)
           \/ ~v.ok /\ v.f = x.f - 1
    BY <1>1, <1>2, <1>4, WriteAllFacts
  <1>6. CASE v.ok
    <2>1. z = [v EXCEPT !.raw = <<>>]
      BY <1>4, <1>6
    <2>2. /\ z \in Outcomes /\ z.s = v.s /\ z.p = v.p /\ z.n = v.n /\ z.f = v.f
          /\ z.ok = v.ok /\ z.raw = <<>>
      <3>1. <<>> \in Seq(Units)
        OBVIOUS
      <3> QED
        BY <1>5, <2>1, <3>1 DEF Outcomes
    <2>3. Received(z.p, z.raw) = z.p
      BY <2>2, ReceivedNone DEF Outcomes
    <2>4. z.p = Received(y.p, y.raw)
      BY <1>2, <1>5, <1>6, <2>2
    <2> QED
      BY <1>2, <1>3, <1>5, <1>6, <2>2, <2>3, <2>4 DEF Writing
  <1>7. CASE ~v.ok
    <2>1. z = [v EXCEPT !.s = WithError(v.s)]
      BY <1>4, <1>7
    <2>2. v.s \in WriterStates
      BY <1>5 DEF Outcomes
    <2>3. /\ WithError(v.s) \in WriterStates /\ WithError(v.s).errno = "os"
          /\ WithError(v.s).data = v.s.data /\ WithError(v.s).wrote = v.s.wrote
          /\ WithError(v.s).closeCalled = v.s.closeCalled
      BY <2>2, StreamFacts
    <2>4. z \in Outcomes /\ z.s = WithError(v.s) /\ z.n = v.n /\ z.f = v.f /\ z.ok = v.ok
      BY <1>5, <2>1, <2>3 DEF Outcomes
    <2>5. z.f < b.f /\ z.f <= b.f /\ z.f # b.f
      BY <1>1, <1>2, <1>5, <1>7, <2>4
    <2> QED
      BY <1>2, <1>3, <1>5, <1>7, <2>3, <2>4, <2>5 DEF Writing
  <1> QED
    BY <1>6, <1>7

\* The same with one more unit in the buffer, which is written first if it is full.
LEMMA RawPutCharKeeps ==
  ASSUME NEW b \in Outcomes, NEW y, NEW u \in Seq(Units), NEW m, Writing(b, y, u, m),
         NEW c \in Units, NEW z \in RawPutChar(y, c)
  PROVE  Writing(b, z, Append(u, c), m)
  <1>1. y \in Outcomes /\ y.p \in Peers /\ y.raw \in Seq(Units) /\ b.p \in Peers
    BY DEF Writing, Outcomes
  <1>2. Received(b.p, Append(u, c)) = Consume(Received(b.p, u), c)
    BY <1>1, ReceivedAppend
  <1>3. CASE Len(y.raw) < OutBuffLen
    <2>1. z = [y EXCEPT !.raw = Append(y.raw, c)]
      BY <1>3 DEF RawPutChar
    <2>2. Append(y.raw, c) \in Seq(Units)
      BY <1>1
    <2>3. z \in Outcomes /\ z.s = y.s /\ z.p = y.p /\ z.n = y.n /\ z.f = y.f
          /\ z.raw = Append(y.raw, c)
      BY <1>1, <2>1, <2>2 DEF Outcomes
    <2>4. Received(z.p, z.raw) = Consume(Received(y.p, y.raw), c)
      BY <1>1, <2>3, ReceivedAppend
    <2> QED
      BY <1>2, <2>3, <2>4 DEF Writing
  <1>4. CASE ~(Len(y.raw) < OutBuffLen) /\ y.s.isClosed
    <2>1. z = y
      BY <1>4 DEF RawPutChar
    <2> QED
      BY <1>4, <2>1 DEF Writing
  <1>5. CASE ~(Len(y.raw) < OutBuffLen) /\ ~y.s.isClosed
    <2>1. PICK v \in RawEmpty(y) : z = IF v.ok THEN [v EXCEPT !.raw = <<c>>] ELSE v
      BY <1>5 DEF RawPutChar
    <2>2. Writing(b, v, u, m) /\ (v.ok => v.raw = <<>>) /\ (v.f = b.f => v.ok)
      BY RawEmptyKeeps
    <2>3. CASE v.ok
      <3>1. <<c>> \in Seq(Units)
        OBVIOUS
      <3>2. v \in Outcomes /\ v.p \in Peers
        BY <2>2 DEF Writing, Outcomes
      <3>3. z \in Outcomes /\ z.s = v.s /\ z.p = v.p /\ z.n = v.n /\ z.f = v.f /\ z.raw = <<c>>
        BY <2>1, <2>3, <3>1, <3>2 DEF Outcomes
      <3>4. Received(z.p, z.raw) = Consume(Received(v.p, v.raw), c)
        BY <2>2, <2>3, <3>2, <3>3, ReceivedOne, ReceivedNone
      <3> QED
        BY <1>2, <2>2, <3>3, <3>4 DEF Writing
    <2>4. CASE ~v.ok
      BY <2>1, <2>2, <2>4 DEF Writing
    <2> QED
      BY <2>3, <2>4
  <1> QED
    BY <1>3, <1>4, <1>5

\* A stream that nothing was written of yet.
LEMMA WritingStart ==
  ASSUME NEW b \in Outcomes
  PROVE  Writing(b, b, b.raw, b.n)
  <1>1. b.f \in Nat
    BY DEF Outcomes
  <1> QED
    BY <1>1 DEF Writing

\* The same with the units of a record, whatever part of them is written early.
LEMMA RawPutStrKeeps ==
  ASSUME NEW b \in Outcomes, NEW u \in Seq(Units), NEW m,
         NEW First, \A x \in First : Writing(b, x, u, m),
         NEW v \in Seq(Units), NEW z \in RawPutStr(First, v)
  PROVE  Writing(b, z, u \o v, m)
  <1> DEFINE n == Len(v)
             A == SUBSET Outcomes
             Each(Y, i) == UNION {RawPutChar(x, v[i]) : x \in Y}
             After(g) == [i \in 0..n |-> IF i = 0 THEN First ELSE Each(g[i - 1], i)]
             step == [i \in 1..n |-> [Y \in A |-> Each(Y, i)]]
  <1>0. n \in Nat /\ \A i \in 1..n : v[i] \in Units
    OBVIOUS
  <1> HIDE DEF n
  <1>1. First \in A
    BY DEF Writing
  <1>2. ASSUME NEW i \in 1..n, NEW Y \in A PROVE Each(Y, i) \in A
    <2> SUFFICES ASSUME NEW x \in Y, NEW q \in RawPutChar(x, v[i]) PROVE q \in Outcomes
      OBVIOUS
    <2>1. x \in Outcomes /\ x.raw \in Seq(Units)
      BY DEF Outcomes
    <2>2. Writing(x, x, x.raw, x.n)
      BY <2>1, WritingStart
    <2>3. Writing(x, q, Append(x.raw, v[i]), x.n)
      BY <1>0, <2>1, <2>2, RawPutCharKeeps
    <2> QED
      BY <2>3 DEF Writing
  <1>3. ASSUME NEW i \in 1..n, NEW Y \in A
        PROVE  step[i][Y] = Each(Y, i) /\ step[i][Y] \in A
    <2> HIDE DEF A, Each
    <2> QED
      BY <1>2
  <1> HIDE DEF A, Each
  <1>4. PICK f : Iterates(f, First, step, n, A)
    <2>1. Stays(step, n, A)
      <3> HIDE DEF step
      <3> QED
        BY <1>3 DEF Stays
    <2> HIDE DEF step
    <2> QED
      BY <1>0, <1>1, <2>1, Iterated
  <1>5. f = After(f)
    <2>1. \A i \in 0..n : (IF i = 0 THEN First ELSE step[i][f[i - 1]])
                          = (IF i = 0 THEN First ELSE Each(f[i - 1], i))
      <3>1. \A i \in 0..n : i # 0 => i \in 1..n /\ i - 1 \in 0..n
        BY <1>0
      <3> HIDE DEF step
      <3> QED
        BY <1>3, <1>4, <3>1 DEF Iterates
    <2> HIDE DEF step
    <2> QED
      BY <1>4, <2>1 DEF Iterates
  <1>6. PICK g : g = After(g) /\ RawPutStr(First, v) = g[n]
    <2>1. RawPutStr(First, v) = (CHOOSE g : g = After(g))[n]
      BY DEF RawPutStr, Each, n
    <2> HIDE DEF After
    <2> QED
      BY <1>5, <2>1
  <1>7. \A i \in 0..n : g[i] = IF i = 0 THEN First ELSE Each(g[i - 1], i)
    BY <1>6
  <1> DEFINE S(i) == SubSeq(v, 1, i)
             Q == {i \in 0..n : \A x \in g[i] : Writing(b, x, u \o S(i), m)}
  <1>8. 0 \in Q
    <2>1. g[0] = First /\ 0 \in 0..n
      BY <1>0, <1>7
    <2>2. u \o S(0) = u
      BY StartFacts
    <2> HIDE DEF S
    <2> QED
      BY <2>1, <2>2
  <1>9. ASSUME NEW i \in 0..(n - 1), i \in Q PROVE i + 1 \in Q
    <2>1. i \in Nat /\ i \in 0..n /\ i + 1 \in 1..n /\ i + 1 \in 0..n /\ i + 1 # 0
          /\ (i + 1) - 1 = i
      BY <1>0
    <2>2. g[i + 1] = Each(g[i], i + 1)
      BY <1>7, <2>1
    <2>3. S(i) \in Seq(Units) /\ S(i + 1) = Append(S(i), v[i + 1]) /\ v[i + 1] \in Units
      BY <1>0, <2>1, StartFacts DEF n
    <2> DEFINE d == S(i)
               c == v[i + 1]
    <2>4. d \in Seq(Units) /\ c \in Units /\ S(i + 1) = Append(d, c)
      BY <2>3
    <2> HIDE DEF S, d, c
    <2>5. u \o S(i + 1) = Append(u \o d, c) /\ u \o d \in Seq(Units)
      <3>1. Append(u \o d, c) = u \o Append(d, c) /\ u \o d \in Seq(Units)
        BY <2>4, AppendedFacts
      <3> QED
        BY <2>4, <3>1
    <2>6. ASSUME NEW q \in g[i + 1] PROVE Writing(b, q, u \o S(i + 1), m)
      <3>1. PICK x \in g[i] : q \in RawPutChar(x, c)
        BY <2>2, <2>6 DEF Each, c
      <3>2. Writing(b, x, u \o d, m)
        BY <1>9 DEF d
      <3>3. Writing(b, q, Append(u \o d, c), m)
        BY <2>4, <2>5, <3>1, <3>2, RawPutCharKeeps
      <3> QED
        BY <2>5, <3>3
    <2> QED
      BY <2>1, <2>6
  <1>10. n \in Q
    <2> HIDE DEF Q
    <2>1. n \in 0..n
      BY <1>0
    <2> QED
      BY <1>0, <1>8, <1>9, <2>1, UpToNumber
  <1>11. S(n) = v
    BY StartFacts DEF n
  <1> HIDE DEF S
  <1> QED
    BY <1>6, <1>10, <1>11

\* The records of a close, after the one of what is in the buffer.
EofRecord(w, s) == IF w = "err" /\ s.data = <<>> /\ ~s.any THEN <<>>
                   ELSE MakeHeader(w, 0, 0, 0)
LastRecord(n, st) == IF n = 1 THEN EndRecord(st) ELSE <<>>
Closing(w, s, n, st) == (DataRecord(w, s) \o EofRecord(w, s)) \o LastRecord(n, st)

\* They are units.
LEMMA ClosingType ==
  ASSUME NEW w \in Writers, NEW s \in WriterStates, NEW n \in Int, NEW st \in Nat
  PROVE  /\ DataRecord(w, s) \in Seq(Units) /\ EofRecord(w, s) \in Seq(Units)
         /\ LastRecord(n, st) \in Seq(Units)
         /\ DataRecord(w, s) \o EofRecord(w, s) \in Seq(Units)
         /\ Closing(w, s, n, st) \in Seq(Units)
  <1>1. DataRecord(w, s) \in Seq(Units)
    BY DataRecordType
  <1>2. EofRecord(w, s) \in Seq(Units)
    <2>1. MakeHeader(w, 0, 0, 0) \in Seq(Units) /\ <<>> \in Seq(Units)
      <3>1. w \in Tags /\ 0 \in Nat
        BY DEF Tags
      <3>2. MakeHeader(w, 0, 0, 0) \in Seq(Units)
        BY <3>1, MakeHeaderFacts
      <3> QED
        BY <3>2
    <2> QED
      BY <2>1 DEF EofRecord
  <1>3. LastRecord(n, st) \in Seq(Units)
    <2>1. EndRecord(st) \in Seq(Units) /\ <<>> \in Seq(Units)
      <3>1. /\ Fresh \in Peers /\ Fresh.sync /\ BetweenRecords(Fresh)
        BY FreshType DEF Fresh, BetweenRecords
      <3> QED
        BY <3>1, EndSent
    <2> QED
      BY <2>1 DEF LastRecord
  <1> DEFINE a == DataRecord(w, s)
             c == EofRecord(w, s)
             d == LastRecord(n, st)
  <1> HIDE DEF a, c, d
  <1>4. a \in Seq(Units) /\ c \in Seq(Units) /\ d \in Seq(Units)
    BY <1>1, <1>2, <1>3 DEF a, c, d
  <1>5. a \o c \in Seq(Units) /\ (a \o c) \o d \in Seq(Units)
    BY <1>4
  <1> QED
    BY <1>4, <1>5 DEF a, c, d, Closing

\* What the web server has when a stream nothing has failed on is closed.
LEMMA CleanClosing ==
  ASSUME NEW w \in Writers, NEW s \in WriterStates, NEW p \in Peers, Clean(w, s, p),
         ~s.closeCalled, NEW n \in Int, NEW st \in Nat
  PROVE  LET q == Received(p, Closing(w, s, n, st))
         IN  /\ q.sync /\ BetweenRecords(q) /\ ~q.late
             /\ q.got[w] = Upto(s.wrote)
             /\ q.eof[w] = (IF w = "err" /\ q.got[w] = <<>> THEN 0 ELSE 1)
             /\ Elsewhere(w, p, q)
             /\ q.ends = IF n = 1 THEN <<st>> ELSE <<>>
  <1> DEFINE c1 == DataRecord(w, s)
             c2 == EofRecord(w, s)
             c3 == LastRecord(n, st)
             q1 == Received(p, c1)
             q2 == Received(q1, c2)
             q3 == Received(q2, c3)
             g == p.got[w]
             d == s.data
             end == IF n = 1 THEN <<st>> ELSE <<>>
  <1>1. c1 \in Seq(Units) /\ c2 \in Seq(Units) /\ c3 \in Seq(Units) /\ c1 \o c2 \in Seq(Units)
    BY ClosingType
  <1>2. Received(p, Closing(w, s, n, st)) = q3
    <2>1. Closing(w, s, n, st) = (c1 \o c2) \o c3
      BY DEF Closing
    <2> HIDE DEF c1, c2, c3
    <2>2. Received(p, (c1 \o c2) \o c3) = Received(Received(p, c1 \o c2), c3)
      BY <1>1, ReceivedConcat
    <2>3. Received(p, c1 \o c2) = q2
      BY <1>1, ReceivedConcat
    <2> QED
      BY <2>1, <2>2, <2>3
  <1>3. /\ p.sync /\ BetweenRecords(p) /\ ~p.late /\ p.ends = <<>> /\ p.eof[w] = 0
        /\ g \o d = Upto(s.wrote) /\ (s.any <=> g # <<>>)
    BY DEF Clean
  <1>4. g \in Seq(Units) /\ d \in Seq(Units)
    BY DEF Peers, WriterStates
  <1>5. /\ q1 \in Peers /\ q1.sync /\ BetweenRecords(q1) /\ ~q1.late /\ q1.ends = <<>>
        /\ q1.got[w] = g \o d /\ q1.eof[w] = 0 /\ Elsewhere(w, p, q1)
    <2>1. CASE d = <<>>
      <3>1. q1 = p
        BY <2>1, DataSent, <1>3, ReceivedNone
      <3>2. g \o d = g
        BY <1>4, <2>1
      <3> HIDE DEF q1
      <3> QED
        BY <1>3, <3>1, <3>2 DEF Elsewhere
    <2>2. CASE d # <<>>
      <3> DEFINE e == 0
      <3>1. Advanced(p, q1, w, d, e)
        BY <1>3, <2>2, DataSent
      <3> HIDE DEF q1, g, d, e
      <3>2. /\ q1.got[w] = p.got[w] \o d /\ q1.eof[w] = p.eof[w] + e /\ Elsewhere(w, p, q1)
        BY <1>4, <3>1, AdvancedFacts
      <3>3. q1.got[w] = g \o d /\ q1.eof[w] = 0
        BY <1>3, <3>2 DEF g, e
      <3> QED
        BY <1>3, <3>1, <3>2, <3>3 DEF Advanced
    <2> QED
      BY <2>1, <2>2
  <1>6. w = "err" /\ d = <<>> /\ ~s.any <=> w = "err" /\ g \o d = <<>>
    <2> HIDE DEF g, d
    <2>1. g \o d = <<>> <=> g = <<>> /\ d = <<>>
      BY <1>4
    <2> QED
      BY <1>3, <2>1
  <1> HIDE DEF q1, c1, g, d
  <1>7. /\ q2 \in Peers /\ q2.sync /\ BetweenRecords(q2) /\ ~q2.late /\ q2.ends = <<>>
        /\ q2.got[w] = g \o d /\ Elsewhere(w, p, q2)
        /\ q2.eof[w] = IF w = "err" /\ g \o d = <<>> THEN 0 ELSE 1
    <2>1. CASE w = "err" /\ g \o d = <<>>
      <3>1. c2 = <<>>
        BY <1>6, <2>1 DEF EofRecord, d
      <3>2. q2 = q1
        BY <1>5, <3>1, ReceivedNone
      <3> HIDE DEF q2
      <3> QED
        BY <1>5, <2>1, <3>2
    <2>2. CASE ~(w = "err" /\ g \o d = <<>>)
      <3>1. c2 = MakeHeader(w, 0, 0, 0)
        BY <1>6, <2>2 DEF EofRecord, d
      <3> DEFINE e == 1
                 h == <<>>
      <3>2. Advanced(q1, q2, w, h, e) /\ h \in Seq(Units)
        BY <1>5, <3>1, EofSent
      <3> HIDE DEF q2, e, h
      <3>3. /\ q2.got[w] = q1.got[w] \o h /\ q2.eof[w] = q1.eof[w] + e /\ Elsewhere(w, q1, q2)
            /\ q1.got[w] \in Seq(Units)
        <4>1. q1 \in Peers
          BY <1>5
        <4> QED
          BY <3>2, <4>1, AdvancedFacts
      <3>4. q1.got[w] \o h = q1.got[w]
        BY <3>3 DEF h
      <3>5. q2.eof[w] = 1
        BY <1>5, <3>3 DEF e
      <3>6. Elsewhere(w, p, q2)
        BY <1>5, <3>3 DEF Elsewhere
      <3>7. /\ q2 \in Peers /\ q2.sync /\ BetweenRecords(q2) /\ ~q2.late /\ q2.ends = <<>>
        BY <1>5, <3>2 DEF Advanced
      <3> QED
        BY <1>5, <2>2, <3>3, <3>4, <3>5, <3>6, <3>7
    <2> QED
      BY <2>1, <2>2
  <1> HIDE DEF q2, c2
  <1>8. /\ q3.sync /\ BetweenRecords(q3) /\ ~q3.late /\ q3.ends = end
        /\ q3.got = q2.got /\ q3.eof = q2.eof
    <2>1. CASE n = 1
      <3>1. c3 = EndRecord(st)
        BY <2>1 DEF LastRecord
      <3>2. /\ q3.sync /\ BetweenRecords(q3)
            /\ q3.late = (q2.late \/ q2.ends # <<>>) /\ q3.ends = Append(q2.ends, st)
            /\ q3.got = q2.got /\ q3.eof = q2.eof
        <4>1. q3 = Received(q2, EndRecord(st))
          BY <3>1
        <4>2. q2 \in Peers /\ q2.sync /\ BetweenRecords(q2)
          BY <1>7
        <4> HIDE DEF q3
        <4> QED
          BY <4>1, <4>2, EndSent
      <3>3. Append(<<>>, st) = <<st>>
        OBVIOUS
      <3> HIDE DEF q3
      <3> QED
        BY <1>7, <2>1, <3>2, <3>3
    <2>2. CASE n # 1
      <3>1. c3 = <<>>
        BY <2>2 DEF LastRecord
      <3>2. q3 = q2
        BY <1>7, <3>1, ReceivedNone
      <3> HIDE DEF q3
      <3> QED
        BY <1>7, <2>2, <3>2
    <2> QED
      BY <2>1, <2>2
  <1> HIDE DEF q3, c3
  <1>9. q3.got[w] = Upto(s.wrote) /\ Elsewhere(w, p, q3)
        /\ q3.eof[w] = IF w = "err" /\ q3.got[w] = <<>> THEN 0 ELSE 1
    BY <1>3, <1>7, <1>8 DEF Elsewhere
  <1> QED
    BY <1>2, <1>8, <1>9

\* FCGX_FClose of a writer.
LEMMA FCloseFacts ==
  ASSUME NEW w \in Writers, NEW b \in Outcomes, Fits(b.s), ~b.s.closeCalled,
         NEW st \in Nat, NEW y \in FClose(w, b, st)
  PROVE  /\ y \in Outcomes /\ Fits(y.s) /\ y.s.closeCalled /\ y.s.wrote = b.s.wrote
         /\ y.n = b.n - 1 /\ y.f <= b.f
         /\ y.s.errno = "none" => b.s.errno = "none" /\ y.f = b.f
         /\ y.f = b.f /\ Clean(w, b.s, b.p)
              => /\ Clean(w, y.s, y.p) /\ Elsewhere(w, b.p, y.p)
                 /\ y.p.ends = IF b.n = 1 THEN <<st>> ELSE <<>>
  <1> DEFINE s == b.s
             x == [b EXCEPT !.raw = DataRecord(w, s)]
             c1 == DataRecord(w, s)
             c2 == EofRecord(w, s)
             c3 == LastRecord(b.n, st)
             c == Closing(w, s, b.n, st)
  <1>1. s \in WriterStates /\ b.p \in Peers /\ b.n \in Int /\ b.f \in Nat
    BY DEF Outcomes
  <1>2. /\ c1 \in Seq(Units) /\ c2 \in Seq(Units) /\ c3 \in Seq(Units)
        /\ c1 \o c2 \in Seq(Units) /\ c \in Seq(Units) /\ c = (c1 \o c2) \o c3
    BY <1>1, ClosingType DEF Closing
  <1>3. /\ x \in Outcomes /\ x.s = s /\ x.p = b.p /\ x.n = b.n /\ x.f = b.f /\ x.raw = c1
    BY <1>2 DEF Outcomes
  <1>4. Writing(b, x, c1, b.n)
    <2> HIDE DEF x, c1
    <2> QED
      BY <1>1, <1>3 DEF Writing
  <1>5. PICK z \in UNION {IF v.raw = <<>> THEN {v} ELSE RawEmpty(v) :
                            v \in WriteCloseRecords(w, x, st)} :
          y = [z EXCEPT !.raw = <<>>, !.s.data = <<>>, !.s.isClosed = TRUE,
                        !.s.closeCalled = TRUE]
    BY DEF FClose
  <1>6. PICK v \in WriteCloseRecords(w, x, st) :
          z \in IF v.raw = <<>> THEN {v} ELSE RawEmpty(v)
    BY <1>5
  <1>7. PICK t \in RawPutStr(RawPutStr({x}, c2), c3) : v = [t EXCEPT !.n = t.n - 1]
    <2>1. (IF NeedsEof(w, x) THEN MakeHeader(w, 0, 0, 0) ELSE <<>>) = c2
      <3>1. x.raw = <<>> <=> s.data = <<>>
        <4>1. c1 = <<>> <=> s.data = <<>>
          BY <1>1, FreshType, DataSent DEF Fresh, BetweenRecords
        <4> QED
          BY <1>3, <4>1
      <3> HIDE DEF x
      <3> QED
        BY <1>3, <3>1 DEF NeedsEof, EofRecord
    <2>2. (IF IsLast(x) THEN MakeHeader("end", EndLen, 0, st) \o Fill(EndLen, "body")
           ELSE <<>>) = c3
      <3> HIDE DEF x
      <3> QED
        BY <1>3 DEF IsLast, LastRecord, EndRecord
    <2> HIDE DEF x, c2, c3
    <2> QED
      BY <1>6, <2>1, <2>2 DEF WriteCloseRecords
  <1> HIDE DEF x, c1, c2, c3, c
  <1>8. Writing(b, t, c, b.n)
    <2>1. \A q \in {x} : Writing(b, q, c1, b.n)
      BY <1>4
    <2>2. \A q \in RawPutStr({x}, c2) : Writing(b, q, c1 \o c2, b.n)
      BY <1>2, <2>1, RawPutStrKeeps
    <2>3. Writing(b, t, (c1 \o c2) \o c3, b.n)
      BY <1>2, <1>7, <2>2, RawPutStrKeeps
    <2> QED
      BY <1>2, <2>3
  <1> DEFINE m == b.n - 1
  <1>9. Writing(b, v, c, m)
    <2>1. t \in Outcomes /\ t.n = b.n
      BY <1>8 DEF Writing
    <2>2. m \in Int
      BY <1>1
    <2>3. /\ v \in Outcomes /\ v.s = t.s /\ v.p = t.p /\ v.n = m /\ v.f = t.f
          /\ v.raw = t.raw
      BY <1>7, <2>1, <2>2 DEF Outcomes
    <2> HIDE DEF m
    <2> QED
      BY <1>8, <2>3 DEF Writing
  <1> HIDE DEF m
  <1>10. Writing(b, z, c, m) /\ (z.f = b.f => z.raw = <<>>)
    <2>1. CASE v.raw = <<>>
      BY <1>6, <1>9, <2>1
    <2>2. CASE v.raw # <<>>
      <3>1. z \in RawEmpty(v)
        BY <1>6, <2>2
      <3> QED
        BY <1>2, <1>9, <3>1, RawEmptyKeeps
    <2> QED
      BY <2>1, <2>2
  <1>11. /\ z \in Outcomes /\ z.s \in WriterStates /\ z.p \in Peers /\ z.f \in Nat
         /\ z.f <= b.f /\ z.n = m /\ z.s.wrote = s.wrote
         /\ z.s.errno = "none" => s.errno = "none" /\ z.f = b.f
    BY <1>10 DEF Writing, Outcomes
  <1> DEFINE r == [z.s EXCEPT !.data = <<>>, !.isClosed = TRUE, !.closeCalled = TRUE]
  <1>12. /\ r \in WriterStates /\ r.data = <<>> /\ r.isClosed /\ r.closeCalled
         /\ r.wrote = z.s.wrote /\ r.errno = z.s.errno
    <2>1. <<>> \in Seq(Units)
      OBVIOUS
    <2> QED
      BY <1>11, <2>1 DEF WriterStates
  <1>13. y = [z EXCEPT !.raw = <<>>, !.s = r]
    BY <1>5
  <1> HIDE DEF r
  <1>14. y \in Outcomes /\ y.s = r /\ y.p = z.p /\ y.n = z.n /\ y.f = z.f
    <2>1. <<>> \in Seq(Units)
      OBVIOUS
    <2> QED
      BY <1>11, <1>12, <1>13, <2>1 DEF Outcomes
  <1>15. Fits(y.s)
    <2>1. Len(<<>>) = 0 /\ 0 <= OutBuffLen - HeaderLen
      BY WriterAssumption
    <2> QED
      BY <1>12, <1>14, <2>1 DEF Fits
  <1>16. ASSUME y.f = b.f, Clean(w, s, b.p)
         PROVE  /\ Clean(w, y.s, y.p) /\ Elsewhere(w, b.p, y.p)
                /\ y.p.ends = IF b.n = 1 THEN <<st>> ELSE <<>>
    <2>1. s.errno = "none" /\ ~s.isClosed
      BY <1>16 DEF Clean
    <2>2. z.s.errno = "none" /\ Received(z.p, z.raw) = Received(b.p, c) /\ z.raw = <<>>
      BY <1>10, <1>14, <1>16, <2>1 DEF Writing
    <2> DEFINE q == Received(b.p, c)
    <2>3. y.p = q
      BY <1>11, <1>14, <2>2, ReceivedNone
    <2>4. /\ q.sync /\ BetweenRecords(q) /\ ~q.late
          /\ q.got[w] = Upto(s.wrote)
          /\ q.eof[w] = (IF w = "err" /\ q.got[w] = <<>> THEN 0 ELSE 1)
          /\ Elsewhere(w, b.p, q)
          /\ q.ends = IF b.n = 1 THEN <<st>> ELSE <<>>
      BY <1>1, <1>16, CleanClosing DEF c
    <2> HIDE DEF q
    <2>5. q.got[w] \o r.data = Upto(r.wrote)
      <3>1. s.wrote \in Nat
        BY <1>1 DEF WriterStates
      <3>2. Upto(s.wrote) \in Seq(Units)
        BY <3>1, UptoFacts
      <3>3. Upto(s.wrote) \o <<>> = Upto(s.wrote)
        BY <3>2
      <3> QED
        BY <1>11, <1>12, <2>4, <3>3
    <2> QED
      BY <1>12, <1>14, <2>2, <2>3, <2>4, <2>5 DEF Clean
  <1>17. y.n = b.n - 1
    BY <1>11, <1>14 DEF m
  <1> QED
    BY <1>11, <1>12, <1>14, <1>15, <1>16, <1>17

---------------------------------------------------------------------------
(***************************************************************************)
(* What the streams of a request have become.                              *)
(***************************************************************************)

\* The writers not yet closed.
OpenOf(S) == (IF S["out"].closeCalled THEN 0 ELSE 1)
             + (IF S["err"].closeCalled THEN 0 ELSE 1)
BothClosed(S) == \A w \in Writers : S[w].closeCalled
WroteOf(S) == S["out"].wrote + S["err"].wrote

\* Writers and web server fit together: the streams can be written to.
Sound(c) ==
  /\ c \in [strm : [Writers -> WriterStates], peer : Peers, nWriters : Int, faults : Nat]
  /\ \A w \in Writers : Fits(c.strm[w])
  /\ c.nWriters = OpenOf(c.strm)

\* Nothing has failed on either stream, and the request has ended, once and with the
\* status that was set, if both are closed; s is that status, if there is one, and a
\* the one that is reported.
AllClean(S, p, s, a) ==
  /\ \A w \in Writers : Clean(w, S[w], p)
  /\ IF BothClosed(S) THEN Len(p.ends) = 1 /\ (s # <<>> => p.ends = s)
                      ELSE s # <<>> => s = <<a>>

NoErrors(S) == \A w \in Writers : S[w].errno = "none"

\* c has become d.
Later(c, d, s, a) ==
  /\ d.faults <= c.faults
  /\ NoErrors(d.strm) => NoErrors(c.strm) /\ d.faults = c.faults
  /\ d.faults = c.faults /\ AllClean(c.strm, c.peer, s, a)
       => AllClean(d.strm, d.peer, s, a)

\* b has become x by an operation on w; a is the status that a close reports.
Became(w, b, x, a, k) ==
  /\ x \in Outcomes /\ Fits(x.s) /\ x.f <= b.f /\ x.s.wrote <= b.s.wrote + k
  /\ x.s.errno = "none" => b.s.errno = "none" /\ x.f = b.f
  /\ x.f = b.f /\ Clean(w, b.s, b.p) => Clean(w, x.s, x.p) /\ Elsewhere(w, b.p, x.p)
  /\ \/ /\ x.s.closeCalled = b.s.closeCalled /\ x.n = b.n
        /\ x.f = b.f /\ Clean(w, b.s, b.p) => x.p.ends = b.p.ends
     \/ /\ ~b.s.closeCalled /\ x.s.closeCalled /\ x.n = b.n - 1
        /\ x.f = b.f /\ Clean(w, b.s, b.p)
             => x.p.ends = IF b.n = 1 THEN <<a>> ELSE <<>>

\* Writes and flushes are such operations.
LEMMA DuringBecame ==
  ASSUME NEW w, NEW b, NEW x, NEW k, NEW a, During(w, b, x, k)
  PROVE  Became(w, b, x, a, k)
  BY DEF During, Became

\* A close is one, and leaves the stream closed.
LEMMA FCloseBecame ==
  ASSUME NEW w \in Writers, NEW b \in Outcomes, Fits(b.s), NEW a \in Nat,
         NEW x \in FClose(w, b, a)
  PROVE  Became(w, b, x, a, 0) /\ x.s.closeCalled
  <1>1. b.s.wrote \in Nat
    BY DEF Outcomes, WriterStates
  <1>2. CASE b.s.closeCalled
    <2>1. x = b
      BY <1>2 DEF FClose
    <2>2. During(w, b, x, 0)
      BY <2>1, DuringStart
    <2> QED
      BY <1>2, <2>1, <2>2, DuringBecame
  <1>3. CASE ~b.s.closeCalled
    <2>1. /\ x \in Outcomes /\ Fits(x.s) /\ x.s.closeCalled /\ x.s.wrote = b.s.wrote
          /\ x.n = b.n - 1 /\ x.f <= b.f
          /\ x.s.errno = "none" => b.s.errno = "none" /\ x.f = b.f
          /\ x.f = b.f /\ Clean(w, b.s, b.p)
               => /\ Clean(w, x.s, x.p) /\ Elsewhere(w, b.p, x.p)
                  /\ x.p.ends = IF b.n = 1 THEN <<a>> ELSE <<>>
      BY <1>3, FCloseFacts
    <2>2. x.s.wrote <= b.s.wrote + 0
      BY <1>1, <2>1
    <2> QED
      BY <1>3, <2>1, <2>2 DEF Became
  <1> QED
    BY <1>2, <1>3

\* The other writer.
Other(w) == IF w = "out" THEN "err" ELSE "out"

\* There are two writers, and what is said of both can be said of one and the other.
LEMMA OtherFacts ==
  ASSUME NEW w \in Writers
  PROVE  /\ Other(w) \in Writers \ {w} /\ Writers = {w, Other(w)}
         /\ \A S : OpenOf(S) = (IF S[w].closeCalled THEN 0 ELSE 1)
                               + (IF S[Other(w)].closeCalled THEN 0 ELSE 1)
         /\ \A S : BothClosed(S) <=> S[w].closeCalled /\ S[Other(w)].closeCalled
  BY DEF Writers, Other, OpenOf, BothClosed

\* What was written is a number.
LEMMA WroteFacts ==
  ASSUME NEW w \in Writers, NEW S \in [Writers -> WriterStates]
  PROVE  WroteOf(S) = S[w].wrote + S[Other(w)].wrote /\ S[w].wrote \in Nat
         /\ S[Other(w)].wrote \in Nat
  <1>1. S["out"].wrote \in Nat /\ S["err"].wrote \in Nat
    BY DEF Writers, WriterStates
  <1> QED
    BY <1>1 DEF WroteOf, Writers, Other

\* The status stays right with an operation on w.
LEMMA AnsweredBy ==
  ASSUME NEW w \in Writers, NEW S \in [Writers -> WriterStates], NEW p \in Peers,
         NEW b \in Outcomes, b.s = S[w], b.p = p, b.n = OpenOf(S),
         NEW a \in Nat, NEW s, NEW k, NEW x, Became(w, b, x, a, k), x.f = b.f,
         AllClean(S, p, s, a)
  PROVE  AllClean([S EXCEPT ![w] = x.s], x.p, s, a)
  <1> DEFINE v == Other(w)
             T == [S EXCEPT ![w] = x.s]
             t == x.s
             q == x.p
  <1>1. /\ v \in Writers \ {w} /\ Writers = {w, v}
        /\ OpenOf(S) = (IF S[w].closeCalled THEN 0 ELSE 1)
                       + (IF S[v].closeCalled THEN 0 ELSE 1)
        /\ BothClosed(S) <=> S[w].closeCalled /\ S[v].closeCalled
        /\ BothClosed(T) <=> T[w].closeCalled /\ T[v].closeCalled
    BY OtherFacts
  <1>2. T[w] = t /\ T[v] = S[v]
    BY <1>1
  <1>3. S[w].closeCalled \in BOOLEAN /\ S[v].closeCalled \in BOOLEAN
    BY <1>1 DEF WriterStates
  <1> HIDE DEF T, v
  <1>4. Clean(w, S[w], p) /\ Clean(v, S[v], p)
    BY <1>1 DEF AllClean
  <1>5. Clean(w, t, q) /\ Elsewhere(w, p, q)
    BY <1>4 DEF Became
  <1>6. q.got[v] = p.got[v] /\ q.eof[v] = p.eof[v]
    BY <1>1, <1>5 DEF Elsewhere
  <1>7. CASE t.closeCalled = S[w].closeCalled /\ q.ends = p.ends
    <2>1. Clean(v, T[v], q)
      BY <1>2, <1>4, <1>5, <1>6, <1>7 DEF Clean
    <2>2. BothClosed(T) <=> BothClosed(S)
      BY <1>1, <1>2, <1>7
    <2>3. IF BothClosed(T) THEN Len(q.ends) = 1 /\ (s # <<>> => q.ends = s)
                           ELSE s # <<>> => s = <<a>>
      <3>1. IF BothClosed(S) THEN Len(p.ends) = 1 /\ (s # <<>> => p.ends = s)
                             ELSE s # <<>> => s = <<a>>
        BY DEF AllClean
      <3> QED
        BY <1>7, <2>2, <3>1
    <2> HIDE DEF t, q
    <2>4. \A u \in Writers : Clean(u, T[u], q)
      BY <1>1, <1>2, <1>5, <2>1
    <2>5. AllClean(T, q, s, a)
      BY <2>3, <2>4 DEF AllClean
    <2> QED
      BY <2>5 DEF T, t, q
  <1>8. CASE /\ ~S[w].closeCalled /\ t.closeCalled
             /\ q.ends = IF b.n = 1 THEN <<a>> ELSE <<>>
    <2>1. b.n = 1 <=> S[v].closeCalled
      BY <1>1, <1>3, <1>8
    <2>2. BothClosed(T) <=> S[v].closeCalled
      BY <1>1, <1>2, <1>8
    <2>3. Clean(v, T[v], q)
      <3>1. ~S[v].closeCalled => q.ends = <<>>
        BY <1>8, <2>1
      <3> QED
        BY <1>2, <1>4, <1>5, <1>6, <3>1 DEF Clean
    <2>4. s # <<>> => s = <<a>>
      BY <1>1, <1>8 DEF AllClean
    <2>5. IF BothClosed(T) THEN Len(q.ends) = 1 /\ (s # <<>> => q.ends = s)
                           ELSE s # <<>> => s = <<a>>
      <3>1. Len(<<a>>) = 1
        OBVIOUS
      <3> QED
        BY <1>8, <2>1, <2>2, <2>4, <3>1
    <2> HIDE DEF t, q
    <2>6. \A u \in Writers : Clean(u, T[u], q)
      BY <1>1, <1>2, <1>5, <2>3
    <2>7. AllClean(T, q, s, a)
      BY <2>5, <2>6 DEF AllClean
    <2> QED
      BY <2>7 DEF T, t, q
  <1>9. \/ t.closeCalled = S[w].closeCalled /\ q.ends = p.ends
        \/ /\ ~S[w].closeCalled /\ t.closeCalled
           /\ q.ends = IF b.n = 1 THEN <<a>> ELSE <<>>
    BY <1>4 DEF Became
  <1> QED
    BY <1>7, <1>8, <1>9

\* An operation on a writer leaves writers and web server that fit together.
LEMMA BecameSound ==
  ASSUME NEW c, Sound(c), NEW w \in Writers, NEW b, b.s = c.strm[w], b.p = c.peer,
         b.n = c.nWriters, b.f = c.faults, b \in Outcomes,
         NEW a \in Nat, NEW k \in Nat, NEW x, Became(w, b, x, a, k), NEW d,
         d = Into(w, c, x),
         NEW s
  PROVE  /\ Sound(d) /\ Later(c, d, s, a) /\ WroteOf(d.strm) <= WroteOf(c.strm) + k
         /\ d.strm[w] = x.s /\ d.strm[Other(w)] = c.strm[Other(w)]
  <1> DEFINE v == Other(w)
             S == c.strm
             T == [S EXCEPT ![w] = x.s]
  <1>1. /\ S \in [Writers -> WriterStates] /\ c.peer \in Peers /\ c.faults \in Nat
        /\ c.nWriters = OpenOf(S) /\ \A u \in Writers : Fits(S[u])
    BY DEF Sound
  <1>2. /\ x \in Outcomes /\ x.s \in WriterStates /\ x.p \in Peers /\ x.n \in Int
        /\ x.f \in Nat /\ Fits(x.s) /\ x.f <= b.f
    BY DEF Became, Outcomes
  <1>3. T \in [Writers -> WriterStates]
    BY <1>1, <1>2
  <1>4. /\ v \in Writers \ {w} /\ Writers = {w, v}
        /\ OpenOf(S) = (IF S[w].closeCalled THEN 0 ELSE 1)
                       + (IF S[v].closeCalled THEN 0 ELSE 1)
        /\ OpenOf(T) = (IF T[w].closeCalled THEN 0 ELSE 1)
                       + (IF T[v].closeCalled THEN 0 ELSE 1)
    <2> HIDE DEF S, T
    <2> QED
      BY OtherFacts
  <1>5. T[w] = x.s /\ T[v] = S[v]
    BY <1>1, <1>4
  <1>6. /\ WroteOf(T) = T[w].wrote + T[v].wrote /\ WroteOf(S) = S[w].wrote + S[v].wrote
        /\ T[w].wrote \in Nat /\ T[v].wrote \in Nat /\ S[w].wrote \in Nat
    BY <1>1, <1>3, WroteFacts
  <1> HIDE DEF S, T, v
  <1>7. d.strm = T /\ d.peer = x.p /\ d.nWriters = x.n /\ d.faults = x.f
        /\ d \in [strm : [Writers -> WriterStates], peer : Peers, nWriters : Int,
                  faults : Nat]
    <2>1. c \in [strm : [Writers -> WriterStates], peer : Peers, nWriters : Int,
                 faults : Nat]
      BY DEF Sound
    <2>2. d = [c EXCEPT !.strm = T, !.peer = x.p, !.nWriters = x.n, !.faults = x.f]
      BY DEF T, S, Into
    <2> QED
      BY <1>2, <1>3, <2>1, <2>2
  <1>8. x.n = OpenOf(T)
    <2>1. /\ S[w].closeCalled \in BOOLEAN /\ S[v].closeCalled \in BOOLEAN
          /\ T[w].closeCalled \in BOOLEAN /\ b.s = S[w]
      BY <1>1, <1>3, <1>4 DEF WriterStates, S
    <2>2. \/ x.s.closeCalled = b.s.closeCalled /\ x.n = b.n
          \/ ~b.s.closeCalled /\ x.s.closeCalled /\ x.n = b.n - 1
      BY DEF Became
    <2> QED
      BY <1>1, <1>4, <1>5, <2>1, <2>2
  <1>9. Sound(d)
    <2>1. \A u \in Writers : Fits(T[u])
      BY <1>1, <1>2, <1>4, <1>5
    <2> QED
      BY <1>7, <1>8, <2>1 DEF Sound
  <1>10. WroteOf(T) <= WroteOf(S) + k
    <2>1. x.s.wrote <= S[w].wrote + k
      BY DEF Became, S
    <2> QED
      BY <1>5, <1>6, <2>1
  <1>11. NoErrors(T) => NoErrors(S) /\ x.f = b.f
    <2>1. x.s.errno = "none" => S[w].errno = "none" /\ x.f = b.f
      BY DEF Became, S
    <2> QED
      BY <1>4, <1>5, <2>1 DEF NoErrors
  <1>12. ASSUME x.f = b.f, AllClean(S, c.peer, s, a) PROVE AllClean(T, x.p, s, a)
    <2>1. b.s = S[w] /\ b.n = OpenOf(S)
      BY <1>1 DEF S
    <2> QED
      BY <1>1, <1>12, <2>1, AnsweredBy DEF T
  <1>13. Later(c, d, s, a)
    BY <1>2, <1>7, <1>11, <1>12 DEF Later, S
  <1> QED
    BY <1>5, <1>7, <1>9, <1>10, <1>13 DEF S, v

---------------------------------------------------------------------------
(***************************************************************************)
(* What the web server gets of a request.                                  *)
(***************************************************************************)

\* The streams can be written to, within the bounds of a request.
WritersInv ==
  /\ peer \in Peers /\ strm \in [Writers -> WriterStates]
  /\ \A w \in Writers : Fits(strm[w])
  /\ faults \in Nat /\ request.nWriters \in 0..2 /\ request.appStatus \in Nat
  /\ WroteOf(strm) <= MaxOutput /\ accepts <= MaxAccepts
  /\ up => request.nWriters = OpenOf(strm)

\* Until a write fails, all that was written is at the web server or buffered; a
\* request that is over has ended.
CleanInv ==
  ~hurt => \/ /\ AllClean(strm, peer, status, request.appStatus)
              /\ up \/ BothClosed(strm)
           \/ ~up /\ peer = Fresh

\* A failure is remembered by its stream, and then by the connection.
DamageInv ==
  hurt /\ ~cleared => IF up THEN ~NoErrors(strm) ELSE request.ipcFd = NullFd

ChannelInv == WritersInv /\ CleanInv /\ DamageInv

\* The streams of a new request.
LEMMA NewStreams ==
  ASSUME NEW S, S = [w \in Writers |-> NewWriter], NEW a
  PROVE  /\ S \in [Writers -> WriterStates] /\ (\A w \in Writers : Fits(S[w]))
         /\ WroteOf(S) = 0 /\ OpenOf(S) = 2 /\ AllClean(S, Fresh, <<>>, a)
  <1>1. NewWriter \in WriterStates /\ Fits(NewWriter)
    <2>1. <<>> \in Seq(Units) /\ Len(<<>>) = 0 /\ 0 <= OutBuffLen - HeaderLen
      BY WriterAssumption
    <2> QED
      BY <2>1 DEF NewWriter, WriterStates, Fits
  <1>2. \A w \in Writers : S[w] = NewWriter
    OBVIOUS
  <1>3. WroteOf(S) = 0 /\ OpenOf(S) = 2 /\ ~BothClosed(S)
    BY <1>2 DEF WroteOf, OpenOf, BothClosed, Writers, NewWriter
  <1>4. ASSUME NEW w \in Writers PROVE Clean(w, NewWriter, Fresh)
    <2>1. <<>> \o <<>> = Upto(0)
      <3>1. Len(Upto(0)) = 0 /\ Upto(0) \in Seq(Units)
        BY UptoFacts
      <3>2. <<>> \o <<>> = <<>>
        OBVIOUS
      <3> QED
        BY <3>1, <3>2, EmptySeq
    <2>2. Fresh.got[w] = <<>> /\ Fresh.eof[w] = 0
      BY <1>4 DEF Fresh
    <2>3. /\ Fresh.sync /\ BetweenRecords(Fresh) /\ ~Fresh.late /\ Fresh.ends = <<>>
      BY DEF Fresh, BetweenRecords
    <2>4. /\ NewWriter.data = <<>> /\ NewWriter.wrote = 0 /\ NewWriter.any = FALSE
          /\ NewWriter.isClosed = FALSE /\ NewWriter.closeCalled = FALSE
          /\ NewWriter.errno = "none"
      BY DEF NewWriter
    <2> QED
      BY <2>1, <2>2, <2>3, <2>4 DEF Clean
  <1>5. AllClean(S, Fresh, <<>>, a)
    BY <1>2, <1>3, <1>4 DEF AllClean
  <1> QED
    BY <1>1, <1>2, <1>3, <1>5

\* Before the first request.
LEMMA InitChannelInv == Init => ChannelInv
  <1> SUFFICES ASSUME Init PROVE ChannelInv
    OBVIOUS
  <1>1. /\ strm = [w \in Writers |-> NewWriter] /\ peer = Fresh /\ up = FALSE
        /\ faults = MaxFaults /\ hurt = FALSE /\ accepts = 0
        /\ request.nWriters = 0 /\ request.appStatus = 0
    BY DEF Init, InitRequest
  <1>2. PICK S : S = strm
    OBVIOUS
  <1>3. /\ S \in [Writers -> WriterStates] /\ (\A w \in Writers : Fits(S[w]))
        /\ WroteOf(S) = 0
    BY <1>1, <1>2, NewStreams
  <1>4. WritersInv
    BY <1>1, <1>2, <1>3, FreshType, RequestAssumption DEF WritersInv
  <1> QED
    BY <1>1, <1>4 DEF ChannelInv, CleanInv, DamageInv

\* Steps that have nothing to do with the streams.
LEMMA StreamsAlone ==
  ASSUME ChannelInv, UNCHANGED <<strm, peer, faults, status, hurt, cleared, up>>,
         request'.nWriters = request.nWriters, request'.appStatus = request.appStatus,
         accepts' <= MaxAccepts,
         request'.ipcFd = request.ipcFd \/ request'.ipcFd = NullFd
  PROVE  ChannelInv'
  <1>1. WritersInv'
    BY DEF ChannelInv, WritersInv
  <1>2. CleanInv'
    BY DEF ChannelInv, CleanInv
  <1>3. DamageInv'
    BY DEF ChannelInv, DamageInv
  <1> QED
    BY <1>1, <1>2, <1>3 DEF ChannelInv

\* Writers and web server of a request that has not been finished.
LEMMA CurrentSound ==
  ASSUME ChannelInv, up
  PROVE  /\ Sound(Current) /\ Current.strm = strm /\ Current.peer = peer
         /\ Current.nWriters = request.nWriters /\ Current.faults = faults
  BY DEF ChannelInv, WritersInv, Current, Sound

\* An operation starts from a stream and a web server that fit together.
LEMMA OutcomeFacts ==
  ASSUME NEW w \in Writers, NEW c, Sound(c), c.strm[w] = strm[w],
         NEW b, b = Outcome(w, c)
  PROVE  /\ b \in Outcomes /\ b.s = c.strm[w] /\ b.p = c.peer /\ b.n = c.nWriters
         /\ b.f = c.faults /\ Fits(b.s)
  <1>1. /\ c.strm \in [Writers -> WriterStates] /\ c.peer \in Peers /\ c.nWriters \in Int
        /\ c.faults \in Nat /\ Fits(c.strm[w])
    BY DEF Sound
  <1>2. <<>> \in Seq(Units)
    OBVIOUS
  <1>3. strm[w] \in WriterStates
    BY <1>1
  <1> QED
    BY <1>1, <1>2, <1>3 DEF Outcome, Outcomes

\* What the streams are afterwards is right when they have become it.
LEMMA LaterKeeps ==
  ASSUME ChannelInv, up, NEW d, Sound(d),
         Later(Current, d, status, request.appStatus),
         WroteOf(d.strm) <= MaxOutput,
         strm' = d.strm, peer' = d.peer, faults' = d.faults, request'.nWriters = d.nWriters,
         request'.appStatus = request.appStatus, hurt' = (hurt \/ d.faults < faults),
         UNCHANGED <<status, cleared, accepts>>,
         up' \/ (up' = FALSE /\ BothClosed(d.strm)
                 /\ (NoErrors(d.strm) \/ request'.ipcFd = NullFd))
  PROVE  ChannelInv'
  <1>1. /\ Current.strm = strm /\ Current.peer = peer /\ Current.faults = faults
    BY CurrentSound
  <1>2. /\ d.strm \in [Writers -> WriterStates] /\ d.peer \in Peers /\ d.faults \in Nat
        /\ \A w \in Writers : Fits(d.strm[w])
        /\ d.nWriters = OpenOf(d.strm)
    BY DEF Sound
  <1>3. faults \in Nat /\ d.faults <= faults
    BY <1>1 DEF ChannelInv, WritersInv, Later
  <1>4. WritersInv'
    <2>1. d.nWriters \in 0..2
      BY <1>2 DEF OpenOf
    <2> QED
      BY <1>2, <2>1 DEF ChannelInv, WritersInv
  <1>5. CleanInv'
    <2>1. ASSUME ~hurt' PROVE AllClean(strm', peer', status', request'.appStatus)
      <3>1. ~hurt /\ d.faults = faults
        <4>1. ~hurt /\ ~(d.faults < faults)
          BY <2>1, Zenon
        <4> QED
          BY <1>2, <1>3, <4>1
      <3>2. AllClean(strm, peer, status, request.appStatus)
        BY <3>1 DEF ChannelInv, CleanInv
      <3>3. AllClean(d.strm, d.peer, status, request.appStatus)
        BY <1>1, <3>1, <3>2 DEF Later
      <3> QED
        BY <3>3
    <2> QED
      BY <2>1 DEF CleanInv
  <1>6. DamageInv'
    <2>1. ASSUME hurt', ~cleared' PROVE ~NoErrors(d.strm)
      <3>1. CASE hurt
        <4>1. ~NoErrors(strm)
          BY <2>1, <3>1 DEF ChannelInv, DamageInv
        <4> QED
          BY <1>1, <4>1 DEF Later
      <3>2. CASE d.faults < faults
        BY <1>1, <1>2, <1>3, <3>2 DEF Later
      <3> QED
        BY <2>1, <3>1, <3>2
    <2> QED
      BY <2>1 DEF DamageInv
  <1> QED
    BY <1>4, <1>5, <1>6 DEF ChannelInv

\* Operations on a writer.
LEMMA WriterStep ==
  ASSUME RequestInv, ChannelInv, up, up' = up, NEW w \in Writers, NEW outcomes,
         OnWriter(w, outcomes), NEW k \in Nat,
         \A x \in outcomes : Became(w, X(w), x, request.appStatus, k),
         WroteOf(strm) + k <= MaxOutput,
         UNCHANGED <<status, cleared, accepts>>
  PROVE  ChannelInv'
  <1>0. PICK b : b = X(w)
    OBVIOUS
  <1> DEFINE c == Current
  <1>1. PICK x \in outcomes : /\ strm' = [strm EXCEPT ![w] = x.s] /\ peer' = x.p
                              /\ request' = [request EXCEPT !.nWriters = x.n] /\ faults' = x.f
                              /\ hurt' = (hurt \/ x.f < faults)
    BY DEF OnWriter
  <1>2. /\ Sound(c) /\ c.strm = strm /\ c.peer = peer /\ c.nWriters = request.nWriters
        /\ c.faults = faults
    BY CurrentSound
  <1>3. b \in Outcomes /\ b.s = c.strm[w] /\ b.p = c.peer /\ b.n = c.nWriters
        /\ b.f = c.faults
    <2>1. b = Outcome(w, c)
      BY <1>0 DEF X
    <2> HIDE DEF c
    <2>2. PICK cc : cc = c
      OBVIOUS
    <2>3. b \in Outcomes /\ b.s = cc.strm[w] /\ b.p = cc.peer /\ b.n = cc.nWriters
          /\ b.f = cc.faults
      BY <1>2, <2>1, <2>2, OutcomeFacts
    <2> QED
      BY <2>2, <2>3
  <1>4. Became(w, b, x, request.appStatus, k)
    BY <1>0
  <1> DEFINE d == Into(w, c, x)
  <1>5. request.appStatus \in Nat
    BY DEF ChannelInv, WritersInv
  <1>6. /\ Sound(d) /\ Later(c, d, status, request.appStatus)
        /\ WroteOf(d.strm) <= WroteOf(c.strm) + k
    <2> HIDE DEF c, d
    <2>1. d = Into(w, c, x)
      BY DEF d
    <2> QED
      BY <1>2, <1>3, <1>4, <1>5, <2>1, BecameSound
  <1>7. /\ d.strm = [strm EXCEPT ![w] = x.s] /\ d.peer = x.p /\ d.nWriters = x.n
        /\ d.faults = x.f
    <2>1. c \in [strm : [Writers -> WriterStates], peer : Peers, nWriters : Int,
                 faults : Nat]
      BY <1>2 DEF Sound
    <2> HIDE DEF c
    <2> QED
      BY <1>2, <2>1 DEF Into
  <1> HIDE DEF d
  <1>8. WroteOf(d.strm) <= MaxOutput
    <2>1. strm \in [Writers -> WriterStates] /\ d.strm \in [Writers -> WriterStates]
      BY <1>6 DEF ChannelInv, WritersInv, Sound
    <2>2. WroteOf(strm) \in Nat /\ WroteOf(d.strm) \in Nat
      <3>1. strm["out"].wrote \in Nat /\ strm["err"].wrote \in Nat
            /\ d.strm["out"].wrote \in Nat /\ d.strm["err"].wrote \in Nat
        BY <2>1 DEF Writers, WriterStates
      <3> QED
        BY <3>1 DEF WroteOf
    <2> QED
      BY <1>2, <1>6, <2>2, RequestAssumption
  <1>9. request'.nWriters = d.nWriters /\ request'.appStatus = request.appStatus
    BY <1>1, <1>7, RecountedFacts
  <1> QED
    BY <1>1, <1>2, <1>6, <1>7, <1>8, <1>9, LaterKeeps DEF c

\* Finished takes each writer as it is before the closes.
Untouched(c, w) == c.strm[w] = strm[w]

\* One of the closes of FCGX_Finish_r.
LEMMA CloseFacts ==
  ASSUME NEW w \in Writers, NEW c, Sound(c), Untouched(c, w), request.appStatus \in Nat,
         NEW d \in Close({c}, w), NEW s
  PROVE  /\ Sound(d) /\ Later(c, d, s, request.appStatus)
         /\ WroteOf(d.strm) <= WroteOf(c.strm) + 0
         /\ d.strm[w].closeCalled /\ d.strm[Other(w)] = c.strm[Other(w)]
  <1>1. PICK b : b = Outcome(w, c)
    OBVIOUS
  <1>2. PICK a : a = request.appStatus
    OBVIOUS
  <1>3. PICK k : k = 0
    OBVIOUS
  <1>4. b \in Outcomes /\ b.s = c.strm[w] /\ b.p = c.peer /\ b.n = c.nWriters
        /\ b.f = c.faults /\ Fits(b.s)
    BY <1>1, OutcomeFacts DEF Untouched
  <1>5. PICK x \in FClose(w, b, a) : d = Into(w, c, x)
    BY <1>1, <1>2 DEF Close
  <1>6. Became(w, b, x, a, k) /\ x.s.closeCalled /\ a \in Nat /\ k \in Nat
    BY <1>2, <1>3, <1>4, FCloseBecame
  <1>7. /\ Sound(d) /\ Later(c, d, s, a)
        /\ WroteOf(d.strm) <= WroteOf(c.strm) + k
        /\ d.strm[w] = x.s /\ d.strm[Other(w)] = c.strm[Other(w)]
    BY <1>4, <1>5, <1>6, BecameSound
  <1> QED
    BY <1>2, <1>3, <1>6, <1>7

\* One after the other.
LEMMA LaterTwice ==
  ASSUME NEW c, NEW d, NEW e, NEW s, NEW a, c.faults \in Nat, d.faults \in Nat,
         e.faults \in Nat, Later(c, d, s, a), Later(d, e, s, a)
  PROVE  Later(c, e, s, a)
  <1>1. e.faults <= d.faults /\ d.faults <= c.faults
    BY DEF Later
  <1>2. e.faults <= c.faults /\ (e.faults = c.faults => d.faults = c.faults /\ e.faults = d.faults)
    BY <1>1
  <1> QED
    BY <1>2 DEF Later

\* FCGX_Finish_r closes both writers.
LEMMA FinishedFacts ==
  ASSUME RequestInv, ChannelInv, up, NEW e \in Finished
  PROVE  /\ Sound(e) /\ Later(Current, e, status, request.appStatus)
         /\ WroteOf(e.strm) <= MaxOutput /\ BothClosed(e.strm)
  <1> DEFINE c == Current
             s == status
             a == request.appStatus
  <1>1. Sound(c) /\ c.strm = strm /\ c.faults = faults
    BY CurrentSound
  <1>2. a \in Nat /\ "err" \in Writers /\ "out" \in Writers /\ Other("err") = "out"
        /\ Other("out") = "err"
    BY DEF ChannelInv, WritersInv, Writers, Other
  <1>3. e \in Close(Close({c}, "err"), "out")
    BY DEF Finished, RequestInv, Streams
  <1>4. PICK d \in Close({c}, "err") : e \in Close({d}, "out")
    BY <1>3 DEF Close
  <1> HIDE DEF c
  <1>5. /\ Sound(d) /\ Later(c, d, s, a) /\ WroteOf(d.strm) <= WroteOf(c.strm) + 0
        /\ d.strm["err"].closeCalled /\ d.strm["out"] = c.strm["out"]
    BY <1>1, <1>2, CloseFacts DEF Untouched
  <1>6. /\ Sound(e) /\ Later(d, e, s, a) /\ WroteOf(e.strm) <= WroteOf(d.strm) + 0
        /\ e.strm["out"].closeCalled /\ e.strm["err"] = d.strm["err"]
    BY <1>1, <1>2, <1>4, <1>5, CloseFacts DEF Untouched
  <1>7. BothClosed(e.strm)
    BY <1>5, <1>6 DEF BothClosed, Writers
  <1>8. Later(c, e, s, a)
    BY <1>1, <1>5, <1>6, LaterTwice DEF Sound
  <1>9. WroteOf(e.strm) <= MaxOutput
    <2>1. WroteOf(e.strm) \in Nat /\ WroteOf(d.strm) \in Nat /\ WroteOf(c.strm) \in Nat
      <3>1. /\ e.strm \in [Writers -> WriterStates] /\ d.strm \in [Writers -> WriterStates]
            /\ c.strm \in [Writers -> WriterStates]
        BY <1>1, <1>5, <1>6 DEF Sound
      <3>2. /\ e.strm["out"].wrote \in Nat /\ e.strm["err"].wrote \in Nat
            /\ d.strm["out"].wrote \in Nat /\ d.strm["err"].wrote \in Nat
            /\ c.strm["out"].wrote \in Nat /\ c.strm["err"].wrote \in Nat
        BY <1>2, <3>1 DEF WriterStates
      <3> QED
        BY <3>2 DEF WroteOf
    <2>2. WroteOf(c.strm) <= MaxOutput
      BY <1>1 DEF ChannelInv, WritersInv
    <2> QED
      BY <1>5, <1>6, <2>1, <2>2, RequestAssumption
  <1> QED
    BY <1>6, <1>7, <1>8, <1>9 DEF c

\* FCGX_Finish_r.
LEMMA FinishChannel ==
  ASSUME RequestInv, ChannelInv, Finish_r, UNCHANGED <<status, cleared, accepts>>
  PROVE  ChannelInv'
  <1>1. PICK e \in Finished :
          /\ strm' = e.strm /\ peer' = e.peer /\ faults' = e.faults
          /\ hurt' = (hurt \/ e.faults < faults)
          /\ request' = Released([request EXCEPT !.nWriters = e.nWriters], MustClose(e))
          /\ up' = FALSE
    BY DEF Finish_r
  <1> DEFINE q == [request EXCEPT !.nWriters = e.nWriters]
             n == e.nWriters
  <1>2. /\ q \in [ipcFd : Nat, keep : BOOLEAN, detached : BOOLEAN,
                  nWriters : {n}, appStatus : {request.appStatus},
                  in : {"null", "ok", "error"}]
        /\ q.ipcFd = request.ipcFd
    BY RecountedFacts
  <1>3. MustClose(e) \in BOOLEAN
    BY DEF MustClose
  <1>4. /\ request' \in [ipcFd : Nat, keep : BOOLEAN, detached : BOOLEAN,
                     nWriters : {n}, appStatus : {request.appStatus},
                     in : {"null", "ok", "error"}]
        /\ request'.ipcFd = IF MustClose(e) THEN NullFd ELSE request.ipcFd
    <2>1. request' = Released(q, MustClose(e))
      BY <1>1
    <2> HIDE DEF q, n
    <2> QED
      BY <1>2, <1>3, <2>1, ReleasedFacts
  <1>5. request'.nWriters = e.nWriters /\ request'.appStatus = request.appStatus
    BY <1>4
  <1>6. CASE up
    <2>1. /\ Sound(e) /\ Later(Current, e, status, request.appStatus)
          /\ WroteOf(e.strm) <= MaxOutput /\ BothClosed(e.strm)
      BY <1>6, FinishedFacts
    <2>2. NoErrors(e.strm) \/ request'.ipcFd = NullFd
      <3>1. request.in # "null"
        BY <1>6 DEF RequestInv, Streams
      <3> QED
        BY <1>4, <3>1 DEF MustClose, NoErrors
    <2> QED
      BY <1>1, <1>5, <1>6, <2>1, <2>2, LaterKeeps
  <1>7. CASE ~up
    <2>1. request.in = "null"
      BY <1>7 DEF RequestInv, Streams
    <2>2. e = Current
      BY <2>1 DEF Finished
    <2>3. /\ strm' = strm /\ peer' = peer /\ faults' = faults
          /\ request'.nWriters = request.nWriters
      BY <1>1, <1>5, <2>2 DEF Current
    <2>4. faults \in Nat /\ accepts <= MaxAccepts
      BY DEF ChannelInv, WritersInv
    <2>5. hurt' <=> hurt
      <3>1. ~(e.faults < faults)
        BY <1>1, <2>3, <2>4
      <3> QED
        BY <1>1, <3>1, Zenon
    <2>6. up' = up
      BY <1>1, <1>7 DEF RequestInv, Streams
    <2>7. WritersInv'
      BY <1>5, <2>3, <2>6 DEF ChannelInv, WritersInv
    <2>8. CleanInv' /\ DamageInv'
      BY <1>4, <1>5, <2>3, <2>5, <2>6 DEF ChannelInv, CleanInv, DamageInv
    <2> QED
      BY <2>7, <2>8 DEF ChannelInv
  <1> QED
    BY <1>6, <1>7


---------------------------------------------------------------------------
\* A new request, and the connection it may come on.
LEMMA AcceptChannel ==
  ASSUME RequestInv, RequestInv', ChannelInv,
         AcceptFails \/ OS_Accept \/ TryAgain \/ Begin
  PROVE  ChannelInv'
  <1>0. accepts \in Nat /\ accepts <= MaxAccepts
    BY DEF RequestInv, Connections, ChannelInv, WritersInv
  <1>1. CASE AcceptFails
    BY <1>0, <1>1, StreamsAlone DEF AcceptFails, streamVars
  <1>2. CASE OS_Accept
    <2>1. /\ request' = [request EXCEPT !.ipcFd = accepts + 1] /\ accepts' = accepts + 1
          /\ peer' = Fresh /\ hurt' = FALSE /\ UNCHANGED <<strm, faults, status, up>>
          /\ accepts < MaxAccepts /\ ~up
      BY <1>2 DEF OS_Accept, InAccept, RequestInv, StdFiles
    <2>2. request'.nWriters = request.nWriters /\ request'.appStatus = request.appStatus
      BY <2>1 DEF RequestInv, Requests
    <2>3. accepts' <= MaxAccepts
      BY <1>0, <2>1, RequestAssumption
    <2>4. WritersInv'
      BY <2>1, <2>2, <2>3, FreshType DEF ChannelInv, WritersInv
    <2> QED
      BY <2>1, <2>4 DEF ChannelInv, CleanInv, DamageInv
  <1>3. CASE TryAgain
    <2>1. PICK keep \in BOOLEAN : request' = Released([request EXCEPT !.keep = keep], TRUE)
      BY <1>3 DEF TryAgain
    <2>2. /\ request'.nWriters = request.nWriters /\ request'.appStatus = request.appStatus
          /\ request'.ipcFd = NullFd
      BY <2>1 DEF Released, RequestInv, Requests
    <2>3. UNCHANGED <<strm, peer, faults, status, hurt, cleared, up, accepts>>
      BY <1>3 DEF TryAgain
    <2> QED
      BY <1>0, <2>2, <2>3, StreamsAlone
  <1>4. CASE Begin
    <2>1. PICK keep \in BOOLEAN, in \in {"ok", "error"} :
            request' = [request EXCEPT !.keep = keep, !.in = in, !.nWriters = 2]
      BY <1>4 DEF Begin
    <2>2. /\ strm' = [w \in Writers |-> NewWriter] /\ peer' = Fresh /\ up' = TRUE
          /\ status' = <<>> /\ hurt' = FALSE /\ faults' = faults
          /\ accepts' = IF peer.ends = <<>> THEN accepts ELSE accepts + 1
          /\ MayAsk
      BY <1>4 DEF Begin
    <2>3. request'.nWriters = 2 /\ request'.appStatus = request.appStatus
      BY <2>1 DEF RequestInv, Requests
    <2>4. accepts' <= MaxAccepts
      BY <1>0, <2>2, RequestAssumption DEF MayAsk
    <2>5. PICK S : S = strm'
      OBVIOUS
    <2>6. PICK a : a = request'.appStatus
      OBVIOUS
    <2>7. /\ S \in [Writers -> WriterStates] /\ (\A w \in Writers : Fits(S[w]))
          /\ WroteOf(S) = 0 /\ OpenOf(S) = 2 /\ AllClean(S, Fresh, <<>>, a)
      BY <2>2, <2>5, NewStreams
    <2>8. WritersInv'
      BY <2>2, <2>3, <2>4, <2>5, <2>7, FreshType, RequestAssumption
         DEF ChannelInv, WritersInv
    <2>9. CleanInv'
      BY <2>2, <2>5, <2>6, <2>7 DEF CleanInv
    <2> QED
      BY <2>2, <2>8, <2>9 DEF ChannelInv, DamageInv
  <1> QED
    BY <1>1, <1>2, <1>3, <1>4

\* FCGI_Finish, whoever calls it.
LEMMA FCGI_FinishChannel ==
  ASSUME RequestInv, ChannelInv, FCGI_Finish
  PROVE  ChannelInv'
  <1>1. CASE ~acceptState.called \/ acceptState.isCGI
    <2>1. UNCHANGED streamVars
      BY <1>1 DEF FCGI_Finish
    <2>2. accepts <= MaxAccepts
      BY DEF ChannelInv, WritersInv
    <2> QED
      BY <2>1, <2>2, StreamsAlone DEF streamVars
  <1>2. CASE ~(~acceptState.called \/ acceptState.isCGI)
    BY <1>2, FinishChannel DEF FCGI_Finish
  <1> QED
    BY <1>1, <1>2

\* Steps of the library and of the end of the process.
LEMMA LibraryChannel ==
  ASSUME RequestInv, ChannelInv,
         \/ InitFails \/ OpenSocket \/ AskIsCGI \/ AcceptCGI \/ FCGI_Accept
         \/ Finish \/ Exit
  PROVE  ChannelInv'
  <1>1. CASE InitFails \/ OpenSocket \/ AskIsCGI \/ AcceptCGI
    <2>1. UNCHANGED streamVars
      BY <1>1 DEF InitFails, OpenSocket, AskIsCGI, AcceptCGI
    <2>2. accepts <= MaxAccepts
      BY DEF ChannelInv, WritersInv
    <2> QED
      BY <2>1, <2>2, StreamsAlone DEF streamVars
  <1>2. CASE FCGI_Accept
    BY <1>2, FinishChannel DEF FCGI_Accept
  <1>3. CASE Finish \/ Exit
    BY <1>3, FCGI_FinishChannel DEF Finish, Exit
  <1> QED
    BY <1>1, <1>2, <1>3

\* What an operation on a writer starts from.
LEMMA OperandFacts ==
  ASSUME RequestInv, ChannelInv, up, NEW w \in Writers, NEW b, b = X(w)
  PROVE  /\ b \in Outcomes /\ Fits(b.s) /\ request.appStatus \in Nat
         /\ WroteOf(strm) \in Nat /\ WroteOf(strm) <= MaxOutput
  <1>1. PICK c : c = Current
    OBVIOUS
  <1>2. Sound(c) /\ c.strm[w] = strm[w]
    BY <1>1, CurrentSound
  <1>3. b = Outcome(w, c)
    BY <1>1 DEF X
  <1>4. request.appStatus \in Nat /\ WroteOf(strm) <= MaxOutput
        /\ strm \in [Writers -> WriterStates]
    BY DEF ChannelInv, WritersInv
  <1>5. WroteOf(strm) \in Nat
    <2>1. strm["out"].wrote \in Nat /\ strm["err"].wrote \in Nat
      BY <1>4 DEF Writers, WriterStates
    <2> QED
      BY <2>1 DEF WroteOf
  <1>6. b \in Outcomes /\ Fits(b.s)
    BY <1>2, <1>3, OutcomeFacts
  <1> QED
    BY <1>4, <1>5, <1>6

\* Operations on the standard files.
LEMMA FileChannel ==
  ASSUME RequestInv, ChannelInv, NEW w \in Writers,
         \/ \E n \in WriteSizes : Put(w, n)
         \/ FCGI_fflush(w) \/ FCGI_fclose(w) \/ CloseFile(w) \/ FCGI_clearerr(w)
  PROVE  ChannelInv'
  <1>1. CASE \E n \in WriteSizes : Put(w, n)
    <2>1. PICK n \in WriteSizes : Put(w, n)
      BY <1>1
    <2>2. /\ up /\ OnWriter(w, PutStr(w, X(w), n)) /\ WroteOf(strm) + n <= MaxOutput
          /\ UNCHANGED <<up, status, cleared, accepts>> /\ n \in Nat
      BY <2>1, RequestAssumption DEF Put, Usable, StreamOp, WroteOf
    <2>3. PICK b : b = X(w)
      OBVIOUS
    <2>4. PICK a : a = request.appStatus
      OBVIOUS
    <2>5. b \in Outcomes /\ Fits(b.s)
      BY <2>2, <2>3, OperandFacts
    <2>6. \A x \in PutStr(w, b, n) : Became(w, b, x, a, n)
      BY <2>2, <2>5, PutStrKeeps, DuringBecame
    <2>7. \A x \in PutStr(w, X(w), n) : Became(w, X(w), x, request.appStatus, n)
      BY <2>3, <2>4, <2>6
    <2> QED
      BY <2>2, <2>7, WriterStep
  <1>2. CASE FCGI_fflush(w)
    <2>1. /\ up /\ OnWriter(w, FFlush(w, X(w)))
          /\ UNCHANGED <<up, status, cleared, accepts>>
      BY <1>2 DEF FCGI_fflush, Usable, StreamOp
    <2>2. PICK b : b = X(w)
      OBVIOUS
    <2>3. PICK a : a = request.appStatus
      OBVIOUS
    <2>4. b \in Outcomes /\ Fits(b.s) /\ WroteOf(strm) + 0 <= MaxOutput
      BY <2>1, <2>2, OperandFacts
    <2>5. \A x \in FFlush(w, b) : Became(w, b, x, a, 0)
      BY <2>4, FFlushKeeps, DuringBecame
    <2>6. \A x \in FFlush(w, X(w)) : Became(w, X(w), x, request.appStatus, 0)
      BY <2>2, <2>3, <2>5
    <2> QED
      BY <2>1, <2>4, <2>6, WriterStep
  <1>3. CASE FCGI_fclose(w)
    <2>1. /\ up /\ OnWriter(w, FClose(w, X(w), request.appStatus))
          /\ UNCHANGED <<up, status, cleared, accepts>>
      BY <1>3 DEF FCGI_fclose, Usable, StreamOp
    <2>2. PICK b : b = X(w)
      OBVIOUS
    <2>3. PICK a : a = request.appStatus
      OBVIOUS
    <2>4. b \in Outcomes /\ Fits(b.s) /\ a \in Nat /\ WroteOf(strm) + 0 <= MaxOutput
      BY <2>1, <2>2, <2>3, OperandFacts
    <2>5. \A x \in FClose(w, b, a) : Became(w, b, x, a, 0)
      BY <2>4, FCloseBecame
    <2>6. \A x \in FClose(w, X(w), request.appStatus) :
             Became(w, X(w), x, request.appStatus, 0)
      BY <2>2, <2>3, <2>5
    <2> QED
      BY <2>1, <2>4, <2>6, WriterStep
  <1>4. CASE CloseFile(w)
    <2>1. accepts <= MaxAccepts
      BY DEF ChannelInv, WritersInv
    <2> QED
      BY <1>4, <2>1, StreamsAlone DEF CloseFile, streamVars
  <1>5. CASE FCGI_clearerr(w)
    <2>1. /\ up /\ strm[w].errno # "none" /\ strm' = [strm EXCEPT ![w] = ClearError(@)]
          /\ cleared' = TRUE
          /\ UNCHANGED <<request, peer, faults, hurt, up, status, accepts>>
      BY <1>5 DEF FCGI_clearerr, Usable, StreamOp
    <2> DEFINE s == strm[w]
    <2>2. strm \in [Writers -> WriterStates] /\ s \in WriterStates /\ Fits(s)
      BY DEF ChannelInv, WritersInv
    <2>3. /\ ClearError(s) \in WriterStates /\ Fits(ClearError(s))
          /\ ClearError(s).wrote = s.wrote /\ ClearError(s).closeCalled = s.closeCalled
      <3> HIDE DEF s
      <3> QED
        BY <2>2 DEF ClearError, Fits, WriterStates
    <2>4. /\ strm' \in [Writers -> WriterStates] /\ \A u \in Writers : Fits(strm'[u])
          /\ \A u \in Writers : /\ strm'[u].wrote = strm[u].wrote
                                /\ strm'[u].closeCalled = strm[u].closeCalled
      BY <2>1, <2>2, <2>3 DEF ChannelInv, WritersInv
    <2>5. WroteOf(strm)' = WroteOf(strm) /\ OpenOf(strm)' = OpenOf(strm)
      BY <2>4 DEF WroteOf, OpenOf, Writers
    <2>6. WritersInv'
      BY <2>1, <2>4, <2>5 DEF ChannelInv, WritersInv
    <2>7. hurt
      <3>1. ~AllClean(strm, peer, status, request.appStatus)
        BY <2>1 DEF AllClean, Clean
      <3> QED
        BY <2>1, <3>1 DEF ChannelInv, CleanInv
    <2>8. CleanInv' /\ DamageInv'
      BY <2>1, <2>7 DEF CleanInv, DamageInv
    <2> QED
      BY <2>6, <2>8 DEF ChannelInv
  <1> QED
    BY <1>1, <1>2, <1>3, <1>4, <1>5

\* What else an application does with its request.
LEMMA RequestChannel ==
  ASSUME RequestInv, ChannelInv,
         \/ ReadFails \/ (\E s \in Statuses : FCGI_SetExitStatus(s))
         \/ FCGX_Attach \/ FCGX_Detach
  PROVE  ChannelInv'
  <1>1. CASE ReadFails \/ FCGX_Attach \/ FCGX_Detach
    <2>1. /\ UNCHANGED <<strm, peer, faults, status, hurt, cleared, up, accepts>>
          /\ \/ request' = [request EXCEPT !.in = "error"]
             \/ request' = [request EXCEPT !.detached = FALSE]
             \/ request' = [request EXCEPT !.detached = TRUE]
      BY <1>1 DEF ReadFails, FCGX_Attach, FCGX_Detach, StreamOp
    <2>2. /\ request'.nWriters = request.nWriters /\ request'.appStatus = request.appStatus
          /\ request'.ipcFd = request.ipcFd
      BY <2>1 DEF RequestInv, Requests
    <2>3. accepts <= MaxAccepts
      BY DEF ChannelInv, WritersInv
    <2> QED
      BY <2>1, <2>2, <2>3, StreamsAlone
  <1>2. CASE \E s \in Statuses : FCGI_SetExitStatus(s)
    <2>1. PICK s \in Statuses : FCGI_SetExitStatus(s)
      BY <1>2
    <2>2. /\ up /\ request' = [request EXCEPT !.appStatus = s] /\ s \in Nat
          /\ status' = IF BothClosed(strm) THEN status ELSE <<s>>
          /\ UNCHANGED <<up, strm, peer, faults, hurt, cleared, accepts>>
      BY <2>1, RequestAssumption
         DEF FCGI_SetExitStatus, SetExitStatus, Usable, Closed, BothClosed
    <2>3. /\ request'.nWriters = request.nWriters /\ request'.appStatus = s
          /\ request'.ipcFd = request.ipcFd
      BY <2>2 DEF RequestInv, Requests
    <2>4. WritersInv'
      BY <2>2, <2>3 DEF ChannelInv, WritersInv
    <2>5. ASSUME AllClean(strm, peer, status, request.appStatus)
          PROVE  AllClean(strm, peer, status', s)
      BY <2>2, <2>5 DEF AllClean
    <2>6. CleanInv'
      <3>1. ASSUME ~hurt PROVE AllClean(strm, peer, status', s)
        BY <2>2, <2>5, <3>1 DEF ChannelInv, CleanInv
      <3> QED
        BY <2>2, <2>3, <3>1 DEF CleanInv
    <2>7. DamageInv'
      BY <2>2, <2>3 DEF ChannelInv, DamageInv
    <2> QED
      BY <2>4, <2>6, <2>7 DEF ChannelInv
  <1> QED
    BY <1>1, <1>2

\* The invariant is kept.
LEMMA ChannelInvStep ==
  RequestInv /\ ChannelInv /\ [Next]_vars => RequestInv' /\ ChannelInv'
  <1> SUFFICES ASSUME RequestInv, ChannelInv, [Next]_vars
               PROVE  RequestInv' /\ ChannelInv'
    OBVIOUS
  <1>0. RequestInv'
    BY RequestInvStep
  <1>1. CASE AcceptFails \/ OS_Accept \/ TryAgain \/ Begin
    BY <1>0, <1>1, AcceptChannel
  <1>2. CASE \/ InitFails \/ OpenSocket \/ AskIsCGI \/ AcceptCGI \/ FCGI_Accept
             \/ Finish \/ Exit
    BY <1>0, <1>2, LibraryChannel
  <1>3. CASE \E w \in Writers : \/ \E n \in WriteSizes : Put(w, n)
                                \/ FCGI_fflush(w) \/ FCGI_fclose(w) \/ CloseFile(w)
                                \/ FCGI_clearerr(w)
    BY <1>0, <1>3, FileChannel
  <1>4. CASE \/ ReadFails \/ (\E s \in Statuses : FCGI_SetExitStatus(s))
             \/ FCGX_Attach \/ FCGX_Detach
    BY <1>0, <1>4, RequestChannel
  <1>5. CASE UNCHANGED vars
    <2>1. accepts <= MaxAccepts
      BY DEF ChannelInv, WritersInv
    <2> QED
      BY <1>0, <1>5, <2>1, StreamsAlone DEF vars
  <1> QED
    BY <1>1, <1>2, <1>3, <1>4, <1>5 DEF Next

\* The structures of the request and its streams are in range.
LEMMA RequestTypes == RequestInv /\ ChannelInv => RequestTypeOK
  <1> SUFFICES ASSUME RequestInv, ChannelInv PROVE RequestTypeOK
    OBVIOUS
  <1>1. request.ipcFd \in 0..MaxAccepts
    BY RequestAssumption
       DEF RequestInv, Requests, Connections, ChannelInv, WritersInv
  <1>2. request.in \in {"null", "ok", "error"} /\ request.nWriters \in 0..2
    BY DEF RequestInv, Requests, ChannelInv, WritersInv
  <1>3. ASSUME NEW w \in Writers
        PROVE  /\ Room(strm[w]) \in 0..(OutBuffLen - HeaderLen)
               /\ strm[w].errno \in {"none", "os"} /\ strm[w].wrote \in 0..MaxOutput
    <2> DEFINE s == strm[w]
               v == Other(w)
               l == Len(s.data)
    <2>1. /\ strm \in [Writers -> WriterStates] /\ Fits(s) /\ WroteOf(strm) <= MaxOutput
      BY DEF ChannelInv, WritersInv
    <2>2. s \in WriterStates
      BY <2>1
    <2>3. s.wrote \in 0..MaxOutput
      <3>1. WroteOf(strm) = s.wrote + strm[v].wrote /\ s.wrote \in Nat
            /\ strm[v].wrote \in Nat
        <4> HIDE DEF v
        <4>1. PICK S : S = strm
          OBVIOUS
        <4>2. WroteOf(S) = S[w].wrote + S[Other(w)].wrote /\ S[w].wrote \in Nat
              /\ S[Other(w)].wrote \in Nat
          BY <2>1, <4>1, WroteFacts
        <4> QED
          BY <4>1, <4>2 DEF v
      <3> HIDE DEF s, v
      <3> QED
        BY <2>1, <3>1, RequestAssumption
    <2> HIDE DEF s
    <2>4. s.errno \in {"none", "os"} /\ s.data \in Seq(Units)
      BY <2>2 DEF WriterStates
    <2>5. l \in Nat /\ l <= OutBuffLen - HeaderLen
      BY <2>1, <2>4 DEF Fits
    <2> HIDE DEF l
    <2>6. Room(s) \in 0..(OutBuffLen - HeaderLen)
      <3>1. Room(s) = IF s.closeCalled THEN 0 ELSE OutBuffLen - HeaderLen - l
        BY DEF Room, l
      <3> QED
        BY <2>5, <3>1, WriterAssumption
    <2> QED
      BY <2>3, <2>4, <2>6 DEF s
  <1>4. /\ up <=> request.in # "null"
        /\ \A f \in Files : std[f].fcgx \in 0..gen
        /\ acceptState.result \in {"none", "accepting", "ok", "failed"}
    BY DEF RequestInv, Streams, StdFiles, Results
  <1> QED
    BY <1>1, <1>2, <1>3, <1>4 DEF RequestTypeOK

\* What has come of a stream begins what was written on it.
LEMMA PrefixFacts ==
  ASSUME NEW g \in Seq(Units), NEW d \in Seq(Units), NEW n \in Nat, g \o d = Upto(n)
  PROVE  IsPrefix(g, Upto(n)) /\ (d = <<>> => g = Upto(n))
  <1>1. Len(g) \in Nat /\ Len(d) \in Nat
    OBVIOUS
  <1>2. Upto(n) \in Seq(Units) /\ Len(Upto(n)) = n
    BY UptoFacts
  <1>3. Len(g \o d) = Len(g) + Len(d) /\ \A i \in 1..Len(g) : (g \o d)[i] = g[i]
    OBVIOUS
  <1> DEFINE u == Upto(n)
             k == Len(g)
  <1>4. k <= Len(u) /\ \A i \in 1..k : u[i] = g[i]
    BY <1>1, <1>2, <1>3
  <1> HIDE DEF u
  <1>5. SubSeq(g, 1, k) = SubSeq(u, 1, k)
    BY <1>1, <1>2, <1>4
  <1>6. d = <<>> => g = u
    BY DEF u
  <1> QED
    BY <1>4, <1>5, <1>6 DEF IsPrefix, u

\* Nothing has come on a new connection.
LEMMA FreshFacts ==
  /\ Fresh.sync /\ ~Fresh.late /\ Fresh.ends = <<>>
  /\ \A w \in Writers : Fresh.got[w] = <<>> /\ Fresh.eof[w] = 0
  BY DEF Fresh

\* Nothing has failed: what a web server sees of the streams.
LEMMA CleanStream ==
  ASSUME ChannelInv, AllClean(strm, peer, status, request.appStatus), NEW w \in Writers
  PROVE  /\ IsPrefix(peer.got[w], Sent(w)) /\ peer.eof[w] <= 1
         /\ strm[w].closeCalled
              => /\ peer.got[w] = Sent(w)
                 /\ peer.eof[w] = IF w = "err" /\ peer.got[w] = <<>> THEN 0 ELSE 1
  <1> DEFINE s == strm[w]
             g == peer.got[w]
             d == s.data
             n == s.wrote
  <1>1. peer \in Peers /\ s \in WriterStates /\ Fits(s) /\ Clean(w, s, peer)
    BY DEF ChannelInv, WritersInv, AllClean
  <1>2. g \in Seq(Units) /\ d \in Seq(Units) /\ n \in Nat
    <2> HIDE DEF s
    <2> QED
      BY <1>1 DEF Peers, WriterStates
  <1>3. g \o d = Upto(n)
    BY <1>1 DEF Clean
  <1>4. Sent(w) = Upto(n)
    BY DEF Sent, Upto
  <1>5. s.closeCalled => d = <<>>
    BY <1>1 DEF Fits
  <1>6. /\ ~s.closeCalled => peer.eof[w] = 0
        /\ s.closeCalled => peer.eof[w] = IF w = "err" /\ g = <<>> THEN 0 ELSE 1
    BY <1>1 DEF Clean
  <1>7. IsPrefix(g, Sent(w)) /\ (s.closeCalled => g = Sent(w))
    <2> HIDE DEF g, d, n, s
    <2>1. PICK gg : gg = g
      OBVIOUS
    <2>2. PICK dd : dd = d
      OBVIOUS
    <2>3. PICK nn : nn = n
      OBVIOUS
    <2>4. IsPrefix(gg, Upto(nn)) /\ (dd = <<>> => gg = Upto(nn))
      BY <1>2, <1>3, <2>1, <2>2, <2>3, PrefixFacts
    <2> QED
      BY <1>4, <1>5, <2>1, <2>2, <2>3, <2>4
  <1> QED
    BY <1>6, <1>7

\* The records are well formed until a write fails.
LEMMA FramedFacts == ChannelInv => Framed
  <1> SUFFICES ASSUME ChannelInv, ~hurt
               PROVE  /\ peer.sync /\ ~peer.late /\ Len(peer.ends) <= 1
                      /\ \A w \in Writers :
                           IsPrefix(peer.got[w], Sent(w)) /\ peer.eof[w] <= 1
                      /\ peer.ends # <<>> => peer.eof["out"] = 1
    BY DEF Framed
  <1>1. CASE AllClean(strm, peer, status, request.appStatus)
    <2>1. peer.sync /\ ~peer.late
      <3>1. "out" \in Writers
        BY DEF Writers
      <3> QED
        BY <1>1, <3>1 DEF AllClean, Clean
    <2>2. \A w \in Writers : /\ IsPrefix(peer.got[w], Sent(w)) /\ peer.eof[w] <= 1
                             /\ strm[w].closeCalled /\ w = "out" => peer.eof[w] = 1
      BY <1>1, CleanStream
    <2>3. CASE BothClosed(strm)
      <3>1. Len(peer.ends) = 1
        BY <1>1, <2>3 DEF AllClean
      <3>2. peer.eof["out"] = 1
        BY <2>2, <2>3 DEF BothClosed, Writers
      <3> QED
        BY <2>1, <2>2, <3>1, <3>2
    <2>4. CASE ~BothClosed(strm)
      <3>1. PICK w \in Writers : ~strm[w].closeCalled
        BY <2>4 DEF BothClosed
      <3>2. peer.ends = <<>>
        BY <1>1, <3>1 DEF AllClean, Clean
      <3> QED
        BY <2>1, <2>2, <3>2
    <2> QED
      BY <2>3, <2>4
  <1>2. CASE peer = Fresh
    <2>1. \A w \in Writers : IsPrefix(<<>>, Sent(w))
      <3> TAKE w \in Writers
      <3>1. strm[w].wrote \in Nat
        BY DEF ChannelInv, WritersInv, WriterStates
      <3>2. PICK n : n = strm[w].wrote
        OBVIOUS
      <3>3. Sent(w) = Upto(n)
        BY <3>2 DEF Sent, Upto
      <3>4. <<>> \o Upto(n) = Upto(n) /\ Upto(n) \in Seq(Units) /\ <<>> \in Seq(Units)
        BY <3>1, <3>2, UptoFacts
      <3>5. IsPrefix(<<>>, Upto(n))
        <4>1. PICK e : e = <<>>
          OBVIOUS
        <4>2. IsPrefix(e, Upto(n))
          BY <3>1, <3>2, <3>4, <4>1, PrefixFacts
        <4> QED
          BY <4>1, <4>2
      <3> QED
        BY <3>3, <3>5
    <2> QED
      BY <1>2, <2>1, FreshFacts
  <1> QED
    BY <1>1, <1>2 DEF ChannelInv, CleanInv

\* What the web server gets of a request is well formed whatever the sizes of the
\* writes and of the buffers, each stream in order and the end once and last, until
\* a write fails; and then nothing more is sent on the connection, but by an
\* application that cleared the error (FCGX_PutStr, EmptyBuffProc,
\* WriteCloseRecords, FCGX_Finish_r).
THEOREM ChannelCorrectness == Spec => []ChannelSound
  <1>1. Init => RequestInv /\ ChannelInv
    BY InitRequestInv, InitChannelInv
  <1>2. RequestInv /\ ChannelInv => ChannelSound
    <2>1. ChannelInv => NothingAfterDamage
      BY DEF ChannelInv, DamageInv, NothingAfterDamage
    <2> QED
      BY <2>1, RequestTypes, FramedFacts DEF ChannelSound
  <1> QED
    BY <1>1, <1>2, ChannelInvStep, PTL DEF Spec

\* A request that is over was answered: all that was written on either stream was
\* sent, the streams and the request were ended, and the status is the one the
\* application set (FCGX_FClose, WriteCloseRecords, FCGX_Finish_r).
THEOREM AnswerCorrectness == Spec => []AnsweredInFull
  <1>1. Init => RequestInv /\ ChannelInv
    BY InitRequestInv, InitChannelInv
  <1>2. ChannelInv => AnsweredInFull
    <2> SUFFICES ASSUME ChannelInv, ~up, ~hurt, peer # Fresh
                 PROVE  /\ \A w \in Writers : peer.got[w] = Sent(w)
                        /\ Len(peer.ends) = 1
                        /\ status # <<>> => peer.ends = status
                        /\ peer.got["err"] # <<>> => peer.eof["err"] = 1
      BY DEF AnsweredInFull
    <2>1. AllClean(strm, peer, status, request.appStatus) /\ BothClosed(strm)
      BY DEF ChannelInv, CleanInv
    <2>2. Len(peer.ends) = 1 /\ (status # <<>> => peer.ends = status)
      BY <2>1 DEF AllClean
    <2>3. \A w \in Writers :
             /\ peer.got[w] = Sent(w)
             /\ peer.eof[w] = IF w = "err" /\ peer.got[w] = <<>> THEN 0 ELSE 1
      BY <2>1, CleanStream DEF BothClosed
    <2> QED
      BY <2>2, <2>3 DEF Writers
  <1> QED
    BY <1>1, <1>2, ChannelInvStep, PTL DEF Spec
============================================================================
