---------------------------- MODULE FcgiRequest ----------------------------
(***************************************************************************)
(* The life of a FastCGI request structure (fcgiapp.c) and the standard    *)
(* files of fcgi_stdio.c that follow it: FCGI_Accept, FCGI_Finish, the     *)
(* wrappers that send an operation to a FILE, to a FastCGI stream or to    *)
(* neither, and the end of the process.                                    *)
(*                                                                         *)
(* The connection is a number; reading it is one outcome of Accept, as     *)
(* FcgiReader shows it in detail.  A pointer to a stream is the number of  *)
(* the request the stream was made for, 0 for NULL.                        *)
(***************************************************************************)
EXTENDS FcgiWriter, FiniteSets

CONSTANTS
  MaxAccepts,  \* connections and requests a behaviour has
  MaxOutput,   \* units written on the streams of a request
  MaxFaults,   \* writes that fail
  WriteSizes,  \* units an application writes at once
  Statuses     \* exit statuses an application sets

ASSUME RequestAssumption ==
  /\ MaxAccepts \in Nat /\ MaxOutput \in Nat /\ MaxFaults \in Nat
  /\ Statuses \subseteq Nat /\ WriteSizes \subseteq Nat \ {0}

Files == {"in", "out", "err"}
NullFd == 0

VARIABLES
  fastCGI,     \* what OS_IsFcgi says of descriptor 0, and isFastCGI
  request,     \* the_request: ipcFd, keep, detached, nWriters, appStatus, in
  gen,         \* number of the last request accepted; its streams exist if up
  up,
  strm,        \* the writers
  peer,        \* the web server of the connection
  open,        \* connections open
  shut,        \* connections shut down for everyone
  std,         \* the standard files: stdio_stream and fcgx_stream
  acceptState, \* acceptCalled, isCGI and the result of the last FCGI_Accept
  status,      \* the last status set while the request could report it
  faults,      \* writes that may still fail
  hurt,        \* a write of this request failed
  cleared,     \* FCGX_ClearError has hidden an error of this request
  accepts,     \* OS_Accept calls and kept connections so far
  done         \* the process has ended

vars == <<fastCGI, request, gen, up, strm, peer, open, shut, std, acceptState,
          status, faults, hurt, cleared, accepts, done>>
streamVars == <<request, gen, up, strm, peer, open, shut, status, faults, hurt,
                cleared, accepts>>

\* FCGX_InitRequest: memset, and no connection.
InitRequest == [ipcFd |-> NullFd, keep |-> FALSE, detached |-> FALSE,
                nWriters |-> 0, appStatus |-> 0, in |-> "null"]

Init ==
  /\ fastCGI \in [is : BOOLEAN, known : {FALSE}]
  /\ request = InitRequest
  /\ gen = 0 /\ up = FALSE
  /\ strm = [w \in Writers |-> NewWriter] /\ peer = Fresh
  /\ open = {} /\ shut = {}
  /\ std = [f \in Files |-> [stdio |-> "null", fcgx |-> 0]]
  /\ acceptState = [called |-> FALSE, isCGI |-> FALSE, result |-> "none"]
  /\ status = <<>> /\ faults = MaxFaults /\ hurt = FALSE /\ cleared = FALSE
  /\ accepts = 0 /\ done = FALSE

---------------------------------------------------------------------------
\* FCGX_Finish_r and FCGX_Free.

Outcome(w, s) == [s |-> strm[w], p |-> s.peer, n |-> s.nWriters, f |-> s.faults,
                  ok |-> TRUE, eof |-> FALSE, raw |-> <<>>]
Into(w, s, x) == [s EXCEPT !.strm[w] = x.s, !.peer = x.p, !.nWriters = x.n,
                           !.faults = x.f]

\* Both writers are closed, err first.
Current == [strm |-> strm, peer |-> peer, nWriters |-> request.nWriters,
            faults |-> faults]
Close(S, w) == UNION {{Into(w, s, x) :
                         x \in FClose(w, Outcome(w, s), request.appStatus)} :
           s \in S}
Finished == IF request.in = "null" THEN {Current}
            ELSE Close(Close({Current}, "err"), "out")

\* Mutant of MustClose: an error of a writer does not close the connection.
KeepRegardless(s) == ~request.keep

\* The connection is closed unless the web server keeps it and nothing failed.
MustClose(s) == \/ ~request.keep
                \/ /\ request.in # "null"
                   /\ \E w \in Writers : s.strm[w].errno # "none"
                \/ request.in = "error"

\* OS_IpcClose, which takes NULL for nothing to close; the connection is shut
\* down for the processes that share it unless the request was detached.
IpcClose(fd, shutdown) ==
  /\ open' = open \ {fd}
  /\ shut' = IF shutdown /\ fd # NullFd THEN shut \cup {fd} ELSE shut

\* Mutant of Released: the pointer to the stream that was freed stays.
ReleasedStale(r, close) == IF close THEN [r EXCEPT !.ipcFd = NullFd] ELSE r

\* Mutant of Released: the descriptor that was closed stays.
ReleasedOpen(r, close) == [r EXCEPT !.in = "null"]

\* FCGX_Free(request, close): the request structure afterwards.
Released(r, close) ==
  IF close THEN [r EXCEPT !.in = "null", !.ipcFd = NullFd, !.detached = FALSE]
           ELSE [r EXCEPT !.in = "null"]

Finish_r ==
  \E s \in Finished :
    /\ strm' = s.strm /\ peer' = s.peer /\ faults' = s.faults
    /\ hurt' = (hurt \/ s.faults < faults)
    /\ request' =
         Released([request EXCEPT !.nWriters = s.nWriters], MustClose(s))
    /\ up' = FALSE
    /\ IF MustClose(s) THEN IpcClose(request.ipcFd, ~request.detached)
                       ELSE UNCHANGED <<open, shut>>

---------------------------------------------------------------------------
\* FCGX_Accept and the loop of FCGX_Accept_r, after the request before has been
\* finished (Finish_r is the first step of FCGI_Accept).  pc of the loop is
\* acceptState.result: "accepting" while it runs.

InAccept == acceptState.result = "accepting"
Running == ~done /\ ~InAccept

\* OS_Accept fails: "return -1 to the caller, who should exit".
AcceptFails ==
  /\ InAccept /\ request.ipcFd = NullFd
  /\ acceptState' = [acceptState EXCEPT !.result = "failed"]
  /\ UNCHANGED <<fastCGI, streamVars, std, done>>

OS_Accept ==
  /\ InAccept /\ request.ipcFd = NullFd /\ accepts < MaxAccepts
  /\ accepts' = accepts + 1
  /\ request' = [request EXCEPT !.ipcFd = accepts + 1]
  /\ open' = open \cup {accepts + 1}
  /\ peer' = Fresh /\ hurt' = FALSE /\ cleared' = FALSE
  /\ UNCHANGED <<fastCGI, gen, up, strm, shut, std, acceptState, status,
                 faults, done>>

\* A protocol error, an unknown role or the end of the connection.
TryAgain ==
  /\ InAccept /\ request.ipcFd # NullFd
  /\ \E keep \in BOOLEAN :
       request' = Released([request EXCEPT !.keep = keep], TRUE)
  /\ IpcClose(request.ipcFd, ~request.detached)
  /\ UNCHANGED <<fastCGI, gen, up, strm, peer, std, acceptState, status,
                 faults, hurt, cleared, accepts, done>>

\* The web server sends a request on a new connection, or on a kept one when
\* it has seen the last one end.
MayAsk == IF peer.ends = <<>> THEN peer = Fresh
          ELSE peer.sync /\ BetweenRecords(peer) /\ accepts < MaxAccepts

Begin ==
  /\ InAccept /\ request.ipcFd # NullFd /\ MayAsk
  /\ \E keep \in BOOLEAN, in \in {"ok", "error"} :
       request' = [request EXCEPT !.keep = keep, !.in = in, !.nWriters = 2]
  /\ accepts' = IF peer.ends = <<>> THEN accepts ELSE accepts + 1
  /\ gen' = gen + 1 /\ up' = TRUE
  /\ strm' = [w \in Writers |-> NewWriter] /\ peer' = Fresh
  /\ std' = [f \in Files |-> [stdio |-> "null", fcgx |-> gen + 1]]
  /\ acceptState' = [acceptState EXCEPT !.result = "ok"]
  /\ status' = <<>> /\ hurt' = FALSE /\ cleared' = FALSE
  /\ UNCHANGED <<fastCGI, open, shut, faults, done>>

---------------------------------------------------------------------------
\* fcgi_stdio.c.

IsCGI == ~fastCGI.is

\* FCGX_OpenSocket gives descriptor 0 to a process known not to have one.
OpenSocket ==
  /\ Running /\ fastCGI.known /\ ~fastCGI.is /\ ~acceptState.called
  /\ fastCGI' = [fastCGI EXCEPT !.is = TRUE]
  /\ UNCHANGED <<streamVars, std, acceptState, done>>

\* FCGX_IsCGI initializes the library, and ends the process if that fails.
InitFails ==
  /\ Running /\ ~fastCGI.known
  /\ done' = TRUE
  /\ UNCHANGED <<fastCGI, streamVars, std, acceptState>>

\* The application asks first.
AskIsCGI ==
  /\ Running /\ ~fastCGI.known
  /\ fastCGI' = [fastCGI EXCEPT !.known = TRUE]
  /\ UNCHANGED <<streamVars, std, acceptState, done>>

AcceptCGI ==
  /\ Running
  /\ acceptState.called => acceptState.isCGI
  /\ IF acceptState.called
     THEN /\ acceptState' = [acceptState EXCEPT !.result = "failed"]
          /\ UNCHANGED <<fastCGI, std>>
     ELSE /\ IsCGI
          /\ fastCGI' = [fastCGI EXCEPT !.known = TRUE]
          /\ acceptState' = [called |-> TRUE, isCGI |-> TRUE, result |-> "ok"]
          /\ std' = [f \in Files |-> [stdio |-> "process", fcgx |-> 0]]
  /\ UNCHANGED <<streamVars, done>>

FCGI_Accept ==
  /\ Running /\ IF acceptState.called THEN ~acceptState.isCGI ELSE ~IsCGI
  /\ fastCGI' = [fastCGI EXCEPT !.known = TRUE]
  /\ acceptState' = [called |-> TRUE, isCGI |-> FALSE, result |-> "accepting"]
  /\ Finish_r
  /\ UNCHANGED <<gen, std, status, cleared, accepts, done>>

\* Mutant of Forgotten: FCGI_Finish leaves the pointers of the files alone.
Kept(files) == files

Forgotten(files) == [f \in Files |-> [files[f] EXCEPT !.fcgx = 0]]

FCGI_Finish ==
  IF ~acceptState.called \/ acceptState.isCGI
  THEN UNCHANGED <<streamVars, std>>
  ELSE /\ Finish_r
       /\ std' = Forgotten(std)
       /\ UNCHANGED <<gen, status, cleared, accepts>>

Finish ==
  /\ Running /\ acceptState.called
  /\ FCGI_Finish
  /\ UNCHANGED <<fastCGI, acceptState, done>>

\* exit: FCGI_Finish was registered by the first FCGI_Accept.
Exit ==
  /\ Running /\ FCGI_Finish
  /\ done' = TRUE
  /\ UNCHANGED <<fastCGI, acceptState>>

\* Where an operation on a standard file goes.
Target(f) == CASE std[f].stdio # "null"                      -> "stdio"
               [] std[f].stdio = "null" /\ std[f].fcgx # 0   -> "fcgx"
               [] OTHER                                      -> "none"
\* The documentation forbids the use of the files once the request is gone.
Usable(f) == Running /\ Target(f) = "fcgx" /\ up

\* One operation on the writer behind w; more of its outcome is in rest.
OnWriter(w, outcomes) ==
  \E x \in outcomes :
    /\ strm' = [strm EXCEPT ![w] = x.s]
    /\ peer' = x.p
    /\ request' = [request EXCEPT !.nWriters = x.n]
    /\ faults' = x.f
    /\ hurt' = (hurt \/ x.f < faults)
X(w) == Outcome(w, Current)
StreamOp == UNCHANGED <<fastCGI, gen, up, open, shut, acceptState, status,
                        accepts, done>>

\* FCGI_fputc, fputs, fwrite, fprintf and their relatives.
Put(w, n) ==
  /\ Usable(w) /\ strm["out"].wrote + strm["err"].wrote + n <= MaxOutput
  /\ OnWriter(w, PutStr(w, X(w), n))
  /\ StreamOp /\ UNCHANGED <<std, cleared>>

FCGI_fflush(w) ==
  /\ Usable(w)
  /\ OnWriter(w, FFlush(w, X(w)))
  /\ StreamOp /\ UNCHANGED <<std, cleared>>

\* FCGI_fclose, and FCGI_freopen: the file is closed first, and keeps its stream
\* when the path cannot be opened.
FCGI_fclose(w) ==
  /\ Usable(w)
  /\ OnWriter(w, FClose(w, X(w), request.appStatus))
  /\ \E to \in {"null", "file", "failed"} :
       std' = IF to = "failed" THEN std
              ELSE [std EXCEPT ![w] = [stdio |-> to, fcgx |-> 0]]
  /\ StreamOp /\ UNCHANGED cleared

\* The same on a file that is a FILE; FCGI_pclose, unlike it, is only for those.
CloseFile(w) ==
  /\ Running /\ Target(w) = "stdio"
  /\ std' = [std EXCEPT ![w].stdio = "null"]
  /\ UNCHANGED <<fastCGI, streamVars, acceptState, done>>

FCGI_clearerr(w) ==
  /\ Usable(w) /\ strm[w].errno # "none"
  /\ strm' = [strm EXCEPT ![w] = ClearError(@)]
  /\ cleared' = TRUE
  /\ StreamOp /\ UNCHANGED <<request, peer, faults, hurt, std>>

\* A read that finds the connection cut, or that is out of sequence.
ReadFails ==
  /\ Usable("in") /\ request.in = "ok"
  /\ request' = [request EXCEPT !.in = "error"]
  /\ StreamOp /\ UNCHANGED <<strm, peer, faults, hurt, cleared, std>>

\* The END_REQUEST record is written with the second close.
Closed == \A w \in Writers : strm[w].closeCalled

\* Mutant of SetExitStatus: the status is not kept.
SetExitStatusLost(s) == request' = request

SetExitStatus(s) == request' = [request EXCEPT !.appStatus = s]

FCGI_SetExitStatus(s) ==
  /\ Usable("in")
  /\ SetExitStatus(s)
  /\ status' = IF Closed THEN status ELSE <<s>>
  /\ UNCHANGED <<fastCGI, gen, up, strm, peer, open, shut, std, acceptState,
                 faults, hurt, cleared, accepts, done>>

FCGX_Detach ==
  /\ Usable("in") /\ request.ipcFd # NullFd /\ ~request.detached
  /\ request' = [request EXCEPT !.detached = TRUE]
  /\ StreamOp /\ UNCHANGED <<strm, peer, faults, hurt, cleared, std>>

FCGX_Attach ==
  /\ Usable("in") /\ request.detached
  /\ request' = [request EXCEPT !.detached = FALSE]
  /\ StreamOp /\ UNCHANGED <<strm, peer, faults, hurt, cleared, std>>

Next ==
  \/ InitFails \/ AcceptFails \/ OS_Accept \/ TryAgain \/ Begin
  \/ OpenSocket \/ AskIsCGI \/ AcceptCGI \/ FCGI_Accept \/ Finish \/ Exit
  \/ \E w \in Writers : \/ \E n \in WriteSizes : Put(w, n)
                        \/ FCGI_fflush(w) \/ FCGI_fclose(w) \/ CloseFile(w)
                        \/ FCGI_clearerr(w)
  \/ ReadFails \/ \E s \in Statuses : FCGI_SetExitStatus(s)
  \/ FCGX_Attach \/ FCGX_Detach

Spec == Init /\ [][Next]_vars

---------------------------------------------------------------------------
\* Properties.

Sent(w) == [i \in 1..strm[w].wrote |-> Data(i)]

RequestTypeOK ==
  /\ request.ipcFd \in 0..MaxAccepts /\ request.nWriters \in 0..2
  /\ request.in \in {"null", "ok", "error"}
  /\ \A w \in Writers :
       /\ Room(strm[w]) \in 0..(OutBuffLen - HeaderLen)
       /\ strm[w].errno \in {"none", "os"} /\ strm[w].wrote \in 0..MaxOutput
  /\ up <=> request.in # "null"
  /\ \A f \in Files : std[f].fcgx \in 0..gen
  /\ acceptState.result \in {"none", "accepting", "ok", "failed"}

\* Until a write fails, the web server can take the records apart whatever the
\* sizes of the writes: each stream arrives in order, ends at most once, and
\* the request ends once, after its output, with nothing behind it.
Framed ==
  gen > 0 /\ ~hurt
    => /\ peer.sync /\ ~peer.late /\ Len(peer.ends) <= 1
       /\ \A w \in Writers : IsPrefix(peer.got[w], Sent(w)) /\ peer.eof[w] <= 1
       /\ peer.ends # <<>> => peer.eof["out"] = 1

\* A request that is over was answered in full, with the status the application
\* set, unless a write failed.
AnsweredInFull ==
  gen > 0 /\ ~up /\ ~hurt /\ peer # Fresh
    => /\ \A w \in Writers : peer.got[w] = Sent(w)
       /\ Len(peer.ends) = 1
       /\ status # <<>> => peer.ends = status
       /\ peer.got["err"] # <<>> => peer.eof["err"] = 1

\* An answer that was cut short is never followed by another on its connection:
\* the connection is closed, unless the application cleared the error.
NothingAfterDamage ==
  hurt /\ ~up /\ ~cleared => request.ipcFd = NullFd

\* One connection at most is open, it is the one of the request, and it is not
\* one that was shut down.
ConnectionOwned == /\ open = {request.ipcFd} \ {NullFd}
                   /\ open \cap shut = {}

\* The standard files point at streams that exist, but for the files of a
\* request that was finished by an FCGI_Accept that goes on or has failed.
FilesValid ==
  acceptState.result \in {"none", "ok"} => \A f \in Files :
    std[f].fcgx # 0 => up /\ std[f].fcgx = gen

\* What the web server gets is well formed, until a write fails; then the
\* connection ends with the request.
ChannelSound == RequestTypeOK /\ Framed /\ NothingAfterDamage

\* Between requests nothing of the last one is left: no connection, no stream
\* behind a standard file.
NothingLeft == ConnectionOwned /\ FilesValid
============================================================================
