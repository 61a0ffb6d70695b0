---------------------------- MODULE CgiGateway ----------------------------
(***************************************************************************)
(* handle_cgi and handle_fastcgi (http_handler.cpp) in several workers at  *)
(* once, with http_cgi_resp_parse and the programs they start.             *)
(*                                                                         *)
(* Both hand a request over in the environment of the server's own         *)
(* process, which all workers share and nobody clears, and read the answer *)
(* from a pipe.  handle_fastcgi passes the request's body in that same     *)
(* pipe: its read end is the program's standard input and the server's     *)
(* source of the answer at once.  A program inherits every inheritable     *)
(* handle the server has open when it is started, the pipes of other       *)
(* requests included, and a reader sees the end of a pipe only when nobody *)
(* holds its write end.                                                    *)
(*                                                                         *)
(* A request is one element of Requests and stands for its pipe and its    *)
(* program too.  The value of an environment variable is the request that  *)
(* set it.                                                                 *)
(***************************************************************************)
EXTENDS Integers, FiniteSets, Sequences, SequencesExt

CONSTANTS
  Requests,   \* requests for scripts, each handled once
  NumWorkers, \* how many are handled at a time
  Kind,       \* "cgi" or "fastcgi", for each request
  Sends,      \* the optional headers each request has
  Header,     \* the value of its Content-Length header
  Body,       \* the length of its body after urlDecode and trim
  Garbled,    \* the texts of each request that may have no conversion: "path"
              \* or the name of the variable they are for
  Failures,   \* operations that may fail: "pipe", "create", "write"
  Outputs,    \* what programs write before they exit
  PipeSize,   \* what a pipe holds
  None        \* not set

Mandatory == {"REQUEST_METHOD", "SCRIPT_NAME"}
Optional  == {"HTTP_COOKIE", "QUERY_STRING", "CONTENT_LENGTH"}
Names     == Mandatory \cup Optional

ASSUME RequestsAssumption ==
  /\ NumWorkers \in Nat /\ PipeSize \in Nat \ {0}
  /\ None \notin Requests
  /\ Kind \in [Requests -> {"cgi", "fastcgi"}]
  /\ Sends \in [Requests -> SUBSET Optional]
  /\ Header \in [Requests -> Nat] /\ Body \in [Requests -> Nat]
  /\ Garbled \in [Requests -> SUBSET (Names \cup {"path"})]
  /\ Failures \subseteq {"pipe", "create", "write"}
  /\ Outputs \subseteq {"page", "error", "badStatus", "garbled", "nothing"}

VARIABLES
  pc,       \* of the worker with the request: "new", "env", "write", "close",
            \* "read", "done"
  todo,     \* SetEnvironmentVariable calls it has yet to make
  env,      \* the environment of the server
  handles,  \* what the server has open for it: "read", "write", "process"
  pipe,     \* what is in its pipe: "body" or an output, one unit each
  data,     \* what the worker has read from the pipe
  resp,     \* the answer
  program,  \* its program: "none", "running", "exited"
  childEnv, \* the environment the program was given
  inherited,\* programs that inherited the write end of its pipe
  stdin,    \* how much of its standard input the program has read
  met,      \* requests handled while it was, up to the start of its program
  wrote,    \* the program has written an answer
  aborted   \* an exception nobody catches ended the server

programVars == <<program, childEnv, stdin, wrote>>
vars == <<pc, todo, env, handles, pipe, data, resp, inherited, met,
          programVars, aborted>>

Answers == {"none", "refused", "garbage", "page", "errorPage"}

TypeOK ==
  /\ pc \in [Requests -> {"new", "env", "write", "close", "read", "done"}]
  /\ todo \in [Requests -> Seq(Names)]
  /\ env \in [Names -> Requests \cup {None}]
  /\ handles \in [Requests -> SUBSET {"read", "write", "process"}]
  /\ \A r \in Requests : /\ pipe[r] \in Seq(Outputs \cup {"body"})
                         /\ Len(pipe[r]) <= PipeSize
                         /\ data[r] \in Seq(Outputs \cup {"body"})
                         /\ stdin[r] + Len(data[r] \o pipe[r]) <= Body[r] + 1
  /\ resp \in [Requests -> Answers]
  /\ program \in [Requests -> {"none", "running", "exited"}]
  /\ childEnv \in [Requests -> [Names -> Requests \cup {None}]]
  /\ inherited \in [Requests -> SUBSET Requests]
  /\ stdin \in [Requests -> Nat]
  /\ met \in [Requests -> SUBSET Requests]
  /\ wrote \in [Requests -> BOOLEAN]
  /\ aborted \in BOOLEAN

Init ==
  /\ pc = [r \in Requests |-> "new"]
  /\ todo = [r \in Requests |-> <<>>]
  /\ env = [n \in Names |-> None]
  /\ handles = [r \in Requests |-> {}]
  /\ pipe = [r \in Requests |-> <<>>]
  /\ data = [r \in Requests |-> <<>>]
  /\ resp = [r \in Requests |-> "none"]
  /\ program = [r \in Requests |-> "none"]
  /\ childEnv = [r \in Requests |-> [n \in Names |-> None]]
  /\ inherited = [r \in Requests |-> {}]
  /\ stdin = [r \in Requests |-> 0]
  /\ met = [r \in Requests |-> {}]
  /\ wrote = [r \in Requests |-> FALSE]
  /\ aborted = FALSE

Active == {r \in Requests : pc[r] \notin {"new", "done"}}
Running == {r \in Requests : program[r] = "running"}

\* Whether anybody can still write into the pipe of r.
WriterLeft(r) == "write" \in handles[r] \/ inherited[r] # {}

---------------------------------------------------------------------------
\* The environment (lines 147-176 and 269-310).

\* A variable that is only set when the request has the header.
IfSent(r, n) == IF n \in Sends[r] THEN <<n>> ELSE <<>>

\* Mutant of Assignments: the method is not passed on.
AssignmentsNoMethod(r) ==
  <<"SCRIPT_NAME">> \o IfSent(r, "HTTP_COOKIE") \o IfSent(r, "CONTENT_LENGTH")
    \o IfSent(r, "QUERY_STRING")

\* Which variables r sets, in the order it sets them: handle_fastcgi always
\* sets CONTENT_LENGTH.
Assignments(r) ==
  IF Kind[r] = "cgi"
  THEN <<"REQUEST_METHOD", "SCRIPT_NAME">> \o IfSent(r, "HTTP_COOKIE")
         \o IfSent(r, "CONTENT_LENGTH") \o IfSent(r, "QUERY_STRING")
  ELSE <<"REQUEST_METHOD">> \o IfSent(r, "HTTP_COOKIE") \o <<"SCRIPT_NAME">>
         \o IfSent(r, "QUERY_STRING") \o <<"CONTENT_LENGTH">>

\* The number r sets CONTENT_LENGTH to: the header if there is one, without
\* which a request has no body.
LengthBy(r) ==
  IF r = None THEN 0
  ELSE IF "CONTENT_LENGTH" \in Sends[r] THEN Header[r] ELSE Body[r]

\* The variables whose text string_to_wstring converts as the client sent it;
\* the method is known by then, the query string converted already.
Converted(r) ==
  {"SCRIPT_NAME"} \cup (Sends[r] \cap {"HTTP_COOKIE", "CONTENT_LENGTH"})

\* string_to_wstring throws a range_error that nobody catches.
SetVariable(r) ==
  /\ ~aborted
  /\ pc[r] = "env" /\ todo[r] # <<>>
  /\ \/ /\ env' = [env EXCEPT ![Head(todo[r])] = r]
        /\ todo' = [todo EXCEPT ![r] = Tail(@)]
        /\ UNCHANGED aborted
     \/ /\ Head(todo[r]) \in Garbled[r] \cap Converted(r)
        /\ aborted' = TRUE
        /\ UNCHANGED <<env, todo>>
  /\ UNCHANGED <<pc, handles, pipe, data, resp, inherited, met, programVars>>

---------------------------------------------------------------------------
\* The handlers.

\* The conversions of the path (lines 99-108, 216-226), whose exceptions nobody
\* catches, the checks of method and script and CreatePipe (lines 109-134,
\* 227-253).  If that fails, the response is sent as it is: no field of it has
\* been set.
Begin(r) ==
  /\ ~aborted
  /\ pc[r] = "new" /\ Cardinality(Active) < NumWorkers
  /\ \/ /\ "path" \in Garbled[r]
        /\ aborted' = TRUE
        /\ UNCHANGED <<pc, resp, handles, todo, met>>
     \/ /\ \/ resp' = [resp EXCEPT ![r] = "refused"]
           \/ "pipe" \in Failures /\ resp' = [resp EXCEPT ![r] = "garbage"]
        /\ pc' = [pc EXCEPT ![r] = "done"]
        /\ UNCHANGED <<handles, todo, met, aborted>>
     \/ /\ pc' = [pc EXCEPT ![r] = "env"]
        /\ handles' = [handles EXCEPT ![r] = {"read", "write"}]
        /\ todo' = [todo EXCEPT ![r] = Assignments(r)]
        /\ met' = [q \in Requests |->
                     IF q = r THEN Active \cup {r}
                     ELSE IF pc[q] = "env" THEN met[q] \cup {r} ELSE met[q]]
        /\ UNCHANGED <<resp, aborted>>
  /\ UNCHANGED <<env, pipe, data, inherited, programVars>>

\* CreateProcess with bInheritHandles (lines 180-192, 312-325).  On failure both
\* ends of the pipe stay open.
CreateProcess(r) ==
  /\ ~aborted
  /\ pc[r] = "env" /\ todo[r] = <<>>
  /\ \/ /\ "create" \in Failures
        /\ pc' = [pc EXCEPT ![r] = "done"]
        /\ resp' = [resp EXCEPT ![r] = "garbage"]
        /\ UNCHANGED <<handles, inherited, program, childEnv>>
     \/ /\ program' = [program EXCEPT ![r] = "running"]
        /\ childEnv' = [childEnv EXCEPT ![r] = env]
        /\ handles' = [handles EXCEPT ![r] = @ \cup {"process"}]
        /\ inherited' = [q \in Requests |->
                           IF "write" \in handles[q] THEN inherited[q] \cup {r}
                           ELSE inherited[q]]
        /\ pc' = [pc EXCEPT ![r] = IF Kind[r] = "fastcgi" THEN "write" ELSE "close"]
        /\ UNCHANGED resp
  /\ UNCHANGED <<todo, env, pipe, data, met, stdin, wrote, aborted>>

\* Mutant of Written: what has been read from the pipe is written again.
WrittenUnread(r) == Len(pipe[r])

\* Where a sequence of units holds the body.
Bodies(s) == {i \in 1..Len(s) : s[i] = "body"}

\* How much of the body of r has been written into its pipe.
Written(r) == stdin[r] + Cardinality(Bodies(data[r] \o pipe[r]))

\* WriteFile of the body, unit by unit: it blocks while the pipe is full, and
\* does not fail then, for the server holds the read end itself (lines 326-330).
\* On failure nothing is closed.
WriteBody(r) ==
  /\ ~aborted
  /\ pc[r] = "write"
  /\ \/ /\ Written(r) < Body[r]
        /\ Len(pipe[r]) < PipeSize
        /\ pipe' = [pipe EXCEPT ![r] = Append(@, "body")]
        /\ UNCHANGED <<pc, resp>>
     \/ /\ Written(r) = Body[r]
        /\ pc' = [pc EXCEPT ![r] = "close"]
        /\ UNCHANGED <<pipe, resp>>
     \/ /\ "write" \in Failures
        /\ Written(r) < Body[r] /\ Len(pipe[r]) < PipeSize
        /\ pc' = [pc EXCEPT ![r] = "done"]
        /\ resp' = [resp EXCEPT ![r] = "garbage"]
        /\ UNCHANGED pipe
  /\ UNCHANGED <<todo, env, handles, data, inherited, met, programVars, aborted>>

\* Mutant of AfterStart: the write end is not closed.
AfterStartKept(h) == h

\* CloseHandle(hWritePipe).
AfterStart(h) == h \ {"write"}

CloseWrite(r) ==
  /\ ~aborted
  /\ pc[r] = "close"
  /\ handles' = [handles EXCEPT ![r] = AfterStart(@)]
  /\ pc' = [pc EXCEPT ![r] = "read"]
  /\ UNCHANGED <<todo, env, pipe, data, resp, inherited, met, programVars,
                 aborted>>

\* One turn of the ReadFile loop: it blocks while the pipe is empty and somebody
\* can still write into it (lines 198-199, 334-335).
ReadPipe(r) ==
  /\ ~aborted
  /\ pc[r] = "read" /\ pipe[r] # <<>>
  /\ data' = [data EXCEPT ![r] = @ \o pipe[r]]
  /\ pipe' = [pipe EXCEPT ![r] = <<>>]
  /\ UNCHANGED <<pc, todo, env, handles, resp, inherited, met, programVars,
                 aborted>>

\* Mutant of HasHeaders: only what the first ReadFile got is parsed.
HasHeadersFirst(d) == d # <<>> /\ d[1] # "body" /\ d[1] # "garbled"

\* http_cgi_resp_parse finds an empty line; without one tellg() is -1 and
\* substr throws.
HasHeaders(d) == \E i \in DOMAIN d : d[i] \in {"page", "error", "badStatus"}

\* The answer of a fastcgi program with a Status header replaces its page, and
\* stoi throws if the status is no number.
Throws(r) ==
  \/ ~HasHeaders(data[r])
  \/ Kind[r] = "fastcgi" /\ Contains(data[r], "badStatus")
Parsed(r) ==
  IF Kind[r] = "fastcgi" /\ Contains(data[r], "error") THEN "errorPage" ELSE "page"

\* Mutant of AtEnd: the end of the process is waited for instead.
AtEndExited(r) == program[r] = "exited"

\* ReadFile reports the end of the pipe.
AtEnd(r) == pipe[r] = <<>> /\ ~WriterLeft(r)

\* Mutant of AfterAnswer: the process handle is forgotten.
AfterAnswerKept(h) == h \cap {"process"}

\* CloseHandle of the process and of the read end (lines 207-209, 356-358).
AfterAnswer(h) == h \ {"process", "read"}

FinishReading(r) ==
  /\ ~aborted
  /\ pc[r] = "read" /\ AtEnd(r)
  /\ IF Throws(r)
     THEN aborted' = TRUE /\ UNCHANGED <<pc, resp, handles>>
     ELSE /\ pc' = [pc EXCEPT ![r] = "done"]
          /\ resp' = [resp EXCEPT ![r] = Parsed(r)]
          /\ handles' = [handles EXCEPT ![r] = AfterAnswer(@)]
          /\ UNCHANGED aborted
  /\ UNCHANGED <<todo, env, pipe, data, inherited, met, programVars>>

Handler(r) ==
  \/ Begin(r) \/ SetVariable(r) \/ CreateProcess(r) \/ WriteBody(r)
  \/ CloseWrite(r) \/ ReadPipe(r) \/ FinishReading(r)

---------------------------------------------------------------------------
\* The programs (external).

\* A fastcgi program reads as much input as CONTENT_LENGTH tells it.
Wants(r) ==
  IF Kind[r] = "fastcgi" THEN LengthBy(childEnv[r]["CONTENT_LENGTH"]) ELSE 0

ReadInput(r) ==
  /\ ~aborted
  /\ program[r] = "running" /\ stdin[r] < Wants(r) /\ ~wrote[r]
  /\ pipe[r] # <<>>
  /\ pipe' = [pipe EXCEPT ![r] = Tail(@)]
  /\ stdin' = [stdin EXCEPT ![r] = @ + 1]
  /\ UNCHANGED <<pc, todo, env, handles, data, resp, inherited, met, program,
                 childEnv, wrote, aborted>>

WriteOutput(r) ==
  /\ ~aborted
  /\ program[r] = "running" /\ ~wrote[r]
  /\ \/ /\ stdin[r] = Wants(r)
        /\ Len(pipe[r]) < PipeSize
        /\ \E o \in Outputs \ {"nothing"} : pipe' = [pipe EXCEPT ![r] = Append(@, o)]
     \/ "nothing" \in Outputs /\ UNCHANGED pipe
  /\ wrote' = [wrote EXCEPT ![r] = TRUE]
  /\ UNCHANGED <<pc, todo, env, handles, data, resp, inherited, met, program,
                 childEnv, stdin, aborted>>

\* Its handles are closed when it exits.
Exit(r) ==
  /\ ~aborted
  /\ program[r] = "running" /\ wrote[r]
  /\ program' = [program EXCEPT ![r] = "exited"]
  /\ inherited' = [q \in Requests |-> inherited[q] \ {r}]
  /\ UNCHANGED <<pc, todo, env, handles, pipe, data, resp, met, childEnv, stdin,
                 wrote, aborted>>

Program(r) == ReadInput(r) \/ WriteOutput(r) \/ Exit(r)

Next == \E r \in Requests : Handler(r) \/ Program(r)

Spec == Init /\ [][Next]_vars

\* A worker that has begun goes on, and programs run until they exit; requests
\* need not come.
Fairness ==
  \A r \in Requests : /\ WF_vars(pc[r] # "new" /\ Handler(r))
                      /\ WF_vars(Program(r))

FairSpec == Spec /\ Fairness

---------------------------------------------------------------------------
\* Properties.

\* A variable that a request sets reaches its program with the value of that
\* request or of one handled at the same time, never with one left behind.
EnvironmentFresh ==
  \A r \in Requests : program[r] # "none" =>
    /\ \A n \in Mandatory \cup Sends[r] : childEnv[r][n] \in met[r]
    /\ Kind[r] = "fastcgi" => childEnv[r]["CONTENT_LENGTH"] \in met[r]

\* An answer is only made of the complete output: the program has exited, and
\* with it every program that was started before the pipe was closed.
AnswerComplete ==
  \A r \in Requests : resp[r] \in {"page", "errorPage"} =>
    program[r] = "exited" /\ pipe[r] = <<>> /\ inherited[r] = {}

\* Every program that answered leaves the server no handle, whatever failed in
\* other requests.
HandlesReleased ==
  \A r \in Requests : resp[r] \in {"page", "errorPage"} => handles[r] = {}

\* A request the handler cannot convert ends the server before its program runs.
Unconvertible(r) ==
  \/ pc[r] = "new" /\ "path" \in Garbled[r]
  \/ /\ pc[r] = "env" /\ todo[r] # <<>>
     /\ Head(todo[r]) \in Garbled[r] \cap Converted(r)

\* Once a program is started, the server only dies of it if it ended without a
\* complete header or with a Status that is no number: never of a request body
\* read back, nor of output it has not waited for.  Before, it dies of text of
\* the request that it converts and that has no conversion.
AbortHasCause ==
  aborted => \E r \in Requests :
    \/ Unconvertible(r)
    \/ /\ program[r] = "exited"
       /\ \A i \in DOMAIN data[r] : data[r][i] # "page"

\* A request ends with the complete answer of its program or, for a cause, with
\* the server.
AnswerSound == TypeOK /\ AnswerComplete /\ AbortHasCause

\* WriteFile waits for room that nobody makes: the program of r has exited and
\* left a full pipe, which the server itself keeps from breaking.
Stuck(r) ==
  /\ pc[r] = "write" /\ program[r] = "exited"
  /\ Len(pipe[r]) = PipeSize /\ Written(r) < Body[r]

\* Provided every program exits in the end, every request is answered or the
\* server ends, although programs of other requests may hold its pipe open.  The
\* one way to hang is a program that exits before it has read enough of a body
\* that does not fit into the pipe.
Answered ==
  (\A r \in Requests : program[r] = "running" ~> program[r] = "exited")
    => \A r \in Requests :
         pc[r] # "new" ~> pc[r] = "done" \/ aborted \/ Stuck(r)

\* "HTTP_COOKIE: all cookies sent by the client", "REQUEST_METHOD: the HTTP method
\* the client used" (http_proto.h:136, 143): what a program is told of its client
\* comes from the request it answers.
EnvironmentOfClient ==
  \A r \in Requests : program[r] # "none" =>
    /\ childEnv[r]["REQUEST_METHOD"] = r
    /\ childEnv[r]["HTTP_COOKIE"] = IF "HTTP_COOKIE" \in Sends[r] THEN r ELSE None
===========================================================================
