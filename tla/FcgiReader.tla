---------------------------- MODULE FcgiReader ----------------------------
(***************************************************************************)
(* How a FastCGI application reads a connection (fcgiapp.c): FillBuffProc, *)
(* the record handlers it calls, the parameter reader and the operations   *)
(* of an input stream.                                                     *)
(*                                                                         *)
(* The connection is a sequence of records, and a record is HeadLen units  *)
(* of header, len units of content and pad units of padding.  Pointers     *)
(* into the stream's buffer are positions in the connection, so that the   *)
(* buffer holds the units up to in.buffStop and the client may take those  *)
(* from in.rdNext to in.stop.  A read returns any number of units, so      *)
(* headers, content and padding arrive split and joined in every way.      *)
(*                                                                         *)
(* pc says who runs: "idle" the application, "fill" the outer call of      *)
(* FillBuffProc, "body" and "values" the calls nested in ProcessHeader     *)
(* (data->eorStop), "retry" Accept_r giving the connection up.  Who called *)
(* the outer one follows from the type of the stream: Accept_r for "NONE", *)
(* ReadParams for "PARAMS", the application for "STDIN" and "DATA".        *)
(***************************************************************************)
EXTENDS Integers, Sequences, SequencesExt, FiniteSetsExt

CONSTANTS
  HeadLen,     \* units of a header, sizeof(FCGI_Header)
  BeginLen,    \* units in the content of a BEGIN record
  BuffLen,     \* units the buffer holds
  VecLen,      \* entries of a new parameter vector
  Ids,         \* request numbers
  Connections, \* what web servers send: sequences of requests, each a
               \* sequence of records
  MaxRead,     \* the largest n of FCGX_GetStr
  Faults       \* what may fail: "eof", "read", "write"

NullId == 0
ManagementTypes == {"GET_VALUES", "OTHER"}
RecordTypes == {"BEGIN", "ABORT", "PARAMS", "STDIN", "DATA"} \cup ManagementTypes
Roles == {"RESPONDER", "AUTHORIZER", "FILTER"}

Records == [type : RecordTypes, id : Ids \cup {NullId}, len : Nat, pad : Nat,
            role : Roles \cup {"NONE", "OTHER"}, keep : BOOLEAN]

ASSUME ReaderAssumption ==
  /\ HeadLen \in Nat \ {0} /\ BeginLen \in Nat \ {0} /\ BuffLen \in Nat \ {0}
  /\ VecLen \in Nat \ {0, 1} /\ MaxRead \in Nat \ {0}
  /\ NullId \notin Ids
  /\ Connections \subseteq Seq(Seq(Records)) \ {<<>>}
  /\ \A c \in Connections : \A i \in DOMAIN c : \A j \in DOMAIN c[i] :
       c[i][j].id = NullId <=> c[i][j].type \in ManagementTypes
  /\ Faults \subseteq {"eof", "read", "write"}

VARIABLES
  script,    \* the records sent on the connection so far
  rest,      \* the requests the web server has not sent yet
  in,        \* the input stream
  req,       \* requestId, isBeginProcessed, role, keepConnection; first is
             \* the number of the BEGIN record
  pc,        \* see above
  headerLen, \* units of the next header gathered (a local of FillBuffProc)
  nested,    \* content units the nested call has taken
  half,      \* ReadParams is between a length and the text it announces
  want,      \* units the application's GetStr still has to move
  vec,       \* the parameter vector: entries and capacity
  got,       \* positions taken by the client since the type was set
  replies    \* records this reader wrote in answer to others

readerVars == <<script, rest, in, req, pc, headerLen, nested, half, want, vec,
                got, replies>>

---------------------------------------------------------------------------
\* The connection.

Size(r) == HeadLen + r.len + r.pad
Offset(records, k) ==
  LET from[i \in 1..(Len(records) + 1)] ==
        IF i = 1 THEN 0 ELSE from[i - 1] + Size(records[i - 1])
  IN  from[k]
Start(k) == Offset(script, k)
Total == Start(Len(script) + 1)
RecordAt(p) == {k \in DOMAIN script : Start(k) = p}
Body(k) == [i \in 1..script[k].len |-> Start(k) + HeadLen + i - 1]

\* What the records of one stream of the request carry, up to its end.
Own(t) == {k \in DOMAIN script : /\ script[k].type = t /\ script[k].id = req.id
                                 /\ k > req.first}
Ends(t) == {k \in Own(t) : script[k].len = 0}
Content(t) ==
  FlattenSeq([k \in DOMAIN script |->
    IF k \in Own(t) /\ \A e \in Ends(t) : k < e THEN Body(k) ELSE <<>>])

---------------------------------------------------------------------------
\* Streams and parameter vectors (lines 1024-1108, 1779-1897).

NewReader(p) ==
  [rdNext |-> p, stop |-> p, stopUnget |-> p, buffStop |-> p, type |-> "NONE",
   skip |-> FALSE, contentLen |-> 0, paddingLen |-> 0, isClosed |-> FALSE,
   errno |-> "none", base |-> p]

\* Mutant of SetReaderType: a stream that ended stays closed.
SetReaderTypeClosed(s, t) ==
  [s EXCEPT !.type = t, !.skip = FALSE, !.contentLen = 0, !.paddingLen = 0,
            !.stop = s.rdNext]

SetReaderType(s, t) ==
  [s EXCEPT !.type = t, !.skip = FALSE, !.contentLen = 0, !.paddingLen = 0,
            !.stop = s.rdNext, !.isClosed = FALSE]

SetError(s, e) ==
  [s EXCEPT !.errno = IF @ = "none" THEN e ELSE @, !.isClosed = TRUE]

NewParams(n) == [size |-> 0, length |-> n]

\* Mutant of PutParam: the vector grows one entry too late.
PutParamLate(v) ==
  [size |-> v.size + 1,
   length |-> IF v.size + 1 > v.length THEN 2 * v.length ELSE v.length]

PutParam(v) ==
  [size |-> v.size + 1,
   length |-> IF v.size + 1 >= v.length THEN 2 * v.length ELSE v.length]

PutParams(v, n) ==
  LET after[i \in 0..n] == IF i = 0 THEN v ELSE PutParam(after[i - 1])
  IN  after[n]

ReaderInit ==
  /\ \E c \in Connections : script = Head(c) /\ rest = Tail(c)
  /\ in = NewReader(0)
  /\ req = [id |-> NullId, begun |-> FALSE, role |-> "NONE", keep |-> FALSE,
            first |-> 0]
  /\ pc = "fill"
  /\ headerLen = 0 /\ nested = 0 /\ half = 0 /\ want = 0
  /\ vec = NewParams(VecLen)
  /\ got = <<>> /\ replies = <<>>

---------------------------------------------------------------------------
\* What happens when the outer FillBuffProc returns with the stream s.

Units(from, to) == [i \in 1..(to - from) |-> from + i - 1]

\* Accept_r, lines 2234-2257.
BeginReturned(s, q) ==
  /\ IF q.begun /\ q.role \in Roles
     THEN /\ in' = SetReaderType(s, "PARAMS")
          /\ vec' = PutParam(NewParams(VecLen))
          /\ pc' = "fill"
     ELSE in' = s /\ pc' = "retry" /\ UNCHANGED vec
  /\ UNCHANGED <<half, got, want>>

\* The end of ReadParams and the rest of Accept_r: lines 1164-1208, 2257-2276.
ParamsEnd(s) ==
  IF half = 1
  THEN in' = SetError(s, "params") /\ pc' = "retry"
  ELSE in' = SetReaderType(s, "STDIN") /\ pc' = "idle"

ParamsReturned(s) ==
  IF s.isClosed
  THEN /\ ParamsEnd(s)
       /\ got' = <<>>
       /\ UNCHANGED <<half, vec, want>>
  ELSE LET n == s.stop - s.rdNext IN
       /\ in' = [s EXCEPT !.stopUnget = s.rdNext, !.rdNext = s.stop]
       /\ vec' = PutParams(vec, (half + n) \div 2)
       /\ half' = (half + n) % 2
       /\ got' = got \o Units(s.rdNext, s.stop)
       /\ pc' = "fill"
       /\ UNCHANGED want

\* GetStr, lines 157-172.
StrReturned(s) ==
  /\ IF s.isClosed
     THEN /\ in' = s /\ pc' = "idle" /\ want' = 0
          /\ UNCHANGED got
     ELSE LET m == Min({want, s.stop - s.rdNext}) IN
          /\ in' = [s EXCEPT !.stopUnget = s.rdNext, !.rdNext = @ + m]
          /\ got' = got \o Units(s.rdNext, s.rdNext + m)
          /\ want' = want - m
          /\ pc' = IF want = m THEN "idle" ELSE "fill"
  /\ UNCHANGED <<half, vec>>

Return(s, q) ==
  /\ CASE s.type = "NONE"   -> BeginReturned(s, q)
       [] s.type = "PARAMS" -> ParamsReturned(s)
       [] OTHER             -> StrReturned(s)
  /\ req' = q
  /\ nested' = 0

Failed(s, e) == Return(SetError(s, e), req)

Loop(s) == in' = s /\ UNCHANGED <<req, pc, nested, half, want, vec, got>>

---------------------------------------------------------------------------
\* ProcessHeader and what it calls (lines 1474-1638).  s is the stream with
\* the header just read, r the record it announces.

\* write_it_all of an answer; carry on with s unless the write fails.
Answer(reply, s) ==
  \/ /\ replies' = Append(replies, reply)
     /\ in' = s /\ pc' = "fill" /\ nested' = 0
     /\ UNCHANGED <<req, half, want, vec, got>>
  \/ /\ "write" \in Faults
     /\ Failed(s, "os")
     /\ UNCHANGED replies

Skip(s) == [s EXCEPT !.skip = TRUE]

Nest(s, place, q) ==
  /\ in' = s /\ pc' = place /\ nested' = 0 /\ req' = q
  /\ UNCHANGED <<half, want, vec, got, replies>>

ProcessBeginRecord(s, k) ==
  LET r == script[k] IN
  CASE r.id = NullId \/ r.len # BeginLen ->
         Failed(s, "protocol") /\ UNCHANGED replies
    [] r.id # NullId /\ r.len = BeginLen /\ req.begun ->
         Answer("CANT_MPX_CONN", Skip(s))
    [] OTHER -> Nest(s, "body", [req EXCEPT !.id = r.id, !.first = k])

\* Mutant of ProcessManagementRecord: values are never answered.
SilentManagement(s, r) == IF r.type = "GET_VALUES" THEN Nest(Skip(s), "fill", req)
                          ELSE Answer("UNKNOWN_TYPE", s)

ProcessManagementRecord(s, r) ==
  IF r.type = "GET_VALUES" THEN Nest(s, "values", req)
                           ELSE Answer("UNKNOWN_TYPE", s)

\* Mutant of IsForeign: records of other requests are taken for errors only.
NeverForeign(r) == FALSE

IsForeign(r) == r.id # req.id

ProcessStreamRecord(s, r) ==
  /\ CASE IsForeign(r) -> Loop(Skip(s))
       [] ~IsForeign(r) /\ r.type # in.type -> Failed(s, "protocol")
       [] ~IsForeign(r) /\ r.type = in.type /\ r.len = 0 ->
            Return([s EXCEPT !.isClosed = TRUE], req)
       [] OTHER -> Loop(s)
  /\ UNCHANGED replies

ProcessHeader(s) ==
  IF RecordAt(s.rdNext - HeadLen) = {}
  THEN Failed([s EXCEPT !.stop = s.rdNext], "version") /\ UNCHANGED replies
  ELSE LET k == CHOOSE n \in RecordAt(s.rdNext - HeadLen) : TRUE
           r == script[k]
           t == [s EXCEPT !.stop = s.rdNext, !.contentLen = r.len,
                          !.paddingLen = r.pad]
       IN  CASE r.type = "BEGIN" -> ProcessBeginRecord(t, k)
             [] r.type # "BEGIN" /\ r.id = NullId -> ProcessManagementRecord(t, r)
             [] OTHER -> ProcessStreamRecord(t, r)

---------------------------------------------------------------------------
\* FillBuffProc (lines 1649-1767).

Reading == pc \in {"fill", "body", "values"}
InBuffer(s) == s.buffStop - s.rdNext

\* The nested call returns to ProcessBeginRecord or ProcessManagementRecord at
\* the end of the record; a nested call that fails ends the same way.
EndOfRecord(s) ==
  CASE pc = "values" /\ s.errno = "none" /\ nested % 2 = 0 ->
         Answer("GET_VALUES_RESULT", [s EXCEPT !.stop = s.rdNext])
    [] pc = "values" /\ s.errno = "none" /\ nested % 2 = 1 ->
         Failed(s, "params") /\ UNCHANGED replies
    [] OTHER -> Failed(s, "protocol") /\ UNCHANGED replies

OS_Read ==
  /\ Reading /\ InBuffer(in) = 0
  /\ \E n \in 1..Min({BuffLen, Total - in.buffStop}) :
       in' = [in EXCEPT !.buffStop = @ + n]
  /\ UNCHANGED <<script, rest, req, pc, headerLen, nested, half, want, vec, got,
                 replies>>

OS_ReadFails ==
  /\ Reading /\ InBuffer(in) = 0
  /\ \E e \in {"eof", "read"} \cap Faults :
       LET s == SetError(in, IF e = "eof" THEN "protocol" ELSE "os") IN
       IF pc = "fill" THEN Return(s, req) /\ UNCHANGED replies
                      ELSE EndOfRecord(s)
  /\ headerLen' = 0
  /\ UNCHANGED <<script, rest>>

\* Content goes to the caller: lines 1674-1680.
Deliver ==
  /\ Reading /\ InBuffer(in) > 0 /\ in.contentLen > 0 /\ ~in.skip
  /\ LET c == Min({in.contentLen, InBuffer(in)})
         s == [in EXCEPT !.contentLen = @ - c, !.stop = in.rdNext + c]
         t == [s EXCEPT !.rdNext = @ + c, !.stopUnget = in.rdNext]
         r == script[req.first]
     IN  CASE pc = "fill" -> Return(s, req)
           [] pc = "body" /\ t.contentLen = 0 ->
                Return(t, [req EXCEPT !.begun = TRUE, !.role = r.role,
                                      !.keep = r.keep])
           [] OTHER -> /\ in' = t /\ nested' = nested + c
                       /\ UNCHANGED <<req, pc, half, want, vec, got>>
  /\ headerLen' = 0
  /\ UNCHANGED <<script, rest, replies>>

SkipContent(s) ==
  LET c == Min({s.contentLen, InBuffer(s)})
  IN  [s EXCEPT !.rdNext = @ + c, !.contentLen = @ - c,
                !.skip = @ /\ (s.contentLen = 0 \/ c < s.contentLen)]

\* Mutant of SkipPadding: rdNext runs past what has been read.
SkipPaddingPast(s) == [s EXCEPT !.rdNext = @ + s.paddingLen, !.paddingLen = 0]

\* Mutant of SkipPadding: the padding is taken to be in the buffer.
SkipPaddingAtOnce(s) ==
  LET p == Min({s.paddingLen, InBuffer(s)})
  IN  [s EXCEPT !.rdNext = @ + p, !.paddingLen = 0]

SkipPadding(s) ==
  LET p == Min({s.paddingLen, InBuffer(s)})
  IN  [s EXCEPT !.rdNext = @ + p, !.paddingLen = @ - p]

\* The rest of the loop: lines 1681-1766.
NextRecord ==
  /\ Reading /\ InBuffer(in) > 0 /\ ~(in.contentLen > 0 /\ ~in.skip)
  /\ LET c == SkipContent(in)
         p == SkipPadding(c)
         n == Min({HeadLen - headerLen, InBuffer(p)})
         h == [p EXCEPT !.rdNext = @ + n]
     IN  \/ /\ c.contentLen > 0
            /\ Loop(c)
            /\ UNCHANGED <<headerLen, replies>>
         \/ /\ c.contentLen = 0 /\ p.paddingLen > 0
            /\ Loop(p)
            /\ UNCHANGED <<headerLen, replies>>
         \/ /\ c.contentLen = 0 /\ p.paddingLen = 0 /\ pc # "fill"
            /\ EndOfRecord(p)
            /\ UNCHANGED headerLen
         \/ /\ c.contentLen = 0 /\ p.paddingLen = 0 /\ pc = "fill"
            /\ headerLen + n < HeadLen
            /\ Loop(h)
            /\ headerLen' = headerLen + n
            /\ UNCHANGED replies
         \/ /\ c.contentLen = 0 /\ p.paddingLen = 0 /\ pc = "fill"
            /\ headerLen + n = HeadLen
            /\ ProcessHeader(h)
            /\ headerLen' = 0
  /\ UNCHANGED <<script, rest>>

---------------------------------------------------------------------------
\* What the application does with the stream (lines 101-261, 2302-2314).

Idle == pc = "idle"

GetStr(n) ==
  /\ Idle /\ ~in.isClosed
  /\ LET m == Min({n, in.stop - in.rdNext}) IN
     /\ in' = [in EXCEPT !.rdNext = @ + m]
     /\ got' = got \o Units(in.rdNext, in.rdNext + m)
     /\ want' = n - m
     /\ pc' = IF m = n THEN "idle" ELSE "fill"
  /\ UNCHANGED <<script, rest, req, headerLen, nested, half, vec, replies>>

GetChar == GetStr(1)

\* Up to n - 1 units, fewer when a newline comes first.
GetLine(n) == \E m \in 2..(n - 1) : GetStr(m)

\* Mutant of MayUnget: a window of its own is not kept for each fill.
MayUngetAlways(s) == ~s.isClosed

MayUnget(s) == ~s.isClosed /\ s.rdNext # s.stopUnget

\* The application gives back the unit it took last.
UnGetChar ==
  /\ Idle /\ MayUnget(in) /\ got # <<>>
  /\ in' = [in EXCEPT !.rdNext = @ - 1]
  /\ got' = Front(got)
  /\ UNCHANGED <<script, rest, req, pc, headerLen, nested, half, want, vec,
                 replies>>

HasSeenEOF == in.isClosed
GetError == in.errno

StartFilterData ==
  /\ Idle /\ in.type = "STDIN"
  /\ IF req.role = "FILTER" /\ HasSeenEOF
     THEN in' = SetReaderType(in, "DATA") /\ got' = <<>>
     ELSE in' = SetError(in, "callSeq") /\ UNCHANGED got
  /\ UNCHANGED <<script, rest, req, pc, headerLen, nested, half, want, vec,
                 replies>>

ReaderStep == OS_Read \/ OS_ReadFails \/ Deliver \/ NextRecord
ApplicationReads ==
  \/ GetChar \/ GetLine(MaxRead + 1) \/ UnGetChar \/ StartFilterData

---------------------------------------------------------------------------
\* Accept_r on the same connection (lines 2232-2234): the web server has sent
\* its next request, the rest of the old reader's buffer is gone.
AcceptAgain ==
  /\ Idle /\ req.keep /\ GetError = "none" /\ rest # <<>>
  /\ script' = script \o Head(rest) /\ rest' = Tail(rest)
  /\ in' = NewReader(in.buffStop)
  /\ req' = [req EXCEPT !.begun = FALSE]
  /\ pc' = "fill"
  /\ got' = <<>> /\ replies' = <<>>
  /\ UNCHANGED <<headerLen, nested, half, want, vec>>

ReaderNext == ReaderStep \/ ApplicationReads \/ AcceptAgain
ReaderSpec == ReaderInit /\ [][ReaderNext]_readerVars

---------------------------------------------------------------------------
\* Properties.

\* Three shapes of records this reader does not follow: a management record of
\* an unknown type with content (handed to the client of the stream), an empty
\* record of another request (the next record is skipped in its place), and
\* padding after a BEGIN record or after the end of a stream (forgotten by
\* SetReaderType, read as a header).
Unfollowed(r) ==
  \/ r.type = "OTHER" /\ r.len > 0
  \/ r.type \notin ManagementTypes \cup {"BEGIN"} /\ r.len = 0 /\ r.id # req.id
  \/ r.pad > 0 /\ (r.type = "BEGIN" \/ r.len = 0)
Seen == {k \in DOMAIN script : Start(k) >= in.base}
Aligned(p) == \E k \in 1..(Len(script) + 1) : Start(k) = p
\* The reader was started on a record and met none of those shapes.
Regular == Aligned(in.base) /\ \A k \in Seen : ~Unfollowed(script[k])

\* The pointers stay ordered, and everything has its type.
TypeOK ==
  /\ in.stopUnget <= in.buffStop /\ in.rdNext <= in.buffStop
  /\ ~Reading /\ ~in.isClosed => in.rdNext <= in.stop
  /\ in.stop <= in.buffStop /\ in.buffStop <= Total
  /\ in.type \in {"NONE", "PARAMS", "STDIN", "DATA"}
  /\ in.contentLen \in Nat /\ in.paddingLen \in Nat
  /\ in.skip \in BOOLEAN /\ in.isClosed \in BOOLEAN
  /\ in.errno \in {"none", "protocol", "version", "params", "os", "callSeq"}
  /\ req.id \in Ids \cup {NullId} /\ req.begun \in BOOLEAN
  /\ pc \in {"idle", "fill", "body", "values", "retry"}
  /\ headerLen \in 0..(HeadLen - 1) /\ half \in {0, 1}
  /\ want \in 0..MaxRead /\ nested \in Nat
  /\ \A i \in DOMAIN replies :
       replies[i] \in {"CANT_MPX_CONN", "UNKNOWN_TYPE", "GET_VALUES_RESULT"}

\* However the reads split and join the records, the headers are found: a
\* reader that starts on a record boundary never takes content or padding for
\* a header (FillBuffProc's gathering and skipping, lines 1673-1717).
InSync == Regular => in.errno # "version"

\* The client of a stream gets the content of the stream's own records of its
\* own request, in order, nothing twice and nothing of another request
\* (FillBuffProc, ProcessHeader and the read operations together).  After an
\* error a stream that is given another type goes on in the middle of a record.
OwnContent ==
  req.begun /\ in.errno = "none" /\ Regular => IsPrefix(got, Content(in.type))

\* A stream that ends without an error has been delivered whole, and its end
\* record was sent: a cut connection is not taken for the end of the body.
EofHonest ==
  Idle /\ in.isClosed /\ in.errno = "none" /\ Regular
    => got = Content(in.type) /\ Ends(in.type) # {}

\* A request accepted without an error has every parameter that was sent, and
\* the vector keeps room for the closing NULL (ReadParams, PutParam, line 2276).
EnvironmentComplete ==
  /\ vec.size < vec.length
  /\ Idle /\ in.errno = "none" /\ Regular
       => vec.size = 1 + Len(Content("PARAMS")) \div 2

\* What the application gives back is the unit before rdNext: units given back
\* are read again as they were (UnGetChar's window, stopUnget).
UngetSound ==
  Idle /\ ~in.isClosed /\ got # <<>> /\ in.rdNext # in.stopUnget
    => got[Len(got)] = in.rdNext - 1

\* Every management record, and every attempt to multiplex the connection, was
\* answered once and in order (ProcessManagementRecord, ProcessBeginRecord).
Expected(k) ==
  CASE script[k].type = "GET_VALUES"               -> <<"GET_VALUES_RESULT">>
    [] script[k].type = "OTHER"                    -> <<"UNKNOWN_TYPE">>
    [] script[k].type = "BEGIN" /\ k # req.first   -> <<"CANT_MPX_CONN">>
    [] OTHER                                       -> <<>>
RepliesMatch ==
  Idle /\ in.errno = "none" /\ Regular
    => replies = FlattenSeq([k \in DOMAIN script |->
                   IF k \in Seen /\ Start(k) + HeadLen <= in.rdNext
                   THEN Expected(k) ELSE <<>>])

\* The records of a connection are found, one after the other, and those for the
\* library are answered, however the reads cut them.
RecordsFollowed == TypeOK /\ InSync /\ RepliesMatch

\* The application reads the content of its stream: from the start, nothing else,
\* to the end and not to an end that was not sent, through every giving back.
ContentDelivered == OwnContent /\ EofHonest /\ UngetSound
===========================================================================
