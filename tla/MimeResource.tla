--------------------------- MODULE MimeResource ---------------------------
(***************************************************************************)
(* handle_mime (http_handler.cpp) with file_utils.cpp, parse_range and     *)
(* make_http_response (http_parse.cpp): one request for one static file    *)
(* after the other, while other programs replace or remove the file.       *)
(*                                                                         *)
(* A file is its size, its modification time in seconds and the number of  *)
(* the write that produced it (its content).  The handler looks at it up   *)
(* to four times: the stat that fixes Content-Length and ETag, the stat of *)
(* readFileAndTimestamp, the open and read, the stat after it.  A response *)
(* is its status, the value of its Content-Length header and its body: so  *)
(* many bytes of a version from an offset on, then zero bytes.             *)
(*                                                                         *)
(* ETags are the pair they are hashed from; collisions are left out.       *)
(***************************************************************************)
EXTENDS Integers

CONSTANTS
  MaxSize,       \* bound on the size of the file
  MaxWrites,     \* bound on the number of times it is replaced
  MaxTime,       \* bound on the clock, in seconds
  SameSecond,    \* whether it may be replaced twice in a second
  RangeHeaders,  \* Range headers clients send
  LongMax,       \* the largest `long`
  PageSize,      \* the size of an error page
  None           \* no file, no header

ASSUME BoundsAssumption ==
  /\ MaxSize \in Nat /\ MaxWrites \in Nat /\ MaxTime \in Nat
  /\ SameSecond \in BOOLEAN
  /\ PageSize \in Nat
  /\ LongMax \in Nat /\ MaxSize <= LongMax
  /\ RangeHeaders \subseteq {"slice"} \X Nat \X Nat \cup {"from", "last"} \X Nat
                            \cup {<<"garbled">>, <<"foreign">>}

VARIABLES
  file,      \* [size, mtime, version] or None
  now,       \* the file system's clock
  writes,    \* how many versions have been written
  pc,        \* "idle", "stat", "sizing", "read", "touch", "send"
  req,       \* the request: [method, decodes, range, ifRange, ifNoneMatch]
  seen,      \* the file as the first stat found it
  span,      \* [start, end, status]: what will be read, and for which status
  resp,      \* the response
  cache,     \* the client's copy: [etag, version] or None
  undisturbed, \* the file has not changed since the request began
  missed,    \* the file was absent at some moment of the request
  emptied,   \* the file was empty at some moment of the request
  refused,   \* the file was there and could not be opened
  aborted    \* an exception nobody catches ended the process

fileVars == <<file, now, writes>>
history == <<undisturbed, missed, emptied, refused>>
vars == <<fileVars, pc, req, seen, span, resp, cache, history, aborted>>

Files == [size : 0..MaxSize, mtime : 0..MaxTime, version : 1..MaxWrites]
ETag(f) == <<f.size, f.mtime>>
ETags == {ETag(f) : f \in Files}

Requests ==
  [method : {"GET", "HEAD", "PUT"},
   decodes : BOOLEAN,        \* urlDecode has a text for the path
   range : RangeHeaders \cup {None},
   ifRange : BOOLEAN,        \* carries the ETag of the client's copy
   ifNoneMatch : BOOLEAN]    \* likewise

\* What the client keeps of a response.
Copies == [etag : ETags, version : 1..MaxWrites]

ASSUME NoneAssumption ==
  None \notin Files /\ None \notin Requests /\ None \notin Copies
    /\ None \notin RangeHeaders

\* A response with `data` bytes of a version, from offset `from` on, and
\* padded to `bodyLen` bytes.
Response(status, length, bodyLen, version, from, data) ==
  [status |-> status, contentLength |-> length, bodyLen |-> bodyLen,
   version |-> version, from |-> from, data |-> data]

NoResponse == Response(0, 0, 0, 0, 0, 0)
ErrorPage(status) == Response(status, PageSize, PageSize, 0, 0, 0)
NoSpan == [start |-> 0, end |-> 0, status |-> 0]

\* A 64-bit offset passed as `long`.
Long(x) == ((x + LongMax + 1) % (2 * (LongMax + 1))) - (LongMax + 1)

TypeOK ==
  /\ file \in Files \cup {None}
  /\ now \in 0..MaxTime
  /\ writes \in 0..MaxWrites
  /\ pc \in {"idle", "stat", "sizing", "read", "touch", "send"}
  /\ req \in Requests \cup {None}
  /\ seen \in Files \cup {None}
  /\ span \in [start : Int, end : Int, status : {0, 200, 206}]
  /\ resp.status \in {0, 200, 206, 304, 404, 405, 500}
  /\ resp.bodyLen \in Nat /\ resp.data \in 0..resp.bodyLen
  /\ cache \in Copies \cup {None}
  /\ {undisturbed, missed, emptied, refused, aborted} \subseteq BOOLEAN

Init ==
  /\ file = None
  /\ now = 0
  /\ writes = 0
  /\ pc = "idle"
  /\ req = None
  /\ seen = None
  /\ span = NoSpan
  /\ resp = NoResponse
  /\ cache = None
  /\ undisturbed = TRUE /\ missed = FALSE /\ emptied = FALSE /\ refused = FALSE
  /\ aborted = FALSE

---------------------------------------------------------------------------
\* The file system (external).

Observe(f) ==
  /\ undisturbed' = FALSE
  /\ missed' = (missed \/ f = None)
  /\ emptied' = (emptied \/ (f # None /\ f.size = 0))

Write(size) ==
  /\ ~aborted
  /\ writes < MaxWrites
  /\ SameSecond \/ now < MaxTime
  /\ writes' = writes + 1
  /\ file' = [size |-> size, mtime |-> now, version |-> writes + 1]
  /\ now' \in IF SameSecond THEN {now, now + 1} \cap 0..MaxTime ELSE {now + 1}
  /\ Observe(file')
  /\ UNCHANGED <<pc, req, seen, span, resp, cache, refused, aborted>>

Remove ==
  /\ ~aborted
  /\ file # None
  /\ file' = None
  /\ Observe(file')
  /\ UNCHANGED <<now, writes, pc, req, seen, span, resp, cache, refused, aborted>>

---------------------------------------------------------------------------
\* parse_range: "bytes=a-b" is <<"slice", a, b>>, "bytes=a-" <<"from", a>>,
\* "bytes=-b" <<"last", b>>, a value that is no number <<"garbled">>, another
\* unit <<"foreign">>.  The delimiter that is not read in the cases "last" and
\* "garbled" is uninitialized, and either way end stays -1.
parse_range(h) ==
  CASE h[1] = "slice"   -> [start |-> h[2], end |-> h[3]]
    [] h[1] = "from"    -> [start |-> h[2], end |-> -1]
    [] h[1] = "last"    -> [start |-> -h[2], end |-> -1]
    [] h[1] = "garbled" -> [start |-> 0, end |-> -1]
    [] h[1] = "foreign" -> [start |-> -1, end |-> -1]

\* Mutant of Honours: any If-Range header lets the range through.
HonoursAnyTag(r) == TRUE

\* The If-Range header of r allows a partial response.
Honours(r) == r.ifRange => cache.etag = ETag(file)

\* The bytes a Range request asks for (lines 36-64).
RangeSpan(r) ==
  LET p == parse_range(r.range)
      last == file.size - 1
      end == IF p.end = -1 THEN last ELSE p.end
  IN  IF p.start = 0 \/ ~Honours(r)
      THEN [start |-> p.start, end |-> end, status |-> 200]
      ELSE [start |-> IF p.start = -1 THEN 0 ELSE p.start, end |-> end,
            status |-> 206]

\* Mutants of WholeSpan: two bytes less, two bytes more.
WholeSpanShort == [start |-> 0, end |-> file.size - 2, status |-> 200]
WholeSpanLong == [start |-> 0, end |-> file.size + 1, status |-> 200]

\* What readFileAndTimestamp reads: [0, size - 1).
WholeSpan == [start |-> 0, end |-> file.size - 1, status |-> 200]

\* Mutant of StatFails: a size of 0 is taken for an error.
StatFailsOnEmpty == ~(file # None /\ file.size > 0)

\* stat() reports an error, getFileBytesCount throws runtime_error.
StatFails == file = None

\* A runtime_error: caught in line 75 when the whole file was asked for (line
\* 77 compares addresses, which are never equal), in line 88 otherwise.
ErrorStatus(r) == IF r.range = None THEN 500 ELSE 404

\* `if (request.method == "HEAD") response.body = "";`
Bodiless(r, p) ==
  IF r.method = "HEAD"
  THEN [p EXCEPT !.bodyLen = 0, !.data = 0, !.version = 0]
  ELSE p

Answer(p) ==
  /\ resp' = Bodiless(req, p)
  /\ pc' = "send"

---------------------------------------------------------------------------
\* handle_mime.

\* A request arrives; a client has validators only with a copy.  urlDecode is
\* called before the try: its range_error (or assertion) ends the process.
Begin(r) ==
  /\ ~aborted
  /\ pc = "idle"
  /\ r.ifRange \/ r.ifNoneMatch => cache # None
  /\ r.ifRange => r.range # None
  /\ req' = r
  /\ undisturbed' = TRUE
  /\ missed' = (file = None)
  /\ emptied' = (file # None /\ file.size = 0)
  /\ refused' = FALSE
  /\ \/ /\ ~r.decodes
        /\ aborted' = TRUE
        /\ UNCHANGED <<resp, pc>>
     \/ /\ r.decodes /\ r.method = "PUT"
        /\ resp' = ErrorPage(405)
        /\ pc' = "send"
        /\ UNCHANGED aborted
     \/ /\ r.decodes /\ r.method # "PUT"
        /\ pc' = "stat"
        /\ UNCHANGED <<resp, aborted>>
  /\ UNCHANGED <<fileVars, seen, span, cache>>

\* Mutant of Fresh: only the sizes are compared.
FreshBySize == file.size = cache.etag[1]

\* The client's copy has the ETag of the file.
Fresh == cache.etag = ETag(file)

\* getFileBytesCount and what follows from it (lines 19-36, 51-54).
Stat ==
  /\ ~aborted
  /\ pc = "stat"
  /\ \/ /\ StatFails
        /\ Answer(ErrorPage(404))
        /\ UNCHANGED <<seen, span>>
     \/ /\ ~StatFails
        /\ seen' = file
        /\ req.ifNoneMatch /\ Fresh
        /\ resp' = Response(304, file.size, 0, 0, 0, 0)
        /\ pc' = "send"
        /\ UNCHANGED span
     \/ /\ ~StatFails
        /\ seen' = file
        /\ ~(req.ifNoneMatch /\ Fresh)
        /\ req.range # None
        /\ span' = RangeSpan(req)
        /\ pc' = "read"
        /\ UNCHANGED resp
     \/ /\ ~StatFails
        /\ seen' = file
        /\ ~(req.ifNoneMatch /\ Fresh)
        /\ req.range = None
        /\ pc' = "sizing"
        /\ UNCHANGED <<resp, span>>
  /\ UNCHANGED <<fileVars, req, cache, history, aborted>>

\* readFileAndTimestamp asks for the size again.
Sizing ==
  /\ ~aborted
  /\ pc = "sizing"
  /\ IF StatFails
     THEN Answer(ErrorPage(ErrorStatus(req))) /\ UNCHANGED span
     ELSE span' = WholeSpan /\ pc' = "read" /\ UNCHANGED resp
  /\ UNCHANGED <<fileVars, req, seen, cache, history, aborted>>

Start  == Long(span.start)
Length == Long(Long(span.end) - Start)

\* Mutant of Delivered: read() is asked for the file, not for the buffer.
DeliveredAll(f) == IF Start < 0 \/ Start >= f.size THEN 0 ELSE f.size - Start

\* How many bytes ifstream::read delivers after seekg(start).
Delivered(f) ==
  IF Start < 0 \/ Start >= f.size THEN 0
  ELSE IF Length < f.size - Start THEN Length ELSE f.size - Start

\* readPartialFile: open (which fails for no file, and may for one that another
\* program has open, that may not be read or that is a directory), resize (a
\* negative size throws length_error, which is no runtime_error), seek and read.
Read ==
  /\ ~aborted
  /\ pc = "read"
  /\ \/ /\ refused' = (file # None)
        /\ Answer(ErrorPage(ErrorStatus(req)))
        /\ UNCHANGED aborted
     \/ /\ file # None
        /\ Length < 0
        /\ aborted' = TRUE
        /\ UNCHANGED <<resp, pc, refused>>
     \/ /\ file # None
        /\ Length >= 0
        /\ resp' = Response(span.status, seen.size, Length, file.version, Start,
                            Delivered(file))
        /\ pc' = "touch"
        /\ UNCHANGED <<aborted, refused>>
  /\ UNCHANGED <<fileVars, req, seen, span, cache, undisturbed, missed, emptied>>

\* The stat at the end of readPartialFile, then the headers.
Touch ==
  /\ ~aborted
  /\ pc = "touch"
  /\ Answer(IF StatFails THEN ErrorPage(ErrorStatus(req)) ELSE resp)
  /\ UNCHANGED <<fileVars, req, seen, span, cache, history, aborted>>

\* make_http_response, write_some, and the client that keeps what it got.
Send ==
  /\ ~aborted
  /\ pc = "send"
  /\ pc' = "idle"
  /\ cache' = IF resp.status = 200 /\ resp.version # 0 /\ req.range = None
              THEN [etag |-> ETag(seen), version |-> resp.version]
              ELSE cache
  /\ req' = None
  /\ seen' = None
  /\ span' = NoSpan
  /\ resp' = NoResponse
  /\ undisturbed' = TRUE /\ missed' = FALSE /\ emptied' = FALSE /\ refused' = FALSE
  /\ UNCHANGED <<fileVars, aborted>>

Next ==
  \/ \E size \in 0..MaxSize : Write(size)
  \/ Remove
  \/ \E r \in Requests : Begin(r)
  \/ Stat \/ Sizing \/ Read \/ Touch \/ Send

Spec == Init /\ [][Next]_vars

---------------------------------------------------------------------------
\* Properties.

Sending == pc = "send"

\* When the file did not change during the request, a response to a request for
\* the whole file holds bytes of the present version from the start of the file
\* on, all of them but at most the last, and no padding.
UndisturbedBody ==
  Sending /\ undisturbed /\ req.range = None /\ resp.version # 0
    => /\ resp.version = file.version
       /\ resp.from = 0
       /\ resp.data = resp.bodyLen
       /\ resp.data >= file.size - 1

\* Bytes sent as a continuation (206) of a copy that If-Range names belong to the
\* version of that copy, when the file did not change during the request.
ResumeMatchesCopy ==
  Sending /\ undisturbed /\ req.ifRange /\ resp.status = 206 /\ resp.version # 0
    => resp.version = cache.version

\* "304 Not Modified: the client's cached resource has not been modified and the
\* cached version can be used" (http_proto.h:84): the copy is the content the
\* first stat saw, unless the file was replaced twice in a second (SameSecond).
NotModifiedHonest ==
  Sending /\ resp.status = 304 => cache.version = seen.version

\* A 404 or a 500 is only answered if the file was absent at some moment of the
\* request, however often it is looked up, or was there and could not be opened.
ErrorsForCause ==
  Sending /\ resp.status \in {404, 500} => missed \/ refused

\* What is answered is true of the file: its whole body, a continuation of the
\* client's copy, that the copy is still good, or that there was no file to read.
ResponseSound ==
  TypeOK /\ UndisturbedBody /\ ResumeMatchesCopy /\ NotModifiedHonest
    /\ ErrorsForCause

\* A request without a Range header, whose path urlDecode has a text for, only
\* ends the process (length_error) if the file was empty at some moment of it.
PlainAbortsForCause ==
  aborted /\ req.range = None /\ req.decodes => emptied

\* "Content-Length: the length of the response body in bytes" (http_proto.h:47),
\* of a response with a whole file.
ContentLengthCorrect ==
  Sending /\ req.method # "HEAD" /\ req.range = None /\ resp.version # 0
    => resp.bodyLen = resp.contentLength
===========================================================================
