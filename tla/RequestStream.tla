--------------------------- MODULE RequestStream ---------------------------
(***************************************************************************)
(* The bytes of one connection: handle_listener (server.cpp) with          *)
(* http_req_parse (http_parse.cpp), urlDecode, trim, q_split_string and    *)
(* getExtensionFromPath (tools.cpp) and the reply of make_http_response.   *)
(*                                                                         *)
(* Text is a sequence of units: the delimiters the code looks for, words   *)
(* and numbers.  The network hands it over in pieces, and each piece is    *)
(* parsed as a request; a reply is handed to one write_some.  The client   *)
(* takes a reply to be its head and as many units as the head announces.   *)
(***************************************************************************)
EXTENDS Integers, Sequences, TLC
LOCAL INSTANCE SequencesExt
LOCAL INSTANCE FiniteSetsExt

CONSTANTS
  Sendable,      \* the requests of the client
  MaxSent,       \* bound on the requests it sends
  MaxProcess,    \* TCP_PROC_MAX_BUFFERSIZE, in units
  MaxReplies,    \* config.max_keep_alive_req
  Handlers,      \* extension -> handler: fastcgi_map, cgi_map and mime_map
  BodySize       \* units of the body of a reply

\* A request as the client means it: method, path, the handler of that path,
\* headers (name, text and what the text says), the body, what the body says to a
\* program, and whether it is well-formed.
ASSUME RequestStreamAssumption ==
  /\ MaxSent \in Nat /\ MaxReplies \in Nat /\ MaxProcess \in Nat \ {0}
  /\ BodySize \in Nat \ {0}
  /\ \A r \in Sendable :
       DOMAIN r = {"method", "path", "handler", "headers", "body", "input", "sound"}

VARIABLES
  asked,      \* the requests sent so far
  toServer,   \* text on its way
  message,    \* what read_some returned
  parsed,     \* the request parsed from it, and its handler
  spot,       \* "check", "read", "parse", "reply", "closed" or "aborted"
  last,       \* ktimer.terminate() was called
  replies,    \* completed_session_counter
  toClient,   \* text the client has got
  whole,      \* each read returned a request, no more and no less
  short,      \* a write was short
  patient     \* the client never sent before it had the reply before

codecVars == <<asked, toServer, message, parsed, spot, last, replies, toClient,
               whole, short, patient>>

---------------------------------------------------------------------------
\* Text.

Blanks == {"SP", "CR", "LF"}
Numbers == ("-2" :> -2) @@ ("-1" :> -1) @@ ("0" :> 0) @@ ("1" :> 1) @@ ("2" :> 2)
             @@ ("3" :> 3)

\* What two hexadecimal digits stand for, as one unit; "byte" is not UTF-8.
Escapes == ("41" :> "A") @@ ("20" :> "SP") @@ ("ff" :> "byte")

\* A stream and the line the last getline gave: it fails at the end.
Stream(text) == [rest |-> text, good |-> TRUE, line |-> <<>>, ok |-> TRUE]

Positions(s, unit) == {i \in DOMAIN s : s[i] = unit}

getline(s, delimiter) ==
  IF Positions(s.rest, delimiter) = {}
  THEN [rest |-> <<>>, good |-> FALSE, line |-> s.rest, ok |-> s.rest # <<>>]
  ELSE LET i == Min(Positions(s.rest, delimiter))
       IN  [rest |-> SubSeq(s.rest, i + 1, Len(s.rest)), good |-> TRUE,
            line |-> SubSeq(s.rest, 1, i - 1), ok |-> TRUE]

\* Mutant of trim: only what leads is taken away.
TrimLeft(s) == LET I == {i \in DOMAIN s : s[i] \notin Blanks}
               IN  IF I = {} THEN <<>> ELSE SubSeq(s, Min(I), Len(s))

trim(s) == LET I == {i \in DOMAIN s : s[i] \notin Blanks}
           IN  IF I = {} THEN <<>> ELSE SubSeq(s, Min(I), Max(I))

toLower(s) == [i \in DOMAIN s |-> CASE s[i] = "Content-Length" -> "content-length"
                                    [] s[i] = "Connection" -> "connection"
                                    [] OTHER -> s[i]]

RECURSIVE urlDecode(_)
urlDecode(s) ==
  IF s = <<>> THEN <<>>
  ELSE IF Head(s) = "%"
       THEN <<Escapes[s[2]]>> \o urlDecode(SubSeq(s, 3, Len(s)))
       ELSE <<IF Head(s) = "+" THEN "SP" ELSE Head(s)>> \o urlDecode(Tail(s))

\* FromHex asserts, or with NDEBUG returns a byte it never set, possibly read
\* behind the text.
BadEscape(s) ==
  \E i \in DOMAIN s :
    s[i] = "%" /\ (i < Len(s) => s[i + 1] \notin DOMAIN Escapes)

q_split_string(path) == getline(Stream(path), "?").line

getExtensionFromPath(path) ==
  LET dots == Positions(path, ".")
  IN  IF dots = {} \/ Max(dots) = Len(path) THEN <<>>
      ELSE SubSeq(path, Max(dots), Len(path))

\* Who makes the reply (lines 58-104).
Handler(path) ==
  LET extension == getExtensionFromPath(q_split_string(path))
  IN  CASE extension \in DOMAIN Handlers -> Handlers[extension]
        [] extension = <<>> /\ path = <<"/">> -> "document"
        [] OTHER -> "error"

---------------------------------------------------------------------------
\* http_req_parse.

\* Mutant of Insert: a header replaces one of the same name.
Assign(headers, name, value) == (name :> value) @@ headers

\* headers.insert keeps the first of a name.
Insert(headers, name, value) == headers @@ (name :> value)

RECURSIVE ParseHeaders(_, _)
ParseHeaders(s, headers) ==
  LET l == getline(s, "CR")
      n == getline(Stream(l.line), ":")
      v == getline(n, "LF")
  IN  IF ~l.ok \/ l.line = <<"LF">>
      THEN [stream |-> l, headers |-> headers]
      ELSE ParseHeaders(l, Insert(headers, toLower(trim(n.line)), trim(v.line)))

ContentLength(headers) == headers[<<"content-length">>]
HasLength(headers) == <<"content-length">> \in DOMAIN headers

\* Mutant of BadLength: a length of nothing is refused too.
BadUnlessPositive(headers) ==
  /\ HasLength(headers)
  /\ \/ ContentLength(headers) = <<>>
     \/ ContentLength(headers)[1] \notin DOMAIN Numbers
     \/ Numbers[ContentLength(headers)[1]] < 1

\* stoi throws, or resize is asked for a negative size.
BadLength(headers) ==
  /\ HasLength(headers)
  /\ \/ ContentLength(headers) = <<>>
     \/ ContentLength(headers)[1] \notin DOMAIN Numbers
     \/ Numbers[ContentLength(headers)[1]] < -1

\* Mutant of Announced: the line feed before the body is forgotten.
AnnouncedOnly(headers) == Numbers[ContentLength(headers)[1]]

\* The line feed that getline left is read with the body.
Announced(headers) == Numbers[ContentLength(headers)[1]] + 1

\* The body before it is decoded: what is missing are zero bytes.
RawBody(h) ==
  IF ~HasLength(h.headers) THEN <<>>
  ELSE LET n == Announced(h.headers)
           text == IF h.stream.good THEN h.stream.rest ELSE <<>>
       IN  trim([i \in 1..n |-> IF i <= Len(text) THEN text[i] ELSE "NUL"])

http_req_parse(text) ==
  LET m == getline(Stream(text), "SP")
      p == getline(m, "SP")
      v == getline(p, "LF")
      h == ParseHeaders(v, <<>>)
  IN  [method |-> m.line, path |-> p.line, proto |-> v.line,
       headers |-> h.headers, bad |-> BadLength(h.headers),
       raw |-> IF BadLength(h.headers) THEN <<>> ELSE RawBody(h)]

Parsed(q, body) == [method |-> q.method, path |-> q.path, handler |-> Handler(q.path),
                    headers |-> q.headers, body |-> body]
NoRequest == Parsed([method |-> <<>>, path |-> <<>>, headers |-> <<>>], <<>>)

---------------------------------------------------------------------------
\* What a client sends (external).

Line(header) == header.name \o <<":", "SP">> \o header.text \o <<"CR", "LF">>
Rendered(r) ==
  r.method \o <<"SP">> \o r.path \o <<"SP", "HTTP/1.1", "CR", "LF">>
    \o FlattenSeq([i \in DOMAIN r.headers |-> Line(r.headers[i])])
    \o <<"CR", "LF">> \o r.body

\* A reply: its head, and the body that the head announces to have BodySize units.
\* A file is sent without its last unit, so that CR takes its place.
Units(k, handler, size) ==
  LET unit(what) == [reply |-> k, unit |-> what, handler |-> handler]
  IN  <<unit("head")>> \o [i \in 1..size |-> unit("body")]
        \o <<unit("CR"), unit("LF")>>

\* Mutant of make_http_response: the body is longer than announced.
LongerResponse(k, handler) == Units(k, handler, BodySize + 1)

make_http_response(k, handler) ==
  Units(k, handler, IF handler \in {"mime", "document"} THEN BodySize - 1
                    ELSE BodySize)

\* The replies as the client takes them, which skips line ends before a head; the
\* last may be incomplete.
RECURSIVE Frames(_)
Frames(text) ==
  IF text = <<>> THEN <<>>
  ELSE IF Head(text).unit \in {"CR", "LF"} THEN Frames(Tail(text))
  ELSE LET n == Min({Len(text), BodySize + 1})
       IN  <<SubSeq(text, 1, n)>> \o Frames(SubSeq(text, n + 1, Len(text)))

\* How many of them are complete: all, or all but the last.
Answers ==
  LET f == Frames(toClient)
  IN  IF f = <<>> \/ Len(f[Len(f)]) = BodySize + 1 THEN Len(f) ELSE Len(f) - 1

---------------------------------------------------------------------------
CodecInit ==
  /\ asked = <<>> /\ toServer = <<>> /\ message = <<>>
  /\ parsed = NoRequest
  /\ spot = "check" /\ last = FALSE /\ replies = 0
  /\ toClient = <<>>
  /\ whole = TRUE /\ short = FALSE /\ patient = TRUE

Ask(r) ==
  /\ Len(asked) < MaxSent /\ spot \notin {"closed", "aborted"}
  /\ asked' = Append(asked, r)
  /\ toServer' = toServer \o Rendered(r)
  /\ patient' = (patient /\ Answers = Len(asked))
  /\ UNCHANGED <<message, parsed, spot, last, replies, toClient, whole, short>>

\* The request budget, or "Connection: close".
MustEnd == last \/ replies >= MaxReplies

CloseSocket ==
  /\ spot = "check" /\ MustEnd
  /\ spot' = "closed"
  /\ UNCHANGED <<asked, toServer, message, parsed, last, replies, toClient,
                 whole, short, patient>>

\* read_some returns what has arrived, up to the size of the buffer.
ReadSome(n) ==
  /\ spot = "check" /\ ~MustEnd
  /\ n <= Len(toServer)
  /\ message' = SubSeq(toServer, 1, n)
  /\ toServer' = SubSeq(toServer, n + 1, Len(toServer))
  /\ whole' = (whole /\ message' = Rendered(asked[replies + 1]))
  /\ spot' = "parse"
  /\ UNCHANGED <<asked, parsed, last, replies, toClient, short, patient>>

Closing(headers) ==
  /\ <<"connection">> \in DOMAIN headers
  /\ headers[<<"connection">>] \in {<<"close">>, <<"Close">>}

\* The request is understood, and its handler chosen.
Understood(q, body) ==
  /\ parsed' = Parsed(q, body)
  /\ last' = (last \/ Closing(q.headers))
  /\ spot' = "reply" /\ message' = <<>>

\* stoi, resize or the conversion throws, or a cut escape fails an assertion.
Throws == spot' = "aborted" /\ UNCHANGED <<message, parsed, last>>

\* http_req_parse and urlDecode; without the assertion a cut escape stands for an
\* arbitrary byte.
Understand ==
  /\ spot = "parse"
  /\ LET q == http_req_parse(message)
     IN  \/ q.bad /\ Throws
         \/ ~q.bad /\ BadEscape(q.raw) /\ (Throws \/ Understood(q, <<"junk">>))
         \/ /\ ~q.bad /\ ~BadEscape(q.raw)
            /\ LET body == urlDecode(q.raw)
               IN  IF Contains(body, "byte") THEN Throws ELSE Understood(q, body)
  /\ UNCHANGED <<asked, toServer, replies, toClient, whole, short, patient>>

\* write_some, whose result nobody looks at.
WriteSome(n) ==
  LET text == make_http_response(replies + 1, parsed.handler)
  IN  /\ spot = "reply"
      /\ n <= Len(text)
      /\ toClient' = toClient \o SubSeq(text, 1, n)
      /\ short' = (short \/ n < Len(text))
      /\ replies' = replies + 1
      /\ parsed' = NoRequest
      /\ spot' = "check"
      /\ UNCHANGED <<asked, toServer, message, last, whole, patient>>

\* The handler throws: on the path, on the file or on what a program answers.
HandlerThrows ==
  /\ spot = "reply" /\ parsed.handler # "error"
  /\ spot' = "aborted"
  /\ UNCHANGED <<asked, toServer, message, parsed, last, replies, toClient, whole,
                 short, patient>>

CodecNext ==
  \/ \E r \in Sendable : Ask(r)
  \/ CloseSocket
  \/ \E n \in 1..MaxProcess : ReadSome(n)
  \/ Understand
  \/ HandlerThrows
  \/ \E n \in 1..(BodySize + 4) : WriteSome(n)

---------------------------------------------------------------------------
\* Properties.

CodecTypeOK ==
  /\ Len(asked) <= MaxSent
  /\ Len(message) <= MaxProcess
  /\ parsed.handler \in {Handlers[e] : e \in DOMAIN Handlers}
                          \cup {"document", "error"}
  /\ spot \in {"check", "parse", "reply", "closed", "aborted"}
  /\ replies \in 0..MaxReplies
  /\ {last, whole, short, patient} \subseteq BOOLEAN

\* The header i of r is the first of its name.
FirstOfName(r, i) ==
  \A j \in 1..(i - 1) : toLower(r.headers[j].name) # toLower(r.headers[i].name)

\* While every read returned one request (server.cpp:39 takes it for granted),
\* the handler, the headers and the body are those the client meant (a request
\* without headers is given one of no name).
ParsedAsSent ==
  whole /\ spot = "reply" /\ asked[replies + 1].sound
    => LET r == asked[replies + 1]
       IN  /\ parsed.method = r.method /\ parsed.path = r.path
           /\ parsed.handler = r.handler
           /\ parsed.body = r.input
           /\ DOMAIN parsed.headers \ {<<>>}
                = {toLower(r.headers[i].name) : i \in DOMAIN r.headers}
           /\ \A i \in DOMAIN r.headers :
                FirstOfName(r, i)
                  => parsed.headers[toLower(r.headers[i].name)] = r.headers[i].says

\* Parsing a well-formed request that arrives in one read and decoding its body
\* never end the process (server.cpp:51-56); its handler may.
DiesForCause ==
  spot = "aborted" => ~whole \/ ~asked[replies + 1].sound \/ parsed # NoRequest

\* What the client takes for its k-th reply is the k-th, and while reads returned
\* whole requests the one to its k-th request: a short write (server.cpp:112)
\* leaves a client that waits for each reply waiting, and never gives it another's
\* bytes.  A client that sends ahead, or whose request arrives in pieces (each of
\* which gets a reply), relies on complete writes.
RepliesInOrder ==
  (patient /\ whole) \/ ~short
    => LET f == Frames(toClient)
       IN  \A k \in DOMAIN f :
             /\ f[k][1].unit = "head"
             /\ \A i \in DOMAIN f[k] : f[k][i].reply = k
             /\ whole => f[k][1].handler = asked[k].handler

\* Requests and replies through reads and writes of any length.
RequestSound == CodecTypeOK /\ ParsedAsSent /\ DiesForCause /\ RepliesInOrder
===========================================================================
