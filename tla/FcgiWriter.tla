---------------------------- MODULE FcgiWriter ----------------------------
(***************************************************************************)
(* The output streams of a FastCGI request (fcgiapp.c): what FCGX_PutChar, *)
(* FCGX_PutStr, FCGX_FFlush and FCGX_FClose put on the connection, with    *)
(* writes that fail after any part of what they were given.                *)
(*                                                                         *)
(* A stream is what its buffer holds after the space of the header.  The   *)
(* units an application writes on a stream are 1, 2, ...; on the           *)
(* connection they travel between headers and padding, and the web server  *)
(* takes the records apart again (Consume).  An operation is the set of    *)
(* the outcomes x it may have: the stream x.s, the web server x.p, the     *)
(* streams not yet closed x.n and the failures still to come x.f.          *)
(***************************************************************************)
EXTENDS Integers, Sequences, SequencesExt

CONSTANTS
  HeaderLen,   \* units of a header
  EndLen,      \* units in the content of an END_REQUEST record
  OutBuffLen,  \* units each buffer holds
  Align        \* records are padded to multiples of Align units

Writers == {"out", "err"}

ASSUME WriterAssumption ==
  /\ Align \in Nat \ {0} /\ HeaderLen \in Nat \ {0} /\ EndLen \in Nat \ {0}
  /\ OutBuffLen \in Nat /\ OutBuffLen > HeaderLen
  /\ HeaderLen % Align = 0 /\ EndLen % Align = 0 /\ OutBuffLen % Align = 0

---------------------------------------------------------------------------
\* The connection.

Unit(kind) == [kind |-> kind]
Data(n) == [kind |-> "data", n |-> n]
Fill(n, kind) == [i \in 1..n |-> Unit(kind)]
MakeHeader(t, len, pad, status) ==
  <<[kind |-> "head", t |-> t, len |-> len, pad |-> pad, status |-> status]>>
    \o Fill(HeaderLen - 1, "header")

AlignInt(n) == ((n + Align - 1) \div Align) * Align

\* The web server: what it is in the middle of, what it has got of each
\* stream, how often each ended, and the status of each END_REQUEST.
Fresh == [head |-> 0, left |-> 0, pad |-> 0, t |-> "none", status |-> 0,
          got |-> [w \in Writers |-> <<>>], eof |-> [w \in Writers |-> 0],
          ends |-> <<>>, late |-> FALSE, sync |-> TRUE]

Lost == [Fresh EXCEPT !.sync = FALSE]
BetweenRecords(p) == p.head = 0 /\ p.left = 0 /\ p.pad = 0

Opened(p, h) ==
  [p EXCEPT !.head = HeaderLen - 1, !.left = h.len, !.pad = h.pad, !.t = h.t,
            !.status = h.status, !.late = p.late \/ p.ends # <<>>,
            !.eof = [w \in Writers |->
                       p.eof[w] + (IF w = h.t /\ h.len = 0 THEN 1 ELSE 0)]]

Taken(p, u) ==
  IF p.t \in Writers
  THEN [p EXCEPT !.left = @ - 1, !.got[p.t] = Append(@, u)]
  ELSE [p EXCEPT !.left = @ - 1,
                 !.ends = IF p.left = 1 THEN Append(@, p.status) ELSE @]

Consume(p, u) ==
  IF ~p.sync THEN p
  ELSE CASE p.head > 0 -> [p EXCEPT !.head = @ - 1]
         [] p.head = 0 /\ p.left > 0 -> Taken(p, u)
         [] p.head = 0 /\ p.left = 0 /\ p.pad > 0 -> [p EXCEPT !.pad = @ - 1]
         [] BetweenRecords(p) /\ u.kind = "head" -> Opened(p, u)
         [] OTHER -> Lost

\* The web server when units have come, one after the other.
Received(p, units) ==
  LET after[i \in 0..Len(units)] ==
        IF i = 0 THEN p ELSE Consume(after[i - 1], units[i])
  IN  after[Len(units)]

\* write_it_all: everything, nothing, or a part after which the web server can
\* no longer tell where it is.
WriteAll(x, units) ==
  {[x EXCEPT !.p = Received(x.p, units), !.ok = TRUE]}
  \cup {[x EXCEPT !.p = q, !.f = x.f - 1, !.ok = FALSE] :
          q \in IF x.f = 0 THEN {} ELSE {x.p, Lost}}

---------------------------------------------------------------------------
\* The streams.

NewWriter == [data |-> <<>>, wrote |-> 0, any |-> FALSE, isClosed |-> FALSE,
              closeCalled |-> FALSE, errno |-> "none"]

WithError(s) == [s EXCEPT !.errno = "os", !.isClosed = TRUE]
ClearError(s) == [s EXCEPT !.errno = "none"]

Room(s) == IF s.closeCalled THEN 0 ELSE OutBuffLen - HeaderLen - Len(s.data)

Padding(s) == Fill(AlignInt(Len(s.data)) - Len(s.data), "pad")
DataRecord(w, s) ==
  IF s.data = <<>> THEN <<>>
  ELSE MakeHeader(w, Len(s.data), Len(Padding(s)), 0) \o s.data \o Padding(s)

\* After the write of the buffer: a failed one leaves it in place, with the
\* padding at its end.
Emptied(x) == IF x.ok THEN [x EXCEPT !.s.data = <<>>]
              ELSE [x EXCEPT !.s = WithError(
                             [x.s EXCEPT !.data = x.s.data \o Padding(x.s)])]

\* EmptyBuffProc(stream, FALSE).
EmptyBuff(w, x) ==
  IF x.s.data = <<>> THEN {x}
  ELSE {Emptied(y) :
          y \in WriteAll([x EXCEPT !.s.any = TRUE], DataRecord(w, x.s))}

Store(s) == [s EXCEPT !.wrote = @ + 1, !.data = Append(@, Data(s.wrote + 1))]

\* FCGX_PutChar; x.eof says that it, or one before it, returned EOF.
PutChar(w, x) ==
  CASE x.eof                                        -> {x}
    [] ~x.eof /\ Room(x.s) > 0                      -> {[x EXCEPT !.s = Store(x.s)]}
    [] ~x.eof /\ Room(x.s) = 0 /\ x.s.isClosed      -> {[x EXCEPT !.eof = TRUE]}
    [] OTHER -> {IF Room(y.s) > 0 THEN [y EXCEPT !.s = Store(y.s)]
                 ELSE [y EXCEPT !.eof = TRUE] : y \in EmptyBuff(w, x)}

\* FCGX_PutStr moves as many units into the buffer at once as have room there,
\* which comes to the same as one after the other.
PutStr(w, x, n) ==
  LET after[i \in 0..n] ==
        IF i = 0 THEN {x} ELSE UNION {PutChar(w, y) : y \in after[i - 1]}
  IN  after[n]

FFlush(w, x) == IF x.s.isClosed THEN {x} ELSE EmptyBuff(w, x)

\* The same two for the records of WriteCloseRecords (rawWrite): x.raw is all
\* that is in the buffer.
RawEmpty(x) ==
  {IF y.ok THEN [y EXCEPT !.raw = <<>>] ELSE [y EXCEPT !.s = WithError(y.s)] :
     y \in WriteAll([x EXCEPT !.s.any = TRUE], x.raw)}
RawPutChar(x, u) ==
  IF Len(x.raw) < OutBuffLen THEN {[x EXCEPT !.raw = Append(@, u)]}
  ELSE IF x.s.isClosed THEN {x}
  ELSE {IF y.ok THEN [y EXCEPT !.raw = <<u>>] ELSE y : y \in RawEmpty(x)}
RawPutStr(X, units) ==
  LET after[i \in 0..Len(units)] ==
        IF i = 0 THEN X ELSE UNION {RawPutChar(y, units[i]) : y \in after[i - 1]}
  IN  after[Len(units)]

\* Mutant of NeedsEof: a stream that wrote nothing is not ended.
EofWhenUsed(w, x) == x.raw # <<>> \/ x.s.any

NeedsEof(w, x) == ~(w = "err" /\ x.raw = <<>> /\ ~x.s.any)

IsLast(x) == x.n = 1

WriteCloseRecords(w, x, status) ==
  LET eof == IF NeedsEof(w, x) THEN MakeHeader(w, 0, 0, 0) ELSE <<>>
      end == IF IsLast(x)
             THEN MakeHeader("end", EndLen, 0, status) \o Fill(EndLen, "body")
             ELSE <<>>
  IN  {[y EXCEPT !.n = @ - 1] : y \in RawPutStr(RawPutStr({x}, eof), end)}

\* FCGX_FClose of a writer.
FClose(w, x, status) ==
  IF x.s.closeCalled THEN {x}
  ELSE LET closing == WriteCloseRecords(
                        w, [x EXCEPT !.raw = DataRecord(w, x.s)], status)
           written == UNION {IF y.raw = <<>> THEN {y} ELSE RawEmpty(y) :
                               y \in closing}
       IN  {[y EXCEPT !.raw = <<>>, !.s.data = <<>>, !.s.isClosed = TRUE,
                      !.s.closeCalled = TRUE] : y \in written}
===========================================================================
