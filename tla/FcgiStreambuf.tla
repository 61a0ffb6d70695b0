--------------------------- MODULE FcgiStreambuf ---------------------------
(***************************************************************************)
(* fcgi_streambuf (fcgio.cpp): the buffer of a C++ stream over the input   *)
(* or the output stream of a FastCGI request, with or without memory of    *)
(* its own.                                                                *)
(*                                                                         *)
(* The units of the attached stream are 1, 2, ...  A write to it may fail  *)
(* after any part of what it was given (FcgiWriter), a read returns all    *)
(* that was asked for unless the input ends (FcgiReader).  The operations  *)
(* of the program are those of std::streambuf: sputc, sputn, pubsync,      *)
(* pubsetbuf, sgetc, sbumpc and sgetn.                                     *)
(***************************************************************************)
EXTENDS Integers, Sequences, SequencesExt

CONSTANTS
  BufSize,      \* units the program's memory holds
  InputLen,     \* units of the input of a request
  MaxUnits,     \* bound on what is written to one stream
  MaxFailures,  \* bound on the writes that fail
  MaxAttach     \* bound on the streams attached one after the other

ASSUME StreambufAssumption ==
  /\ BufSize \in Nat \ {0} /\ InputLen \in Nat /\ MaxUnits \in Nat
  /\ MaxFailures \in Nat /\ MaxAttach \in Nat \ {0}

Junk == 0
Eof == -1

VARIABLES
  dir,       \* "in" or "out": what is attached
  bufsize,   \* 0 or BufSize
  put,       \* the units between pbase() and pptr()
  area,      \* the units between eback() and egptr()
  gptr,      \* how far gptr() is past eback()
  next,      \* of the attached input: the unit it returns next
  sent,      \* of the attached output: what it was given
  accepted,  \* units whose write returned success
  broken,    \* a write to the attached stream has failed
  read,      \* what the program got of the attached input
  attached,  \* streams attached
  failures,  \* writes that failed
  synced,    \* a sync has succeeded since the last write
  lost,      \* accepted units given up unsent, on any stream: how many were
             \* accepted after each, and whether it was synced then
  alive      \* the destructor has not run

readSide == <<area, gptr, next, read>>
writeSide == <<put, sent, accepted, broken, failures, synced, lost>>
streambufVars == <<dir, bufsize, readSide, writeSide, attached, alive>>

\* The counters and areas have their types; the put area fits the memory.
StreambufTypeOK ==
  /\ dir \in {"in", "out"} /\ bufsize \in {0, BufSize}
  /\ Len(put) <= bufsize /\ Len(area) <= bufsize /\ gptr \in Nat
  /\ next \in 1..(InputLen + 1) /\ accepted \in 0..MaxUnits
  /\ failures \in 0..MaxFailures /\ attached \in 1..MaxAttach
  /\ broken \in BOOLEAN /\ alive \in BOOLEAN
  /\ synced \in BOOLEAN /\ lost \subseteq [after : Nat, synced : BOOLEAN]

StreambufInit ==
  /\ dir \in {"in", "out"} /\ bufsize \in {0, BufSize}
  /\ put = <<>> /\ area = <<>> /\ gptr = 0
  /\ next = 1 /\ sent = <<>> /\ accepted = 0 /\ broken = FALSE /\ read = <<>>
  /\ attached = 1 /\ failures = 0 /\ synced = FALSE /\ lost = {} /\ alive = TRUE

---------------------------------------------------------------------------
\* Writing.  An operation takes the state x of this side to its outcomes; x.ok
\* says that it has not returned EOF.

Now == [put |-> put, sent |-> sent, accepted |-> accepted, broken |-> broken,
        failures |-> failures, ok |-> TRUE]
Becomes(x) ==
  /\ put' = x.put /\ sent' = x.sent /\ accepted' = x.accepted
  /\ broken' = x.broken /\ failures' = x.failures

CanWrite == alive /\ dir = "out"

\* FCGX_PutStr, FCGX_PutChar.
StreamPut(x, units) ==
  {[x EXCEPT !.sent = @ \o units]}
  \cup {[x EXCEPT !.sent = @ \o SubSeq(units, 1, k), !.ok = FALSE,
                  !.broken = TRUE, !.failures = @ + 1] :
          k \in IF x.failures < MaxFailures THEN 0..(Len(units) - 1) ELSE {}}

\* pbump(-plen), only after a write that succeeded.  Mutants: not then either;
\* also after one that failed.
AfterFlushKept(x) == x
AfterFlushLost(x) == [x EXCEPT !.put = <<>>]
AfterFlush(x) == IF x.ok THEN [x EXCEPT !.put = <<>>] ELSE x

Flush(x) ==
  IF x.put = <<>> THEN {x} ELSE {AfterFlush(y) : y \in StreamPut(x, x.put)}

\* overflow(c) for the next unit, which goes to the stream itself; overflow(EOF)
\* is Flush.
Took(x) == IF x.ok THEN [x EXCEPT !.accepted = @ + 1] ELSE x
Overflow(x) ==
  UNION {IF y.ok THEN {Took(z) : z \in StreamPut(y, <<y.accepted + 1>>)} ELSE {y} :
           y \in Flush(x)}

\* sputc of the next unit: into the put area if it has room.
Sputc(x) ==
  CASE ~x.ok -> {x}
    [] x.ok /\ Len(x.put) < bufsize ->
         {Took([x EXCEPT !.put = Append(@, x.accepted + 1)])}
    [] OTHER -> Overflow(x)

WriteChar ==
  /\ CanWrite /\ accepted < MaxUnits
  /\ \E x \in Sputc(Now) : Becomes(x)
  /\ synced' = FALSE
  /\ UNCHANGED <<dir, bufsize, readSide, lost, attached, alive>>

\* xsputn of n units, two or three: buffered, one after the other up to the first
\* that fails; unbuffered, in one write, of which none counts if it fails.
Then(X) == UNION {Sputc(x) : x \in X}
Sputn(n) ==
  IF bufsize > 0
  THEN IF n = 2 THEN Then(Sputc(Now)) ELSE Then(Then(Sputc(Now)))
  ELSE {IF x.ok THEN [x EXCEPT !.accepted = @ + n] ELSE x :
          x \in StreamPut(Now, [i \in 1..n |-> accepted + i])}
WriteStr ==
  /\ CanWrite
  /\ \E n \in 2..3 : accepted + n <= MaxUnits /\ \E x \in Sputn(n) : Becomes(x)
  /\ synced' = FALSE
  /\ UNCHANGED <<dir, bufsize, readSide, lost, attached, alive>>

\* sync: what FCGX_FFlush does after it is the stream's (FcgiWriter).
Sync ==
  /\ CanWrite /\ \E x \in Flush(Now) : Becomes(x) /\ synced' = x.ok
  /\ UNCHANGED <<dir, bufsize, readSide, lost, attached, alive>>

\* The units that are not in s are given up.
GiveUp(s) ==
  lost' = lost \cup {[after |-> accepted - i, synced |-> synced] :
                       i \in {j \in 1..accepted : ~Contains(s, j)}}

\* The destructor flushes what is left, and tells nobody when that fails.
Destroy ==
  /\ alive /\ alive' = FALSE
  /\ \E x \in Flush(Now) : Becomes(x) /\ GiveUp(x.sent)
  /\ UNCHANGED <<dir, bufsize, readSide, synced, attached>>

---------------------------------------------------------------------------
\* Reading, likewise: r.c is what the last call returned.

Got == [area |-> area, gptr |-> gptr, next |-> next, c |-> Junk]

Rest(r) == InputLen - r.next + 1
\* Mutant of StreamGet: as much is taken as was asked for.
StreamGetAll(r, n) == [i \in 1..n |-> r.next + i - 1]
StreamGet(r, n) == [i \in 1..(IF n < Rest(r) THEN n ELSE Rest(r)) |-> r.next + i - 1]

\* in_avail(): how far gptr() is before egptr(); past it, a library counts either
\* the negative distance or nothing.
InAvail(r) ==
  IF r.gptr <= Len(r.area) THEN {Len(r.area) - r.gptr} ELSE {0, -1}

\* The unit at gptr(), which past egptr() may be anything.
AtGptr(r) == IF r.gptr < Len(r.area) THEN r.area[r.gptr + 1] ELSE Junk

Underflow(r) ==
  {IF n # 0 THEN [r EXCEPT !.c = AtGptr(r)]
   ELSE LET got == StreamGet(r, bufsize)
        IN  IF got = <<>> THEN [r EXCEPT !.c = Eof]
            ELSE [r EXCEPT !.c = got[1], !.area = got, !.gptr = 0,
                           !.next = @ + Len(got)] : n \in InAvail(r)}

\* gbump(1), also when underflow() has returned EOF.
Bumped(r) == [r EXCEPT !.gptr = @ + 1]

\* FCGX_GetChar, and FCGX_UnGetChar of its result for underflow().
StreamGetChar(r) == IF Rest(r) = 0 THEN [r EXCEPT !.c = Eof]
              ELSE [r EXCEPT !.c = r.next, !.next = @ + 1]

\* Mutant of Peeked: underflow() removes the unit, as uflow() does.
PeekedTaken(r) == StreamGetChar(r)
Peeked(r) == [r EXCEPT !.c = StreamGetChar(r).c]

Sgetc(r) ==
  CASE bufsize = 0 -> {Peeked(r)}
    [] bufsize > 0 /\ r.gptr < Len(r.area) -> {[r EXCEPT !.c = AtGptr(r)]}
    [] OTHER -> Underflow(r)
Sbumpc(r) ==
  CASE bufsize = 0 -> {StreamGetChar(r)}
    [] bufsize > 0 /\ r.gptr < Len(r.area) -> {Bumped([r EXCEPT !.c = AtGptr(r)])}
    [] OTHER -> {Bumped(u) : u \in Underflow(r)}  \* uflow

CanRead == alive /\ dir = "in" /\ gptr <= bufsize /\ Len(read) <= InputLen
Reads(r) == area' = r.area /\ gptr' = r.gptr /\ next' = r.next

Peek ==
  /\ CanRead /\ \E r \in Sgetc(Got) : Reads(r)
  /\ UNCHANGED <<dir, bufsize, read, writeSide, attached, alive>>

ReadChar ==
  /\ CanRead
  /\ \E r \in Sbumpc(Got) :
       Reads(r) /\ read' = IF r.c = Eof THEN read ELSE Append(read, r.c)
  /\ UNCHANGED <<dir, bufsize, writeSide, attached, alive>>

\* xsgetn of more than one unit without a buffer; with one, it is sbumpc up to
\* the first EOF.
ReadStr ==
  /\ CanRead /\ bufsize = 0
  /\ LET got == StreamGet(Got, 2)
     IN  next' = next + Len(got) /\ read' = read \o got
  /\ UNCHANGED <<dir, bufsize, area, gptr, writeSide, attached, alive>>

---------------------------------------------------------------------------
\* reset: both areas are empty again.
Reset == area' = <<>> /\ gptr' = 0 /\ put' = <<>>

\* setbuf, once; a second call is refused.
SetBuf ==
  /\ alive /\ bufsize = 0 /\ bufsize' = BufSize /\ Reset
  /\ UNCHANGED <<dir, next, read, sent, accepted, broken, failures, synced, lost,
                 attached, alive>>

\* attach of the stream of the next request; what was in an area is forgotten, the
\* units of the put area with it.
Attach ==
  /\ alive /\ attached < MaxAttach /\ attached' = attached + 1
  /\ IF bufsize > 0 THEN Reset ELSE UNCHANGED <<area, gptr, put>>
  /\ dir' \in {"in", "out"}
  /\ next' = 1 /\ read' = <<>> /\ sent' = <<>> /\ accepted' = 0 /\ broken' = FALSE
  /\ GiveUp(sent) /\ synced' = FALSE
  /\ UNCHANGED <<bufsize, failures, alive>>

StreambufNext ==
  \/ WriteChar \/ WriteStr \/ Sync \/ Destroy
  \/ Peek \/ ReadChar \/ ReadStr \/ SetBuf \/ Attach

---------------------------------------------------------------------------
\* As long as no write to the attached stream has failed, it was given what the
\* program wrote, each unit once and in order, but for what is still in the put
\* area; and when the streambuf is gone, all of it (overflow, fcgio.cpp:59, the
\* destructor, :45).
SentInOrder ==
  ~broken => /\ sent \o put = [i \in 1..accepted |-> i]
             /\ ~alive => put = <<>>

\* A unit whose write succeeded is not lost while its stream is attached, whatever
\* fails after it: it was sent, if need be twice, or it is in the put area still
\* (fcgio.cpp:67-68).
NothingLost == alive => \A i \in 1..accepted : Contains(sent \o put, i)

\* What attach throws away (fcgio.cpp:146-153), and the destructor whose flush fails
\* (:45), is a put area: at most the last BufSize units whose write succeeded, and
\* none if a sync has succeeded since the program last wrote.
OnlyBufferLost == \A l \in lost : l.after < BufSize /\ ~l.synced

\* The program reads the input in order, nothing missing between what it got, what
\* is in the get area and what is still in the stream, also when it peeks or gives
\* the streambuf memory between two reads; only after uflow() at the end of the
\* input, past egptr(), it may get units that were never there (fcgio.cpp:88-120).
ReadInOrder ==
  /\ \A i \in DOMAIN read : read[i] = i \/ (read[i] = Junk /\ gptr > Len(area))
  /\ dir = "in" /\ gptr <= Len(area)
       => Len(read) + Len(area) - gptr + InputLen - next + 1 = InputLen

\* A C++ stream over a FastCGI stream carries what the program writes, but for the
\* put area it loses when it is attached elsewhere or destroyed, and what the client
\* has sent, through buffering, peeking, failing writes and the end.
StreambufSound ==
  StreambufTypeOK /\ SentInOrder /\ NothingLost /\ OnlyBufferLost /\ ReadInOrder
=============================================================================
