------------------------- MODULE MimeResourceProofs -------------------------
(***************************************************************************)
(* Theorems about MimeResource, for any `long`, any size of the file, any  *)
(* Range headers and any number of writes at any time.                     *)
(*                                                                         *)
(* What a response says of the file follows from what is remembered of it  *)
(* between the looks of the handler (Remembered, Planned, Bodied); what    *)
(* the client's copy says of it, from the clock: no version that comes has *)
(* the time of one that is known (Dated).                                  *)
(***************************************************************************)
EXTENDS MimeResource, TLAPS

Looking == pc \in {"sizing", "read", "touch"}

Responses ==
  [status : {0, 200, 206, 304, 404, 405, 500}, contentLength : Nat, bodyLen : Nat,
   version : 0..MaxWrites, from : Int, data : Nat]

Typed == TypeOK /\ resp \in Responses

\* The request that is being answered, and what its client has.
Asked ==
  /\ pc # "idle" =>
       /\ req \in Requests
       /\ req.ifRange \/ req.ifNoneMatch => cache # None
       /\ req.ifRange => req.range # None
  /\ aborted => pc \in {"idle", "read"}

Witnessed ==
  pc # "idle" =>
    /\ file = None => missed
    /\ file # None /\ file.size = 0 => emptied

\* What the handler remembers of the file from the first stat.
Remembered ==
  Looking =>
    /\ seen \in Files
    /\ undisturbed => file = seen

\* What it is going to read.
Planned ==
  /\ pc = "sizing" => req.range = None
  /\ pc = "read" /\ req.range = None =>
       /\ span.start = 0 /\ span.status = 200
       /\ span.end \in -1..(MaxSize - 1)
       /\ span.end = -1 => emptied
       /\ undisturbed => span.end = seen.size - 1
  /\ pc = "read" => span.status \in {200, 206}
  /\ pc = "read" /\ span.status = 206 /\ req.ifRange => cache.etag = ETag(seen)

\* What it has read.
Bodied ==
  /\ pc = "touch" => resp.version # 0
  /\ pc \in {"touch", "send"} /\ resp.version # 0 =>
       /\ seen \in Files
       /\ resp.status \in {200, 206}
       /\ undisturbed => file = seen /\ resp.version = file.version
       /\ undisturbed /\ req.range = None =>
            resp.from = 0 /\ resp.data = resp.bodyLen /\ resp.data >= file.size - 1
       /\ resp.status = 206 /\ req.ifRange => cache.etag = ETag(seen)

\* A version of that time is known: a file with it can only be that version.
Known(mtime, version) ==
  /\ mtime < now
  /\ file # None /\ file.mtime = mtime => file.version = version

Dated ==
  /\ file # None => file.mtime < now
  /\ cache # None => Known(cache.etag[2], cache.version)
  /\ Looking => seen.mtime < now
  /\ pc \in {"touch", "send"} /\ resp.version # 0 => Known(seen.mtime, resp.version)

IInv ==
  Typed /\ Asked /\ Witnessed /\ Remembered /\ Planned /\ Bodied
    /\ ErrorsForCause /\ PlainAbortsForCause

---------------------------------------------------------------------------
\* Offsets.

\* A conversion to `long` is an integer.
LEMMA LongIsInt ==
  ASSUME NEW x \in Int
  PROVE  Long(x) \in Int
  BY BoundsAssumption DEF Long

\* An offset that `long` has a number for is converted to itself.
LEMMA LongOfOffset ==
  ASSUME NEW x \in Int, -(LongMax + 1) <= x, x <= LongMax
  PROVE  Long(x) = x
  <1> DEFINE n == LongMax + 1
             y == x + n
  <1>1. n \in Nat /\ n > 0 /\ y \in 0..(2 * n - 1)
    BY BoundsAssumption
  <1>2. \A m \in Nat \ {0} : \A z \in 0..(2 * m - 1) : z % (2 * m) = z
    OBVIOUS
  <1>3. y % (2 * n) = y
    <2> HIDE DEF y, n
    <2> QED BY <1>1, <1>2
  <1> QED
    BY <1>1, <1>3, BoundsAssumption DEF Long

\* A file is no absent one, and what it is made of.
LEMMA FileFacts ==
  ASSUME NEW f \in Files
  PROVE  /\ f # None
         /\ f.size \in 0..MaxSize /\ f.size \in Nat
         /\ f.mtime \in 0..MaxTime /\ f.version \in 1..MaxWrites
         /\ ETag(f) \in ETags
  BY NoneAssumption, BoundsAssumption DEF Files, ETag, ETags

\* What a request is made of.
LEMMA RequestFacts ==
  ASSUME NEW r \in Requests
  PROVE  /\ r # None
         /\ r.method \in {"GET", "HEAD", "PUT"}
         /\ r.range \in RangeHeaders \cup {None}
         /\ r.decodes \in BOOLEAN /\ r.ifRange \in BOOLEAN /\ r.ifNoneMatch \in BOOLEAN
  BY NoneAssumption DEF Requests

\* What parse_range makes of a header.
LEMMA ParseRange ==
  ASSUME NEW h \in RangeHeaders
  PROVE  parse_range(h) \in [start : Int, end : Int]
  <1>1. CASE h \in {"slice"} \X Nat \X Nat
    BY <1>1 DEF parse_range
  <1>2. CASE h \in {"from", "last"} \X Nat
    BY <1>2 DEF parse_range
  <1>3. CASE h \in {<<"garbled">>, <<"foreign">>}
    BY <1>3 DEF parse_range
  <1> QED
    BY <1>1, <1>2, <1>3, BoundsAssumption

\* The bytes of a Range request.
LEMMA RangeSpanFacts ==
  ASSUME NEW r \in Requests, r.range # None, file \in Files
  PROVE  /\ RangeSpan(r) \in [start : Int, end : Int, status : {200, 206}]
         /\ RangeSpan(r).status = 206 => Honours(r)
  <1>1. PICK p \in [start : Int, end : Int] : p = parse_range(r.range)
    BY ParseRange, RequestFacts
  <1>2. file.size - 1 \in Int
    BY FileFacts
  <1> QED
    BY <1>1, <1>2 DEF RangeSpan

\* The positions that readPartialFile computes.
LEMMA ReadFacts ==
  ASSUME TypeOK, NEW f \in Files
  PROVE  /\ Start \in Int /\ Length \in Int
         /\ Length >= 0 => Delivered(f) \in 0..Length
  <1>1. span.start \in Int /\ span.end \in Int
    BY DEF TypeOK
  <1>2. Start \in Int
    BY <1>1, LongIsInt DEF Start
  <1>3. Long(span.end) \in Int
    BY <1>1, LongIsInt
  <1>4. Length \in Int
    BY <1>2, <1>3, LongIsInt DEF Length
  <1> QED
    BY <1>2, <1>4, FileFacts DEF Delivered

\* Of the whole file, all bytes but the last are read.
LEMMA WholeRead ==
  ASSUME span.start = 0, span.end \in -1..(MaxSize - 1)
  PROVE  /\ Start = 0 /\ Length = span.end
         /\ \A f \in Files :
              f.size = span.end + 1 /\ Length >= 0 => Delivered(f) = Length
  <1>1. span.end \in Int /\ -(LongMax + 1) <= span.end /\ span.end <= LongMax
    BY BoundsAssumption
  <1>2. Start = 0
    BY LongOfOffset, BoundsAssumption DEF Start
  <1>3. Length = span.end
    BY <1>1, <1>2, LongOfOffset DEF Length
  <1> QED
    BY <1>1, <1>2, <1>3, FileFacts DEF Delivered

\* A response without a body.
LEMMA BodilessFacts ==
  ASSUME NEW r, NEW p \in Responses
  PROVE  /\ Bodiless(r, p) \in Responses
         /\ Bodiless(r, p).status = p.status
         /\ Bodiless(r, p).version # 0 => Bodiless(r, p) = p
         /\ p.data <= p.bodyLen => Bodiless(r, p).data <= Bodiless(r, p).bodyLen
  <1>1. CASE r.method = "HEAD"
    <2> DEFINE q == [p EXCEPT !.bodyLen = 0, !.data = 0, !.version = 0]
    <2>1. Bodiless(r, p) = q
      BY <1>1 DEF Bodiless
    <2>2. q \in Responses
      BY BoundsAssumption, 0 \in 0..MaxWrites DEF Responses
    <2>3. q.status = p.status /\ q.version = 0 /\ q.data = 0 /\ q.bodyLen = 0
      BY DEF Responses
    <2> QED
      BY <2>1, <2>2, <2>3
  <1>2. CASE r.method # "HEAD"
    BY <1>2 DEF Bodiless
  <1> QED
    BY <1>1, <1>2

\* An error page.
LEMMA ErrorPageFacts ==
  ASSUME NEW s \in {404, 405, 500}
  PROVE  /\ ErrorPage(s) \in Responses /\ ErrorPage(s).status = s
         /\ ErrorPage(s).version = 0
         /\ ErrorPage(s).data <= ErrorPage(s).bodyLen
  BY BoundsAssumption DEF ErrorPage, Response, Responses

---------------------------------------------------------------------------
\* Each part is preserved.

\* Nothing has been asked yet.
LEMMA InitIInv ==
  ASSUME Init
  PROVE  IInv
  <1> USE DEF Init
  <1>1. resp \in Responses /\ resp.data \in 0..resp.bodyLen
    BY BoundsAssumption DEF NoResponse, Response, Responses
  <1>2. TypeOK
    <2>1. file \in Files \cup {None} /\ now \in 0..MaxTime /\ writes \in 0..MaxWrites
      BY BoundsAssumption
    <2>2. span \in [start : Int, end : Int, status : {0, 200, 206}]
      BY DEF NoSpan
    <2>3. resp.status \in {0, 200, 206, 304, 404, 405, 500} /\ resp.bodyLen \in Nat
      BY <1>1 DEF Responses
    <2> QED
      BY <1>1, <2>1, <2>2, <2>3 DEF TypeOK
  <1>3. Asked /\ Witnessed /\ Remembered /\ Planned /\ Bodied
    BY DEF Asked, Witnessed, Remembered, Looking, Planned, Bodied
  <1>4. ErrorsForCause /\ PlainAbortsForCause
    BY DEF ErrorsForCause, Sending, PlainAbortsForCause
  <1> QED
    BY <1>1, <1>2, <1>3, <1>4 DEF IInv, Typed

\* Lengths are never negative and a body is never shorter than its data.
LEMMA TypedStep ==
  ASSUME IInv, Next
  PROVE  Typed'
  <1>1. Typed
    BY DEF IInv
  <1>2. CASE \E size \in 0..MaxSize : Write(size)
    <2>1. PICK size \in 0..MaxSize : Write(size)
      BY <1>2
    <2>2. file' = [size |-> size, mtime |-> now, version |-> writes + 1]
            /\ now' \in 0..MaxTime /\ writes' = writes + 1 /\ writes + 1 \in 1..MaxWrites
      BY <1>1, <2>1, BoundsAssumption DEF Write, Typed, TypeOK
    <2>3. file' \in Files
      BY <1>1, <2>2 DEF Files, Typed, TypeOK
    <2>4. {undisturbed, missed, emptied, refused, aborted}' \subseteq BOOLEAN
      BY <1>1, <2>1, <2>3, FileFacts DEF Write, Observe, Typed, TypeOK
    <2>5. UNCHANGED <<pc, req, seen, span, resp, cache>>
      BY <2>1 DEF Write
    <2> QED
      BY <1>1, <2>2, <2>3, <2>4, <2>5 DEF Typed, TypeOK
  <1>3. CASE Remove
    <2>1. file' = None /\ UNCHANGED <<now, writes, pc, req, seen, span, resp, cache>>
      BY <1>3 DEF Remove
    <2>2. {undisturbed, missed, emptied, refused, aborted}' \subseteq BOOLEAN
      BY <1>1, <1>3 DEF Remove, Observe, Typed, TypeOK
    <2> QED
      BY <1>1, <2>1, <2>2 DEF Typed, TypeOK
  <1>4. CASE \E r \in Requests : Begin(r)
    <2>1. PICK r \in Requests : Begin(r)
      BY <1>4
    <2>2. /\ req' \in Requests
          /\ pc' \in {"idle", "stat", "sizing", "read", "touch", "send"}
          /\ UNCHANGED <<file, now, writes, seen, span, cache>>
      BY <1>1, <2>1 DEF Begin, fileVars, Typed, TypeOK
    <2>5. {undisturbed, missed, emptied, refused, aborted}' \subseteq BOOLEAN
      <3>1. aborted' \in BOOLEAN
        BY <1>1, <2>1 DEF Begin, Typed, TypeOK
      <3>2. /\ undisturbed' = TRUE /\ missed' = (file = None) /\ refused' = FALSE
            /\ emptied' = (file # None /\ file.size = 0)
        BY <2>1 DEF Begin
      <3> QED
        BY <3>1, <3>2
    <2>3. resp' \in Responses /\ resp'.data <= resp'.bodyLen
      BY <1>1, <2>1, ErrorPageFacts DEF Begin, Typed, TypeOK, Responses
    <2>4. resp'.data \in 0..resp'.bodyLen
      BY <2>3 DEF Responses
    <2> QED
      BY <1>1, <2>2, <2>3, <2>4, <2>5 DEF Typed, TypeOK, Responses
  <1>5. CASE Stat
    <2>1. /\ pc' \in {"idle", "stat", "sizing", "read", "touch", "send"}
          /\ UNCHANGED <<file, now, writes, req, cache, undisturbed, missed, emptied, refused, aborted>>
      BY <1>5 DEF Stat, Answer, fileVars, history
    <2>2. seen' \in Files \cup {None}
      BY <1>1, <1>5 DEF Stat, Typed, TypeOK
    <2>3. span' \in [start : Int, end : Int, status : {0, 200, 206}]
      <3>1. CASE span' = span
        BY <1>1, <3>1 DEF Typed, TypeOK
      <3>2. CASE ~StatFails /\ req.range # None /\ span' = RangeSpan(req)
        BY <1>1, <1>5, <3>2, RangeSpanFacts DEF StatFails, IInv, Asked, Stat, Typed, TypeOK
      <3> QED
        BY <1>5, <3>1, <3>2 DEF Stat
    <2>4. resp' \in Responses /\ resp'.data \in 0..resp'.bodyLen
      <3>1. CASE UNCHANGED resp
        BY <1>1, <3>1 DEF Typed, TypeOK
      <3>2. CASE resp' = Bodiless(req, ErrorPage(404))
        BY <3>2, ErrorPageFacts, BodilessFacts DEF Responses
      <3>3. CASE ~StatFails /\ resp' = Response(304, file.size, 0, 0, 0, 0)
        BY <1>1, <3>3, FileFacts, BoundsAssumption
           DEF StatFails, Response, Responses, Typed, TypeOK
      <3> QED
        BY <1>5, <3>1, <3>2, <3>3 DEF Stat, Answer
    <2> QED
      BY <1>1, <2>1, <2>2, <2>3, <2>4 DEF Typed, TypeOK, Responses
  <1>6. CASE Sizing
    <2>1. /\ pc' \in {"idle", "stat", "sizing", "read", "touch", "send"}
          /\ UNCHANGED <<file, now, writes, req, seen, cache, undisturbed, missed,
                        emptied, refused, aborted>>
      BY <1>6 DEF Sizing, Answer, fileVars, history
    <2>2. span' \in [start : Int, end : Int, status : {0, 200, 206}]
      BY <1>1, <1>6, FileFacts DEF Sizing, StatFails, WholeSpan, Typed, TypeOK
    <2>3. resp' \in Responses /\ resp'.data \in 0..resp'.bodyLen
      BY <1>1, <1>6, ErrorPageFacts, BodilessFacts
         DEF Sizing, Answer, ErrorStatus, Typed, TypeOK, Responses
    <2> QED
      BY <1>1, <2>1, <2>2, <2>3 DEF Typed, TypeOK, Responses
  <1>7. CASE Read
    <2>1. /\ pc' \in {"idle", "stat", "sizing", "read", "touch", "send"}
          /\ aborted' \in BOOLEAN /\ refused' \in BOOLEAN
          /\ UNCHANGED <<file, now, writes, req, seen, span, cache, undisturbed, missed,
                        emptied>>
      BY <1>1, <1>7 DEF Read, Answer, fileVars, history, Typed, TypeOK
    <2>2. resp' \in Responses /\ resp'.data \in 0..resp'.bodyLen
      <3>1. CASE UNCHANGED resp
        BY <1>1, <3>1 DEF Typed, TypeOK
      <3>2. CASE resp' = Bodiless(req, ErrorPage(ErrorStatus(req)))
        BY <3>2, ErrorPageFacts, BodilessFacts DEF Responses, ErrorStatus
      <3>3. CASE /\ file # None /\ Length >= 0
                 /\ resp' = Response(span.status, seen.size, Length, file.version, Start,
                                     Delivered(file))
        <4>1. Length \in Nat /\ Start \in Int /\ Delivered(file) \in 0..Length
          BY <1>1, <3>3, ReadFacts DEF Typed, TypeOK
        <4>2. seen.size \in Nat /\ file.version \in 1..MaxWrites
                /\ span.status \in {200, 206}
          BY <1>1, <1>7, <3>3, FileFacts
             DEF IInv, Remembered, Looking, Planned, Read, Typed, TypeOK
        <4> QED
          BY <3>3, <4>1, <4>2, BoundsAssumption DEF Response, Responses
      <3> QED
        BY <1>7, <3>1, <3>2, <3>3 DEF Read, Answer
    <2> QED
      BY <1>1, <2>1, <2>2 DEF Typed, TypeOK, Responses
  <1>8. CASE Touch
    <2>1. /\ pc' \in {"idle", "stat", "sizing", "read", "touch", "send"}
          /\ UNCHANGED <<file, now, writes, req, seen, span, cache, undisturbed, missed,
                        emptied, refused, aborted>>
      BY <1>8 DEF Touch, Answer, fileVars, history
    <2>2. resp' \in Responses /\ resp'.data \in 0..resp'.bodyLen
      <3>1. PICK p \in Responses : resp' = Bodiless(req, p) /\ p.data <= p.bodyLen
        BY <1>1, <1>8, ErrorPageFacts
           DEF Touch, Answer, ErrorStatus, Typed, TypeOK, Responses
      <3> QED
        BY <3>1, BodilessFacts DEF Responses
    <2> QED
      BY <1>1, <2>1, <2>2 DEF Typed, TypeOK, Responses
  <1>9. CASE Send
    <2>1. /\ pc' = "idle" /\ req' = None /\ seen' = None /\ span' = NoSpan
          /\ resp' = NoResponse /\ undisturbed' = TRUE /\ missed' = FALSE
          /\ emptied' = FALSE /\ refused' = FALSE
          /\ UNCHANGED <<file, now, writes, aborted>>
      BY <1>9 DEF Send, fileVars
    <2>2. cache' \in Copies \cup {None}
      <3>1. CASE UNCHANGED cache
        BY <1>1, <3>1 DEF Typed, TypeOK
      <3>2. CASE resp.version # 0 /\ cache' = [etag |-> ETag(seen), version |-> resp.version]
        <4>1. seen \in Files /\ resp.version \in 1..MaxWrites
          BY <1>1, <1>9, <3>2 DEF IInv, Bodied, Send, Typed, Responses
        <4> QED
          BY <3>2, <4>1, FileFacts DEF Copies
      <3> QED
        BY <1>9, <3>1, <3>2 DEF Send
    <2>3. resp' \in Responses /\ resp'.data \in 0..resp'.bodyLen
      BY <2>1, BoundsAssumption DEF NoResponse, Response, Responses
    <2>4. span' \in [start : Int, end : Int, status : {0, 200, 206}]
      BY <2>1 DEF NoSpan
    <2> QED
      BY <1>1, <2>1, <2>2, <2>3, <2>4 DEF Typed, TypeOK, Responses
  <1> QED
    BY <1>2, <1>3, <1>4, <1>5, <1>6, <1>7, <1>8, <1>9 DEF Next

\* A request stays what it is until it is answered.
LEMMA AskedStep ==
  ASSUME IInv, Next
  PROVE  Asked'
  <1> USE DEF IInv, Asked
  <1>1. CASE \E size \in 0..MaxSize : Write(size)
    BY <1>1 DEF Write
  <1>2. CASE Remove
    BY <1>2 DEF Remove
  <1>3. CASE \E r \in Requests : Begin(r)
    BY <1>3 DEF Begin
  <1>4. CASE Stat
    BY <1>4 DEF Stat
  <1>5. CASE Sizing
    BY <1>5 DEF Sizing
  <1>6. CASE Read
    BY <1>6 DEF Read
  <1>7. CASE Touch
    BY <1>7 DEF Touch
  <1>8. CASE Send
    BY <1>8 DEF Send
  <1> QED
    BY <1>1, <1>2, <1>3, <1>4, <1>5, <1>6, <1>7, <1>8 DEF Next

\* That the file is missing or empty does not go unnoticed.
LEMMA WitnessedStep ==
  ASSUME IInv, Next
  PROVE  Witnessed'
  <1> USE DEF IInv, Witnessed
  <1>1. CASE \E size \in 0..MaxSize : Write(size)
    BY <1>1 DEF Write, Observe
  <1>2. CASE Remove
    BY <1>2 DEF Remove, Observe
  <1>3. CASE \E r \in Requests : Begin(r)
    BY <1>3 DEF Begin, fileVars
  <1>4. CASE Stat
    BY <1>4 DEF Stat, fileVars, history
  <1>5. CASE Sizing
    BY <1>5 DEF Sizing, fileVars, history
  <1>6. CASE Read
    BY <1>6 DEF Read, fileVars, history
  <1>7. CASE Touch
    BY <1>7 DEF Touch, fileVars, history
  <1>8. CASE Send
    BY <1>8 DEF Send
  <1> QED
    BY <1>1, <1>2, <1>3, <1>4, <1>5, <1>6, <1>7, <1>8 DEF Next

\* The first stat sees the file; a write ends the quiet.
LEMMA RememberedStep ==
  ASSUME IInv, Next
  PROVE  Remembered'
  <1> USE DEF IInv, Remembered, Looking
  <1>1. CASE \E size \in 0..MaxSize : Write(size)
    BY <1>1 DEF Write, Observe
  <1>2. CASE Remove
    BY <1>2 DEF Remove, Observe
  <1>3. CASE \E r \in Requests : Begin(r)
    BY <1>3 DEF Begin
  <1>4. CASE Stat
    BY <1>4 DEF Stat, StatFails, Answer, Typed, TypeOK, fileVars, history
  <1>5. CASE Sizing
    BY <1>5 DEF Sizing, Answer, fileVars, history
  <1>6. CASE Read
    BY <1>6 DEF Read, Answer, fileVars, history
  <1>7. CASE Touch
    BY <1>7 DEF Touch, Answer
  <1>8. CASE Send
    BY <1>8 DEF Send
  <1> QED
    BY <1>1, <1>2, <1>3, <1>4, <1>5, <1>6, <1>7, <1>8 DEF Next

\* What is going to be read fits the file that was seen.
LEMMA PlannedStep ==
  ASSUME IInv, Next
  PROVE  Planned'
  <1> USE DEF IInv, Planned
  <1>1. CASE \E size \in 0..MaxSize : Write(size)
    <2>1. /\ UNCHANGED <<pc, req, seen, span, cache>>
          /\ undisturbed' = FALSE /\ (emptied => emptied')
      BY <1>1 DEF Write, Observe
    <2>2. ETag(seen)' = ETag(seen)
      BY <2>1 DEF ETag
    <2> QED
      BY <2>1, <2>2
  <1>2. CASE Remove
    BY <1>2 DEF Remove, Observe, ETag
  <1>3. CASE \E r \in Requests : Begin(r)
    BY <1>3 DEF Begin
  <1>4. CASE Stat
    <2>1. CASE pc' = "read"
      <3>1. /\ ~StatFails /\ seen' = file /\ req.range # None /\ span' = RangeSpan(req)
            /\ UNCHANGED <<file, req, cache, undisturbed, emptied>>
        BY <1>4, <2>1 DEF Stat, Answer, fileVars, history
      <3>2. file \in Files /\ req \in Requests
        BY <1>4, <3>1 DEF StatFails, Stat, Asked, Typed, TypeOK
      <3>3. RangeSpan(req).status \in {200, 206} /\ (RangeSpan(req).status = 206 => Honours(req))
        BY <3>1, <3>2, RangeSpanFacts
      <3>4. ETag(file)' = ETag(seen)'
        BY <3>1
      <3> QED
        BY <2>1, <3>1, <3>3 DEF Honours, ETag
    <2>2. CASE pc' # "read"
      BY <1>4, <2>2 DEF Stat, Answer
    <2> QED
      BY <2>1, <2>2
  <1>5. CASE Sizing
    <2>1. CASE pc' = "read"
      <3>1. /\ ~StatFails /\ span' = WholeSpan /\ req.range = None /\ pc = "sizing"
            /\ UNCHANGED <<file, req, seen, cache, undisturbed, emptied>>
        BY <1>5, <2>1 DEF Sizing, Answer, fileVars, history
      <3>2. file \in Files /\ file.size \in 0..MaxSize
        BY <3>1, FileFacts DEF StatFails, Typed, TypeOK
      <3>3. span'.start = 0 /\ span'.end = file.size - 1 /\ span'.status = 200
        BY <3>1 DEF WholeSpan
      <3>4. file.size = 0 => emptied
        BY <3>1, <3>2, FileFacts DEF Witnessed
      <3>5. undisturbed => file = seen
        BY <3>1 DEF Remembered, Looking
      <3> QED
        BY <2>1, <3>1, <3>2, <3>3, <3>4, <3>5, BoundsAssumption
    <2>2. CASE pc' # "read"
      BY <1>5, <2>2 DEF Sizing, Answer
    <2> QED
      BY <2>1, <2>2
  <1>6. CASE Read
    BY <1>6 DEF Read, Answer, ETag, fileVars, history
  <1>7. CASE Touch
    BY <1>7 DEF Touch, Answer
  <1>8. CASE Send
    BY <1>8 DEF Send
  <1> QED
    BY <1>1, <1>2, <1>3, <1>4, <1>5, <1>6, <1>7, <1>8 DEF Next

\* What has been read is of the version that is there.
LEMMA BodiedStep ==
  ASSUME IInv, Next
  PROVE  Bodied'
  <1> USE DEF IInv, Bodied
  <1>1. CASE \E size \in 0..MaxSize : Write(size)
    BY <1>1 DEF Write, Observe
  <1>2. CASE Remove
    BY <1>2 DEF Remove, Observe
  <1>3. CASE \E r \in Requests : Begin(r)
    BY <1>3, ErrorPageFacts DEF Begin
  <1>4. CASE Stat
    <2>1. pc' # "touch"
      BY <1>4 DEF Stat, Answer
    <2>2. pc' = "send" => resp'.version = 0
      BY <1>4, ErrorPageFacts, BodilessFacts DEF Stat, Answer, Response
    <2> QED
      BY <2>1, <2>2
  <1>5. CASE Sizing
    <2>1. pc' # "touch"
      BY <1>5 DEF Sizing, Answer
    <2>2. pc' = "send" => resp'.version = 0
      BY <1>5, ErrorPageFacts, BodilessFacts DEF Sizing, Answer, ErrorStatus
    <2> QED
      BY <2>1, <2>2
  <1>6. CASE Read
    <2>1. CASE pc' = "touch"
      <3>1. /\ pc = "read" /\ file # None /\ Length >= 0
            /\ resp' = Response(span.status, seen.size, Length, file.version, Start,
                                Delivered(file))
            /\ UNCHANGED <<file, req, seen, span, cache, undisturbed>>
        BY <1>6, <2>1 DEF Read, Answer, fileVars, history
      <3>2. /\ file \in Files /\ seen \in Files
            /\ undisturbed => file = seen
            /\ span.status \in {200, 206}
            /\ span.status = 206 /\ req.ifRange => cache.etag = ETag(seen)
        BY <3>1 DEF Typed, TypeOK, Remembered, Looking, Planned
      <3>3. /\ resp'.status = span.status /\ resp'.version = file.version
            /\ resp'.from = Start /\ resp'.bodyLen = Length /\ resp'.data = Delivered(file)
        BY <3>1 DEF Response
      <3>4. file.version # 0
        BY <3>2, FileFacts
      <3>5. undisturbed /\ req.range = None =>
              Start = 0 /\ Delivered(file) = Length /\ Length >= file.size - 1
        <4>1. SUFFICES ASSUME undisturbed, req.range = None
                       PROVE  Start = 0 /\ Delivered(file) = Length /\ Length >= file.size - 1
          OBVIOUS
        <4>2. span.start = 0 /\ span.end \in -1..(MaxSize - 1) /\ span.end = file.size - 1
          BY <3>1, <3>2, <4>1 DEF Planned
        <4>3. file.size = span.end + 1
          BY <3>2, <4>2, FileFacts
        <4>4. Start = 0 /\ Length = span.end
          BY <4>2, WholeRead
        <4>5. Delivered(file) = Length
          BY <3>1, <3>2, <4>2, <4>3, WholeRead
        <4> QED
          BY <4>2, <4>4, <4>5
      <3> QED
        BY <2>1, <3>1, <3>2, <3>3, <3>4, <3>5 DEF ETag
    <2>2. CASE pc' = "send"
      <3>1. resp'.version = 0
        BY <1>6, <2>2, ErrorPageFacts, BodilessFacts DEF Read, Answer, ErrorStatus
      <3> QED
        BY <2>2, <3>1
    <2> QED
      BY <1>6, <2>1, <2>2 DEF Read, Answer
  <1>7. CASE Touch
    <2>1. pc' = "send" /\ UNCHANGED <<file, req, seen, cache, undisturbed>>
      BY <1>7 DEF Touch, Answer, fileVars, history
    <2>2. resp'.version # 0 => resp' = resp
      BY <1>7, ErrorPageFacts, BodilessFacts DEF Touch, Answer, ErrorStatus, Typed
    <2> QED
      BY <1>7, <2>1, <2>2 DEF Touch, ETag
  <1>8. CASE Send
    BY <1>8 DEF Send
  <1> QED
    BY <1>1, <1>2, <1>3, <1>4, <1>5, <1>6, <1>7, <1>8 DEF Next

\* A 404 or a 500 is answered where the file is missing.
LEMMA ErrorsStep ==
  ASSUME IInv, Next
  PROVE  ErrorsForCause'
  <1> USE DEF IInv, ErrorsForCause, Sending
  <1>1. CASE \E size \in 0..MaxSize : Write(size)
    <2>1. (missed => missed') /\ refused' = refused /\ resp' = resp /\ pc' = pc
      BY <1>1 DEF Write, Observe
    <2> QED
      BY <2>1
  <1>2. CASE Remove
    BY <1>2 DEF Remove, Observe
  <1>3. CASE \E r \in Requests : Begin(r)
    BY <1>3, ErrorPageFacts DEF Begin
  <1>4. CASE Stat
    <2>1. CASE StatFails
      BY <1>4, <2>1 DEF Stat, StatFails, Witnessed, fileVars, history
    <2>2. CASE ~StatFails
      BY <1>4, <2>2 DEF Stat, Response
    <2> QED
      BY <2>1, <2>2
  <1>5. CASE Sizing
    BY <1>5 DEF Sizing, StatFails, Witnessed, fileVars, history
  <1>6. CASE Read
    BY <1>6 DEF Read, Witnessed, fileVars, history
  <1>7. CASE Touch
    <2>1. CASE StatFails
      BY <1>7, <2>1 DEF Touch, StatFails, Witnessed, fileVars, history
    <2>2. CASE ~StatFails
      BY <1>7, <2>2, BodilessFacts DEF Touch, Answer, Bodied, Typed
    <2> QED
      BY <2>1, <2>2
  <1>8. CASE Send
    BY <1>8 DEF Send
  <1> QED
    BY <1>1, <1>2, <1>3, <1>4, <1>5, <1>6, <1>7, <1>8 DEF Next

\* Only a read of less than nothing ends the process, and of the whole file less
\* than nothing is read when it is empty.
LEMMA AbortsStep ==
  ASSUME IInv, Next
  PROVE  PlainAbortsForCause'
  <1> USE DEF IInv, PlainAbortsForCause
  <1>1. CASE \E size \in 0..MaxSize : Write(size)
    BY <1>1 DEF Write
  <1>2. CASE Remove
    BY <1>2 DEF Remove
  <1>3. CASE \E r \in Requests : Begin(r)
    BY <1>3 DEF Begin
  <1>4. CASE Stat
    BY <1>4 DEF Stat
  <1>5. CASE Sizing
    BY <1>5 DEF Sizing
  <1>6. CASE Read
    <2>1. CASE Length < 0 /\ pc = "read" /\ req.range = None
      <3>1. span.start = 0 /\ span.end \in -1..(MaxSize - 1) /\ (span.end = -1 => emptied)
        BY <2>1 DEF Planned
      <3>2. Length = span.end
        BY <3>1, WholeRead
      <3>3. span.end = -1
        BY <2>1, <3>1, <3>2, BoundsAssumption
      <3> QED
        BY <1>6, <3>1, <3>3 DEF Read, history
    <2> QED
      BY <1>6, <2>1 DEF Read
  <1>7. CASE Touch
    BY <1>7 DEF Touch
  <1>8. CASE Send
    BY <1>8 DEF Send
  <1> QED
    BY <1>1, <1>2, <1>3, <1>4, <1>5, <1>6, <1>7, <1>8 DEF Next

\* The invariant holds in every behaviour.
LEMMA ResourceInvariant == Spec => []IInv
  <1>1. ASSUME IInv, Next
        PROVE  IInv'
    BY <1>1, TypedStep, AskedStep, WitnessedStep, RememberedStep, PlannedStep, BodiedStep,
       ErrorsStep, AbortsStep DEF IInv
  <1>2. ASSUME IInv, UNCHANGED vars
        PROVE  IInv'
    <2> USE <1>2 DEF vars, fileVars, history
    <2>1. Typed' /\ Asked' /\ Witnessed'
      BY DEF IInv, Typed, TypeOK, Asked, Witnessed
    <2>2. Remembered' /\ Planned' /\ Bodied'
      BY DEF IInv, Remembered, Looking, Planned, Bodied, ETag
    <2>3. ErrorsForCause' /\ PlainAbortsForCause'
      BY DEF IInv, ErrorsForCause, Sending, PlainAbortsForCause
    <2> QED
      BY <2>1, <2>2, <2>3 DEF IInv
  <1> QED
    BY <1>1, <1>2, InitIInv, PTL DEF Spec

---------------------------------------------------------------------------
\* The client's copy.

\* With at most one version a second, the copy of a client is the version of its
\* ETag for as long as a file has that.
LEMMA DatedStep ==
  ASSUME ~SameSecond, IInv, Dated, Next
  PROVE  Dated'
  <1> USE DEF IInv, Dated, Known
  <1>1. CASE \E size \in 0..MaxSize : Write(size)
    <2>1. /\ file'.mtime = now /\ now' = now + 1 /\ now \in Int
          /\ UNCHANGED <<pc, seen, resp, cache>>
      BY <1>1, BoundsAssumption DEF Write, Typed, TypeOK
    <2>2. cache # None => cache.etag[2] \in Int
      BY BoundsAssumption DEF Typed, TypeOK, Copies, ETags, ETag, Files
    <2>3. Looking \/ (pc \in {"touch", "send"} /\ resp.version # 0) => seen.mtime \in Int
      BY FileFacts, BoundsAssumption DEF Remembered, Bodied
    <2>4. Looking' = Looking
      BY <2>1 DEF Looking
    <2>5. cache # None => Known(cache.etag[2], cache.version)'
      BY <2>1, <2>2
    <2> QED
      BY <2>1, <2>3, <2>4, <2>5
  <1>2. CASE Remove
    BY <1>2 DEF Remove, Looking
  <1>3. CASE \E r \in Requests : Begin(r)
    BY <1>3, ErrorPageFacts DEF Begin, fileVars, Looking
  <1>4. CASE Stat
    <2>1. UNCHANGED <<file, now, cache>>
      BY <1>4 DEF Stat, fileVars
    <2>2. Looking' => seen' = file /\ file # None
      BY <1>4 DEF Stat, Answer, StatFails, Looking
    <2>3. pc' \in {"touch", "send"} => resp'.version = 0
      BY <1>4, ErrorPageFacts, BodilessFacts DEF Stat, Answer, Response
    <2> QED
      BY <2>1, <2>2, <2>3
  <1>5. CASE Sizing
    <2>1. UNCHANGED <<file, now, seen, cache>> /\ (Looking' => Looking)
      BY <1>5 DEF Sizing, fileVars, Looking
    <2>2. pc' \in {"touch", "send"} => resp'.version = 0
      BY <1>5, ErrorPageFacts, BodilessFacts DEF Sizing, Answer, ErrorStatus
    <2> QED
      BY <2>1, <2>2
  <1>6. CASE Read
    <2>1. UNCHANGED <<file, now, seen, cache>> /\ Looking
      BY <1>6 DEF Read, fileVars, Looking
    <2>2. pc' \in {"touch", "send"} /\ resp'.version # 0 => resp'.version = file.version
      BY <1>6, ErrorPageFacts, BodilessFacts DEF Read, Answer, ErrorStatus, Response
    <2> QED
      BY <2>1, <2>2
  <1>7. CASE Touch
    <2>1. UNCHANGED <<file, now, seen, cache>> /\ pc = "touch" /\ ~Looking'
      BY <1>7 DEF Touch, Answer, fileVars, Looking
    <2>2. resp'.version # 0 => resp' = resp
      BY <1>7, ErrorPageFacts, BodilessFacts DEF Touch, Answer, ErrorStatus, Typed
    <2> QED
      BY <2>1, <2>2
  <1>8. CASE Send
    <2>1. UNCHANGED <<file, now>> /\ pc' = "idle" /\ pc = "send"
      BY <1>8 DEF Send, fileVars
    <2>2. CASE UNCHANGED cache
      BY <2>1, <2>2 DEF Looking
    <2>3. CASE resp.version # 0 /\ cache' = [etag |-> ETag(seen), version |-> resp.version]
      BY <2>1, <2>3 DEF Looking, ETag
    <2> QED
      BY <1>8, <2>2, <2>3 DEF Send
  <1> QED
    BY <1>1, <1>2, <1>3, <1>4, <1>5, <1>6, <1>7, <1>8 DEF Next

\* The copy the server confirms is what it saw.
LEMMA NotModifiedStep ==
  ASSUME ~SameSecond, IInv, Dated, NotModifiedHonest, Next
  PROVE  NotModifiedHonest'
  <1> USE DEF IInv, NotModifiedHonest, Sending
  <1>1. CASE \E size \in 0..MaxSize : Write(size)
    BY <1>1 DEF Write
  <1>2. CASE Remove
    BY <1>2 DEF Remove
  <1>3. CASE \E r \in Requests : Begin(r)
    BY <1>3, ErrorPageFacts DEF Begin
  <1>4. CASE Stat
    <2>1. CASE StatFails
      BY <1>4, <2>1, ErrorPageFacts, BodilessFacts DEF Stat, Answer
    <2>2. CASE ~StatFails /\ req.ifNoneMatch /\ Fresh
      <3>1. req \in Requests /\ cache # None /\ file # None
        BY <1>4, <2>2 DEF Stat, StatFails, Asked
      <3>2. cache.etag[2] = file.mtime
        BY <2>2 DEF Fresh, ETag
      <3> QED
        BY <1>4, <2>2, <3>1, <3>2 DEF Stat, Dated, Known
    <2>3. CASE ~StatFails /\ ~(req.ifNoneMatch /\ Fresh)
      BY <1>4, <2>3 DEF Stat
    <2> QED
      BY <2>1, <2>2, <2>3
  <1>5. CASE Sizing
    BY <1>5, ErrorPageFacts, BodilessFacts DEF Sizing, Answer, ErrorStatus
  <1>6. CASE Read
    BY <1>6, ErrorPageFacts, BodilessFacts DEF Read, Answer, ErrorStatus
  <1>7. CASE Touch
    BY <1>7, ErrorPageFacts, BodilessFacts DEF Touch, Answer, ErrorStatus, Bodied, Typed
  <1>8. CASE Send
    BY <1>8 DEF Send
  <1> QED
    BY <1>1, <1>2, <1>3, <1>4, <1>5, <1>6, <1>7, <1>8 DEF Next

---------------------------------------------------------------------------
\* When no other program touched the file, the body is the file, all of it but at
\* most the last byte; errors say that it was missing or could not be opened.  Both
\* hold however many versions a second has.
THEOREM BodyCorrectness == Spec => [](UndisturbedBody /\ ErrorsForCause)
  <1>1. IInv => UndisturbedBody /\ ErrorsForCause
    BY DEF IInv, Bodied, UndisturbedBody, Sending
  <1> QED
    BY <1>1, ResourceInvariant, PTL

\* A request for a whole file, on a path that can be decoded, ends the process only
\* when the file was empty.
THEOREM PlainRequestsCorrectness == Spec => []PlainAbortsForCause
  BY ResourceInvariant, PTL DEF IInv

\* What is answered is true of the file and of the client's copy, when the clock
\* tells the versions of a file apart.
THEOREM ResourceCorrectness == ~SameSecond /\ Spec => []ResponseSound
  <1> SUFFICES ASSUME ~SameSecond
               PROVE  Spec => []ResponseSound
    OBVIOUS
  <1>1. Init => Dated /\ NotModifiedHonest
    BY NoneAssumption DEF Init, Dated, Looking, NotModifiedHonest, Sending
  <1>2. ASSUME IInv, Dated, NotModifiedHonest, [Next]_vars
        PROVE  (Dated /\ NotModifiedHonest)'
    <2>1. CASE Next
      BY <1>2, <2>1, DatedStep, NotModifiedStep
    <2>2. CASE UNCHANGED vars
      BY <1>2, <2>2 DEF vars, fileVars, Dated, Known, Looking, NotModifiedHonest, Sending
    <2> QED
      BY <1>2, <2>1, <2>2
  <1>3. IInv /\ Dated /\ NotModifiedHonest => ResponseSound
    <2> SUFFICES ASSUME IInv, Dated, NotModifiedHonest
                 PROVE  ResponseSound
      OBVIOUS
    <2>1. UndisturbedBody
      BY DEF IInv, Bodied, UndisturbedBody, Sending
    <2>2. ResumeMatchesCopy
      <3> SUFFICES ASSUME Sending, undisturbed, req.ifRange, resp.status = 206,
                          resp.version # 0
                   PROVE  resp.version = cache.version
        BY DEF ResumeMatchesCopy
      <3>1. /\ cache.etag = ETag(seen) /\ file = seen /\ resp.version = file.version
            /\ seen \in Files
        BY DEF IInv, Bodied, Sending
      <3>2. cache # None /\ file # None
        BY <3>1, FileFacts DEF IInv, Asked, Sending
      <3>3. cache.etag[2] = file.mtime
        BY <3>1 DEF ETag
      <3> QED
        BY <3>1, <3>2, <3>3 DEF Dated, Known
    <2> QED
      BY <2>1, <2>2 DEF IInv, Typed, ResponseSound
  <1> QED
    BY <1>1, <1>2, <1>3, ResourceInvariant, PTL DEF Spec

=============================================================================
