------------------------- MODULE FcgiStreamsProofs -------------------------
(***************************************************************************)
(* Theorems about FcgiStreambuf, for memory and inputs of any size, about  *)
(* FcgiPrintf, for formats of any length, and about FcgiReader, for        *)
(* connections of any length and records of any size.                      *)
(*                                                                         *)
(* SentInOrder is not inductive, since it is silent once a write failed,   *)
(* and NothingLost is, but needs to know what a failure leaves behind; what*)
(* attach or the destructor gives up is small because the put area holds   *)
(* the last of the accepted units, and none after a sync (LossInv).  An    *)
(* operation goes through states of its own: each of them is Good, as the  *)
(* state between operations.  On the read side, what is in the get area    *)
(* are the units before the next one of the stream (InArea), and gptr() is *)
(* past egptr() only at the end of the input.                              *)
(*                                                                         *)
(* A print is right because of the arguments: on either path those read    *)
(* before an item are those meant for the items before it (Before), so     *)
(* that a value, and with it the buffer it needs, is the one meant.        *)
(*                                                                         *)
(* The reader follows a connection because it always knows which record it *)
(* is at: what it took and what it still counts in contentLen, paddingLen  *)
(* and headerLen meet where the next record starts (Located), so the next  *)
(* header it gathers is that record's.  What it wrote and delivered is     *)
(* then what the records up to that one ask for (Logged, Counted,          *)
(* Delivered).                                                             *)
(***************************************************************************)
EXTENDS FcgiStreambuf, FcgiPrintf, FcgiReader, SequenceTheorems, WellFoundedInduction, TLAPS

StreambufSafety == StreambufInit /\ [][StreambufNext]_streambufVars

Upto(n) == [i \in 1..n |-> i]

States == [put : Seq(Nat), sent : Seq(Nat), accepted : Nat, broken : BOOLEAN,
           failures : Nat, ok : BOOLEAN]

Good(x) ==
  /\ x \in States
  /\ bufsize \in Nat /\ Len(x.put) <= bufsize /\ x.failures <= MaxFailures
  /\ ~x.ok => x.broken
  /\ ~x.broken => x.sent \o x.put = Upto(x.accepted)
  /\ \A i \in 1..x.accepted : i \in ToSet(x.sent) \cup ToSet(x.put)
  /\ \A i \in ToSet(x.put) : i \in Nat /\ x.accepted < i + Len(x.put)

WriteInv ==
  /\ put \in Seq(Nat) /\ sent \in Seq(Nat) /\ accepted \in 0..MaxUnits
  /\ broken \in BOOLEAN /\ failures \in 0..MaxFailures
  /\ Len(put) <= bufsize
  /\ ~broken => /\ sent \o put = Upto(accepted)
                /\ ~alive => put = <<>>
  /\ \A i \in 1..accepted : i \in ToSet(sent) \cup ToSet(put)
  /\ \A i \in ToSet(put) : i \in Nat /\ accepted < i + Len(put)

\* What was given up was in a put area, and that is empty after a sync.
LossInv ==
  /\ synced \in BOOLEAN /\ (synced => put = <<>>)
  /\ lost \subseteq [after : Nat, synced : BOOLEAN] /\ OnlyBufferLost

---------------------------------------------------------------------------
\* Sequences.

\* What two sequences in a row hold.
LEMMA ConcatSet ==
  ASSUME NEW s \in Seq(Nat), NEW t \in Seq(Nat)
  PROVE  s \o t \in Seq(Nat) /\ ToSet(s \o t) = ToSet(s) \cup ToSet(t)
  <1>1. /\ s \o t \in Seq(Nat) /\ Len(s) \in Nat /\ Len(t) \in Nat
        /\ Len(s \o t) = Len(s) + Len(t)
        /\ \A i \in 1..(Len(s) + Len(t)) :
             (s \o t)[i] = IF i <= Len(s) THEN s[i] ELSE t[i - Len(s)]
    OBVIOUS
  <1> DEFINE u == s \o t
  <1>2. DOMAIN s = 1..Len(s) /\ DOMAIN t = 1..Len(t) /\ DOMAIN u = 1..(Len(s) + Len(t))
    BY <1>1
  <1> HIDE DEF u
  <1>3. \A i \in DOMAIN u : \/ i \in DOMAIN s /\ u[i] = s[i]
                            \/ i - Len(s) \in DOMAIN t /\ u[i] = t[i - Len(s)]
    BY <1>1, <1>2 DEF u
  <1>4. \A i \in DOMAIN s : i \in DOMAIN u /\ u[i] = s[i]
    BY <1>1, <1>2 DEF u
  <1>5. \A i \in DOMAIN t : i + Len(s) \in DOMAIN u /\ u[i + Len(s)] = t[i]
    <2> SUFFICES ASSUME NEW i \in 1..Len(t)
                 PROVE  i + Len(s) \in DOMAIN u /\ u[i + Len(s)] = t[i]
      BY <1>2
    <2>1. i + Len(s) \in 1..(Len(s) + Len(t)) /\ ~(i + Len(s) <= Len(s)) /\ (i + Len(s)) - Len(s) = i
      BY <1>1
    <2> QED
      BY <1>1, <1>2, <2>1 DEF u
  <1>6. ToSet(u) \subseteq ToSet(s) \cup ToSet(t)
    BY <1>3 DEF ToSet
  <1>7. ToSet(s) \subseteq ToSet(u) /\ ToSet(t) \subseteq ToSet(u)
    BY <1>4, <1>5 DEF ToSet
  <1> QED
    BY <1>1, <1>6, <1>7 DEF u

\* The empty sequence changes nothing, and rows of three can be taken apart.
LEMMA ConcatFacts ==
  ASSUME NEW s \in Seq(Nat), NEW t \in Seq(Nat), NEW u \in Seq(Nat)
  PROVE  /\ s \o <<>> = s /\ <<>> \o s = s
         /\ (s \o t) \o u = s \o (t \o u)
  OBVIOUS

\* The first units, and some more of them.
LEMMA UptoFacts ==
  ASSUME NEW n \in Nat, NEW m \in Nat
  PROVE  /\ Upto(n) \in Seq(Nat) /\ Len(Upto(n)) = n
         /\ [i \in 1..m |-> n + i] \in Seq(Nat)
         /\ Upto(n) \o [i \in 1..m |-> n + i] = Upto(n + m)
  <1>1. Upto(n) \in Seq(Nat) /\ Len(Upto(n)) = n /\ \A i \in 1..n : Upto(n)[i] = i
    BY DEF Upto
  <1> DEFINE more == [i \in 1..m |-> n + i]
  <1>2. more \in Seq(Nat) /\ Len(more) = m /\ \A i \in 1..m : more[i] = n + i
    OBVIOUS
  <1>3. Upto(n + m) \in Seq(Nat) /\ Len(Upto(n + m)) = n + m
        /\ \A i \in 1..(n + m) : Upto(n + m)[i] = i
    BY DEF Upto
  <1> HIDE DEF more
  <1>4. /\ Upto(n) \o more \in Seq(Nat) /\ Len(Upto(n) \o more) = n + m
        /\ \A i \in 1..(n + m) : (Upto(n) \o more)[i] = i
    BY <1>1, <1>2
  <1>5. Upto(n) \o more = Upto(n + m)
    BY <1>3, <1>4, SeqEqual
  <1> QED
    BY <1>1, <1>2, <1>5 DEF more

\* One more.
LEMMA UptoNext ==
  ASSUME NEW n \in Nat
  PROVE  /\ <<n + 1>> \in Seq(Nat) /\ ToSet(<<n + 1>>) = {n + 1}
         /\ Upto(n) \o <<n + 1>> = Upto(n + 1)
  <1>1. [i \in 1..1 |-> n + i] = <<n + 1>>
    OBVIOUS
  <1>2. Upto(n) \o <<n + 1>> = Upto(n + 1)
    BY <1>1, UptoFacts
  <1> QED
    BY <1>2 DEF ToSet

\* None.
LEMMA UptoNone == <<>> \o <<>> = Upto(0)
  <1>1. Upto(0) \in Seq(Nat) /\ Len(Upto(0)) = 0 /\ <<>> \in Seq(Nat)
    BY UptoFacts
  <1>2. Upto(0) = <<>>
    BY <1>1, EmptySeq
  <1> QED
    BY <1>1, <1>2, ConcatFacts

---------------------------------------------------------------------------
\* The write side, one operator after the other.

\* A write to the stream hands on all of what it was given, or a part of it.
LEMMA StreamPutFacts ==
  ASSUME NEW x \in States, NEW u \in Seq(Nat), x.failures <= MaxFailures,
         NEW y \in StreamPut(x, u)
  PROVE  /\ y \in States /\ y.failures <= MaxFailures
         /\ y.put = x.put /\ y.accepted = x.accepted
         /\ \/ y.sent = x.sent \o u /\ y.broken = x.broken /\ y.ok = x.ok
            \/ \E v \in Seq(Nat) : y.sent = x.sent \o v /\ y.broken /\ ~y.ok
  <1>1. /\ x.put \in Seq(Nat) /\ x.sent \in Seq(Nat) /\ x.accepted \in Nat
        /\ x.broken \in BOOLEAN /\ x.failures \in Nat /\ x.ok \in BOOLEAN
    BY DEF States
  <1>2. CASE y = [x EXCEPT !.sent = @ \o u]
    <2>1. /\ y.put = x.put /\ y.sent = x.sent \o u /\ y.accepted = x.accepted
          /\ y.broken = x.broken /\ y.failures = x.failures /\ y.ok = x.ok
      BY <1>2 DEF States
    <2>2. x.sent \o u \in Seq(Nat)
      BY <1>1
    <2>3. y \in States
      BY <1>2, <2>2 DEF States
    <2> QED
      BY <2>1, <2>3
  <1>3. ASSUME NEW k \in 0..(Len(u) - 1), x.failures < MaxFailures,
               y = [x EXCEPT !.sent = @ \o SubSeq(u, 1, k), !.ok = FALSE,
                             !.broken = TRUE, !.failures = @ + 1]
        PROVE  /\ y \in States /\ y.failures <= MaxFailures
               /\ y.put = x.put /\ y.accepted = x.accepted
               /\ \E v \in Seq(Nat) : y.sent = x.sent \o v /\ y.broken /\ ~y.ok
    <2>1. SubSeq(u, 1, k) \in Seq(Nat)
      OBVIOUS
    <2>2. PICK v \in Seq(Nat) : v = SubSeq(u, 1, k)
      BY <2>1
    <2>3. y = [x EXCEPT !.sent = @ \o v, !.ok = FALSE, !.broken = TRUE, !.failures = @ + 1]
      BY <1>3, <2>2
    <2>4. /\ y.put = x.put /\ y.sent = x.sent \o v /\ y.accepted = x.accepted
          /\ y.broken = TRUE /\ y.failures = x.failures + 1 /\ y.ok = FALSE
      BY <2>3 DEF States
    <2>5. x.sent \o v \in Seq(Nat)
      BY <1>1
    <2>6. x.failures + 1 \in Nat /\ x.failures + 1 <= MaxFailures
      <3>1. x.failures < MaxFailures
        BY <1>3
      <3> QED
        BY <1>1, <3>1, StreambufAssumption
    <2>7. y \in States
      BY <2>3, <2>5, <2>6 DEF States
    <2> QED
      BY <2>4, <2>6, <2>7
  <1> QED
    BY <1>2, <1>3 DEF StreamPut

\* Flush empties the put area unless the write fails.
LEMMA FlushGood ==
  ASSUME NEW x, Good(x), NEW y \in Flush(x)
  PROVE  Good(y) /\ y.accepted = x.accepted /\ (y.ok => y.put = <<>>)
  <1>1. CASE x.put = <<>>
    BY <1>1 DEF Flush
  <1>2. CASE x.put # <<>>
    <2>1. PICK z \in StreamPut(x, x.put) : y = AfterFlush(z)
      BY <1>2 DEF Flush
    <2>2. /\ x \in States /\ x.failures <= MaxFailures
          /\ x.put \in Seq(Nat) /\ x.sent \in Seq(Nat) /\ x.accepted \in Nat
      BY DEF Good, States
    <2>3. /\ z \in States /\ z.failures <= MaxFailures
          /\ z.put = x.put /\ z.accepted = x.accepted
          /\ \/ z.sent = x.sent \o x.put /\ z.broken = x.broken /\ z.ok = x.ok
             \/ \E v \in Seq(Nat) : z.sent = x.sent \o v /\ z.broken /\ ~z.ok
      BY <2>1, <2>2, StreamPutFacts
    <2>4. CASE z.ok
      <3>1. /\ z.sent = x.sent \o x.put /\ z.broken = x.broken
            /\ y = [z EXCEPT !.put = <<>>]
        BY <2>1, <2>3, <2>4 DEF AfterFlush
      <3>0. z \in States /\ <<>> \in Seq(Nat) /\ y = [z EXCEPT !.put = <<>>]
        BY <2>3, <3>1
      <3>2. /\ y \in States /\ y.put = <<>> /\ y.sent = z.sent /\ y.accepted = z.accepted
            /\ y.broken = z.broken /\ y.failures = z.failures /\ y.ok = z.ok
        BY <3>0 DEF States
      <3>3. /\ y.sent \o y.put = x.sent \o x.put
            /\ ToSet(y.sent) = ToSet(x.sent) \cup ToSet(x.put)
        <4>1. y.sent = x.sent \o x.put /\ y.put = <<>>
          BY <3>1, <3>2
        <4>2. x.sent \o x.put \in Seq(Nat) /\ ToSet(x.sent \o x.put) = ToSet(x.sent) \cup ToSet(x.put)
          BY <2>2, ConcatSet
        <4>3. (x.sent \o x.put) \o <<>> = x.sent \o x.put
          BY <4>2, ConcatFacts
        <4> QED
          BY <4>1, <4>2, <4>3
      <3>4. Len(y.put) <= bufsize
        BY <3>2 DEF Good
      <3>5. \A i \in 1..y.accepted : i \in ToSet(y.sent) \cup ToSet(y.put)
        BY <2>3, <3>2, <3>3 DEF Good
      <3>6. ToSet(y.put) = {}
        BY <3>2 DEF ToSet
      <3> QED
        BY <2>3, <2>4, <3>1, <3>2, <3>3, <3>4, <3>5, <3>6 DEF Good
    <2>5. CASE ~z.ok
      <3>1. y = z
        BY <2>1, <2>5 DEF AfterFlush
      <3>2. z.broken /\ ToSet(x.sent) \subseteq ToSet(z.sent)
        BY <2>2, <2>3, <2>5, ConcatSet DEF Good
      <3> QED
        BY <2>3, <2>5, <3>1, <3>2 DEF Good
    <2> QED
      BY <2>4, <2>5
  <1> QED
    BY <1>1, <1>2

\* One more unit was accepted, or none.
OneMore(x, y) == y.accepted \in {x.accepted, x.accepted + 1}

\* The unit that finds no room follows the put area to the stream.
LEMMA OverflowGood ==
  ASSUME NEW x, Good(x), NEW y \in Overflow(x)
  PROVE  Good(y) /\ OneMore(x, y)
  <1>1. PICK e \in Flush(x) :
          y \in IF e.ok THEN {Took(z) : z \in StreamPut(e, <<e.accepted + 1>>)} ELSE {e}
    BY DEF Overflow
  <1>2. /\ Good(e) /\ e.accepted = x.accepted /\ (e.ok => e.put = <<>>)
        /\ e \in States /\ e.put \in Seq(Nat) /\ e.sent \in Seq(Nat) /\ e.accepted \in Nat
    BY FlushGood DEF Good, States
  <1>3. CASE ~e.ok
    BY <1>1, <1>2, <1>3 DEF OneMore
  <1>4. CASE e.ok
    <2>1. PICK z \in StreamPut(e, <<e.accepted + 1>>) : y = Took(z)
      BY <1>1, <1>4
    <2>2. <<e.accepted + 1>> \in Seq(Nat) /\ ToSet(<<e.accepted + 1>>) = {e.accepted + 1}
          /\ Upto(e.accepted) \o <<e.accepted + 1>> = Upto(e.accepted + 1)
      BY <1>2, UptoNext
    <2> DEFINE u == <<e.accepted + 1>>
    <2> HIDE DEF u
    <2>3. /\ z \in States /\ z.failures <= MaxFailures
          /\ z.put = e.put /\ z.accepted = e.accepted
          /\ \/ z.sent = e.sent \o u /\ z.broken = e.broken /\ z.ok = e.ok
             \/ \E v \in Seq(Nat) : z.sent = e.sent \o v /\ z.broken /\ ~z.ok
      BY <1>2, <2>1, <2>2, StreamPutFacts DEF u, Good
    <2>4. Len(z.put) <= bufsize
      BY <1>2, <2>3 DEF Good
    <2>5. CASE ~z.ok
      <3>1. y = z
        BY <2>1, <2>5 DEF Took
      <3>2. z.broken /\ ToSet(e.sent) \subseteq ToSet(z.sent)
        BY <1>2, <1>4, <2>3, <2>5, ConcatSet
      <3> QED
        BY <1>2, <2>3, <2>4, <2>5, <3>1, <3>2 DEF Good, OneMore
    <2>6. CASE z.ok
      <3>1. /\ z.sent = e.sent \o u /\ z.broken = e.broken
            /\ y = [z EXCEPT !.accepted = @ + 1]
        BY <2>1, <2>3, <2>6 DEF Took
      <3>2. /\ y \in States /\ y.put = z.put /\ y.sent = z.sent
            /\ y.accepted = e.accepted + 1
            /\ y.broken = z.broken /\ y.failures = z.failures /\ y.ok = z.ok
        <4>1. z \in States /\ z.accepted + 1 \in Nat /\ z.accepted = e.accepted
              /\ y = [z EXCEPT !.accepted = @ + 1]
          BY <1>2, <2>3, <3>1
        <4>2. y \in States
          BY <4>1 DEF States
        <4> QED
          BY <4>1, <4>2 DEF States
      <3>3. /\ ToSet(y.sent) = ToSet(e.sent) \cup {e.accepted + 1}
            /\ y.put = <<>> /\ y.sent \o y.put = e.sent \o u
        <4>1. y.put = <<>> /\ y.sent = e.sent \o u
          BY <1>2, <1>4, <2>3, <3>1, <3>2
        <4>2. u \in Seq(Nat) /\ ToSet(u) = {e.accepted + 1}
          BY <2>2 DEF u
        <4>3. e.sent \o u \in Seq(Nat) /\ ToSet(e.sent \o u) = ToSet(e.sent) \cup ToSet(u)
          BY <1>2, <4>2, ConcatSet
        <4>4. (e.sent \o u) \o <<>> = e.sent \o u
          BY <4>3, ConcatFacts
        <4> QED
          BY <4>1, <4>2, <4>3, <4>4
      <3>4. ~y.broken => y.sent \o y.put = Upto(y.accepted)
        <4> SUFFICES ASSUME ~y.broken PROVE e.sent \o u = Upto(e.accepted + 1)
          BY <3>2, <3>3
        <4>1. e.sent \o e.put = Upto(e.accepted)
          BY <1>2, <3>1, <3>2 DEF Good
        <4>2. e.sent = Upto(e.accepted)
          BY <1>2, <1>4, <4>1, ConcatFacts
        <4> QED
          BY <2>2, <4>2 DEF u
      <3>5. \A i \in 1..(e.accepted + 1) : i \in 1..e.accepted \/ i = e.accepted + 1
        BY <1>2
      <3>6. \A i \in 1..y.accepted : i \in ToSet(y.sent) \cup ToSet(y.put)
        <4>1. e.put = <<>> /\ ToSet(<<>>) = {}
          BY <1>2, <1>4 DEF ToSet
        <4>2. \A i \in 1..e.accepted : i \in ToSet(e.sent)
          BY <1>2, <4>1 DEF Good
        <4> QED
          BY <3>2, <3>3, <3>5, <4>2
      <3>7. ToSet(y.put) = {}
        BY <3>3 DEF ToSet
      <3> QED
        BY <1>2, <2>3, <2>4, <2>6, <3>2, <3>4, <3>6, <3>7 DEF Good, OneMore
    <2> QED
      BY <2>5, <2>6
  <1> QED
    BY <1>3, <1>4

\* The next unit enters the put area, or what Overflow does happens.
LEMMA SputcGood ==
  ASSUME NEW x, Good(x), NEW y \in Sputc(x)
  PROVE  Good(y) /\ OneMore(x, y)
  <1>1. /\ x \in States /\ x.put \in Seq(Nat) /\ x.sent \in Seq(Nat) /\ x.accepted \in Nat
        /\ x.ok \in BOOLEAN /\ bufsize \in Nat /\ Len(x.put) \in Nat
    BY DEF Good, States
  <1>2. CASE ~x.ok
    BY <1>1, <1>2 DEF Sputc, OneMore
  <1>3. CASE x.ok /\ Len(x.put) < bufsize
    <2> DEFINE n == x.accepted + 1
               z == [x EXCEPT !.put = Append(@, n)]
    <2>1. n \in Nat /\ y = Took(z)
      BY <1>1, <1>3 DEF Sputc
    <2>2. /\ Append(x.put, n) \in Seq(Nat) /\ Len(Append(x.put, n)) = Len(x.put) + 1
          /\ Append(x.put, n) = x.put \o <<n>>
      <3>1. x.put \in Seq(Nat) /\ n \in Nat
        BY <1>1, <2>1
      <3> HIDE DEF n
      <3>2. Append(x.put, n) \in Seq(Nat) /\ Len(Append(x.put, n)) = Len(x.put) + 1
        BY <3>1, AppendProperties
      <3>3. Append(x.put, n) = x.put \o <<n>>
        BY <3>1, AppendIsConcat
      <3> QED
        BY <3>2, <3>3
    <2>3. PICK p \in Seq(Nat) : p = Append(x.put, n)
      BY <2>2
    <2>4. z = [x EXCEPT !.put = p]
      BY <2>3
    <2>5. /\ z \in States /\ z.put = p /\ z.sent = x.sent /\ z.accepted = x.accepted
          /\ z.broken = x.broken /\ z.failures = x.failures /\ z.ok = x.ok
      BY <1>1, <2>4 DEF States
    <2> HIDE DEF z
    <2>6. y = [z EXCEPT !.accepted = @ + 1]
      BY <1>3, <2>1, <2>5 DEF Took
    <2>7. y.put = p /\ y.sent = x.sent /\ y.accepted = n /\ y.broken = x.broken
          /\ y.failures = x.failures /\ y.ok = x.ok
      BY <2>5, <2>6 DEF States
    <2>8. y \in States
      BY <2>1, <2>5, <2>6 DEF States
    <2>9. /\ <<n>> \in Seq(Nat) /\ ToSet(<<n>>) = {n} /\ Upto(x.accepted) \o <<n>> = Upto(n)
      BY <1>1, UptoNext
    <2>10. ToSet(p) = ToSet(x.put) \cup {n} /\ x.sent \o p = (x.sent \o x.put) \o <<n>>
      <3>1. PICK u \in Seq(Nat) : u = <<n>>
        BY <2>9
      <3>2. p = x.put \o u /\ ToSet(u) = {n}
        BY <2>2, <2>3, <2>9, <3>1
      <3>3. ToSet(x.put \o u) = ToSet(x.put) \cup ToSet(u)
        BY <1>1, ConcatSet
      <3>4. x.sent \in Seq(Nat) /\ x.put \in Seq(Nat) /\ u \in Seq(Nat)
        BY <1>1
      <3>5. (x.sent \o x.put) \o u = x.sent \o (x.put \o u)
        BY <3>4, ConcatFacts, ZenonT(60)
      <3> QED
        BY <3>1, <3>2, <3>3, <3>5
    <2>11. ~y.broken => y.sent \o y.put = Upto(y.accepted)
      BY <2>7, <2>9, <2>10 DEF Good
    <2>12. \A i \in 1..n : i \in 1..x.accepted \/ i = n
      BY <1>1
    <2>13. \A i \in 1..y.accepted : i \in ToSet(y.sent) \cup ToSet(y.put)
      BY <2>7, <2>10, <2>12 DEF Good
    <2>14. Len(y.put) <= bufsize
      BY <1>1, <1>3, <2>2, <2>3, <2>7
    <2>15. \A i \in ToSet(y.put) : i \in Nat /\ y.accepted < i + Len(y.put)
      <3>1. /\ ToSet(y.put) = ToSet(x.put) \cup {n} /\ Len(y.put) = Len(x.put) + 1
            /\ y.accepted = x.accepted + 1
        BY <2>2, <2>3, <2>7, <2>10
      <3>2. ASSUME NEW i \in ToSet(x.put) PROVE i \in Nat /\ y.accepted < i + Len(y.put)
        <4>1. i \in Nat /\ x.accepted < i + Len(x.put)
          BY <3>2 DEF Good
        <4> QED
          BY <1>1, <3>1, <4>1
      <3>3. n \in Nat /\ y.accepted < n + Len(y.put)
        BY <1>1, <3>1
      <3> QED
        BY <3>1, <3>2, <3>3
    <2> QED
      BY <2>7, <2>8, <2>11, <2>13, <2>14, <2>15 DEF Good, OneMore
  <1>4. CASE x.ok /\ ~(Len(x.put) < bufsize)
    BY <1>4, OverflowGood DEF Sputc
  <1> QED
    BY <1>1, <1>2, <1>3, <1>4

\* So do several, one after the other.
LEMMA ThenGood ==
  ASSUME NEW X, NEW n \in Nat, NEW m \in Nat,
         \A x \in X : Good(x) /\ x.accepted \in n..m
  PROVE  \A y \in Then(X) : Good(y) /\ y.accepted \in n..(m + 1)
  <1> SUFFICES ASSUME NEW x \in X, NEW y \in Sputc(x)
               PROVE  Good(y) /\ y.accepted \in n..(m + 1)
    BY DEF Then
  <1>1. Good(x) /\ x.accepted \in n..m
    OBVIOUS
  <1>2. Good(y) /\ OneMore(x, y)
    BY <1>1, SputcGood
  <1> QED
    BY <1>1, <1>2 DEF OneMore

---------------------------------------------------------------------------
\* The write side, one operation after the other.

\* Between operations the state is good, and an operation leaves a good one.
LEMMA NowGood ==
  ASSUME WriteInv, bufsize \in Nat PROVE Good(Now) /\ Now.accepted = accepted
  <1>1. /\ Now.put = put /\ Now.sent = sent /\ Now.accepted = accepted
        /\ Now.broken = broken /\ Now.failures = failures /\ Now.ok = TRUE
    BY DEF Now
  <1>2. accepted \in Nat /\ failures \in Nat /\ failures <= MaxFailures
    BY StreambufAssumption DEF WriteInv
  <1>3. Now \in States
    BY <1>2 DEF Now, States, WriteInv
  <1> QED
    BY <1>1, <1>2, <1>3 DEF Good, WriteInv

\* What it leaves becomes the state.
LEMMA BecomesGood ==
  ASSUME NEW x, Good(x), x.accepted \in 0..MaxUnits, Becomes(x), bufsize' = bufsize,
         (~alive)' => (~x.broken => x.put = <<>>)
  PROVE  WriteInv'
  <1>1. /\ put' = x.put /\ sent' = x.sent /\ accepted' = x.accepted
        /\ broken' = x.broken /\ failures' = x.failures
    BY DEF Becomes
  <1>2. /\ x.put \in Seq(Nat) /\ x.sent \in Seq(Nat) /\ x.broken \in BOOLEAN
        /\ x.failures \in Nat /\ x.failures <= MaxFailures /\ Len(x.put) <= bufsize
    BY DEF Good, States
  <1>3. x.failures \in 0..MaxFailures
    BY <1>2, StreambufAssumption
  <1>4. (~broken)' => (sent \o put)' = Upto(accepted)'
    BY <1>1 DEF Good, Upto
  <1>5. \A i \in 1..accepted' : i \in ToSet(sent') \cup ToSet(put')
    BY <1>1 DEF Good
  <1>6. \A i \in ToSet(put') : i \in Nat /\ accepted' < i + Len(put')
    BY <1>1 DEF Good
  <1> QED
    BY <1>1, <1>2, <1>3, <1>4, <1>5, <1>6 DEF WriteInv, ToSet

\* sputc.
LEMMA WriteCharInv ==
  ASSUME WriteInv, bufsize \in Nat, WriteChar PROVE WriteInv'
  <1>1. /\ accepted < MaxUnits /\ accepted \in 0..MaxUnits /\ bufsize' = bufsize
        /\ alive' = TRUE
    BY DEF WriteChar, CanWrite, WriteInv
  <1>2. PICK x \in Sputc(Now) : Becomes(x)
    BY DEF WriteChar
  <1>3. Good(x) /\ x.accepted \in {accepted, accepted + 1}
    BY <1>2, NowGood, SputcGood DEF OneMore
  <1>4. x.accepted \in 0..MaxUnits
    BY <1>1, <1>3, StreambufAssumption
  <1> QED
    BY <1>1, <1>2, <1>3, <1>4, BecomesGood

\* Without memory the units go to the stream in one write.
LEMMA UnbufferedGood ==
  ASSUME Good(Now), Now.accepted = accepted, ~(bufsize > 0), NEW n \in Nat, NEW x \in Sputn(n)
  PROVE  Good(x) /\ x.accepted \in accepted..(accepted + n)
  <1> DEFINE u == [i \in 1..n |-> accepted + i]
  <1>1. PICK z \in StreamPut(Now, u) :
          x = IF z.ok THEN [z EXCEPT !.accepted = @ + n] ELSE z
    BY DEF Sputn
  <1>2. /\ Now \in States /\ Now.failures <= MaxFailures /\ accepted \in Nat
        /\ Now.sent \in Seq(Nat) /\ Now.put \in Seq(Nat) /\ Now.ok = TRUE
    BY DEF Good, States, Now
  <1>3. Now.put = <<>> /\ ToSet(<<>>) = {} /\ Len(<<>>) = 0
    <2>1. Len(Now.put) \in Nat /\ Len(Now.put) <= bufsize /\ bufsize \in Nat
      BY <1>2 DEF Good
    <2>2. Len(Now.put) = 0
      BY <2>1
    <2> QED
      BY <1>2, <2>2, EmptySeq DEF ToSet
  <1>4. u \in Seq(Nat) /\ Upto(accepted) \o u = Upto(accepted + n)
    BY <1>2, UptoFacts
  <1>5. Len(u) = n /\ \A i \in 1..n : u[i] = accepted + i
    OBVIOUS
  <1> HIDE DEF u
  <1>6. /\ z \in States /\ z.failures <= MaxFailures
        /\ z.put = Now.put /\ z.accepted = Now.accepted
        /\ \/ z.sent = Now.sent \o u /\ z.broken = Now.broken /\ z.ok = Now.ok
           \/ \E v \in Seq(Nat) : z.sent = Now.sent \o v /\ z.broken /\ ~z.ok
    BY <1>1, <1>2, <1>4, StreamPutFacts
  <1>7. Len(z.put) <= bufsize /\ bufsize \in Nat
    BY <1>6 DEF Good
  <1>8. CASE ~z.ok
    <2>1. x = z
      BY <1>1, <1>8
    <2>2. z.broken /\ ToSet(Now.sent) \subseteq ToSet(z.sent)
      BY <1>2, <1>6, <1>8, ConcatSet
    <2> QED
      BY <1>2, <1>6, <1>7, <1>8, <2>1, <2>2 DEF Good
  <1>9. CASE z.ok
    <2>1. z.sent = Now.sent \o u /\ z.broken = Now.broken /\ x = [z EXCEPT !.accepted = @ + n]
      BY <1>1, <1>6, <1>9
    <2>2. z.accepted + n \in Nat /\ z.accepted = accepted
      BY <1>2, <1>6
    <2>3. x \in States
      BY <1>6, <2>1, <2>2 DEF States
    <2>4. /\ x.put = z.put /\ x.sent = z.sent /\ x.accepted = accepted + n
          /\ x.broken = z.broken /\ x.failures = z.failures /\ x.ok = z.ok
      BY <1>6, <2>1, <2>2 DEF States
    <2>5. Now.sent \o u \in Seq(Nat) /\ ToSet(Now.sent \o u) = ToSet(Now.sent) \cup ToSet(u)
      BY <1>2, <1>4, ConcatSet
    <2>6. ~x.broken => x.sent \o x.put = Upto(x.accepted)
      <3> SUFFICES ASSUME ~x.broken PROVE (Now.sent \o u) \o <<>> = Upto(accepted + n)
        BY <1>3, <1>6, <2>1, <2>4
      <3>1. Now.sent \o <<>> = Upto(accepted)
        BY <1>3, <2>1, <2>4 DEF Good
      <3>2. Now.sent = Upto(accepted)
        BY <1>2, <3>1, ConcatFacts
      <3>3. (Now.sent \o u) \o <<>> = Now.sent \o u
        BY <2>5, ConcatFacts
      <3> QED
        BY <1>4, <3>2, <3>3
    <2>7. \A i \in 1..x.accepted : i \in ToSet(x.sent) \cup ToSet(x.put)
      <3> SUFFICES ASSUME NEW i \in 1..(accepted + n)
                   PROVE  i \in ToSet(Now.sent) \cup ToSet(u)
        BY <2>1, <2>4, <2>5
      <3>1. CASE i \in 1..accepted
        BY <1>3, <3>1 DEF Good
      <3>2. CASE i \notin 1..accepted
        <4>1. i - accepted \in 1..n /\ accepted + (i - accepted) = i
          BY <1>2, <3>2
        <4>2. u[i - accepted] = i /\ DOMAIN u = 1..n
          BY <1>4, <1>5, <4>1
        <4> QED
          BY <4>1, <4>2 DEF ToSet
      <3> QED
        BY <3>1, <3>2
    <2>8. x.accepted \in accepted..(accepted + n)
      BY <1>2, <2>4
    <2>9. ToSet(x.put) = {}
      BY <1>3, <1>6, <2>4
    <2> QED
      BY <1>6, <1>7, <1>9, <2>3, <2>4, <2>6, <2>7, <2>8, <2>9 DEF Good
  <1> QED
    BY <1>8, <1>9

\* sputn.
LEMMA WriteStrInv ==
  ASSUME WriteInv, bufsize \in Nat, alive \in BOOLEAN, WriteStr PROVE WriteInv'
  <1>1. accepted \in 0..MaxUnits /\ bufsize' = bufsize /\ alive' = TRUE
    BY DEF WriteStr, CanWrite, WriteInv
  <1>2. PICK n \in 2..3 : accepted + n <= MaxUnits /\ \E x \in Sputn(n) : Becomes(x)
    BY DEF WriteStr
  <1>3. PICK x \in Sputn(n) : Becomes(x)
    BY <1>2
  <1>4. Good(Now) /\ Now.accepted = accepted
    BY NowGood
  <1>5. Good(x) /\ x.accepted \in accepted..(accepted + n)
    <2>1. CASE bufsize > 0
      <3>1. \A y \in Sputc(Now) : Good(y) /\ y.accepted \in accepted..(accepted + 1)
        BY <1>1, <1>4, SputcGood DEF OneMore
      <3>2. \A y \in Then(Sputc(Now)) : Good(y) /\ y.accepted \in accepted..(accepted + 2)
        <4>1. accepted \in Nat /\ accepted + 1 \in Nat /\ (accepted + 1) + 1 = accepted + 2
          BY <1>1
        <4> QED
          BY <3>1, <4>1, ThenGood
      <3>3. \A y \in Then(Then(Sputc(Now))) : Good(y) /\ y.accepted \in accepted..(accepted + 3)
        <4>1. accepted \in Nat /\ accepted + 2 \in Nat /\ (accepted + 2) + 1 = accepted + 3
          BY <1>1
        <4> QED
          BY <3>2, <4>1, ThenGood
      <3>4. CASE n = 2
        BY <1>3, <2>1, <3>2, <3>4 DEF Sputn
      <3>5. CASE n = 3
        BY <1>3, <2>1, <3>3, <3>5 DEF Sputn
      <3> QED
        BY <3>4, <3>5
    <2>2. CASE ~(bufsize > 0)
      BY <1>1, <1>3, <1>4, <2>2, UnbufferedGood
    <2> QED
      BY <2>1, <2>2
  <1>6. x.accepted \in 0..MaxUnits
    BY <1>1, <1>2, <1>5, StreambufAssumption
  <1> QED
    BY <1>1, <1>3, <1>5, <1>6, BecomesGood

\* sync.
LEMMA SyncInv ==
  ASSUME WriteInv, bufsize \in Nat, Sync PROVE WriteInv'
  <1>1. PICK x \in Flush(Now) : Becomes(x)
    BY DEF Sync
  <1>2. Good(x) /\ x.accepted = accepted
    BY <1>1, NowGood, FlushGood
  <1> QED
    BY <1>1, <1>2, BecomesGood DEF Sync, CanWrite, WriteInv

\* The destructor.
LEMMA DestroyInv ==
  ASSUME WriteInv, bufsize \in Nat, Destroy PROVE WriteInv'
  <1>1. PICK x \in Flush(Now) : Becomes(x)
    BY DEF Destroy
  <1>2. Good(x) /\ x.accepted = accepted /\ (x.ok => x.put = <<>>)
    BY <1>1, NowGood, FlushGood
  <1>3. ~x.broken => x.put = <<>>
    BY <1>2 DEF Good
  <1>4. bufsize' = bufsize /\ accepted \in 0..MaxUnits
    BY DEF Destroy, WriteInv
  <1> QED
    BY <1>1, <1>2, <1>3, <1>4, BecomesGood

---------------------------------------------------------------------------
\* The read side.

ReadStates == [area : Seq(Nat), gptr : Nat, next : Nat, c : Int]

\* The get area ends before the next unit of the stream, k units have been read
\* unless gptr() is past egptr(), and it is only at the end of the input.
InPlace(r, k) ==
  /\ r \in ReadStates /\ bufsize \in Nat /\ Len(r.area) <= bufsize
  /\ r.next \in 1..(InputLen + 1)
  /\ \A j \in 1..Len(r.area) : r.area[j] = r.next - Len(r.area) - 1 + j
  /\ r.gptr > Len(r.area) => r.next = InputLen + 1
  /\ r.gptr <= Len(r.area) => k + Len(r.area) - r.gptr = r.next - 1
  /\ bufsize = 0 => r.gptr = 0

ReadInv ==
  /\ area \in Seq(Nat) /\ gptr \in Nat /\ read \in Seq(Nat) /\ next \in 1..(InputLen + 1)
  /\ InPlace(Got, Len(read))
  /\ \A i \in DOMAIN read : read[i] = i \/ (read[i] = Junk /\ gptr > Len(area))

\* One more was read, gptr() is one further; and after m units of the stream.
LEMMA OneFurther ==
  ASSUME NEW k \in Int, NEW len \in Int, NEW g \in Int, NEW n \in Int, k + len - g = n - 1
  PROVE  (k + 1) + len - (g + 1) = n - 1 /\ n - len - 1 + (g + 1) = k + 1
  OBVIOUS

\* What the stream returns of its rest.
LEMMA StreamGetFacts ==
  ASSUME NEW r, r.next \in 1..(InputLen + 1), NEW n \in Nat
  PROVE  /\ StreamGet(r, n) \in Seq(Nat)
         /\ Len(StreamGet(r, n)) \in 0..n
         /\ r.next + Len(StreamGet(r, n)) \in 1..(InputLen + 1)
         /\ \A j \in 1..Len(StreamGet(r, n)) : StreamGet(r, n)[j] = r.next + j - 1
         /\ Len(StreamGet(r, n)) = 0 => n = 0 \/ r.next = InputLen + 1
  <1> DEFINE m == IF n < Rest(r) THEN n ELSE Rest(r)
  <1>1. /\ Rest(r) \in Nat /\ m \in Nat /\ m <= n /\ r.next + m <= InputLen + 1
        /\ m = 0 => n = 0 \/ r.next = InputLen + 1
    BY StreambufAssumption DEF Rest
  <1>2. StreamGet(r, n) = [j \in 1..m |-> r.next + j - 1]
    BY DEF StreamGet
  <1> HIDE DEF m
  <1>3. \A j \in 1..m : r.next + j - 1 \in Nat
    BY StreambufAssumption
  <1>4. StreamGet(r, n) \in Seq(Nat) /\ Len(StreamGet(r, n)) = m
        /\ \A j \in 1..m : StreamGet(r, n)[j] = r.next + j - 1
    BY <1>1, <1>2, <1>3
  <1> QED
    BY <1>1, <1>4, StreambufAssumption

\* underflow() fills the get area anew, or finds the end; past egptr() it may
\* return what is there.
LEMMA UnderflowFacts ==
  ASSUME NEW s, NEW k \in Nat, InPlace(s, k), bufsize > 0, ~(s.gptr < Len(s.area)),
         NEW r \in Underflow(s)
  PROVE  /\ InPlace(r, k)
         /\ \/ r.c = k + 1 /\ r.gptr < Len(r.area) /\ s.gptr <= Len(s.area)
            \/ /\ r.c \in {Eof, Junk} /\ r.gptr >= Len(r.area) /\ r.next = InputLen + 1
               /\ r.gptr = s.gptr /\ r.area = s.area
               /\ r.c = Junk => r.gptr > Len(r.area)
  <1>1. /\ s \in ReadStates /\ s.area \in Seq(Nat) /\ Len(s.area) \in Nat /\ s.gptr \in Nat
        /\ s.next \in 1..(InputLen + 1) /\ s.next \in Nat /\ bufsize \in Nat
        /\ InputLen \in Nat
    BY StreambufAssumption DEF InPlace, ReadStates
  <1> DEFINE units == StreamGet(s, bufsize)
  <1>2. PICK n \in InAvail(s) :
          r = IF n # 0 THEN [s EXCEPT !.c = AtGptr(s)]
              ELSE IF units = <<>> THEN [s EXCEPT !.c = Eof]
              ELSE [s EXCEPT !.c = units[1], !.area = units, !.gptr = 0, !.next = @ + Len(units)]
    BY DEF Underflow
  <1>3. /\ units \in Seq(Nat) /\ Len(units) \in 0..bufsize /\ s.next + Len(units) \in 1..(InputLen + 1)
        /\ \A j \in 1..Len(units) : units[j] = s.next + j - 1
        /\ Len(units) = 0 => s.next = InputLen + 1
    BY <1>1, StreamGetFacts
  <1> HIDE DEF units
  <1>4. ASSUME NEW c \in {Eof, Junk}, r = [s EXCEPT !.c = c], s.next = InputLen + 1,
               c = Junk => s.gptr > Len(s.area)
        PROVE  /\ InPlace(r, k)
               /\ r.c \in {Eof, Junk} /\ r.gptr >= Len(r.area) /\ r.next = InputLen + 1
               /\ r.gptr = s.gptr /\ r.area = s.area
               /\ r.c = Junk => r.gptr > Len(r.area)
    <2>1. /\ c \in Int /\ r.c = c /\ r.area = s.area /\ r.gptr = s.gptr /\ r.next = s.next
          /\ r \in ReadStates
      BY <1>1, <1>4 DEF ReadStates, Eof, Junk
    <2> QED
      BY <1>1, <1>4, <2>1 DEF InPlace
  <1>5. CASE n # 0
    <2>1. s.gptr > Len(s.area)
      BY <1>1, <1>5 DEF InAvail
    <2>2. s.next = InputLen + 1 /\ AtGptr(s) = Junk
      BY <2>1, <1>1 DEF InPlace, AtGptr
    <2> QED
      BY <1>2, <1>4, <1>5, <2>1, <2>2
  <1>6. CASE n = 0 /\ units = <<>>
    <2>1. s.next = InputLen + 1
      BY <1>3, <1>6
    <2> QED
      BY <1>2, <1>4, <1>6, <2>1 DEF Eof, Junk
  <1>7. CASE n = 0 /\ units # <<>>
    <2>1. Len(units) \in Nat \ {0} /\ Len(units) <= bufsize
      BY <1>1, <1>3, <1>7, EmptySeq
    <2>2. s.next # InputLen + 1
      BY <1>1, <1>3, <2>1
    <2>3. s.gptr = Len(s.area) /\ k = s.next - 1
      BY <1>1, <2>2 DEF InPlace
    <2>4. PICK next2 \in Nat : next2 = s.next + Len(units)
      BY <1>1, <2>1
    <2>5. units[1] = k + 1 /\ units[1] \in Int
      <3>1. 1 \in 1..Len(units)
        BY <2>1
      <3>2. units[1] = s.next + 1 - 1
        BY <1>3, <3>1
      <3> QED
        BY <1>1, <2>3, <3>2
    <2>6. r = [s EXCEPT !.c = units[1], !.area = units, !.gptr = 0, !.next = next2]
      BY <1>2, <1>7, <2>4
    <2>7. r.c = units[1] /\ r.area = units /\ r.gptr = 0 /\ r.next = next2
      BY <1>1, <2>6 DEF ReadStates
    <2>8. r \in ReadStates
      BY <1>1, <1>3, <2>4, <2>5, <2>6 DEF ReadStates
    <2>9. \A j \in 1..Len(units) : units[j] = next2 - Len(units) - 1 + j
      <3>1. PICK m \in Nat, l \in Nat : m = s.next /\ l = Len(units)
        BY <1>1, <2>1
      <3>2. ASSUME NEW j \in 1..l PROVE m + j - 1 = (m + l) - l - 1 + j
        BY <3>1
      <3>3. ASSUME NEW j \in 1..Len(units) PROVE units[j] = m + j - 1
        BY <1>3, <3>1
      <3> QED
        BY <2>4, <3>1, <3>2, <3>3
    <2>10. InPlace(r, k)
      <3>1. k + Len(units) - 0 = next2 - 1 /\ next2 \in 1..(InputLen + 1) /\ ~(0 > Len(units))
        <4>1. next2 \in 1..(InputLen + 1)
          BY <1>3, <2>4
        <4>2. ~(0 > Len(units))
          BY <2>1
        <4>3. (s.next - 1) + Len(units) - 0 = (s.next + Len(units)) - 1
          BY <1>1, <2>1
        <4> QED
          BY <2>3, <2>4, <4>1, <4>2, <4>3
      <3> QED
        BY <1>1, <2>1, <2>7, <2>8, <2>9, <3>1 DEF InPlace
    <2> QED
      BY <1>1, <2>1, <2>3, <2>5, <2>7, <2>10
  <1> QED
    BY <1>5, <1>6, <1>7

\* sgetc changes no place.
LEMMA SgetcFacts ==
  ASSUME NEW s, NEW k \in Nat, InPlace(s, k), NEW r \in Sgetc(s)
  PROVE  InPlace(r, k) /\ (s.gptr > Len(s.area) => r.gptr > Len(r.area))
  <1>1. s \in ReadStates /\ Len(s.area) \in Nat /\ s.gptr \in Nat /\ bufsize \in Nat
    BY DEF InPlace, ReadStates
  <1>2. CASE bufsize > 0 /\ ~(s.gptr < Len(s.area))
    BY <1>1, <1>2, UnderflowFacts DEF Sgetc
  <1>3. CASE bufsize = 0 \/ s.gptr < Len(s.area)
    <2>1. PICK c \in Int : r = [s EXCEPT !.c = c]
      <3>1. CASE bufsize = 0
        <4>1. StreamGetChar(s).c \in Int
          BY <1>1, StreambufAssumption DEF StreamGetChar, ReadStates, Eof
        <4> QED
          BY <3>1, <4>1 DEF Sgetc, Peeked
      <3>2. CASE bufsize > 0 /\ s.gptr < Len(s.area)
        <4>1. AtGptr(s) \in Int
          BY <1>1, <3>2 DEF AtGptr, ReadStates
        <4> QED
          BY <3>2, <4>1 DEF Sgetc
      <3> QED
        BY <1>1, <1>3, <3>1, <3>2
    <2>2. r.area = s.area /\ r.gptr = s.gptr /\ r.next = s.next /\ r \in ReadStates
      BY <1>1, <2>1 DEF ReadStates
    <2> QED
      BY <1>1, <2>2 DEF InPlace
  <1> QED
    BY <1>1, <1>2, <1>3

\* sbumpc reads the next unit, finds the end, or gets what is past egptr().
LEMMA SbumpcFacts ==
  ASSUME NEW s, NEW k \in Nat, InPlace(s, k), NEW r \in Sbumpc(s)
  PROVE  \/ /\ r.c = k + 1 /\ InPlace(r, k + 1)
            /\ s.gptr <= Len(s.area) /\ r.gptr <= Len(r.area)
         \/ /\ r.c = Eof /\ InPlace(r, k)
            /\ s.gptr > Len(s.area) => r.gptr > Len(r.area)
         \/ r.c = Junk /\ InPlace(r, k + 1) /\ r.gptr > Len(r.area)
  <1>1. /\ s \in ReadStates /\ s.area \in Seq(Nat) /\ Len(s.area) \in Nat /\ s.gptr \in Nat
        /\ s.next \in 1..(InputLen + 1) /\ s.next \in Nat /\ bufsize \in Nat
        /\ InputLen \in Nat
    BY StreambufAssumption DEF InPlace, ReadStates
  <1>2. CASE bufsize = 0
    <2>1. Len(s.area) = 0 /\ s.gptr = 0 /\ k = s.next - 1 /\ r = StreamGetChar(s)
      BY <1>1, <1>2 DEF InPlace, Sbumpc
    <2>2. CASE Rest(s) = 0
      <3>1. r = [s EXCEPT !.c = Eof]
        BY <2>1, <2>2 DEF StreamGetChar
      <3>2. /\ r.c = Eof /\ r.area = s.area /\ r.gptr = s.gptr /\ r.next = s.next
            /\ r \in ReadStates
        <4>1. s \in ReadStates /\ Eof \in Int
          BY <1>1 DEF Eof
        <4> HIDE DEF Eof
        <4> QED
          BY <3>1, <4>1 DEF ReadStates
      <3> QED
        BY <1>1, <3>2 DEF InPlace
    <2>3. CASE Rest(s) # 0
      <3>1. r = [s EXCEPT !.c = s.next, !.next = @ + 1]
        BY <2>1, <2>3 DEF StreamGetChar
      <3>2. s.next + 1 \in Nat /\ s.next + 1 \in 1..(InputLen + 1)
        BY <1>1, <2>3 DEF Rest
      <3>3. r.c = s.next /\ r.area = s.area /\ r.gptr = s.gptr /\ r.next = s.next + 1
            /\ r \in ReadStates
        <4>1. s \in ReadStates /\ s.next \in Int /\ r = [s EXCEPT !.c = s.next, !.next = s.next + 1]
          BY <1>1, <3>1
        <4>2. r \in ReadStates
          BY <3>2, <4>1 DEF ReadStates
        <4> QED
          BY <4>1, <4>2 DEF ReadStates
      <3>4. \A j \in 1..Len(s.area) : FALSE
        BY <2>1
      <3>5. InPlace(r, k + 1)
        BY <1>1, <1>2, <2>1, <3>2, <3>3, <3>4 DEF InPlace
      <3> QED
        BY <1>1, <2>1, <3>3, <3>5
    <2> QED
      BY <2>2, <2>3
  <1>3. CASE bufsize > 0 /\ s.gptr < Len(s.area)
    <2>0. PICK a \in Int, g \in Int, n \in Int : a = Len(s.area) /\ g = s.gptr /\ n = s.next
      BY <1>1
    <2>1. r = Bumped([s EXCEPT !.c = AtGptr(s)]) /\ AtGptr(s) = s.area[s.gptr + 1]
      BY <1>1, <1>3 DEF Sbumpc, AtGptr
    <2>2. s.gptr + 1 \in 1..Len(s.area) /\ s.gptr + 1 \in Nat
      BY <1>1, <1>3
    <2>3. s.area[s.gptr + 1] = s.next - Len(s.area) - 1 + (s.gptr + 1)
      BY <2>2 DEF InPlace
    <2>4. AtGptr(s) = k + 1 /\ AtGptr(s) \in Int
      <3>1. k + Len(s.area) - s.gptr = s.next - 1
        BY <1>1, <1>3 DEF InPlace
      <3> QED
        <4>1. k + a - g = n - 1 /\ s.area[s.gptr + 1] = n - a - 1 + (g + 1) /\ k \in Int
          BY <2>0, <2>3, <3>1
        <4>2. n - a - 1 + (g + 1) = k + 1
          BY <4>1, OneFurther
        <4> QED
          BY <2>1, <4>1, <4>2
    <2>5. PICK c \in Int : c = AtGptr(s)
      BY <2>4
    <2>6. r = [s EXCEPT !.c = c, !.gptr = @ + 1]
      BY <2>1, <2>5 DEF Bumped
    <2>7. r.c = c /\ r.area = s.area /\ r.gptr = s.gptr + 1 /\ r.next = s.next /\ r \in ReadStates
      <3>1. s \in ReadStates /\ s.gptr \in Nat /\ s.gptr + 1 \in Nat
        BY <1>1
      <3> QED
        BY <2>6, <3>1 DEF ReadStates
    <2>8. (k + 1) + Len(s.area) - (s.gptr + 1) = s.next - 1
      <3>1. k + Len(s.area) - s.gptr = s.next - 1
        BY <1>1, <1>3 DEF InPlace
      <3> QED
        <4>1. k + a - g = n - 1 /\ k \in Int
          BY <2>0, <3>1
        <4>2. (k + 1) + a - (g + 1) = n - 1
          BY <4>1, OneFurther
        <4> QED
          BY <2>0, <4>2
    <2>9. InPlace(r, k + 1)
      BY <1>1, <1>3, <2>2, <2>7, <2>8, SMTT(60) DEF InPlace
    <2> QED
      BY <1>1, <1>3, <2>2, <2>4, <2>5, <2>7, <2>9
  <1>4. CASE bufsize > 0 /\ ~(s.gptr < Len(s.area))
    <2>1. PICK u \in Underflow(s) : r = Bumped(u)
      BY <1>1, <1>4 DEF Sbumpc
    <2>2. /\ InPlace(u, k)
          /\ \/ u.c = k + 1 /\ u.gptr < Len(u.area) /\ s.gptr <= Len(s.area)
             \/ /\ u.c \in {Eof, Junk} /\ u.gptr >= Len(u.area) /\ u.next = InputLen + 1
                /\ u.gptr = s.gptr /\ u.area = s.area
                /\ u.c = Junk => u.gptr > Len(u.area)
      BY <1>4, <2>1, UnderflowFacts
    <2>3. u \in ReadStates /\ u.gptr \in Nat /\ u.gptr + 1 \in Nat /\ Len(u.area) \in Nat
          /\ u.next \in Nat
      <3>1. u \in ReadStates
        BY <2>2 DEF InPlace
      <3> QED
        BY <3>1 DEF ReadStates
    <2>4. /\ r.c = u.c /\ r.area = u.area /\ r.gptr = u.gptr + 1 /\ r.next = u.next
          /\ r \in ReadStates
      <3>1. r = [u EXCEPT !.gptr = @ + 1]
        BY <2>1 DEF Bumped
      <3> QED
        BY <2>3, <3>1 DEF ReadStates
    <2>5. CASE u.c = k + 1 /\ u.gptr < Len(u.area) /\ s.gptr <= Len(s.area)
      <3>1. (k + 1) + Len(u.area) - (u.gptr + 1) = u.next - 1
        <4>1. k + Len(u.area) - u.gptr = u.next - 1
          BY <2>2, <2>3, <2>5 DEF InPlace
        <4>2. PICK a \in Nat, g \in Nat, n \in Nat :
                a = Len(u.area) /\ g = u.gptr /\ n = u.next
          BY <2>3
        <4>3. k + a - g = n - 1
          BY <4>1, <4>2
        <4>4. (k + 1) + a - (g + 1) = n - 1
          <5>1. k \in Int /\ a \in Int /\ g \in Int /\ n \in Int
            BY <4>2
          <5> QED
            BY <4>3, <5>1, OneFurther
        <4> QED
          BY <4>2, <4>4
      <3>2. InPlace(r, k + 1)
        BY <1>4, <2>2, <2>3, <2>4, <2>5, <3>1 DEF InPlace
      <3> QED
        BY <2>3, <2>4, <2>5, <3>2
    <2>6. CASE /\ u.c \in {Eof, Junk} /\ u.gptr >= Len(u.area) /\ u.next = InputLen + 1
               /\ u.gptr = s.gptr /\ u.area = s.area
               /\ u.c = Junk => u.gptr > Len(u.area)
      <3>1. InPlace(r, k) /\ InPlace(r, k + 1)
        BY <1>4, <2>2, <2>3, <2>4, <2>6 DEF InPlace
      <3> QED
        BY <2>3, <2>4, <2>6, <3>1
    <2> QED
      BY <2>2, <2>5, <2>6
  <1> QED
    BY <1>1, <1>2, <1>3, <1>4

---------------------------------------------------------------------------
StreambufInv ==
  /\ dir \in {"in", "out"} /\ bufsize \in {0, BufSize} /\ bufsize \in Nat
  /\ attached \in 1..MaxAttach /\ alive \in BOOLEAN
  /\ WriteInv /\ ReadInv /\ LossInv

\* The state between reads.
LEMMA GotFacts ==
  Got.area = area /\ Got.gptr = gptr /\ Got.next = next /\ Got.c = Junk
  BY DEF Got

\* What a read leaves becomes the state; only past egptr() it may be what was never there.
LEMMA ReadsInv ==
  ASSUME ReadInv, NEW r, Reads(r), bufsize' = bufsize, read' \in Seq(Nat),
         InPlace(r, Len(read')),
         \A i \in DOMAIN read' : read'[i] = i \/ (read'[i] = Junk /\ r.gptr > Len(r.area))
  PROVE  ReadInv'
  <1>1. area' = r.area /\ gptr' = r.gptr /\ next' = r.next /\ r \in ReadStates
    BY DEF Reads, InPlace
  <1>2. area' \in Seq(Nat) /\ gptr' \in Nat /\ next' \in Nat /\ next' \in 1..(InputLen + 1)
    BY <1>1 DEF InPlace, ReadStates
  <1>3. /\ Got'.area = area' /\ Got'.gptr = gptr' /\ Got'.next = next' /\ Got' \in ReadStates
    BY <1>2 DEF Got, ReadStates, Junk
  <1>4. InPlace(Got, Len(read))'
    BY <1>1, <1>3 DEF InPlace
  <1> QED
    BY <1>1, <1>2, <1>4 DEF ReadInv

\* sgetc.
LEMMA PeekInv ==
  ASSUME ReadInv, Peek PROVE ReadInv'
  <1>1. PICK r \in Sgetc(Got) : Reads(r)
    BY DEF Peek
  <1>2. InPlace(Got, Len(read)) /\ Len(read) \in Nat /\ read' = read /\ bufsize' = bufsize
    BY DEF ReadInv, Peek
  <1>3. InPlace(r, Len(read)) /\ (gptr > Len(area) => r.gptr > Len(r.area))
    BY <1>1, <1>2, SgetcFacts, GotFacts
  <1> QED
    BY <1>1, <1>2, <1>3, ReadsInv DEF ReadInv

\* sbumpc, and sgetn with it.
LEMMA ReadCharInv ==
  ASSUME ReadInv, ReadChar PROVE ReadInv'
  <1>1. PICK r \in Sbumpc(Got) :
          Reads(r) /\ read' = IF r.c = Eof THEN read ELSE Append(read, r.c)
    BY DEF ReadChar
  <1> DEFINE k == Len(read)
  <1>2. /\ InPlace(Got, k) /\ k \in Nat /\ k + 1 \in Nat /\ read \in Seq(Nat)
        /\ DOMAIN read = 1..k /\ bufsize' = bufsize
        /\ \A i \in DOMAIN read : read[i] = i \/ (read[i] = Junk /\ gptr > Len(area))
    BY DEF ReadInv, ReadChar
  <1>3. \/ /\ r.c = k + 1 /\ InPlace(r, k + 1) /\ gptr <= Len(area) /\ r.gptr <= Len(r.area)
        \/ r.c = Eof /\ InPlace(r, k) /\ (gptr > Len(area) => r.gptr > Len(r.area))
        \/ r.c = Junk /\ InPlace(r, k + 1) /\ r.gptr > Len(r.area)
    BY <1>1, <1>2, SbumpcFacts, GotFacts
  <1>4. CASE r.c = Eof /\ InPlace(r, k) /\ (gptr > Len(area) => r.gptr > Len(r.area))
    BY <1>1, <1>2, <1>4, ReadsInv
  <1>5. ASSUME r.c \in Nat, InPlace(r, k + 1),
               \A i \in 1..k : read[i] = i \/ (read[i] = Junk /\ r.gptr > Len(r.area)),
               r.c = k + 1 \/ (r.c = Junk /\ r.gptr > Len(r.area))
        PROVE  ReadInv'
    <2>1. read' = Append(read, r.c)
      BY <1>1, <1>5 DEF Eof
    <2>2. /\ read' \in Seq(Nat) /\ Len(read') = k + 1 /\ DOMAIN read' = 1..(k + 1)
          /\ \A i \in 1..k : read'[i] = read[i]
          /\ read'[k + 1] = r.c
      BY <1>2, <1>5, <2>1
    <2>3. \A i \in 1..(k + 1) : i \in 1..k \/ i = k + 1
      BY <1>2
    <2>4. \A i \in DOMAIN read' : read'[i] = i \/ (read'[i] = Junk /\ r.gptr > Len(r.area))
      BY <1>5, <2>2, <2>3
    <2> QED
      BY <1>1, <1>2, <1>5, <2>2, <2>4, ReadsInv
  <1>6. CASE /\ r.c = k + 1 /\ InPlace(r, k + 1) /\ gptr <= Len(area) /\ r.gptr <= Len(r.area)
    <2>1. \A i \in 1..k : read[i] = i
      <3>1. Len(area) \in Nat /\ gptr \in Nat /\ ~(gptr > Len(area))
        BY <1>6 DEF ReadInv
      <3> QED
        BY <1>2, <3>1
    <2> QED
      BY <1>2, <1>5, <1>6, <2>1
  <1>7. CASE r.c = Junk /\ InPlace(r, k + 1) /\ r.gptr > Len(r.area)
    BY <1>2, <1>5, <1>7 DEF Junk
  <1> QED
    BY <1>3, <1>4, <1>6, <1>7

\* sgetn without memory.
LEMMA ReadStrInv ==
  ASSUME ReadInv, ReadStr PROVE ReadInv'
  <1> DEFINE units == StreamGet(Got, 2)
             k == Len(read)
  <1>1. /\ bufsize = 0 /\ next' = next + Len(units) /\ read' = read \o units
        /\ UNCHANGED <<bufsize, area, gptr>>
    BY DEF ReadStr
  <1>2. /\ area \in Seq(Nat) /\ gptr \in Nat /\ read \in Seq(Nat) /\ next \in 1..(InputLen + 1)
        /\ next \in Nat /\ k \in Nat /\ DOMAIN read = 1..k /\ InPlace(Got, k)
        /\ InputLen \in Nat
    BY StreambufAssumption DEF ReadInv
  <1>3. /\ Len(area) = 0 /\ gptr = 0 /\ k = next - 1
    BY <1>1, <1>2, GotFacts DEF InPlace
  <1>4. /\ units \in Seq(Nat) /\ Len(units) \in Nat /\ next + Len(units) \in 1..(InputLen + 1)
        /\ \A j \in 1..Len(units) : units[j] = next + j - 1
    <2>1. Got.next \in 1..(InputLen + 1) /\ 2 \in Nat
      BY <1>2, GotFacts
    <2>2. /\ units \in Seq(Nat) /\ Len(units) \in 0..2 /\ Got.next + Len(units) \in 1..(InputLen + 1)
          /\ \A j \in 1..Len(units) : units[j] = Got.next + j - 1
      BY <2>1, StreamGetFacts
    <2> HIDE DEF units
    <2> QED
      BY <2>2, GotFacts
  <1> HIDE DEF units
  <1>5. /\ read' \in Seq(Nat) /\ Len(read') = k + Len(units) /\ DOMAIN read' = 1..(k + Len(units))
        /\ \A i \in 1..(k + Len(units)) : read'[i] = IF i <= k THEN read[i] ELSE units[i - k]
    BY <1>1, <1>2, <1>4
  <1>6. \A i \in 1..k : read[i] = i
    BY <1>2, <1>3 DEF ReadInv
  <1>7. \A i \in DOMAIN read' : read'[i] = i
    <2> SUFFICES ASSUME NEW i \in 1..(k + Len(units)) PROVE read'[i] = i
      BY <1>5
    <2>1. CASE i <= k
      BY <1>2, <1>5, <1>6, <2>1
    <2>2. CASE ~(i <= k)
      <3>1. i - k \in 1..Len(units)
        BY <1>2, <1>4, <2>2
      <3>2. units[i - k] = next + (i - k) - 1
        BY <1>4, <3>1
      <3> QED
        BY <1>2, <1>3, <1>5, <2>2, <3>2
    <2> QED
      BY <2>1, <2>2
  <1>8. /\ Got'.area = area /\ Got'.gptr = 0 /\ Got'.next = next + Len(units) /\ Got' \in ReadStates
    BY <1>1, <1>2, <1>3, <1>4 DEF Got, ReadStates, Junk
  <1>9. \A j \in 1..Len(area) : FALSE
    BY <1>3
  <1>10. InPlace(Got, Len(read))'
    BY <1>1, <1>2, <1>3, <1>4, <1>5, <1>8, <1>9 DEF InPlace
  <1> QED
    BY <1>1, <1>2, <1>4, <1>5, <1>7, <1>10 DEF ReadInv

---------------------------------------------------------------------------
\* Memory and streams come and go.

\* Areas without memory are empty.
LEMMA NoMemory ==
  ASSUME StreambufInv, bufsize = 0 PROVE put = <<>> /\ area = <<>> /\ gptr = 0
  <1>1. /\ put \in Seq(Nat) /\ Len(put) <= bufsize /\ area \in Seq(Nat) /\ Len(area) <= bufsize
        /\ gptr = 0
    BY GotFacts DEF StreambufInv, WriteInv, ReadInv, InPlace
  <1>2. Len(put) \in Nat /\ Len(area) \in Nat
    BY <1>1
  <1>3. Len(put) = 0 /\ Len(area) = 0
    BY <1>1, <1>2
  <1> QED
    BY <1>1, <1>3, EmptySeq

\* setbuf.
LEMMA SetBufInv ==
  ASSUME StreambufInv, SetBuf PROVE WriteInv' /\ ReadInv'
  <1>1. /\ put = <<>> /\ area = <<>> /\ gptr = 0
        /\ put' = <<>> /\ area' = <<>> /\ gptr' = 0 /\ bufsize' = BufSize
        /\ UNCHANGED <<next, read, sent, accepted, broken, failures, alive>>
    BY NoMemory DEF SetBuf, Reset
  <1>2. bufsize' \in Nat /\ Len(<<>>) = 0 /\ Len(<<>>) <= bufsize' /\ <<>> \in Seq(Nat)
    BY <1>1, StreambufAssumption
  <1>3. WriteInv'
    BY <1>1, <1>2 DEF StreambufInv, WriteInv, Upto, ToSet
  <1>4. /\ next \in 1..(InputLen + 1) /\ next \in Nat /\ read \in Seq(Nat)
        /\ Len(read) \in Nat /\ ~(0 > 0)
        /\ InPlace(Got, Len(read))
    BY StreambufAssumption DEF StreambufInv, ReadInv
  <1>5. Len(read) + 0 - 0 = next - 1
    BY <1>1, <1>2, <1>4, GotFacts DEF InPlace
  <1>6. Len(read') = next' - 1 /\ next' \in 1..(InputLen + 1)
    BY <1>1, <1>4, <1>5
  <1>7. InPlace(Got, Len(read))'
    <2>1. Got'.area = <<>> /\ Got'.gptr = 0 /\ Got'.next = next' /\ next' \in Nat
      BY <1>1, <1>4 DEF Got
    <2>2. Got' \in ReadStates
      BY <1>1, <1>2, <1>4 DEF Got, ReadStates, Junk
    <2>3. ~(0 > 0) /\ Len(read') + 0 - 0 = next' - 1 /\ \A j \in 1..0 : FALSE
      BY <1>1, <1>4, <1>5
    <2> QED
      BY <1>1, <1>2, <1>6, <2>1, <2>2, <2>3 DEF InPlace
  <1>8. ReadInv'
    BY <1>1, <1>2, <1>4, <1>7 DEF StreambufInv, ReadInv
  <1> QED
    BY <1>3, <1>8

\* attach.
LEMMA AttachInv ==
  ASSUME StreambufInv, Attach PROVE WriteInv' /\ ReadInv'
  <1>1. /\ next' = 1 /\ read' = <<>> /\ sent' = <<>> /\ accepted' = 0 /\ broken' = FALSE
        /\ alive' = TRUE /\ UNCHANGED <<bufsize, failures>>
        /\ bufsize \in Nat /\ failures \in 0..MaxFailures
    BY DEF Attach, StreambufInv, WriteInv
  <1>2. put' = <<>> /\ area' = <<>> /\ gptr' = 0
    <2>1. CASE bufsize > 0
      BY <2>1 DEF Attach, Reset
    <2>2. CASE ~(bufsize > 0)
      <3>1. bufsize = 0
        BY <1>1, <2>2
      <3> QED
        BY <2>2, <3>1, NoMemory DEF Attach
    <2> QED
      BY <2>1, <2>2
  <1>3. /\ <<>> \in Seq(Nat) /\ Len(<<>>) = 0 /\ 0 <= bufsize /\ DOMAIN <<>> = {}
        /\ 0 \in 0..MaxUnits /\ 1 \in 1..(InputLen + 1)
    BY <1>1, StreambufAssumption
  <1>4. WriteInv'
    <2>1. (sent \o put)' = Upto(accepted)' /\ \A i \in 1..0 : FALSE
      BY <1>1, <1>2, UptoNone DEF Upto
    <2> QED
      BY <1>1, <1>2, <1>3, <2>1 DEF WriteInv, ToSet
  <1>5. InPlace(Got, Len(read))'
    <2>1. Got'.area = <<>> /\ Got'.gptr = 0 /\ Got'.next = 1
      BY <1>1, <1>2 DEF Got
    <2>2. Got' \in ReadStates
      BY <1>1, <1>2, <1>3 DEF Got, ReadStates, Junk
    <2>3. ~(0 > 0) /\ 0 + 0 - 0 = 1 - 1 /\ \A j \in 1..0 : FALSE
      OBVIOUS
    <2> QED
      BY <1>1, <1>2, <1>3, <2>1, <2>2, <2>3 DEF InPlace
  <1> QED
    BY <1>1, <1>2, <1>3, <1>4, <1>5 DEF ReadInv

\* What does not concern a side.
LEMMA WriteKept ==
  ASSUME WriteInv, UNCHANGED <<writeSide, bufsize, alive>> PROVE WriteInv'
  BY DEF WriteInv, writeSide, ToSet, Upto

\* The same on the other.
LEMMA ReadKept ==
  ASSUME ReadInv, UNCHANGED <<readSide, bufsize>> PROVE ReadInv'
  <1>1. Got' = Got /\ UNCHANGED <<area, gptr, next, read, bufsize>>
    BY DEF Got, readSide
  <1>2. InPlace(Got, Len(read))'
    BY <1>1 DEF ReadInv, InPlace
  <1> QED
    BY <1>1, <1>2 DEF ReadInv

\* At first there is nothing anywhere.
LEMMA InitStreambufInv == StreambufInit => StreambufInv
  <1> SUFFICES ASSUME StreambufInit PROVE StreambufInv
    OBVIOUS
  <1>1. /\ dir \in {"in", "out"} /\ bufsize \in {0, BufSize} /\ attached = 1 /\ alive = TRUE
        /\ put = <<>> /\ area = <<>> /\ gptr = 0 /\ next = 1 /\ sent = <<>> /\ accepted = 0
        /\ broken = FALSE /\ read = <<>> /\ failures = 0 /\ synced = FALSE /\ lost = {}
    BY DEF StreambufInit
  <1>2. /\ <<>> \in Seq(Nat) /\ Len(<<>>) = 0 /\ 0 <= bufsize /\ DOMAIN <<>> = {}
        /\ 0 \in 0..MaxUnits /\ 0 \in 0..MaxFailures /\ 1 \in 1..(InputLen + 1)
        /\ 1 \in 1..MaxAttach /\ bufsize \in Nat
    BY <1>1, StreambufAssumption
  <1>3. WriteInv
    <2>1. sent \o put = Upto(accepted) /\ \A i \in 1..0 : FALSE
      BY <1>1, UptoNone
    <2> QED
      BY <1>1, <1>2, <2>1 DEF WriteInv, ToSet
  <1>4. InPlace(Got, Len(read))
    <2>1. Got.area = <<>> /\ Got.gptr = 0 /\ Got.next = 1
      BY <1>1 DEF Got
    <2>2. Got \in ReadStates
      BY <1>1, <1>2 DEF Got, ReadStates, Junk
    <2>3. ~(0 > 0) /\ 0 + 0 - 0 = 1 - 1 /\ \A j \in 1..0 : FALSE
      OBVIOUS
    <2> QED
      BY <1>1, <1>2, <2>1, <2>2, <2>3 DEF InPlace
  <1>5. ReadInv
    BY <1>1, <1>2, <1>4 DEF ReadInv
  <1>6. LossInv
    BY <1>1 DEF LossInv, OnlyBufferLost
  <1> QED
    BY <1>1, <1>2, <1>3, <1>5, <1>6 DEF StreambufInv

\* Units given up were in the put area.
LEMMA GiveUpFacts ==
  ASSUME StreambufInv, NEW x, Good(x), x.accepted = accepted, synced => x.put = <<>>,
         GiveUp(x.sent)
  PROVE  lost' \subseteq [after : Nat, synced : BOOLEAN] /\ OnlyBufferLost'
  <1>1. /\ lost \subseteq [after : Nat, synced : BOOLEAN] /\ synced \in BOOLEAN
        /\ \A l \in lost : l.after < BufSize /\ ~l.synced
        /\ accepted \in Nat /\ bufsize \in {0, BufSize} /\ bufsize \in Nat /\ BufSize \in Nat
    BY StreambufAssumption DEF StreambufInv, LossInv, WriteInv, OnlyBufferLost
  <1>2. x.put \in Seq(Nat) /\ x.sent \in Seq(Nat) /\ Len(x.put) \in Nat /\ Len(x.put) <= bufsize
    BY DEF Good, States
  <1>3. ASSUME NEW i \in 1..accepted, ~Contains(x.sent, i)
        PROVE  accepted - i \in Nat /\ accepted - i < BufSize /\ ~synced
    <2>1. i \notin ToSet(x.sent)
      BY <1>2, <1>3 DEF ToSet, Contains
    <2>2. i \in ToSet(x.put)
      BY <2>1 DEF Good
    <2>3. accepted < i + Len(x.put)
      BY <2>2 DEF Good
    <2>4. x.put # <<>>
      BY <2>2 DEF ToSet
    <2> QED
      BY <1>1, <1>2, <2>3, <2>4
  <1>4. lost' = lost \cup {[after |-> accepted - i, synced |-> synced] :
                             i \in {j \in 1..accepted : ~Contains(x.sent, j)}}
    BY DEF GiveUp
  <1>5. ASSUME NEW l \in lost'
        PROVE  l \in [after : Nat, synced : BOOLEAN] /\ l.after < BufSize /\ ~l.synced
    <2>1. CASE l \in lost
      BY <1>1, <2>1
    <2>2. CASE l \notin lost
      <3>1. PICK i \in 1..accepted : ~Contains(x.sent, i)
                                      /\ l = [after |-> accepted - i, synced |-> synced]
        BY <1>4, <1>5, <2>2
      <3> QED
        BY <1>1, <1>3, <3>1
    <2> QED
      BY <2>1, <2>2
  <1> QED
    BY <1>5, StreambufAssumption DEF OnlyBufferLost

\* What is given up, operation by operation.
LEMMA LossStep == StreambufInv /\ [StreambufNext]_streambufVars => LossInv'
  <1> SUFFICES ASSUME StreambufInv, [StreambufNext]_streambufVars PROVE LossInv'
    OBVIOUS
  <1>1. /\ synced \in BOOLEAN /\ (synced => put = <<>>)
        /\ lost \subseteq [after : Nat, synced : BOOLEAN] /\ OnlyBufferLost
        /\ WriteInv /\ bufsize \in Nat
    BY DEF StreambufInv, LossInv
  <1>2. ASSUME lost' = lost, synced' \in BOOLEAN, synced' => put' = <<>>
        PROVE  LossInv'
    BY <1>1, <1>2 DEF LossInv, OnlyBufferLost
  <1>3. Good(Now) /\ Now.accepted = accepted /\ Now.put = put /\ Now.sent = sent
    BY <1>1, NowGood DEF Now
  <1>4. CASE WriteChar \/ WriteStr
    BY <1>2, <1>4 DEF WriteChar, WriteStr
  <1>5. CASE Sync
    <2>1. PICK x \in Flush(Now) : Becomes(x) /\ synced' = x.ok
      BY <1>5 DEF Sync
    <2>2. x.ok \in BOOLEAN /\ (x.ok => x.put = <<>>)
      BY <1>3, <2>1, FlushGood DEF Good, States
    <2> QED
      BY <1>2, <1>5, <2>1, <2>2 DEF Sync, Becomes
  <1>6. CASE Destroy
    <2>1. PICK x \in Flush(Now) : Becomes(x) /\ GiveUp(x.sent)
      BY <1>6 DEF Destroy
    <2>2. Good(x) /\ x.accepted = accepted
      BY <1>3, <2>1, FlushGood
    <2>3. synced => x.put = <<>>
      BY <1>1, <1>3, <2>1 DEF Flush
    <2>4. lost' \subseteq [after : Nat, synced : BOOLEAN] /\ OnlyBufferLost'
      BY <2>1, <2>2, <2>3, GiveUpFacts
    <2> QED
      BY <1>1, <1>6, <2>1, <2>3, <2>4 DEF LossInv, Destroy, Becomes
  <1>7. CASE SetBuf
    BY <1>1, <1>2, <1>7 DEF SetBuf, Reset
  <1>8. CASE Attach
    <2>1. GiveUp(Now.sent) /\ synced' = FALSE
      BY <1>3, <1>8 DEF Attach
    <2>2. lost' \subseteq [after : Nat, synced : BOOLEAN] /\ OnlyBufferLost'
      BY <1>1, <1>3, <2>1, GiveUpFacts
    <2> QED
      BY <2>1, <2>2 DEF LossInv
  <1>9. CASE Peek \/ ReadChar \/ ReadStr \/ UNCHANGED streambufVars
    <2>1. UNCHANGED <<put, synced, lost>>
      BY <1>9 DEF Peek, ReadChar, ReadStr, streambufVars, writeSide
    <2> QED
      BY <1>1, <1>2, <2>1
  <1> QED
    BY <1>4, <1>5, <1>6, <1>7, <1>8, <1>9 DEF StreambufNext

\* The invariant, operation by operation.
LEMMA StreambufInvStep == StreambufInv /\ [StreambufNext]_streambufVars => StreambufInv'
  <1> SUFFICES ASSUME StreambufInv, [StreambufNext]_streambufVars PROVE StreambufInv'
    OBVIOUS
  <1>1. /\ dir \in {"in", "out"} /\ bufsize \in {0, BufSize} /\ bufsize \in Nat
        /\ attached \in 1..MaxAttach /\ alive \in BOOLEAN /\ WriteInv /\ ReadInv
    BY DEF StreambufInv
  <1>0. LossInv'
    BY LossStep
  <1>2. ASSUME WriteInv', ReadInv', UNCHANGED <<dir, bufsize, attached>>, alive' \in BOOLEAN
        PROVE  StreambufInv'
    BY <1>0, <1>1, <1>2 DEF StreambufInv
  <1>3. CASE UNCHANGED streambufVars
    <2>1. UNCHANGED <<writeSide, bufsize, alive>> /\ UNCHANGED <<readSide, bufsize>>
          /\ UNCHANGED <<dir, bufsize, attached, alive>>
      BY <1>3 DEF streambufVars
    <2> QED
      BY <1>1, <1>2, <2>1, WriteKept, ReadKept
  <1>4. CASE WriteChar
    <2>1. UNCHANGED <<readSide, bufsize>> /\ UNCHANGED <<dir, bufsize, attached, alive>>
      BY <1>4 DEF WriteChar
    <2> QED
      BY <1>1, <1>2, <1>4, <2>1, WriteCharInv, ReadKept
  <1>5. CASE WriteStr
    <2>1. UNCHANGED <<readSide, bufsize>> /\ UNCHANGED <<dir, bufsize, attached, alive>>
      BY <1>5 DEF WriteStr
    <2> QED
      BY <1>1, <1>2, <1>5, <2>1, WriteStrInv, ReadKept
  <1>6. CASE Sync
    <2>1. UNCHANGED <<readSide, bufsize>> /\ UNCHANGED <<dir, bufsize, attached, alive>>
      BY <1>6 DEF Sync
    <2> QED
      BY <1>1, <1>2, <1>6, <2>1, SyncInv, ReadKept
  <1>7. CASE Destroy
    <2>1. UNCHANGED <<readSide, bufsize>> /\ UNCHANGED <<dir, bufsize, attached>> /\ alive' = FALSE
      BY <1>7 DEF Destroy
    <2> QED
      BY <1>1, <1>2, <1>7, <2>1, DestroyInv, ReadKept
  <1>8. CASE Peek
    <2>1. UNCHANGED <<writeSide, bufsize, alive>> /\ UNCHANGED <<dir, bufsize, attached, alive>>
      BY <1>8 DEF Peek
    <2> QED
      BY <1>1, <1>2, <1>8, <2>1, WriteKept, PeekInv
  <1>9. CASE ReadChar
    <2>1. UNCHANGED <<writeSide, bufsize, alive>> /\ UNCHANGED <<dir, bufsize, attached, alive>>
      BY <1>9 DEF ReadChar
    <2> QED
      BY <1>1, <1>2, <1>9, <2>1, WriteKept, ReadCharInv
  <1>10. CASE ReadStr
    <2>1. UNCHANGED <<writeSide, bufsize, alive>> /\ UNCHANGED <<dir, bufsize, attached, alive>>
      BY <1>10 DEF ReadStr
    <2> QED
      BY <1>1, <1>2, <1>10, <2>1, WriteKept, ReadStrInv
  <1>11. CASE SetBuf
    <2>1. UNCHANGED <<dir, attached, alive>> /\ bufsize' = BufSize /\ BufSize \in Nat
      BY <1>11, StreambufAssumption DEF SetBuf
    <2> QED
      BY <1>0, <1>1, <1>11, <2>1, SetBufInv DEF StreambufInv
  <1>12. CASE Attach
    <2>1. /\ dir' \in {"in", "out"} /\ UNCHANGED <<bufsize, alive>>
          /\ attached < MaxAttach /\ attached' = attached + 1
      BY <1>12 DEF Attach
    <2>2. attached' \in 1..MaxAttach
      BY <1>1, <2>1, StreambufAssumption
    <2> QED
      BY <1>0, <1>1, <1>12, <2>1, <2>2, AttachInv DEF StreambufInv
  <1> QED
    BY <1>3, <1>4, <1>5, <1>6, <1>7, <1>8, <1>9, <1>10, <1>11, <1>12 DEF StreambufNext

\* The stream buffer carries what the program writes, but for a put area of the last
\* units written that attach or the destructor may give up, and what the client has
\* sent, through buffering, peeking, failing writes and the end, whatever the sizes.
THEOREM StreambufCorrectness == StreambufSafety => []StreambufSound
  <1>1. StreambufInv => StreambufSound
    <2> SUFFICES ASSUME StreambufInv PROVE StreambufSound
      OBVIOUS
    <2>1. StreambufTypeOK
      BY GotFacts DEF StreambufInv, WriteInv, ReadInv, LossInv, InPlace, StreambufTypeOK
    <2>2. SentInOrder
      BY DEF StreambufInv, WriteInv, SentInOrder, Upto
    <2>3. NothingLost
      <3> SUFFICES ASSUME NEW i \in 1..accepted PROVE Contains(sent \o put, i)
        BY DEF NothingLost
      <3>1. /\ sent \o put \in Seq(Nat) /\ ToSet(sent \o put) = ToSet(sent) \cup ToSet(put)
        BY ConcatSet DEF StreambufInv, WriteInv
      <3>2. i \in ToSet(sent \o put)
        BY <3>1 DEF StreambufInv, WriteInv
      <3>3. DOMAIN (sent \o put) = 1..Len(sent \o put)
        BY <3>1
      <3> QED
        BY <3>2, <3>3 DEF ToSet, Contains
    <2>4. ReadInOrder
      <3>1. \A i \in DOMAIN read : read[i] = i \/ (read[i] = Junk /\ gptr > Len(area))
        BY DEF StreambufInv, ReadInv
      <3>2. /\ next \in 1..(InputLen + 1) /\ InputLen \in Nat /\ next \in Int
            /\ Len(read) \in Int /\ Len(area) \in Int /\ gptr \in Int
        BY StreambufAssumption DEF StreambufInv, ReadInv
      <3>3. gptr <= Len(area) => Len(read) + Len(area) - gptr = next - 1
        BY GotFacts DEF StreambufInv, ReadInv, InPlace
      <3>4. gptr <= Len(area) => Len(read) + Len(area) - gptr + InputLen - next + 1 = InputLen
        BY <3>2, <3>3
      <3> QED
        BY <3>1, <3>4 DEF ReadInOrder
    <2>5. OnlyBufferLost
      BY DEF StreambufInv, LossInv
    <2> QED
      BY <2>1, <2>2, <2>3, <2>4, <2>5 DEF StreambufSound
  <1> QED
    BY <1>1, InitStreambufInv, StreambufInvStep, PTL DEF StreambufSafety

---------------------------------------------------------------------------
(***************************************************************************)
(* What is defined one step after the other, up to a number.               *)
(***************************************************************************)

\* A set of numbers that is not empty has a least.
LEMMA LeastExists ==
  ASSUME NEW S \in SUBSET Nat, S # {}
  PROVE  \E x \in S : \A y \in S : x <= y
  <1> DEFINE R == {ss \in Nat \X Nat : ss[1] < ss[2]}
  <1>1. IsWellFoundedOn(R, Nat)
    BY NatLessThanWellFounded DEF OpToRel
  <1>2. PICK x \in S : \A y \in S : ~(<<y, x>> \in R)
    BY <1>1, WFMin
  <1>3. ASSUME NEW y \in S, y < x PROVE FALSE
    <2>1. <<y, x>> \in Nat \X Nat /\ <<y, x>>[1] = y /\ <<y, x>>[2] = x
      OBVIOUS
    <2>2. <<y, x>> \in R
      BY <1>3, <2>1
    <2> QED
      BY <1>2, <2>2
  <1> QED
    BY <1>3

\* What holds of 0 and, with any number, of the next holds of all up to n.
LEMMA UpToNumber ==
  ASSUME NEW n \in Nat, NEW Q, 0 \in Q, \A i \in 0..(n - 1) : i \in Q => i + 1 \in Q
  PROVE  \A i \in 0..n : i \in Q
  <1> DEFINE S == {i \in 0..n : i \notin Q}
  <1> SUFFICES ASSUME S # {} PROVE FALSE
    OBVIOUS
  <1>1. S \in SUBSET Nat
    OBVIOUS
  <1>2. PICK m \in S : \A y \in S : m <= y
    <2> HIDE DEF S
    <2> QED
      BY <1>1, LeastExists
  <1>3. m \in 0..n /\ m \notin Q /\ m # 0
    OBVIOUS
  <1>4. m - 1 \in 0..(n - 1) /\ m - 1 \in 0..n /\ (m - 1) + 1 = m /\ ~(m <= m - 1)
    BY <1>3
  <1>5. m - 1 \notin S
    BY <1>2, <1>4
  <1> QED
    BY <1>3, <1>4, <1>5

\* step takes what is in A to what is in A, and g is what n of them come to.
Stays(step, n, A) == \A i \in 1..n : \A a \in A : step[i][a] \in A
Iterates(g, base, step, n, A) ==
  /\ g \in [0..n -> A]
  /\ g = [i \in 0..n |-> IF i = 0 THEN base ELSE step[i][g[i - 1]]]

\* n steps can be taken from base.
LEMMA Iterated ==
  ASSUME NEW n \in Nat, NEW A, NEW base \in A, NEW step, Stays(step, n, A)
  PROVE  \E g : Iterates(g, base, step, n, A)
  <1> USE DEF Stays
  <1> DEFINE Run(g, m) ==
               /\ g \in [0..m -> A] /\ g[0] = base
               /\ \A i \in 1..m : g[i] = step[i][g[i - 1]]
             Q == {m \in 0..n : \E g : Run(g, m)}
  <1>1. 0 \in Q
    <2>1. Run([i \in 0..0 |-> base], 0) /\ 0 \in 0..n
      OBVIOUS
    <2> HIDE DEF Run
    <2> QED
      BY <2>1
  <1>2. ASSUME NEW m \in 0..(n - 1), m \in Q PROVE m + 1 \in Q
    <2>1. PICK g : Run(g, m)
      BY <1>2
    <2>2. /\ m \in Nat /\ m + 1 \in 1..n /\ m \in 0..m /\ ~(m + 1 \in 0..m)
          /\ \A i \in 0..(m + 1) : i = m + 1 \/ i \in 0..m
      OBVIOUS
    <2>3. g[m] \in A /\ step[m + 1][g[m]] \in A
      BY <2>1, <2>2
    <2> DEFINE h == [i \in 0..(m + 1) |-> IF i = m + 1 THEN step[m + 1][g[m]]
                                          ELSE g[i]]
    <2>4. h \in [0..(m + 1) -> A] /\ h[0] = base
      BY <2>1, <2>2, <2>3
    <2>5. ASSUME NEW i \in 1..(m + 1) PROVE h[i] = step[i][h[i - 1]]
      <3>1. i - 1 \in 0..(m + 1) /\ i - 1 # m + 1 /\ h[i - 1] = g[i - 1]
        BY <2>2
      <3>2. CASE i = m + 1
        BY <3>1, <3>2
      <3>3. CASE i # m + 1
        <4>1. i \in 1..m /\ h[i] = g[i]
          BY <2>2, <3>3
        <4> QED
          BY <2>1, <3>1, <4>1
      <3> QED
        BY <3>2, <3>3
    <2>6. Run(h, m + 1)
      BY <2>4, <2>5
    <2>7. m + 1 \in 0..n
      OBVIOUS
    <2> HIDE DEF Run, h
    <2> QED
      BY <2>6, <2>7
  <1>3. n \in Q
    <2> HIDE DEF Q
    <2>1. n \in 0..n
      OBVIOUS
    <2> QED
      BY <1>1, <1>2, <2>1, UpToNumber
  <1>4. PICK g : Run(g, n)
    BY <1>3
  <1>5. g = [i \in 0..n |-> IF i = 0 THEN base ELSE step[i][g[i - 1]]]
    <2>1. \A i \in 0..n : i = 0 \/ i \in 1..n
      OBVIOUS
    <2>2. DOMAIN g = 0..n /\ g = [i \in 0..n |-> g[i]]
      BY <1>4
    <2> QED
      BY <1>4, <2>1, <2>2
  <1> QED
    BY <1>4, <1>5 DEF Iterates

---------------------------------------------------------------------------
(***************************************************************************)
(* The arguments of a format.                                              *)
(***************************************************************************)

AnyItem == Texts \cup AnyConversion

LEMMA ItemFacts ==
  ASSUME NEW c \in AnyItem
  PROVE  /\ c.kind \in {"text", "conversion"}
         /\ c.kind = "text" => c.n \in Nat
         /\ c.kind = "conversion" =>
              /\ c.flags \in Nat /\ c.mod \in STRING /\ c.op \in STRING /\ c.v \in Nat
              /\ c.width.v \in Int /\ c.prec.v \in Int
              /\ c.width.k \in {"none", "dot", "digits", "star"}
              /\ c.prec.k \in {"none", "dot", "digits", "star"}
              /\ c.width.k = "none" => c.width.v = 0
              /\ c.prec.k \in {"none", "dot"} => c.prec.v = 0
              /\ c.width.k \in {"none", "dot"} => c.width.v = 0
              /\ c.prec.k = "digits" => c.prec.v \in Nat
  BY DEF AnyItem, Texts, AnyConversion, Fields

\* How many arguments are read before the value.
Stars(c) == (IF c.width.k = "star" THEN 1 ELSE 0) + (IF c.prec.k = "star" THEN 1 ELSE 0)

\* Three sequences in a row.
LEMMA InARow ==
  ASSUME NEW r \in Seq(Int), NEW s \in Seq(Int), NEW t \in Seq(Int)
  PROVE  /\ r \o s \o t \in Seq(Int)
         /\ Len(r \o s \o t) = Len(r) + Len(s) + Len(t)
         /\ \A i \in 1..Len(r) : (r \o s \o t)[i] = r[i]
         /\ \A i \in 1..Len(s) : (r \o s \o t)[Len(r) + i] = s[i]
         /\ \A i \in 1..Len(t) : (r \o s \o t)[Len(r) + Len(s) + i] = t[i]
  <1> DEFINE rs == r \o s
  <1>1. /\ rs \in Seq(Int) /\ Len(rs) = Len(r) + Len(s)
        /\ Len(r) \in Nat /\ Len(s) \in Nat /\ Len(t) \in Nat
        /\ \A i \in 1..Len(r) : rs[i] = r[i]
        /\ \A i \in 1..Len(s) : rs[Len(r) + i] = s[i]
    OBVIOUS
  <1> HIDE DEF rs
  <1>2. /\ rs \o t \in Seq(Int) /\ Len(rs \o t) = Len(rs) + Len(t)
        /\ \A i \in 1..Len(rs) : (rs \o t)[i] = rs[i]
        /\ \A i \in 1..Len(t) : (rs \o t)[Len(rs) + i] = t[i]
    <2>1. rs \in Seq(Int) /\ t \in Seq(Int)
      BY <1>1
    <2>2. \A i \in 1..Len(t) : (rs \o t)[Len(rs) + i] = t[i]
      BY <2>1
    <2> QED
      BY <2>1, <2>2
  <1>3. /\ \A i \in 1..Len(r) : i \in 1..Len(rs)
        /\ \A i \in 1..Len(s) : Len(r) + i \in 1..Len(rs)
    BY <1>1
  <1> QED
    BY <1>1, <1>2, <1>3 DEF rs

\* The arguments of a conversion: those for its width and precision, its value.
LEMMA OwnArgsFacts ==
  ASSUME NEW c \in AnyItem
  PROVE  /\ OwnArgs(c) \in Seq(Int)
         /\ c.kind = "text" => Len(OwnArgs(c)) = 0
         /\ c.kind = "conversion" =>
              /\ Stars(c) \in 0..2
              /\ Len(OwnArgs(c)) = Stars(c) + (IF c.op \in {"%", "end"} THEN 0 ELSE 1)
              /\ c.width.k = "star" => Stars(c) >= 1 /\ OwnArgs(c)[1] = c.width.v
              /\ c.prec.k = "star" => Stars(c) >= 1 /\ OwnArgs(c)[Stars(c)] = c.prec.v
              /\ c.op \notin {"%", "end"} => OwnArgs(c)[Stars(c) + 1] = c.v
  <1>1. CASE c.kind = "text"
    BY <1>1, ItemFacts DEF OwnArgs
  <1>2. CASE c.kind = "conversion"
    <2>1. PICK x \in Int, y \in Int, z \in Int : x = c.width.v /\ y = c.prec.v /\ z = c.v
      BY <1>2, ItemFacts
    <2> DEFINE r == IF c.width.k = "star" THEN <<x>> ELSE <<>>
               s == IF c.prec.k = "star" THEN <<y>> ELSE <<>>
               t == IF c.op \in {"%", "end"} THEN <<>> ELSE <<z>>
    <2>2. OwnArgs(c) = r \o s \o t
      BY <1>2, <2>1 DEF OwnArgs
    <2>3. /\ r \in Seq(Int) /\ Len(r) = IF c.width.k = "star" THEN 1 ELSE 0
          /\ c.width.k = "star" => r[1] = x
      OBVIOUS
    <2>4. /\ s \in Seq(Int) /\ Len(s) = IF c.prec.k = "star" THEN 1 ELSE 0
          /\ c.prec.k = "star" => s[1] = y
      OBVIOUS
    <2>5. /\ t \in Seq(Int) /\ Len(t) = IF c.op \in {"%", "end"} THEN 0 ELSE 1
          /\ c.op \notin {"%", "end"} => t[1] = z
      OBVIOUS
    <2> HIDE DEF r, s, t
    <2>6. /\ r \o s \o t \in Seq(Int)
          /\ Len(r \o s \o t) = Len(r) + Len(s) + Len(t)
          /\ Len(r) = 1 => (r \o s \o t)[1] = r[1]
          /\ Len(s) = 1 => (r \o s \o t)[Len(r) + 1] = s[1]
          /\ Len(t) = 1 => (r \o s \o t)[Len(r) + Len(s) + 1] = t[1]
      <3>1. /\ Len(r) = 1 => 1 \in 1..Len(r)
            /\ Len(s) = 1 => 1 \in 1..Len(s)
            /\ Len(t) = 1 => 1 \in 1..Len(t)
        BY <2>3, <2>4, <2>5
      <3>2. r \in Seq(Int) /\ s \in Seq(Int) /\ t \in Seq(Int)
        BY <2>3, <2>4, <2>5
      <3>3. /\ r \o s \o t \in Seq(Int)
            /\ Len(r \o s \o t) = Len(r) + Len(s) + Len(t)
            /\ \A i \in 1..Len(r) : (r \o s \o t)[i] = r[i]
            /\ \A i \in 1..Len(s) : (r \o s \o t)[Len(r) + i] = s[i]
            /\ \A i \in 1..Len(t) : (r \o s \o t)[Len(r) + Len(s) + i] = t[i]
        BY <3>2, InARow
      <3> QED
        BY <3>1, <3>3
    <2>7. Stars(c) = Len(r) + Len(s) /\ Len(r) \in {0, 1} /\ Len(s) \in {0, 1}
      BY <2>3, <2>4 DEF Stars
    <2> QED
      BY <1>2, <2>1, <2>2, <2>3, <2>4, <2>5, <2>6, <2>7
  <1> QED
    BY <1>1, <1>2, ItemFacts

\* The arguments of the items up to one are those before it and its own.
LEMMA ArgsUpToFacts ==
  ASSUME NEW fmt \in Seq(AnyItem)
  PROVE  /\ \A i \in 0..Len(fmt) : ArgsUpTo(fmt, i) \in Seq(Int)
         /\ ArgsUpTo(fmt, 0) = <<>>
         /\ \A i \in 1..Len(fmt) : ArgsUpTo(fmt, i) = ArgsUpTo(fmt, i - 1) \o OwnArgs(fmt[i])
  <1> DEFINE n == Len(fmt)
             A == Seq(Int)
             step == [i \in 1..n |-> [a \in A |-> a \o OwnArgs(fmt[i])]]
  <1>1. n \in Nat /\ <<>> \in A
    OBVIOUS
  <1>2. ASSUME NEW i \in 1..n, NEW a \in A
        PROVE  step[i][a] = a \o OwnArgs(fmt[i]) /\ step[i][a] \in A
    <2>1. OwnArgs(fmt[i]) \in Seq(Int)
      BY OwnArgsFacts
    <2> QED
      BY <2>1
  <1>3. PICK g : Iterates(g, <<>>, step, n, A)
    <2>1. Stays(step, n, A)
      <3> HIDE DEF step, A, n
      <3> QED
        BY <1>2 DEF Stays
    <2> HIDE DEF step, A, n
    <2> QED
      BY <1>1, <2>1, Iterated
  <1>4. \A i \in 0..n : IF i = 0 THEN step[i][g[i - 1]] = step[i][g[i - 1]]
                        ELSE step[i][g[i - 1]] = g[i - 1] \o OwnArgs(fmt[i])
    <2>1. \A i \in 0..n : i # 0 => i \in 1..n /\ i - 1 \in 0..n
      BY <1>1
    <2> HIDE DEF step, A, n
    <2> QED
      BY <1>2, <1>3, <2>1 DEF Iterates
  <1>5. g = [i \in 0..n |-> IF i = 0 THEN <<>> ELSE g[i - 1] \o OwnArgs(fmt[i])]
    <2> HIDE DEF step, A
    <2> QED
      BY <1>3, <1>4 DEF Iterates
  <1>6. PICK h : /\ h = [i \in 0..n |-> IF i = 0 THEN <<>> ELSE h[i - 1] \o OwnArgs(fmt[i])]
                 /\ \A i \in 0..n : ArgsUpTo(fmt, i) = h[i]
    BY <1>5 DEF ArgsUpTo
  <1>7. h[0] = <<>> /\ ArgsUpTo(fmt, 0) = <<>>
    BY <1>1, <1>6
  <1>8. \A i \in 1..n : /\ i \in 0..n /\ i - 1 \in 0..n
                        /\ h[i] = h[i - 1] \o OwnArgs(fmt[i])
    BY <1>1, <1>6
  <1>9. \A i \in 1..n : ArgsUpTo(fmt, i) = ArgsUpTo(fmt, i - 1) \o OwnArgs(fmt[i])
    <2> HIDE DEF n
    <2> QED
      BY <1>6, <1>8
  <1>10. \A i \in 0..n : i \in {j \in 0..n : ArgsUpTo(fmt, j) \in A}
    <2> DEFINE Q == {j \in 0..n : ArgsUpTo(fmt, j) \in A}
    <2>1. 0 \in Q /\ n \in Nat
      <3>1. n \in Nat /\ 0 \in 0..n
        BY <1>1
      <3> HIDE DEF n
      <3> QED
        BY <1>1, <1>7, <3>1
    <2>2. ASSUME NEW i \in 0..(n - 1), i \in Q PROVE i + 1 \in Q
      <3>1. i + 1 \in 1..n /\ i + 1 \in 0..n /\ (i + 1) - 1 = i
        BY <1>1
      <3>2. OwnArgs(fmt[i + 1]) \in A
        BY <3>1, OwnArgsFacts
      <3>3. ArgsUpTo(fmt, i) \o OwnArgs(fmt[i + 1]) \in A
        BY <2>2, <3>2
      <3>4. ArgsUpTo(fmt, i + 1) = ArgsUpTo(fmt, i) \o OwnArgs(fmt[i + 1])
        <4> HIDE DEF n
        <4> QED
          BY <1>9, <3>1
      <3> QED
        BY <3>1, <3>3, <3>4
    <2> HIDE DEF Q, n
    <2>3. \A i \in 0..n : i \in Q
      BY <2>1, <2>2, UpToNumber
    <2> QED
      BY <2>3 DEF Q
  <1> QED
    BY <1>7, <1>9, <1>10

\* t starts with s.
StartsWith(t, s) == Len(s) <= Len(t) /\ \A k \in 1..Len(s) : t[k] = s[k]

LEMMA ConcatStarts ==
  ASSUME NEW s \in Seq(Int), NEW t \in Seq(Int)
  PROVE  /\ s \o t \in Seq(Int) /\ Len(s \o t) = Len(s) + Len(t)
         /\ StartsWith(s \o t, s)
         /\ \A k \in 1..Len(t) : (s \o t)[Len(s) + k] = t[k]
  BY DEF StartsWith

LEMMA StartsTransitive ==
  ASSUME NEW r \in Seq(Int), NEW s \in Seq(Int), NEW t \in Seq(Int),
         StartsWith(s, r), StartsWith(t, s)
  PROVE  StartsWith(t, r)
  <1>1. Len(r) \in Nat /\ Len(s) \in Nat /\ Len(t) \in Nat
    OBVIOUS
  <1>2. Len(r) <= Len(s) /\ Len(s) <= Len(t)
    BY ZenonT(30) DEF StartsWith
  <1>3. Len(r) <= Len(t)
    BY <1>1, <1>2
  <1>4. \A k \in 1..Len(r) : k \in 1..Len(s)
    BY <1>1, <1>2
  <1>5. \A k \in 1..Len(r) : t[k] = r[k]
    BY <1>4, ZenonT(30) DEF StartsWith
  <1> QED
    BY <1>3, <1>5, ZenonT(30) DEF StartsWith

\* All arguments start with those of the items up to one.
LEMMA ArgsStartWith ==
  ASSUME NEW fmt \in Seq(AnyItem), NEW i \in 0..Len(fmt)
  PROVE  StartsWith(Args(fmt), ArgsUpTo(fmt, i))
  <1> DEFINE n == Len(fmt)
             Q == {j \in 0..n : \A m \in 0..j : StartsWith(ArgsUpTo(fmt, j), ArgsUpTo(fmt, m))}
  <1>1. n \in Nat /\ 0 \in 0..n /\ n \in 0..n /\ i \in 0..n
    OBVIOUS
  <1> HIDE DEF n
  <1>2. \A j \in 0..n : ArgsUpTo(fmt, j) \in Seq(Int)
    BY ArgsUpToFacts DEF n
  <1>3. \A j \in 0..n : StartsWith(ArgsUpTo(fmt, j), ArgsUpTo(fmt, j))
    BY <1>2 DEF StartsWith
  <1>4. 0 \in Q
    <2>1. \A m \in 0..0 : m = 0
      OBVIOUS
    <2> QED
      BY <1>1, <1>3, <2>1
  <1>5. ASSUME NEW j \in 0..(n - 1), j \in Q PROVE j + 1 \in Q
    <2>1. j \in 0..n /\ j + 1 \in 1..n /\ j + 1 \in 0..n /\ (j + 1) - 1 = j
      BY <1>1
    <2>2. ArgsUpTo(fmt, j + 1) = ArgsUpTo(fmt, j) \o OwnArgs(fmt[j + 1])
      BY <2>1, ArgsUpToFacts DEF n
    <2>3. fmt[j + 1] \in AnyItem
      BY <2>1 DEF n
    <2>4. StartsWith(ArgsUpTo(fmt, j + 1), ArgsUpTo(fmt, j))
      <3>1. ArgsUpTo(fmt, j) \in Seq(Int) /\ OwnArgs(fmt[j + 1]) \in Seq(Int)
        BY <1>2, <2>1, <2>3, OwnArgsFacts
      <3>2. StartsWith(ArgsUpTo(fmt, j) \o OwnArgs(fmt[j + 1]), ArgsUpTo(fmt, j))
        BY <3>1, ConcatStarts
      <3> QED
        BY <2>2, <3>2
    <2>5. ASSUME NEW m \in 0..(j + 1)
          PROVE  StartsWith(ArgsUpTo(fmt, j + 1), ArgsUpTo(fmt, m))
      <3>1. m = j + 1 \/ (m \in 0..j /\ m \in 0..n)
        BY <1>1, <2>1
      <3>2. CASE m = j + 1
        BY <1>3, <2>1, <3>2
      <3>3. CASE m \in 0..j /\ m \in 0..n
        <4>1. StartsWith(ArgsUpTo(fmt, j), ArgsUpTo(fmt, m))
          BY <1>5, <3>3
        <4>2. /\ ArgsUpTo(fmt, m) \in Seq(Int) /\ ArgsUpTo(fmt, j) \in Seq(Int)
              /\ ArgsUpTo(fmt, j + 1) \in Seq(Int)
          BY <1>2, <2>1, <3>3
        <4> QED
          BY <2>4, <4>1, <4>2, StartsTransitive
      <3> QED
        BY <3>1, <3>2, <3>3
    <2> QED
      BY <2>1, <2>5
  <1>6. n \in Q
    <2> HIDE DEF Q
    <2> QED
      BY <1>1, <1>4, <1>5, UpToNumber
  <1> QED
    BY <1>1, <1>6 DEF Args, n

\* The arguments of an item are found behind those of the items before it.
LEMMA ArgAt ==
  ASSUME NEW fmt \in Seq(AnyItem), NEW i \in 1..Len(fmt)
  PROVE  /\ Len(ArgsUpTo(fmt, i - 1)) \in Nat
         /\ Len(ArgsUpTo(fmt, i)) = Len(ArgsUpTo(fmt, i - 1)) + Len(OwnArgs(fmt[i]))
         /\ \A k \in 1..Len(OwnArgs(fmt[i])) :
              /\ Len(ArgsUpTo(fmt, i - 1)) + k \in DOMAIN Args(fmt)
              /\ Args(fmt)[Len(ArgsUpTo(fmt, i - 1)) + k] = OwnArgs(fmt[i])[k]
  <1> DEFINE s == ArgsUpTo(fmt, i - 1)
             t == OwnArgs(fmt[i])
             u == Args(fmt)
  <1>1. i \in 0..Len(fmt) /\ i - 1 \in 0..Len(fmt) /\ Len(fmt) \in 0..Len(fmt)
    OBVIOUS
  <1>2. s \in Seq(Int) /\ u \in Seq(Int) /\ ArgsUpTo(fmt, i) = s \o t
    BY <1>1, ArgsUpToFacts DEF Args
  <1>3. t \in Seq(Int)
    BY OwnArgsFacts
  <1>4. StartsWith(u, s \o t)
    BY <1>1, <1>2, ArgsStartWith
  <1> HIDE DEF s, t, u
  <1>5. /\ Len(s \o t) = Len(s) + Len(t) /\ Len(s) \in Nat /\ Len(t) \in Nat /\ Len(u) \in Nat
        /\ \A k \in 1..Len(t) : (s \o t)[Len(s) + k] = t[k]
        /\ DOMAIN u = 1..Len(u)
    BY <1>2, <1>3, ConcatStarts
  <1>6. ASSUME NEW k \in 1..Len(t)
        PROVE  Len(s) + k \in DOMAIN u /\ u[Len(s) + k] = t[k]
    <2>1. Len(s) + k \in 1..Len(s \o t)
      BY <1>5
    <2>2. Len(s \o t) <= Len(u) /\ u[Len(s) + k] = (s \o t)[Len(s) + k]
      BY <1>4, <2>1 DEF StartsWith
    <2>3. (s \o t)[Len(s) + k] = t[k] /\ Len(s) + k \in 1..Len(u)
      BY <1>5, <2>1, <2>2
    <2> QED
      BY <1>5, <2>2, <2>3
  <1> QED
    BY <1>2, <1>5, <1>6 DEF s, t, u

---------------------------------------------------------------------------
(***************************************************************************)
(* What a format comes to, and the buffer a conversion needs.              *)
(***************************************************************************)

\* Whatever is printed has a length.
LEMMA PrintedType ==
  ASSUME NEW op, NEW w \in Int, NEW p \in Int, NEW v \in Nat, p >= -1
  PROVE  /\ Unpadded(op, p, v) \in Nat /\ Printed(op, w, p, v) \in Nat
         /\ Printed(op, w, p, v) = Abs(w) \/ Printed(op, w, p, v) = Unpadded(op, p, v)
  <1>1. Unpadded(op, p, v) \in Nat
    BY DEF Unpadded, Larger, Smaller, MaxDigits
  <1>2. Abs(w) \in Nat
    BY DEF Abs
  <1> QED
    BY <1>1, <1>2 DEF Printed, Larger

\* The precision a conversion has.
MeantPrec(c) == IF c.prec.k = "none" THEN -1 ELSE Larger(c.prec.v, 0)

LEMMA MeantPrecType ==
  ASSUME NEW c \in AnyItem, c.kind = "conversion"
  PROVE  MeantPrec(c) \in Int /\ MeantPrec(c) >= -1
  BY ItemFacts DEF MeantPrec, Larger

LEMMA MeantType ==
  ASSUME NEW c \in AnyItem
  PROVE  Meant(c) \in Nat
  <1>1. CASE c.kind = "text"
    BY <1>1, ItemFacts DEF Meant
  <1>2. CASE c.kind # "text"
    <2>1. c.kind = "conversion" /\ c.width.v \in Int /\ c.v \in Nat
      BY <1>2, ItemFacts
    <2>2. Printed(c.op, c.width.v, MeantPrec(c), c.v) \in Nat
      BY <2>1, MeantPrecType, PrintedType
    <2>3. Meant(c) \in {1, 0, Printed(c.op, c.width.v, MeantPrec(c), c.v)}
      BY <1>2 DEF Meant, MeantPrec
    <2> QED
      BY <2>2, <2>3
  <1> QED
    BY <1>1, <1>2

\* What the items up to one come to is what those before it do and what it does.
LEMMA MeantUpToFacts ==
  ASSUME NEW fmt \in Seq(AnyItem)
  PROVE  /\ \A i \in 0..Len(fmt) : MeantUpTo(fmt, i) \in Nat
         /\ MeantUpTo(fmt, 0) = 0
         /\ \A i \in 1..Len(fmt) : MeantUpTo(fmt, i) = MeantUpTo(fmt, i - 1) + Meant(fmt[i])
  <1> DEFINE n == Len(fmt)
             step == [i \in 1..n |-> [a \in Nat |-> a + Meant(fmt[i])]]
  <1>1. n \in Nat /\ 0 \in Nat
    OBVIOUS
  <1>2. ASSUME NEW i \in 1..n, NEW a \in Nat
        PROVE  step[i][a] = a + Meant(fmt[i]) /\ step[i][a] \in Nat
    <2>1. Meant(fmt[i]) \in Nat
      BY MeantType
    <2> QED
      BY <2>1
  <1>3. PICK g : Iterates(g, 0, step, n, Nat)
    <2>1. Stays(step, n, Nat)
      <3> HIDE DEF step, n
      <3> QED
        BY <1>2 DEF Stays
    <2> HIDE DEF step, n
    <2> QED
      BY <1>1, <2>1, Iterated
  <1>4. \A i \in 0..n : i # 0 => step[i][g[i - 1]] = g[i - 1] + Meant(fmt[i])
    <2>1. \A i \in 0..n : i # 0 => i \in 1..n /\ i - 1 \in 0..n
      BY <1>1
    <2> HIDE DEF step, n
    <2> QED
      BY <1>2, <1>3, <2>1 DEF Iterates
  <1>5. g = [i \in 0..n |-> IF i = 0 THEN 0 ELSE g[i - 1] + Meant(fmt[i])]
    <2>1. \A i \in 0..n : (IF i = 0 THEN 0 ELSE step[i][g[i - 1]])
                          = (IF i = 0 THEN 0 ELSE g[i - 1] + Meant(fmt[i]))
      BY <1>4
    <2> HIDE DEF step, n
    <2> QED
      BY <1>3, <2>1 DEF Iterates
  <1>6. PICK h : /\ h = [i \in 0..n |-> IF i = 0 THEN 0 ELSE h[i - 1] + Meant(fmt[i])]
                 /\ \A i \in 0..n : MeantUpTo(fmt, i) = h[i]
    BY <1>5 DEF MeantUpTo
  <1>7. h[0] = 0 /\ MeantUpTo(fmt, 0) = 0
    BY <1>1, <1>6
  <1>8. \A i \in 1..n : /\ i \in 0..n /\ i - 1 \in 0..n
                        /\ h[i] = h[i - 1] + Meant(fmt[i])
    BY <1>1, <1>6
  <1>9. \A i \in 1..n : MeantUpTo(fmt, i) = MeantUpTo(fmt, i - 1) + Meant(fmt[i])
    <2> HIDE DEF n
    <2> QED
      BY <1>6, <1>8
  <1> DEFINE Q == {j \in 0..n : MeantUpTo(fmt, j) \in Nat}
  <1>10. \A i \in 0..n : i \in Q
    <2>1. 0 \in Q
      <3>1. 0 \in 0..n
        BY <1>1
      <3> HIDE DEF n
      <3> QED
        BY <1>7, <3>1
    <2>2. ASSUME NEW i \in 0..(n - 1), i \in Q PROVE i + 1 \in Q
      <3>1. i + 1 \in 1..n /\ i + 1 \in 0..n /\ (i + 1) - 1 = i
        BY <1>1
      <3>2. Meant(fmt[i + 1]) \in Nat
        BY <3>1, MeantType
      <3>3. MeantUpTo(fmt, i + 1) = MeantUpTo(fmt, i) + Meant(fmt[i + 1])
        <4> HIDE DEF n
        <4> QED
          BY <1>9, <3>1
      <3> QED
        BY <2>2, <3>1, <3>2, <3>3
    <2> HIDE DEF Q, n
    <2> QED
      BY <1>1, <2>1, <2>2, UpToNumber
  <1> QED
    BY <1>7, <1>9, <1>10

\* What is printed for a value is shorter than the buffer that is computed for it:
\* for a float of v digits because its exponent in bits is more than three times
\* v - 1.
LEMMA UnpaddedFits ==
  ASSUME NEW op \in {"d", "u", "c", "p", "s", "f", "e"}, NEW p \in Int, NEW v \in Nat,
         p >= -1, op = "c" => v = 1, op = "p" => v <= MaxDigits
  PROVE  /\ Needed(op, p, v) \in Int
         /\ Unpadded(op, p, v) < Needed(op, p, v) + 10
  <1>1. CASE op \in {"d", "u"}
    BY <1>1 DEF Unpadded, Needed, Larger, Smaller, MaxDigits
  <1>2. CASE op \in {"c", "p"}
    BY <1>2 DEF Unpadded, Needed, Larger, Smaller, MaxDigits
  <1>3. CASE op = "s"
    BY <1>3 DEF Unpadded, Needed, Larger, Smaller
  <1>4. CASE op = "e"
    BY <1>4 DEF Unpadded, Needed
  <1>5. CASE op = "f"
    <2> DEFINE x == Exponent(v) \div 3
    <2>1. x \in Int /\ v < x + 9
      <3> DEFINE y == ((v - 1) * 33219) \div 10000
      <3>1. y \in Int /\ (v - 1) * 33219 < 10000 * (y + 1)
        OBVIOUS
      <3>2. Exponent(v) = y + 1
        BY DEF Exponent
      <3> HIDE DEF y
      <3>3. x = (y + 1) \div 3 /\ x \in Int /\ y + 1 < 3 * (x + 1)
        BY <3>1, <3>2
      <3> HIDE DEF x
      <3> QED
        BY <3>1, <3>3
    <2>2. Needed(op, p, v) = (IF p = -1 THEN 6 ELSE p) + 3 + x
      BY <1>5 DEF Needed
    <2>3. Unpadded(op, p, v) <= v + (IF p = -1 THEN 6 ELSE p) + 1
      BY <1>5 DEF Unpadded
    <2>4. Unpadded(op, p, v) \in Int
      BY <1>5 DEF Unpadded
    <2> HIDE DEF x
    <2> QED
      BY <2>1, <2>2, <2>3, <2>4
  <1> QED
    BY <1>1, <1>2, <1>3, <1>4, <1>5

\* The buffer chosen has what is needed, and at least PRINTF_BUFFLEN.
LEMMA BufferFacts ==
  ASSUME NEW n \in Int, NEW a \in Nat, a = 0 \/ a > PRINTF_BUFFLEN, aux = a
  PROVE  /\ BuffLenFor(n) \in Nat /\ BuffLenFor(n) >= n
         /\ BuffLenFor(n) >= PRINTF_BUFFLEN
         /\ AuxFor(n) \in Nat /\ (AuxFor(n) = 0 \/ AuxFor(n) > PRINTF_BUFFLEN)
  BY DEF BuffLenFor, AuxFor, PRINTF_BUFFLEN

---------------------------------------------------------------------------
(***************************************************************************)
(* The invariant.                                                          *)
(***************************************************************************)

PrintfSafety == PrintfInit /\ [][PrintfNext]_printfVars

Pieces == [n : Nat, count : Nat]

PrintfTypes ==
  /\ format \in Formats /\ f \in 1..(Len(format) + 1) /\ arg \in Nat
  /\ path \in {"scan", "perform", "slow", "put", "returned", "overrun"}
  /\ fast \in BOOLEAN /\ buffLen \in Nat
  /\ aux \in Nat /\ (aux = 0 \/ aux > PRINTF_BUFFLEN)
  /\ piece \in Pieces /\ out \in Seq(Pieces) /\ streamCount \in Nat
  /\ result \in {-1, -2} \cup Nat

\* The piece p is what the i-th item prints.
AsMeant(i, p) ==
  /\ p.n = Meant(format[i])
  /\ p.count = IF format[i].kind = "conversion" /\ format[i].op = "n"
               THEN MeantUpTo(format, i - 1) ELSE 0

\* Items that were passed were printed as meant.
Passed ==
  /\ f - 1 <= Len(out)
  /\ \A i \in 1..(f - 1) : AsMeant(i, out[i]) /\ Supported(format[i])

\* Until the call returns, the stream has those items and nothing else.
Running ==
  path # "returned" =>
    result = -2 /\ Len(out) = f - 1 /\ streamCount = MeantUpTo(format, f - 1)

\* Arguments read before the item that is reached.
Before == Len(ArgsUpTo(format, f - 1))

AtConversion ==
  path \in {"perform", "slow", "put", "overrun"} =>
    f <= Len(format) /\ Item.kind = "conversion"

\* The slow path is not taken for what only the fast one prints.
AtScan ==
  /\ path \in {"scan", "slow"} => arg = Before
  /\ path = "slow" /\ Supported(Item) => Item.op \notin {"n", "%"}

\* What was scanned: on the fast path a conversion that is plain or none that is
\* known, on the slow path one whose text has a bound.
FastScanned ==
  /\ arg = Before
  /\ IsPlain(Item) => spec.op = Operation(Item)
  /\ spec.op \in Known =>
       /\ IsPlain(Item) /\ spec.op = Item.op /\ spec.width = 0 /\ spec.prec = -1
       /\ spec.size = SizeModifier(Item) /\ Item.mod \notin {"l", "hh"}
  /\ buffLen = PRINTF_BUFFLEN
SlowScanned ==
  /\ arg = Before + Stars(Item) + (IF spec.op \in {"s", "f"} THEN 1 ELSE 0)
  /\ Bounded(spec) /\ spec.op = Item.op /\ Item.mod \notin {"l", "hh"}
  /\ spec.size = SizeModifier(Item)
  /\ spec.width = Item.width.v /\ spec.prec = MeantPrec(Item)
  /\ Item.flags <= MaxFlags /\ Abs(Item.width.v) <= MaxField /\ Item.prec.v <= MaxField
  /\ Unpadded(spec.op, spec.prec, Item.v) < buffLen /\ PRINTF_BUFFLEN <= buffLen
AtPerform == path = "perform" => IF fast THEN FastScanned ELSE SlowScanned

\* What is about to be put.
AtPut ==
  path = "put" =>
    /\ arg = Before + Len(OwnArgs(Item))
    /\ AsMeant(f, piece) /\ Supported(Item)
    /\ BufferFits

\* What a call that returned had put.
AtReturn ==
  path = "returned" =>
    \/ f = Len(format) + 1 /\ Len(out) = f - 1 /\ result = MeantUpTo(format, f - 1)
    \/ /\ f <= Len(format) /\ result = -1
       /\ \/ Len(out) = f - 1 /\ ~Supported(Item)
          \/ Len(out) = f /\ out[f].n < Meant(Item)

PrintfInv ==
  /\ PrintfTypes /\ Passed /\ Running
  /\ AtConversion /\ AtScan /\ AtPerform /\ AtPut /\ AtReturn

---------------------------------------------------------------------------
\* A format is a sequence of items.
LEMMA FormatFacts ==
  ASSUME format \in Formats
  PROVE  /\ format \in Seq(AnyItem) /\ Len(format) \in Nat
         /\ \A i \in 1..Len(format) :
              /\ format[i] \in AnyItem
              /\ format[i].kind = "conversion" => Conversible(format[i])
  <1>1. /\ format \in Seq(AnyItem)
        /\ \A i \in DOMAIN format : format[i].kind = "conversion" => Conversible(format[i])
    BY FormatAssumption DEF AnyItem
  <1>2. DOMAIN format = 1..Len(format) /\ Len(format) \in Nat
    BY <1>1
  <1> QED
    BY <1>1, <1>2

\* The item that is reached, and what was before it.
LEMMA ItemReached ==
  ASSUME PrintfTypes, f <= Len(format)
  PROVE  /\ f \in 1..Len(format) /\ Item \in AnyItem
         /\ Item.kind = "conversion" => Conversible(Item)
         /\ Before \in Nat
         /\ Len(ArgsUpTo(format, f)) = Before + Len(OwnArgs(Item))
         /\ MeantUpTo(format, f - 1) \in Nat /\ Meant(Item) \in Nat
         /\ MeantUpTo(format, f) = MeantUpTo(format, f - 1) + Meant(Item)
         /\ \A k \in 1..Len(OwnArgs(Item)) : Value(Before + k) = OwnArgs(Item)[k]
  <1>1. format \in Formats /\ f \in 1..Len(format) /\ Len(format) \in Nat
    BY FormatFacts DEF PrintfTypes
  <1>2. format \in Seq(AnyItem) /\ Item \in AnyItem /\ (Item.kind = "conversion" => Conversible(Item))
    BY <1>1, FormatFacts DEF Item
  <1>3. /\ Before \in Nat
        /\ Len(ArgsUpTo(format, f)) = Before + Len(OwnArgs(Item))
        /\ \A k \in 1..Len(OwnArgs(Item)) :
              /\ Before + k \in DOMAIN Args(format)
              /\ Args(format)[Before + k] = OwnArgs(Item)[k]
    BY <1>1, <1>2, ArgAt DEF Item, Before
  <1>4. \A k \in 1..Len(OwnArgs(Item)) : Value(Before + k) = OwnArgs(Item)[k]
    BY <1>3 DEF Value
  <1>5. /\ MeantUpTo(format, f - 1) \in Nat /\ Meant(Item) \in Nat
        /\ MeantUpTo(format, f) = MeantUpTo(format, f - 1) + Meant(Item)
    <2>1. f - 1 \in 0..Len(format)
      BY <1>1
    <2> QED
      BY <1>1, <1>2, <2>1, MeantUpToFacts, MeantType DEF Item
  <1> QED
    BY <1>1, <1>2, <1>3, <1>4, <1>5

\* What was passed stays so while nothing is put.
LEMMA PassedKept ==
  ASSUME Passed, UNCHANGED <<format, f, out>>
  PROVE  Passed'
  BY DEF Passed, AsMeant

\* Putting what an item prints passes it, or ends the call within it.
LEMMA PutsKeeps ==
  ASSUME PrintfInv, path # "returned", f <= Len(format), NEW p \in Pieces,
         AsMeant(f, p), Supported(Item), arg = Before + Len(OwnArgs(Item)), Puts(p)
  PROVE  PrintfInv'
  <1> USE DEF PrintfInv
  <1>1. /\ f \in 1..Len(format) /\ Len(format) \in Nat /\ out \in Seq(Pieces)
        /\ Len(out) = f - 1 /\ result = -2 /\ streamCount = MeantUpTo(format, f - 1)
        /\ p.n = Meant(Item) /\ p.n \in Nat /\ p.count \in Nat
    BY ItemReached, FormatFacts DEF PrintfTypes, Running, AsMeant, Item, Pieces
  <1>2. CASE /\ out' = Append(out, p) /\ streamCount' = streamCount + p.n
             /\ f' = f + 1 /\ path' = "scan"
             /\ UNCHANGED <<format, arg, fast, spec, buffLen, aux, piece, result>>
    <2>1. /\ out' \in Seq(Pieces) /\ Len(out') = f /\ out'[f] = p
          /\ \A i \in 1..(f - 1) : out'[i] = out[i]
      BY <1>1, <1>2
    <2>2. PrintfTypes'
      BY <1>1, <1>2, <2>1 DEF PrintfTypes
    <2>3. Passed'
      <3> SUFFICES ASSUME NEW i \in 1..f
                   PROVE  (AsMeant(i, out[i]))' /\ Supported(format[i])
        BY <1>1, <1>2, <2>1 DEF Passed
      <3>1. CASE i = f
        BY <1>2, <2>1, <3>1 DEF AsMeant, Item
      <3>2. CASE i # f
        <4>1. i \in 1..(f - 1)
          BY <1>1, <3>2
        <4> QED
          BY <1>2, <2>1, <4>1 DEF AsMeant, Passed
      <3> QED
        BY <3>1, <3>2
    <2>4. Running'
      <3>1. (f + 1) - 1 = f
        BY <1>1
      <3> QED
        BY <1>1, <1>2, <2>1, <3>1, ItemReached DEF Running
    <2>5. AtScan'
      <3>1. (f + 1) - 1 = f
        BY <1>1
      <3> QED
        BY <1>1, <1>2, <3>1, ItemReached DEF AtScan, Before
    <2> QED
      BY <1>2, <2>2, <2>3, <2>4, <2>5 DEF AtConversion, AtPerform, AtPut, AtReturn
  <1>3. ASSUME p.n > 0, NEW k \in {0, p.n \div 2}, out' = Append(out, [p EXCEPT !.n = k]),
               ReturnWith(-1), UNCHANGED <<arg, streamCount>>
        PROVE  PrintfInv'
    <2>1. k \in Nat /\ k < p.n
      BY <1>1, <1>3
    <2>2. [p EXCEPT !.n = k] \in Pieces /\ [p EXCEPT !.n = k].n = k
      BY <2>1 DEF Pieces
    <2>3. /\ out' \in Seq(Pieces) /\ Len(out') = f /\ out'[f].n = k
          /\ \A i \in 1..(f - 1) : out'[i] = out[i]
      BY <1>1, <1>3, <2>2
    <2>4. /\ path' = "returned" /\ result' = -1 /\ aux' = 0
          /\ UNCHANGED <<format, f, fast, spec, buffLen, piece>>
      BY <1>3 DEF ReturnWith
    <2>5. PrintfTypes'
      BY <1>3, <2>3, <2>4 DEF PrintfTypes
    <2>6. Passed'
      <3>1. /\ f \in Nat /\ f - 1 <= f /\ UNCHANGED <<format, f>>
            /\ \A i \in 1..(f - 1) : AsMeant(i, out[i]) /\ Supported(format[i])
        BY <1>1, <2>4 DEF Passed
      <3> QED
        BY <2>3, <3>1 DEF Passed, AsMeant
    <2>7. AtReturn'
      BY <1>1, <2>1, <2>3, <2>4 DEF AtReturn, Item
    <2> QED
      BY <2>4, <2>5, <2>6, <2>7 DEF Running, AtConversion, AtScan, AtPerform, AtPut
  <1> QED
    BY <1>2, <1>3 DEF Puts

\* A call that fails without putting anything fails for an item that is not printed.
LEMMA ErrorKeeps ==
  ASSUME PrintfInv, path # "returned", f <= Len(format), ~Supported(Item), ErrorReturn
  PROVE  PrintfInv'
  <1> USE DEF PrintfInv
  <1>1. /\ path' = "returned" /\ result' = -1 /\ aux' = 0
        /\ UNCHANGED <<format, f, fast, spec, buffLen, piece, arg, out, streamCount>>
    BY DEF ErrorReturn, ReturnWith
  <1>2. PrintfTypes'
    BY <1>1 DEF PrintfTypes
  <1>3. Passed'
    BY <1>1, PassedKept
  <1>4. AtReturn'
    BY <1>1 DEF AtReturn, Running, Item
  <1> QED
    BY <1>1, <1>2, <1>3, <1>4 DEF Running, AtConversion, AtScan, AtPerform, AtPut

---------------------------------------------------------------------------
(***************************************************************************)
(* The scan.                                                               *)
(***************************************************************************)

\* A conversion that is known is scanned as the operation it is.
LEMMA ScanFacts ==
  ASSUME NEW c \in AnyItem, c.kind = "conversion"
  PROVE  Operation(c) \in Known => Operation(c) = c.op /\ c.mod \notin {"l", "hh"}
  <1>1. "l" \notin Known /\ "h" \notin Known
    BY DEF Known
  <1>2. Operation(c) = IF c.mod = "l" THEN "l" ELSE IF c.mod = "hh" THEN "h" ELSE c.op
    BY DEF Operation
  <1> QED
    BY <1>1, <1>2

\* Conversions whose text has a bound are known.
LEMMA BoundedKnown ==
  ASSUME NEW s, Bounded(s)
  PROVE  s.op \in {"d", "u", "c", "p", "s", "f", "e"} /\ s.op \in Known
  BY DEF Bounded, Known

\* The widths and precisions of a conversion that the slow path reads are those it
\* was meant to have.
LEMMA SlowReads ==
  ASSUME PrintfTypes, f <= Len(format), Item.kind = "conversion", arg = Before
  PROVE  /\ ScannedWidth = Item.width.v /\ ScannedPrec = MeantPrec(Item)
         /\ FirstValue = Before + Stars(Item) + 1 /\ Stars(Item) \in 0..2
         /\ Item.op \notin {"%", "end"} => Value(FirstValue) = Item.v
  <1>1. /\ Item \in AnyItem /\ Before \in Nat
        /\ \A k \in 1..Len(OwnArgs(Item)) : Value(Before + k) = OwnArgs(Item)[k]
    BY ItemReached
  <1>2. /\ Stars(Item) \in 0..2
        /\ Len(OwnArgs(Item)) = Stars(Item) + (IF Item.op \in {"%", "end"} THEN 0 ELSE 1)
        /\ Item.width.k = "star" => Stars(Item) >= 1 /\ OwnArgs(Item)[1] = Item.width.v
        /\ Item.prec.k = "star" => Stars(Item) >= 1
                                   /\ OwnArgs(Item)[Stars(Item)] = Item.prec.v
        /\ Item.op \notin {"%", "end"} => OwnArgs(Item)[Stars(Item) + 1] = Item.v
    BY <1>1, OwnArgsFacts
  <1>3. FirstValue = Before + Stars(Item) + 1
    BY <1>1, <1>2 DEF FirstValue, StarWidth, StarPrec, Stars
  <1>4. ScannedWidth = Item.width.v
    <2>1. Item.width.k = "star" => 1 \in 1..Len(OwnArgs(Item))
      BY <1>2
    <2> QED
      BY <1>1, <1>2, <2>1 DEF ScannedWidth, StarWidth
  <1>5. ScannedPrec = MeantPrec(Item)
    <2>1. CASE Item.prec.k = "star"
      <3>1. Stars(Item) \in 1..Len(OwnArgs(Item)) /\ FirstValue - 1 = Before + Stars(Item)
        BY <1>1, <1>2, <1>3, <2>1
      <3>2. Value(FirstValue - 1) = Item.prec.v
        BY <1>1, <1>2, <2>1, <3>1
      <3> QED
        BY <2>1, <3>2 DEF ScannedPrec, StarPrec, MeantPrec
    <2>2. CASE Item.prec.k = "none"
      BY <2>2 DEF ScannedPrec, StarPrec, MeantPrec
    <2>3. CASE Item.prec.k \in {"dot", "digits"}
      <3>1. Item.prec.v \in Nat
        BY <1>1, <2>3, ItemFacts
      <3> QED
        BY <2>3, <3>1 DEF ScannedPrec, StarPrec, MeantPrec, Larger
    <2> QED
      BY <1>1, <2>1, <2>2, <2>3, ItemFacts
  <1>6. Item.op \notin {"%", "end"} => Value(FirstValue) = Item.v
    <2>1. Item.op \notin {"%", "end"} =>
            Stars(Item) + 1 \in 1..Len(OwnArgs(Item))
      BY <1>2
    <2>2. FirstValue = Before + (Stars(Item) + 1)
      BY <1>1, <1>2, <1>3
    <2> QED
      BY <1>1, <1>2, <2>1, <2>2
  <1> QED
    BY <1>2, <1>3, <1>4, <1>5, <1>6

\* What is refused on the slow path is not printed.
LEMMA UnreadableUnsupported ==
  ASSUME PrintfTypes, f <= Len(format), Item.kind = "conversion", arg = Before,
         ~Readable, Supported(Item), Item.op \notin {"n", "%"}
  PROVE  FALSE
  <1>1. Item \in AnyItem /\ ScannedWidth = Item.width.v /\ ScannedPrec = MeantPrec(Item)
    BY ItemReached, SlowReads
  <1>2. /\ Item.width.v \in Int /\ Item.prec.v \in Int /\ Item.mod \in STRING
        /\ Item.prec.k = "digits" => Item.prec.v \in Nat
    BY <1>1, ItemFacts
  <1>3. /\ Item.flags <= MaxFlags /\ Abs(Item.width.v) <= MaxField
        /\ Item.prec.v <= MaxField
        /\ \/ Item.op \in {"d", "u"} /\ Item.mod \in {"none", "h", "ll", "L"}
           \/ Item.op \in {"f", "e"} /\ Item.mod \in {"none", "L", "ll"}
           \/ Item.op \in {"c", "s", "p"} /\ Item.mod = "none"
    BY DEF Supported
  <1>4. FieldOK(Item.width, ScannedWidth) /\ FieldOK(Item.prec, ScannedPrec)
    BY <1>1, <1>2, <1>3 DEF FieldOK, MeantPrec, Larger, Abs, MaxField
  <1>5. Bounded(Scanned)
    BY <1>3 DEF Bounded, Scanned, Operation, SizeModifier
  <1> QED
    BY <1>3, <1>4, <1>5 DEF Readable

\* A conversion with a size the switch knows for it is printed.
LEMMA SizedSupported ==
  ASSUME NEW c \in AnyItem, c.kind = "conversion", c.op \in Known, c.mod \notin {"l", "hh"},
         c.flags <= MaxFlags, Abs(c.width.v) <= MaxField, c.prec.v <= MaxField,
         c.op \in {"n", "%"} => IsPlain(c)
  PROVE  Supported(c) <=> SizeModifier(c) \in Sizes(c.op)
  <1>1. c.mod \in STRING
    BY ItemFacts
  <1>2. CASE c.op \in {"d", "u"}
    BY <1>1, <1>2 DEF Supported, SizeModifier, Sizes
  <1>3. CASE c.op \in {"f", "e"}
    BY <1>1, <1>3 DEF Supported, SizeModifier, Sizes
  <1>4. CASE c.op = "n"
    BY <1>1, <1>4 DEF Supported, SizeModifier, Sizes
  <1>5. CASE c.op \in {"c", "s", "p", "%"}
    BY <1>1, <1>5 DEF Supported, SizeModifier, Sizes
  <1>6. CASE c.op = "end"
    BY <1>1, <1>6 DEF Supported, SizeModifier, Sizes
  <1> QED
    BY <1>2, <1>3, <1>4, <1>5, <1>6 DEF Known

\* A plain conversion has no flags, width or precision.
LEMMA PlainFields ==
  ASSUME NEW c \in AnyItem, c.kind = "conversion", IsPlain(c)
  PROVE  /\ c.flags <= MaxFlags /\ Abs(c.width.v) <= MaxField /\ c.prec.v <= MaxField
         /\ c.width.v = 0 /\ c.prec.v = 0 /\ MeantPrec(c) = -1 /\ Stars(c) = 0
  BY ItemFacts DEF IsPlain, MaxFlags, MaxField, Abs, MeantPrec, Stars

\* What was scanned is printed if its size is known, and not if it is not.
LEMMA ScannedSupported ==
  ASSUME PrintfTypes, f <= Len(format), Item.kind = "conversion", Performed,
         IF fast THEN FastScanned ELSE SlowScanned
  PROVE  /\ Supported(Item) <=> SizeOK
         /\ spec.op = Item.op /\ spec.op \in Known
         /\ spec.width = Item.width.v /\ spec.prec = MeantPrec(Item)
  <1>1. Item \in AnyItem /\ spec.op \in Known
    BY ItemReached DEF Performed
  <1>2. CASE fast
    BY <1>1, <1>2, PlainFields, SizedSupported DEF FastScanned, SizeOK
  <1>3. CASE ~fast
    <2>1. spec.op \notin {"n", "%"}
      BY <1>3 DEF SlowScanned, Bounded
    <2> QED
      BY <1>1, <1>3, <2>1, SizedSupported DEF SlowScanned, SizeOK
  <1> QED
    BY <1>2, <1>3 DEF PrintfTypes

---------------------------------------------------------------------------
(***************************************************************************)
(* The steps.                                                              *)
(***************************************************************************)

LEMMA PrintfInitInv == PrintfInit => PrintfInv
  <1> SUFFICES ASSUME PrintfInit PROVE PrintfInv
    OBVIOUS
  <1>1. format \in Formats /\ format \in Seq(AnyItem) /\ Len(format) \in Nat /\ f = 1
    BY FormatFacts DEF PrintfInit
  <1>2. PrintfTypes
    BY <1>1 DEF PrintfInit, PrintfTypes, NoPiece, Pieces, PRINTF_BUFFLEN
  <1>3. f - 1 = 0 /\ MeantUpTo(format, f - 1) = 0 /\ Before = 0
    BY <1>1, ArgsUpToFacts, MeantUpToFacts DEF Before
  <1>4. Passed
    BY <1>1, <1>3 DEF PrintfInit, Passed
  <1> QED
    BY <1>2, <1>3, <1>4 DEF PrintfInit, PrintfInv, Running, AtConversion, AtScan,
                             AtPerform, AtPut, AtReturn

\* Text is printed as it is.
LEMMA PutTextKeeps ==
  ASSUME PrintfInv, PutText
  PROVE  PrintfInv'
  <1>1. /\ path = "scan" /\ f <= Len(format) /\ Item.kind = "text"
        /\ Puts([NoPiece EXCEPT !.n = Item.n])
    BY DEF PutText
  <1> DEFINE p == [NoPiece EXCEPT !.n = Item.n]
  <1>2. Item \in AnyItem /\ Before \in Nat
    BY <1>1, ItemReached DEF PrintfInv
  <1>3. p \in Pieces /\ p.n = Item.n /\ p.count = 0
    BY <1>1, <1>2, ItemFacts DEF NoPiece, Pieces
  <1>4. AsMeant(f, p)
    BY <1>1, <1>3 DEF AsMeant, Item, Meant
  <1>5. Supported(Item)
    BY <1>1 DEF Supported
  <1>6. arg = Before + Len(OwnArgs(Item))
    BY <1>1, <1>2, OwnArgsFacts DEF PrintfInv, AtScan
  <1> HIDE DEF p
  <1> QED
    BY <1>1, <1>3, <1>4, <1>5, <1>6, PutsKeeps DEF p

LEMMA FastPathKeeps ==
  ASSUME PrintfInv, FastPath
  PROVE  PrintfInv'
  <1> USE DEF PrintfInv
  <1>1. /\ path = "scan" /\ f <= Len(format) /\ Item.kind = "conversion"
        /\ path' = "perform" /\ fast' = TRUE /\ buffLen' = PRINTF_BUFFLEN
        /\ UNCHANGED <<format, f, arg, aux, piece, out, streamCount, result>>
    BY DEF FastPath
  <1>2. Item \in AnyItem /\ Item' = Item /\ Before' = Before
    BY <1>1, ItemReached DEF Item, Before
  <1>3. /\ IsPlain(Item) => spec'.op = Operation(Item)
        /\ spec'.op \in Known =>
             /\ IsPlain(Item) /\ spec'.op = Item.op /\ spec'.width = 0 /\ spec'.prec = -1
             /\ spec'.size = SizeModifier(Item) /\ Item.mod \notin {"l", "hh"}
    <2> DEFINE s == FastScan(Item)
    <2>1. spec' = IF s.op = "l" THEN [s EXCEPT !.size = spec.size] ELSE s
      BY DEF FastPath
    <2>2. "l" \notin Known /\ "field" \notin Known
      BY DEF Known
    <2>3. CASE IsPlain(Item)
      <3>1. s = [op |-> Operation(Item), size |-> SizeModifier(Item), width |-> 0,
                 prec |-> -1]
        BY <2>3 DEF FastScan
      <3>2. [s EXCEPT !.size = spec.size].op = s.op
        BY <3>1
      <3>3. s.op = Operation(Item) /\ s.size = SizeModifier(Item) /\ s.width = 0 /\ s.prec = -1
        BY <3>1
      <3> HIDE DEF s
      <3>4. CASE s.op = "l"
        BY <2>1, <2>2, <3>2, <3>3, <3>4
      <3>5. CASE s.op # "l"
        BY <1>1, <1>2, <2>1, <2>3, <3>2, <3>3, <3>5, ScanFacts
      <3> QED
        BY <3>4, <3>5
    <2>4. CASE ~IsPlain(Item)
      <3>1. s = [op |-> "field", size |-> "none", width |-> 0, prec |-> -1]
        BY <2>4 DEF FastScan
      <3>2. spec' = [op |-> "field", size |-> "none", width |-> 0, prec |-> -1]
        BY <2>1, <3>1
      <3> QED
        BY <2>2, <2>4, <3>2
    <2> QED
      BY <2>3, <2>4
  <1>4. PrintfTypes'
    BY <1>1 DEF PrintfTypes, PRINTF_BUFFLEN
  <1>5. Passed'
    BY <1>1, PassedKept
  <1>6. AtPerform'
    <2>1. FastScanned'
      BY <1>1, <1>2, <1>3 DEF FastScanned, AtScan
    <2> QED
      BY <1>1, <2>1 DEF AtPerform
  <1> QED
    BY <1>1, <1>2, <1>4, <1>5, <1>6 DEF Running, AtConversion, AtScan, AtPut, AtReturn

LEMMA TakeSlowPathKeeps ==
  ASSUME PrintfInv, TakeSlowPath
  PROVE  PrintfInv'
  <1> USE DEF PrintfInv
  <1>1. /\ path = "perform" /\ ~Performed /\ path' = "slow"
        /\ UNCHANGED <<format, f, arg, fast, spec, buffLen, aux, piece, out,
                       streamCount, result>>
    BY DEF TakeSlowPath
  <1>2. fast
    <2>1. CASE ~fast
      <3>1. SlowScanned
        BY <1>1, <2>1 DEF AtPerform
      <3> QED
        BY <1>1, <2>1, <3>1, BoundedKnown DEF SlowScanned, Performed
    <2> QED
      BY <2>1
  <1>3. arg = Before /\ Before' = Before /\ Item' = Item
    BY <1>1, <1>2 DEF AtPerform, FastScanned, Before, Item
  <1>4. ASSUME Supported(Item) PROVE Item.op \notin {"n", "%"}
    <2> SUFFICES ASSUME Item.op \in {"n", "%"} PROVE FALSE
      OBVIOUS
    <2>1. IsPlain(Item) /\ Item.mod \in {"none", "h"}
      <3>1. Item.kind = "conversion"
        BY <1>1 DEF AtConversion
      <3> QED
        BY <1>4, <3>1 DEF Supported
    <2>2. Operation(Item) = Item.op
      BY <2>1 DEF Operation
    <2>3. spec.op = Item.op
      BY <1>1, <1>2, <2>1, <2>2 DEF AtPerform, FastScanned
    <2> QED
      BY <1>1, <2>3 DEF Performed, Known
  <1>5. PrintfTypes'
    BY <1>1 DEF PrintfTypes
  <1>6. Passed'
    BY <1>1, PassedKept
  <1>7. AtScan'
    BY <1>1, <1>3, <1>4 DEF AtScan
  <1> QED
    BY <1>1, <1>3, <1>5, <1>6, <1>7 DEF Running, AtConversion, AtPerform, AtPut, AtReturn

LEMMA SlowPathKeeps ==
  ASSUME PrintfInv, SlowPath
  PROVE  PrintfInv'
  <1> USE DEF PrintfInv
  <1>1. path = "slow" /\ f <= Len(format) /\ Item.kind = "conversion" /\ arg = Before
    BY DEF SlowPath, AtConversion, AtScan
  <1>2. CASE ~Readable /\ ErrorReturn
    <2>1. ~Supported(Item)
      BY <1>1, <1>2, UnreadableUnsupported DEF AtScan
    <2> QED
      BY <1>1, <1>2, <2>1, ErrorKeeps
  <1>3. CASE Readable /\ ~(~Readable /\ ErrorReturn)
    <2> DEFINE s == Scanned
               n == BuffReqd(s, Value(FirstValue))
    <2>1. /\ spec' = s /\ buffLen' = BuffLenFor(n) /\ aux' = AuxFor(n)
          /\ arg' = IF ReadsNow(s) THEN FirstValue ELSE FirstValue - 1
          /\ path' = "perform" /\ fast' = FALSE
          /\ UNCHANGED <<format, f, piece, out, streamCount, result>>
      BY <1>3 DEF SlowPath
    <2>2. /\ Item \in AnyItem /\ Conversible(Item) /\ Before \in Nat
          /\ Item' = Item /\ Before' = Before
      BY <1>1, <2>1, ItemReached DEF Item, Before
    <2>3. /\ ScannedWidth = Item.width.v /\ ScannedPrec = MeantPrec(Item)
          /\ FirstValue = Before + Stars(Item) + 1 /\ Stars(Item) \in 0..2
          /\ Item.op \notin {"%", "end"} => Value(FirstValue) = Item.v
      BY <1>1, SlowReads
    <2>4. /\ Item.flags <= MaxFlags /\ Bounded(s)
          /\ FieldOK(Item.width, Item.width.v) /\ FieldOK(Item.prec, MeantPrec(Item))
      BY <1>3, <2>3 DEF Readable
    <2>5. s.op = Operation(Item) /\ s.width = Item.width.v /\ s.prec = MeantPrec(Item)
          /\ (Item.mod # "l" => s.size = SizeModifier(Item))
      BY <2>3 DEF Scanned
    <2> HIDE DEF s
    <2>6. /\ s.op \in {"d", "u", "c", "p", "s", "f", "e"} /\ s.op = Item.op
          /\ Item.mod \notin {"l", "hh"} /\ s.size = SizeModifier(Item)
      BY <1>1, <2>2, <2>4, <2>5, BoundedKnown, ScanFacts
    <2>7. Value(FirstValue) = Item.v
      BY <2>3, <2>6
    <2>8. Item.v \in Nat /\ Item.width.v \in Int /\ MeantPrec(Item) \in Int /\ MeantPrec(Item) >= -1
      BY <1>1, <2>2, ItemFacts, MeantPrecType
    <2>9. /\ Needed(s.op, s.prec, Item.v) \in Int
          /\ Unpadded(s.op, s.prec, Item.v) < Needed(s.op, s.prec, Item.v) + 10
      <3>1. (Item.op = "c" => Item.v = 1) /\ (Item.op = "p" => Item.v <= MaxDigits)
        BY <2>2 DEF Conversible
      <3> QED
        BY <2>5, <2>6, <2>8, <3>1, UnpaddedFits
    <2>10. n \in Int /\ n >= Needed(s.op, s.prec, Item.v) + 10
      BY <2>5, <2>7, <2>8, <2>9 DEF BuffReqd, Larger
    <2> HIDE DEF n
    <2>11. aux \in Nat /\ (aux = 0 \/ aux > PRINTF_BUFFLEN)
      BY DEF PrintfTypes
    <2>12. /\ BuffLenFor(n) \in Nat /\ BuffLenFor(n) >= n /\ BuffLenFor(n) >= PRINTF_BUFFLEN
           /\ AuxFor(n) \in Nat /\ (AuxFor(n) = 0 \/ AuxFor(n) > PRINTF_BUFFLEN)
      BY <2>10, <2>11, BufferFacts
    <2>13. arg' = Before + Stars(Item) + (IF s.op \in {"s", "f"} THEN 1 ELSE 0)
      BY <2>1, <2>2, <2>3 DEF ReadsNow
    <2>14. arg' \in Nat
      BY <2>2, <2>3, <2>13
    <2>15. PrintfTypes'
      BY <2>1, <2>12, <2>14 DEF PrintfTypes
    <2>16. Passed'
      BY <2>1, PassedKept
    <2>17. Abs(Item.width.v) <= MaxField /\ Item.prec.v <= MaxField
      <3>1. /\ Item.width.k \in {"none", "dot"} => Item.width.v = 0
            /\ Item.prec.k \in {"none", "dot"} => Item.prec.v = 0
            /\ Item.width.k \in {"none", "dot", "digits", "star"}
            /\ Item.prec.k \in {"none", "dot", "digits", "star"}
            /\ Item.prec.v \in Int
        BY <1>1, <2>2, ItemFacts
      <3> QED
        BY <2>4, <2>8, <3>1 DEF FieldOK, Abs, MaxField, MeantPrec, Larger
    <2>18. Unpadded(s.op, s.prec, Item.v) < BuffLenFor(n)
      <3>1. Unpadded(s.op, s.prec, Item.v) \in Nat
        BY <2>5, <2>8, PrintedType
      <3> QED
        BY <2>9, <2>10, <2>12, <3>1
    <2>19. SlowScanned'
      BY <2>1, <2>2, <2>4, <2>5, <2>6, <2>12, <2>13, <2>17, <2>18 DEF SlowScanned
    <2>20. AtPerform'
      BY <2>1, <2>19 DEF AtPerform
    <2> QED
      BY <1>1, <2>1, <2>2, <2>15, <2>16, <2>20
         DEF Running, AtConversion, AtScan, AtPut, AtReturn
  <1> QED
    BY <1>2, <1>3 DEF SlowPath

LEMMA RefuseKeeps ==
  ASSUME PrintfInv, Refuse
  PROVE  PrintfInv'
  <1>1. path = "perform" /\ Performed /\ ~SizeOK /\ ErrorReturn
    BY DEF Refuse
  <1>2. /\ f <= Len(format) /\ Item.kind = "conversion" /\ PrintfTypes
        /\ IF fast THEN FastScanned ELSE SlowScanned
    BY <1>1 DEF PrintfInv, AtConversion, AtPerform
  <1>3. ~Supported(Item)
    BY <1>1, <1>2, ScannedSupported
  <1> QED
    BY <1>1, <1>2, <1>3, ErrorKeeps

\* What is printed is what was meant, and fits.
LEMMA PerformedFits ==
  ASSUME PrintfInv, path = "perform", Performed, SizeOK, Item.op \notin {"%", "n"}
  PROVE  LET a == IF AlreadyRead THEN arg ELSE arg + 1
             n == Printed(spec.op, spec.width, spec.prec, Value(a))
         IN  /\ a = Before + Len(OwnArgs(Item))
             /\ n = Meant(Item)
             /\ Abs(spec.width) < PRINTF_BUFFLEN /\ ~(fast /\ spec.op = "s") => n < buffLen
  <1> USE DEF PrintfInv
  <1>1. /\ f <= Len(format) /\ Item.kind = "conversion"
        /\ IF fast THEN FastScanned ELSE SlowScanned
    BY DEF AtConversion, AtPerform
  <1>2. /\ Supported(Item) /\ spec.op = Item.op /\ spec.op \in Known
        /\ spec.width = Item.width.v /\ spec.prec = MeantPrec(Item)
    BY <1>1, ScannedSupported
  <1>3. spec.op \in {"d", "u", "c", "p", "s", "f", "e"} /\ spec.op \notin {"%", "n", "end"}
    BY <1>1, <1>2 DEF SizeOK, Sizes, Known
  <1>4. /\ Item \in AnyItem /\ Conversible(Item) /\ Before \in Nat
        /\ \A k \in 1..Len(OwnArgs(Item)) : Value(Before + k) = OwnArgs(Item)[k]
    BY <1>1, ItemReached
  <1>5. /\ Stars(Item) \in 0..2 /\ Len(OwnArgs(Item)) = Stars(Item) + 1
        /\ OwnArgs(Item)[Stars(Item) + 1] = Item.v
        /\ Stars(Item) + 1 \in 1..Len(OwnArgs(Item))
    <2>1. Item.op \notin {"%", "end"}
      BY <1>2, <1>3
    <2>2. /\ Stars(Item) \in 0..2
          /\ Len(OwnArgs(Item)) = Stars(Item) + (IF Item.op \in {"%", "end"} THEN 0 ELSE 1)
          /\ OwnArgs(Item)[Stars(Item) + 1] = Item.v
      BY <1>1, <1>4, <2>1, OwnArgsFacts
    <2> QED
      BY <2>1, <2>2
  <1> DEFINE a == IF AlreadyRead THEN arg ELSE arg + 1
             n == Printed(spec.op, spec.width, spec.prec, Value(a))
  <1>6. a = Before + (Stars(Item) + 1)
    <2>1. CASE fast
      <3>1. Stars(Item) = 0 /\ arg = Before
        BY <1>1, <1>2, <1>4, <2>1, PlainFields DEF FastScanned
      <3> QED
        BY <1>4, <2>1, <3>1 DEF AlreadyRead
    <2>2. CASE ~fast
      <3>1. arg = Before + Stars(Item) + (IF spec.op \in {"s", "f"} THEN 1 ELSE 0)
        BY <1>1, <2>2 DEF SlowScanned
      <3> QED
        BY <1>4, <1>5, <2>2, <3>1 DEF AlreadyRead
    <2> QED
      BY <2>1, <2>2
  <1>7. Value(a) = Item.v
    BY <1>4, <1>5, <1>6
  <1>8. n = Meant(Item)
    BY <1>1, <1>2, <1>3, <1>7 DEF Meant, MeantPrec
  <1>9. /\ Item.v \in Nat /\ Item.width.v \in Int /\ MeantPrec(Item) \in Int
        /\ MeantPrec(Item) >= -1
    BY <1>1, <1>4, ItemFacts, MeantPrecType
  <1>10. n = Abs(spec.width) \/ n = Unpadded(spec.op, spec.prec, Item.v)
    BY <1>2, <1>7, <1>9, PrintedType
  <1>11. ASSUME Abs(spec.width) < PRINTF_BUFFLEN, ~(fast /\ spec.op = "s")
         PROVE  n < buffLen
    <2>1. CASE fast
      <3>1. spec.prec = -1 /\ buffLen = 100 /\ spec.op \in {"d", "u", "c", "p", "e"}
        BY <1>1, <1>2, <1>3, <1>11, <2>1 DEF FastScanned, PRINTF_BUFFLEN, Performed
      <3>2. (spec.op = "c" => Item.v = 1) /\ (spec.op = "p" => Item.v <= 20)
        BY <1>2, <1>4 DEF Conversible, MaxDigits
      <3>3. Unpadded(spec.op, spec.prec, Item.v) < 100
        BY <1>9, <3>1, <3>2 DEF Unpadded, Larger, Smaller, MaxDigits
      <3> QED
        BY <1>10, <1>11, <3>1, <3>3 DEF PRINTF_BUFFLEN
    <2>2. CASE ~fast
      <3>1. /\ Unpadded(spec.op, spec.prec, Item.v) < buffLen /\ PRINTF_BUFFLEN <= buffLen
            /\ buffLen \in Nat
        BY <1>1, <2>2 DEF SlowScanned, PrintfTypes
      <3>2. Abs(spec.width) \in Nat
        BY <1>2, <1>9 DEF Abs
      <3> QED
        BY <1>10, <1>11, <3>1, <3>2 DEF PRINTF_BUFFLEN
    <2> QED
      BY <2>1, <2>2
  <1> QED
    BY <1>5, <1>6, <1>8, <1>11

LEMMA PerformOpKeeps ==
  ASSUME PrintfInv, PerformOp
  PROVE  PrintfInv'
  <1> USE DEF PrintfInv
  <1>1. /\ path = "perform" /\ Performed /\ SizeOK /\ path' = "put"
        /\ buffLen' = IF fast /\ spec.op = "s" THEN piece'.n + 1 ELSE buffLen
        /\ UNCHANGED <<format, f, fast, spec, aux, out, streamCount, result>>
    BY DEF PerformOp
  <1>2. /\ f <= Len(format) /\ Item.kind = "conversion" /\ PrintfTypes
        /\ IF fast THEN FastScanned ELSE SlowScanned
    BY <1>1 DEF AtConversion, AtPerform
  <1>3. /\ Supported(Item) /\ spec.op = Item.op /\ spec.op \in Known
        /\ Item \in AnyItem /\ Before \in Nat /\ Item' = Item /\ Before' = Before
    BY <1>1, <1>2, ScannedSupported, ItemReached DEF Item, Before
  <1>4. /\ Meant(Item) \in Nat /\ streamCount \in Nat /\ buffLen \in Nat
        /\ streamCount = MeantUpTo(format, f - 1)
    BY <1>1, <1>3, MeantType DEF PrintfTypes, Running
  <1>5. /\ piece' \in Pieces /\ (AsMeant(f, piece))'
        /\ arg' = Before + Len(OwnArgs(Item)) /\ arg' \in Nat
        /\ Abs(spec.width) < PRINTF_BUFFLEN /\ ~(fast /\ spec.op = "s") => piece'.n < buffLen
    <2>1. CASE Item.op \in {"%", "n"}
      <3>1. fast
        <4>1. spec.op \notin {"d", "u", "c", "p", "s", "f", "e"}
          BY <1>3, <2>1
        <4> QED
          BY <1>2, <4>1 DEF SlowScanned, Bounded
      <3>2. arg = Before /\ Stars(Item) = 0 /\ buffLen = PRINTF_BUFFLEN
        BY <1>2, <1>3, <3>1, PlainFields DEF FastScanned
      <3>3. Len(OwnArgs(Item)) = IF Item.op = "%" THEN 0 ELSE 1
        <4>1. Len(OwnArgs(Item)) = Stars(Item) + (IF Item.op \in {"%", "end"} THEN 0 ELSE 1)
          BY <1>2, <1>3, OwnArgsFacts
        <4> QED
          BY <2>1, <3>2, <4>1
      <3>4. CASE Item.op = "%"
        <4>1. piece' = [NoPiece EXCEPT !.n = 1] /\ arg' = arg
          BY <1>1, <1>3, <3>4 DEF PerformOp
        <4>2. piece' \in Pieces /\ piece'.n = 1 /\ piece'.count = 0
          BY <4>1 DEF NoPiece, Pieces
        <4>3. Meant(Item) = 1
          BY <1>2, <3>4 DEF Meant
        <4> QED
          BY <1>1, <1>3, <3>2, <3>3, <3>4, <4>1, <4>2, <4>3
             DEF AsMeant, Item, PRINTF_BUFFLEN
      <3>5. CASE Item.op = "n"
        <4>1. piece' = [NoPiece EXCEPT !.count = streamCount] /\ arg' = arg + 1
          BY <1>1, <1>3, <3>1, <3>5 DEF PerformOp, AlreadyRead
        <4>2. piece' \in Pieces /\ piece'.n = 0 /\ piece'.count = streamCount
          BY <1>4, <4>1 DEF NoPiece, Pieces
        <4>3. Meant(Item) = 0
          BY <1>2, <3>5 DEF Meant
        <4> QED
          BY <1>1, <1>2, <1>3, <1>4, <3>2, <3>3, <3>5, <4>1, <4>2, <4>3
             DEF AsMeant, Item, PRINTF_BUFFLEN
      <3> QED
        BY <2>1, <3>4, <3>5
    <2>2. CASE Item.op \notin {"%", "n"}
      <3> DEFINE a == IF AlreadyRead THEN arg ELSE arg + 1
                 n == Printed(spec.op, spec.width, spec.prec, Value(a))
      <3>1. piece' = [NoPiece EXCEPT !.n = n] /\ arg' = a
        BY <1>1, <1>3, <2>2 DEF PerformOp
      <3>2. /\ a = Before + Len(OwnArgs(Item)) /\ n = Meant(Item)
            /\ Abs(spec.width) < PRINTF_BUFFLEN /\ ~(fast /\ spec.op = "s") => n < buffLen
        BY <1>1, <2>2, PerformedFits
      <3> HIDE DEF a, n
      <3>3. n \in Nat
        BY <1>4, <3>2
      <3>4. piece' \in Pieces /\ piece'.n = n /\ piece'.count = 0
        BY <3>1, <3>3 DEF NoPiece, Pieces
      <3>5. (AsMeant(f, piece))'
        BY <1>1, <2>2, <3>2, <3>4 DEF AsMeant, Item
      <3>6. arg' \in Nat
        <4>1. Len(OwnArgs(Item)) \in Nat
          BY <1>3, OwnArgsFacts
        <4> QED
          BY <1>3, <3>1, <3>2, <4>1
      <3> QED
        BY <3>1, <3>2, <3>4, <3>5, <3>6
    <2> QED
      BY <2>1, <2>2
  <1>6. buffLen' \in Nat /\ (Abs(spec.width) < PRINTF_BUFFLEN => piece'.n < buffLen')
    <2>1. piece'.n \in Nat
      BY <1>5 DEF Pieces
    <2> QED
      BY <1>1, <1>4, <1>5, <2>1
  <1>7. PrintfTypes'
    BY <1>1, <1>5, <1>6 DEF PrintfTypes
  <1>8. Passed'
    BY <1>1, PassedKept
  <1>9. AtPut'
    <2>1. BufferFits'
      BY <1>1, <1>6 DEF BufferFits
    <2> QED
      BY <1>1, <1>3, <1>5, <2>1 DEF AtPut
  <1> QED
    BY <1>1, <1>2, <1>3, <1>7, <1>8, <1>9
       DEF Running, AtConversion, AtScan, AtPerform, AtReturn

LEMMA OverrunKeeps ==
  ASSUME PrintfInv, Overrun
  PROVE  PrintfInv'
  <1> USE DEF PrintfInv
  <1>1. /\ path = "put" /\ path' = "overrun"
        /\ UNCHANGED <<format, f, arg, fast, spec, buffLen, aux, piece, out,
                       streamCount, result>>
    BY DEF Overrun
  <1>2. PrintfTypes'
    BY <1>1 DEF PrintfTypes
  <1>3. Passed'
    BY <1>1, PassedKept
  <1> QED
    BY <1>1, <1>2, <1>3 DEF Running, AtConversion, AtScan, AtPerform, AtPut, AtReturn, Item

LEMMA NormalReturnKeeps ==
  ASSUME PrintfInv, NormalReturn
  PROVE  PrintfInv'
  <1> USE DEF PrintfInv
  <1>1. /\ path = "scan" /\ f > Len(format) /\ path' = "returned" /\ result' = streamCount
        /\ aux' = 0
        /\ UNCHANGED <<format, f, fast, spec, buffLen, piece, arg, out, streamCount>>
    BY DEF NormalReturn, ReturnWith
  <1>2. f = Len(format) + 1
    BY <1>1, FormatFacts DEF PrintfTypes
  <1>3. PrintfTypes'
    BY <1>1 DEF PrintfTypes
  <1>4. Passed'
    BY <1>1, PassedKept
  <1>5. AtReturn'
    BY <1>1, <1>2 DEF AtReturn, Running
  <1> QED
    BY <1>1, <1>3, <1>4, <1>5 DEF Running, AtConversion, AtScan, AtPerform, AtPut

LEMMA PrintfNextInv == PrintfInv /\ [PrintfNext]_printfVars => PrintfInv'
  <1> SUFFICES ASSUME PrintfInv, [PrintfNext]_printfVars PROVE PrintfInv'
    OBVIOUS
  <1>1. CASE PutText
    BY <1>1, PutTextKeeps
  <1>2. CASE FastPath
    BY <1>2, FastPathKeeps
  <1>3. CASE TakeSlowPath
    BY <1>3, TakeSlowPathKeeps
  <1>4. CASE SlowPath
    BY <1>4, SlowPathKeeps
  <1>5. CASE Refuse
    BY <1>5, RefuseKeeps
  <1>6. CASE PerformOp
    BY <1>6, PerformOpKeeps
  <1>7. CASE PutPiece
    <2>1. path = "put" /\ Puts(piece)
      BY <1>7 DEF PutPiece
    <2>2. /\ f <= Len(format) /\ piece \in Pieces /\ AsMeant(f, piece) /\ Supported(Item)
          /\ arg = Before + Len(OwnArgs(Item))
      BY <2>1 DEF PrintfInv, AtConversion, AtPut, PrintfTypes
    <2> QED
      BY <2>1, <2>2, PutsKeeps
  <1>8. CASE Overrun
    BY <1>8, OverrunKeeps
  <1>9. CASE NormalReturn
    BY <1>9, NormalReturnKeeps
  <1>10. CASE UNCHANGED printfVars
    <2>1. UNCHANGED <<format, f, arg, path, fast, spec, buffLen, aux, piece, out,
                      streamCount, result>>
      BY <1>10 DEF printfVars
    <2> QED
      BY <2>1 DEF PrintfInv, PrintfTypes, Passed, AsMeant, Running, AtConversion, AtScan,
                  AtPerform, FastScanned, SlowScanned, AtPut, BufferFits, AtReturn,
                  Item, Before
  <1> QED
    BY <1>1, <1>2, <1>3, <1>4, <1>5, <1>6, <1>7, <1>8, <1>9, <1>10 DEF PrintfNext

\* A format of any length and with any widths, precisions and values prints what it
\* says, from the arguments meant for each conversion and in a buffer it fits in, or
\* the call fails for a cause (FCGX_VFPrintF).
THEOREM PrintfCorrectness == PrintfSafety => []PrintfSound
  <1>1. PrintfInv => PrintfSound
    <2> SUFFICES ASSUME PrintfInv PROVE PrintfSound
      OBVIOUS
    <2> USE DEF PrintfInv
    <2>1. PrintfTypeOK
      BY DEF PrintfTypes, PrintfTypeOK, Pieces
    <2>2. format \in Seq(AnyItem) /\ Len(format) \in Nat /\ out \in Seq(Pieces)
          /\ f \in 1..(Len(format) + 1) /\ DOMAIN format = 1..Len(format)
          /\ DOMAIN out = 1..Len(out) /\ Len(out) \in Nat
      BY FormatFacts DEF PrintfTypes
    <2>3. /\ f - 1 <= Len(out)
          /\ \A i \in 1..(f - 1) : AsMeant(i, out[i]) /\ Supported(format[i])
      BY DEF Passed
    <2>4. /\ path # "returned" => result = -2 /\ Len(out) = f - 1
          /\ path = "returned" =>
               \/ f = Len(format) + 1 /\ Len(out) = f - 1 /\ result = MeantUpTo(format, f - 1)
               \/ /\ f <= Len(format) /\ result = -1
                  /\ \/ Len(out) = f - 1 /\ ~Supported(Item)
                     \/ Len(out) = f /\ out[f].n < Meant(Item)
      BY DEF Running, AtReturn
    <2>5. /\ MeantUpTo(format, Len(format)) \in Nat
          /\ f = Len(format) + 1 => MeantUpTo(format, f - 1) = MeantUpTo(format, Len(format))
      <3>1. Len(format) \in 0..Len(format) /\ (f = Len(format) + 1 => f - 1 = Len(format))
        BY <2>2
      <3> QED
        BY <2>2, <3>1, MeantUpToFacts
    <2>6. CASE path # "returned" \/ Len(out) = f - 1
      <3>1. \A i \in DOMAIN out : AsMeant(i, out[i])
        BY <2>2, <2>3, <2>6 DEF Running
      <3>2. ASSUME result >= 0
            PROVE  f = Len(format) + 1 /\ Len(out) = Len(format)
                   /\ result = MeantUpTo(format, Len(format))
        <4>1. Len(format) \in Nat /\ Len(out) \in Nat /\ f \in Int
          BY <2>2
        <4> QED
          BY <2>4, <2>5, <3>2, <4>1
      <3>3. OutputAsMeant
        BY <3>1, <3>2 DEF OutputAsMeant, AsMeant
      <3>4. ASSUME result = -1 PROVE ~Supported(Item)
        <4>1. path = "returned" /\ Len(out) = f - 1
          BY <2>4, <2>6, <3>4
        <4>2. ~(f = Len(format) + 1)
          BY <2>4, <2>5, <3>4, <4>1
        <4>3. ~(Len(out) = f)
          BY <2>2, <4>1
        <4> QED
          BY <2>4, <4>1, <4>2, <4>3
      <3>5. RefusedForCause
        <4>1. result = -1 => ~Supported(Item)
          BY <3>4
        <4>2. result >= 0 => \A i \in DOMAIN format : Supported(format[i])
          <5> SUFFICES ASSUME result >= 0, NEW i \in DOMAIN format PROVE Supported(format[i])
            OBVIOUS
          <5>1. i \in 1..(f - 1)
            BY <2>2, <3>2
          <5> QED
            BY <2>3, <5>1
        <4> QED
          BY <4>1, <4>2 DEF RefusedForCause
      <3> QED
        BY <2>1, <3>3, <3>5 DEF PrintfSound, AtPut, BufferFits
    <2>7. CASE path = "returned" /\ Len(out) # f - 1
      <3>1. result = -1 /\ Len(out) = f /\ out[f].n < Meant(Item) /\ f \in 1..Len(format)
        <4>1. Len(format) \in Nat /\ Len(out) \in Nat /\ f \in 1..(Len(format) + 1)
          BY <2>2
        <4>2. Len(out) = f /\ f <= Len(format) /\ result = -1 /\ out[f].n < Meant(Item)
          BY <2>4, <2>7
        <4> QED
          BY <4>1, <4>2
      <3>2. ASSUME NEW i \in DOMAIN out
            PROVE  AsMeant(i, out[i]) \/ (i = Len(out) /\ out[i].n < Meant(format[i]))
        BY <2>2, <2>3, <3>1 DEF Item
      <3>3. OutputAsMeant
        BY <3>1, <3>2 DEF OutputAsMeant, AsMeant
      <3>4. RefusedForCause
        <4>1. out # <<>> /\ Last(out) = out[f]
          BY <2>2, <3>1 DEF Last
        <4> QED
          BY <3>1, <4>1 DEF RefusedForCause, Item
      <3> QED
        BY <2>1, <2>7, <3>3, <3>4 DEF PrintfSound, BufferFits
    <2> QED
      BY <2>6, <2>7
  <1> QED
    BY <1>1, PrintfInitInv, PrintfNextInv, PTL DEF PrintfSafety

---------------------------------------------------------------------------
(***************************************************************************)
(* Where the records of a connection start.                                *)
(***************************************************************************)

\* The records of a web server: a request number says what is not management.
Sent == {r \in Records : r.id = NullId <=> r.type \in ManagementTypes}

\* What a record takes on the connection, from its header on.
LEMMA SizeFacts ==
  ASSUME NEW r \in Records
  PROVE  Size(r) \in Nat /\ Size(r) >= HeadLen /\ Size(r) = HeadLen + r.len + r.pad
         /\ r.len \in Nat /\ r.pad \in Nat
  BY ReaderAssumption DEF Size, Records

\* The first record starts at 0, each one where the record before it ends.
LEMMA OffsetFacts ==
  ASSUME NEW rs \in Seq(Records)
  PROVE  /\ Offset(rs, 1) = 0
         /\ \A k \in 1..(Len(rs) + 1) : Offset(rs, k) \in Nat
         /\ \A k \in 1..Len(rs) : Offset(rs, k + 1) = Offset(rs, k) + Size(rs[k])
  <1> DEFINE n == Len(rs)
             step == [i \in 1..n |-> [a \in Nat |-> a + Size(rs[i])]]
  <1>1. n \in Nat /\ 0 \in Nat /\ \A i \in 1..n : rs[i] \in Records
    OBVIOUS
  <1>2. ASSUME NEW i \in 1..n, NEW a \in Nat
        PROVE  step[i][a] = a + Size(rs[i]) /\ step[i][a] \in Nat
    BY <1>1, SizeFacts
  <1>3. PICK g : Iterates(g, 0, step, n, Nat)
    <2>1. Stays(step, n, Nat)
      <3> HIDE DEF step, n
      <3> QED
        BY <1>2 DEF Stays
    <2> HIDE DEF step, n
    <2> QED
      BY <1>1, <2>1, Iterated
  <1> DEFINE h == [i \in 1..(n + 1) |-> g[i - 1]]
  <1>4. \A i \in 1..n : g[i] = g[i - 1] + Size(rs[i]) /\ i \in 0..n /\ i - 1 \in 0..n
    <2>1. \A i \in 1..n : i \in 0..n /\ i # 0 /\ i - 1 \in 0..n
      BY <1>1
    <2>2. \A i \in 1..n : g[i] = step[i][g[i - 1]] /\ g[i - 1] \in Nat
      <3> HIDE DEF step, n
      <3> QED
        BY <1>3, <2>1 DEF Iterates
    <2> HIDE DEF step, n
    <2> QED
      BY <1>2, <2>1, <2>2
  <1>5. h = [i \in 1..(n + 1) |-> IF i = 1 THEN 0 ELSE h[i - 1] + Size(rs[i - 1])]
    <2>1. g[0] = 0
      BY <1>1, <1>3 DEF Iterates
    <2>2. ASSUME NEW i \in 1..(n + 1)
          PROVE  h[i] = IF i = 1 THEN 0 ELSE h[i - 1] + Size(rs[i - 1])
      <3>1. CASE i = 1
        BY <2>1, <2>2, <3>1
      <3>2. CASE i # 1
        <4>1. i - 1 \in 1..n /\ i - 1 \in 1..(n + 1) /\ h[i - 1] = g[(i - 1) - 1] /\ h[i] = g[i - 1]
          BY <1>1, <3>2
        <4> HIDE DEF n, h
        <4> QED
          BY <1>4, <3>2, <4>1
      <3> QED
        BY <3>1, <3>2
    <2> HIDE DEF n
    <2> QED
      BY <2>2
  <1>6. PICK fs : /\ fs = [i \in 1..(n + 1) |-> IF i = 1 THEN 0 ELSE fs[i - 1] + Size(rs[i - 1])]
                 /\ \A k : Offset(rs, k) = fs[k]
    <2> HIDE DEF h
    <2> QED
      BY <1>5 DEF Offset
  <1>7. 1 \in 1..(n + 1) /\ Offset(rs, 1) = 0
    <2>1. 1 \in 1..(n + 1)
      BY <1>1
    <2> HIDE DEF n
    <2> QED
      BY <1>6, <2>1
  <1>8. \A k \in 1..n : /\ k + 1 \in 1..(n + 1) /\ (k + 1) - 1 = k
                         /\ fs[k + 1] = fs[k] + Size(rs[k])
    <2>1. \A k \in 1..n : k + 1 \in 1..(n + 1) /\ (k + 1) - 1 = k /\ k + 1 # 1
      BY <1>1
    <2> HIDE DEF n
    <2> QED
      BY <1>6, <2>1
  <1>9. \A k \in 1..n : Offset(rs, k + 1) = Offset(rs, k) + Size(rs[k])
    <2> HIDE DEF n
    <2> QED
      BY <1>6, <1>8
  <1>10. \A k \in 1..(n + 1) : Offset(rs, k) \in Nat
    <2> DEFINE Q == {j \in 0..n : Offset(rs, j + 1) \in Nat}
    <2>1. 0 \in Q
      BY <1>1, <1>7
    <2>2. ASSUME NEW i \in 0..(n - 1), i \in Q PROVE i + 1 \in Q
      <3>1. i + 1 \in 1..n /\ i + 1 \in 0..n
        BY <1>1
      <3>2. Offset(rs, (i + 1) + 1) = Offset(rs, i + 1) + Size(rs[i + 1])
        <4> HIDE DEF n
        <4> QED
          BY <1>9, <3>1
      <3>3. Size(rs[i + 1]) \in Nat /\ Offset(rs, i + 1) \in Nat
        BY <1>1, <2>2, <3>1, SizeFacts
      <3> QED
        BY <3>1, <3>2, <3>3
    <2>3. \A i \in 0..n : i \in Q
      <3> HIDE DEF Q, n
      <3> QED
        BY <1>1, <2>1, <2>2, UpToNumber
    <2>4. \A k \in 1..(n + 1) : k - 1 \in 0..n /\ (k - 1) + 1 = k
      BY <1>1
    <2> HIDE DEF n
    <2> QED
      BY <2>3, <2>4
  <1> QED
    BY <1>7, <1>9, <1>10

\* A later record starts after an earlier one has ended.
LEMMA OffsetOrder ==
  ASSUME NEW rs \in Seq(Records), NEW i \in 1..(Len(rs) + 1), NEW j \in 1..(Len(rs) + 1),
         i < j
  PROVE  i \in 1..Len(rs) /\ Offset(rs, i) + Size(rs[i]) <= Offset(rs, j)
  <1> DEFINE n == j - 1 - i
             Q == {m \in 0..n : Offset(rs, i + 1) <= Offset(rs, i + 1 + m)}
  <1>1. n \in Nat /\ i \in 1..Len(rs) /\ i + 1 \in 1..(Len(rs) + 1) /\ Offset(rs, i + 1) \in Nat
    BY OffsetFacts
  <1>2. 0 \in Q
    BY <1>1
  <1>3. ASSUME NEW m \in 0..(n - 1), m \in Q PROVE m + 1 \in Q
    <2>1. i + 1 + m \in 1..Len(rs) /\ i + 1 + m \in 1..(Len(rs) + 1) /\ (i + 1 + m) + 1 = i + 1 + (m + 1)
          /\ m + 1 \in 0..n
      BY <1>1
    <2>2. Offset(rs, (i + 1 + m) + 1) = Offset(rs, i + 1 + m) + Size(rs[i + 1 + m])
      BY <2>1, OffsetFacts
    <2>3. Offset(rs, i + 1 + m) \in Nat /\ Size(rs[i + 1 + m]) \in Nat
      BY <2>1, OffsetFacts, SizeFacts
    <2>4. Offset(rs, i + 1) <= Offset(rs, i + 1 + m)
      BY <1>3
    <2> QED
      BY <1>1, <2>1, <2>2, <2>3, <2>4
  <1>4. n \in 0..n
    BY <1>1
  <1>5. n \in Q
    <2> HIDE DEF Q, n
    <2> QED
      BY <1>1, <1>2, <1>3, <1>4, UpToNumber
  <1>6. Offset(rs, i + 1) = Offset(rs, i) + Size(rs[i])
    BY <1>1, OffsetFacts
  <1>7. i + 1 + n = j
    BY <1>1
  <1> QED
    BY <1>1, <1>5, <1>6, <1>7

\* Only the records before it say where a record starts.
LEMMA OffsetKept ==
  ASSUME NEW rs \in Seq(Records), NEW ss \in Seq(Records), Len(rs) <= Len(ss),
         \A i \in 1..Len(rs) : rs[i] = ss[i]
  PROVE  \A k \in 1..(Len(rs) + 1) : Offset(ss, k) = Offset(rs, k)
  <1> DEFINE n == Len(rs)
             Q == {m \in 0..n : Offset(ss, m + 1) = Offset(rs, m + 1)}
  <1>1. n \in Nat /\ 0 + 1 = 1 /\ 0 \in 0..n
    OBVIOUS
  <1>2. 0 \in Q
    <2>1. Offset(ss, 1) = Offset(rs, 1)
      BY OffsetFacts
    <2> QED
      BY <1>1, <2>1
  <1>3. ASSUME NEW m \in 0..(n - 1), m \in Q PROVE m + 1 \in Q
    <2>1. m + 1 \in 1..Len(rs) /\ m + 1 \in 1..Len(ss) /\ m + 1 \in 0..n
      BY <1>1
    <2>2. /\ Offset(rs, (m + 1) + 1) = Offset(rs, m + 1) + Size(rs[m + 1])
          /\ Offset(ss, (m + 1) + 1) = Offset(ss, m + 1) + Size(ss[m + 1])
      BY <2>1, OffsetFacts
    <2>3. rs[m + 1] = ss[m + 1] /\ Offset(ss, m + 1) = Offset(rs, m + 1)
      BY <1>3, <2>1
    <2> QED
      BY <2>1, <2>2, <2>3
  <1>4. \A m \in 0..n : m \in Q
    <2> HIDE DEF Q, n
    <2> QED
      BY <1>1, <1>2, <1>3, UpToNumber
  <1>5. \A k \in 1..(n + 1) : k - 1 \in 0..n /\ (k - 1) + 1 = k
    BY <1>1
  <1> HIDE DEF n
  <1> QED
    BY <1>4, <1>5 DEF n

---------------------------------------------------------------------------
(***************************************************************************)
(* Sequences joined in a row, and the other operators of the reader.       *)
(***************************************************************************)

\* The first j of the sequences fs, in a row.
Joined(fs, j) == FlattenSeq([i \in 1..j |-> fs[i]])

\* Joined takes one sequence after the other.
LEMMA JoinedFacts ==
  ASSUME NEW S, NEW n \in Nat, NEW fs, \A i \in 1..n : fs[i] \in Seq(S)
  PROVE  /\ Joined(fs, 0) = <<>>
         /\ \A j \in 0..n : Joined(fs, j) \in Seq(S)
         /\ \A j \in 1..n : Joined(fs, j) = Joined(fs, j - 1) \o fs[j]
  <1> DEFINE A == Seq(S)
             step == [i \in 1..n |-> [a \in A |-> a \o fs[i]]]
  <1>1. ASSUME NEW i \in 1..n, NEW a \in A
        PROVE  step[i][a] = a \o fs[i] /\ step[i][a] \in A
    <2>1. fs[i] \in Seq(S) /\ a \in Seq(S)
      BY <1>1
    <2>2. a \o fs[i] \in Seq(S)
      BY <2>1
    <2> QED
      BY <2>1, <2>2
  <1>2. PICK g : Iterates(g, <<>>, step, n, A)
    <2>1. Stays(step, n, A)
      <3> HIDE DEF step, A
      <3> QED
        BY <1>1 DEF Stays
    <2>2. <<>> \in A
      OBVIOUS
    <2> HIDE DEF step, A
    <2> QED
      BY <2>1, <2>2, Iterated
  <1>3. /\ g[0] = <<>> /\ \A i \in 0..n : g[i] \in A
        /\ \A i \in 1..n : g[i] = g[i - 1] \o fs[i]
    <2>1. 0 \in 0..n /\ \A i \in 1..n : i \in 0..n /\ i # 0 /\ i - 1 \in 0..n
      OBVIOUS
    <2>2. /\ g[0] = <<>> /\ \A i \in 0..n : g[i] \in A
          /\ \A i \in 1..n : g[i] = step[i][g[i - 1]] /\ g[i - 1] \in A
      <3> HIDE DEF step, A
      <3> QED
        BY <1>2, <2>1 DEF Iterates
    <2> HIDE DEF step, A
    <2> QED
      BY <1>1, <2>1, <2>2
  <1>4. ASSUME NEW j \in 1..n PROVE Joined(fs, j) = g[j]
    <2> DEFINE s == [i \in 1..j |-> fs[i]]
               F == [i \in 1..j |-> g[i]]
    <2>1. s \in Seq(S) \/ Len(s) = j
      BY <1>4
    <2>2. Len(s) = j /\ Len(s) # 0 /\ \A i \in 1..j : s[i] = fs[i]
      BY <1>4
    <2>3. F = [i \in 1..Len(s) |-> IF i = 1 THEN s[i] ELSE F[i - 1] \o s[i]]
      <3>1. ASSUME NEW i \in 1..j
            PROVE  F[i] = IF i = 1 THEN s[i] ELSE F[i - 1] \o s[i]
        <4>1. i \in 1..n /\ g[i] = g[i - 1] \o fs[i] /\ s[i] = fs[i] /\ F[i] = g[i]
          <5>1. i \in 1..n /\ F[i] = g[i]
            BY <1>4
          <5>2. s[i] = fs[i]
            OBVIOUS
          <5> HIDE DEF F, s
          <5> QED
            BY <1>3, <5>1, <5>2
        <4>2. CASE i = 1
          <5>1. fs[1] \in Seq(S) /\ <<>> \o fs[1] = fs[1]
            BY <4>1, <4>2
          <5>2. i - 1 = 0
            BY <4>2
          <5> HIDE DEF s, F
          <5> QED
            BY <1>3, <4>1, <4>2, <5>1, <5>2
        <4>3. CASE i # 1
          <5>1. i - 1 \in 1..j
            BY <4>3
          <5>2. F[i - 1] = g[i - 1]
            BY <5>1
          <5> HIDE DEF s, F
          <5> QED
            BY <4>1, <4>3, <5>2
        <4> QED
          BY <4>2, <4>3
      <3>2. F = [i \in 1..j |-> F[i]]
        OBVIOUS
      <3> HIDE DEF F, s
      <3> QED
        BY <2>2, <3>1, <3>2
    <2>4. PICK h : /\ h = [i \in 1..Len(s) |-> IF i = 1 THEN s[i] ELSE h[i - 1] \o s[i]]
                   /\ FlattenSeq(s) = h[Len(s)]
      <3> HIDE DEF F, s
      <3> QED
        BY <2>2, <2>3 DEF FlattenSeq
    <2>5. \A i \in 1..j : h[i] = IF i = 1 THEN s[i] ELSE h[i - 1] \o s[i]
      <3> HIDE DEF s
      <3> QED
        BY <2>2, <2>4
    <2> DEFINE Q == {i \in 0..j : i = 0 \/ h[i] = g[i]}
    <2>6. 0 \in Q
      BY <1>4
    <2>7. ASSUME NEW i \in 0..(j - 1), i \in Q PROVE i + 1 \in Q
      <3>1. i + 1 \in 1..j /\ i + 1 \in 1..n /\ (i + 1) - 1 = i /\ i + 1 \in 0..j
        BY <1>4
      <3>2. g[i + 1] = g[i] \o fs[i + 1] /\ s[i + 1] = fs[i + 1]
        <4> HIDE DEF s
        <4> QED
          BY <1>3, <2>2, <3>1
      <3>3. CASE i = 0
        <4>1. fs[1] \in Seq(S) /\ <<>> \o fs[1] = fs[1] /\ i + 1 = 1
          BY <3>1, <3>3
        <4>2. h[i + 1] = s[i + 1]
          <5> HIDE DEF s
          <5> QED
            BY <2>5, <3>1, <4>1
        <4>3. h[i + 1] = g[i + 1]
          <5> HIDE DEF s
          <5> QED
            BY <1>3, <3>2, <3>3, <4>1, <4>2
        <4> QED
          BY <3>1, <4>3
      <3>4. CASE i # 0
        <4>1. h[i] = g[i] /\ i + 1 # 1
          BY <2>7, <3>4
        <4>2. h[i + 1] = h[i] \o s[i + 1]
          <5> HIDE DEF s
          <5> QED
            BY <2>5, <3>1, <4>1
        <4>3. h[i + 1] = g[i + 1]
          <5> HIDE DEF s
          <5> QED
            BY <3>2, <4>1, <4>2
        <4> QED
          BY <3>1, <4>3
      <3> QED
        BY <3>3, <3>4
    <2>8. j \in Nat /\ j \in 0..j /\ j # 0
      BY <1>4
    <2>9. j \in Q
      <3> HIDE DEF Q
      <3> QED
        BY <2>6, <2>7, <2>8, UpToNumber
    <2>10. h[j] = g[j]
      BY <2>8, <2>9
    <2>11. FlattenSeq(s) = g[j]
      <3> HIDE DEF s
      <3> QED
        BY <2>2, <2>4, <2>10
    <2> QED
      BY <2>11 DEF Joined
  <1>5. Joined(fs, 0) = <<>>
    <2>1. [i \in 1..0 |-> fs[i]] = <<>> /\ Len(<<>>) = 0
      OBVIOUS
    <2> QED
      BY <2>1 DEF Joined, FlattenSeq
  <1>6. \A j \in 0..n : Joined(fs, j) = g[j]
    <2>1. \A j \in 0..n : j = 0 \/ j \in 1..n
      OBVIOUS
    <2> QED
      BY <1>3, <1>4, <1>5, <2>1
  <1>7. \A j \in 1..n : j \in 0..n /\ j - 1 \in 0..n
    OBVIOUS
  <1> QED
    BY <1>3, <1>5, <1>6, <1>7

\* Only the sequences themselves matter, not what they are part of.
LEMMA JoinedSame ==
  ASSUME NEW j \in Nat, NEW fs, NEW g, \A i \in 1..j : fs[i] = g[i]
  PROVE  Joined(fs, j) = Joined(g, j)
  <1>1. [i \in 1..j |-> fs[i]] = [i \in 1..j |-> g[i]]
    OBVIOUS
  <1> QED
    BY <1>1 DEF Joined

\* So it is with sequences of positions.
LEMMA JoinedUnits ==
  ASSUME NEW n \in Nat, NEW fs, \A i \in 1..n : fs[i] \in Seq(Nat)
  PROVE  /\ Joined(fs, 0) = <<>>
         /\ \A j \in 0..n : Joined(fs, j) \in Seq(Nat)
         /\ \A j \in 1..n : Joined(fs, j) = Joined(fs, j - 1) \o fs[j]
  <1> DEFINE S == Nat
  <1>1. \A i \in 1..n : fs[i] \in Seq(S)
    OBVIOUS
  <1> HIDE DEF S
  <1>2. /\ Joined(fs, 0) = <<>>
        /\ \A j \in 0..n : Joined(fs, j) \in Seq(S)
        /\ \A j \in 1..n : Joined(fs, j) = Joined(fs, j - 1) \o fs[j]
    BY <1>1, JoinedFacts, ZenonT(60)
  <1> QED
    BY <1>2 DEF S

\* Empty sequences add nothing.
LEMMA JoinedEmpty ==
  ASSUME NEW S, NEW n \in Nat, NEW fs, \A i \in 1..n : fs[i] \in Seq(S),
         NEW k \in 0..n, \A i \in (k + 1)..n : fs[i] = <<>>
  PROVE  Joined(fs, n) = Joined(fs, k)
  <1>a. Joined(fs, k) \in Seq(S)
    BY JoinedFacts
  <1>b. \A j \in 1..n : Joined(fs, j) = Joined(fs, j - 1) \o fs[j]
    BY JoinedFacts
  <1> DEFINE m == n - k
             Q == {i \in 0..m : Joined(fs, k + i) = Joined(fs, k)}
  <1>1. m \in Nat /\ k + m = n /\ k + 0 = k /\ m \in 0..m
    OBVIOUS
  <1>2. 0 \in Q
    BY <1>1
  <1>3. ASSUME NEW i \in 0..(m - 1), i \in Q PROVE i + 1 \in Q
    <2>1. /\ k + (i + 1) \in 1..n /\ k + (i + 1) \in (k + 1)..n /\ (k + (i + 1)) - 1 = k + i
          /\ i + 1 \in 0..m /\ k \in 0..n
      BY <1>1
    <2>2. /\ Joined(fs, k + (i + 1)) = Joined(fs, (k + (i + 1)) - 1) \o fs[k + (i + 1)]
          /\ Joined(fs, k) \in Seq(S)
      <3> HIDE DEF m
      <3> QED
        BY <1>a, <1>b, <2>1
    <2>3. fs[k + (i + 1)] = <<>>
      <3> HIDE DEF m
      <3> QED
        BY <2>1
    <2>4. Joined(fs, k + i) = Joined(fs, k)
      BY <1>3
    <2>5. Joined(fs, k) \o <<>> = Joined(fs, k)
      <3> DEFINE t == Joined(fs, k)
      <3> HIDE DEF t
      <3>1. t \in Seq(S)
        BY <2>2 DEF t
      <3>2. t \o <<>> = t
        BY <3>1
      <3> QED
        BY <3>2 DEF t
    <2>6. Joined(fs, k + (i + 1)) = Joined(fs, k)
      <3> HIDE DEF m
      <3> QED
        BY <2>1, <2>2, <2>3, <2>4, <2>5
    <2> QED
      BY <2>1, <2>6
  <1>4. m \in Q
    <2> HIDE DEF Q, m
    <2> QED
      BY <1>1, <1>2, <1>3, UpToNumber
  <1>5. Joined(fs, k + m) = Joined(fs, k)
    BY <1>4
  <1> HIDE DEF m
  <1> QED
    BY <1>1, <1>5

\* So it is with sequences of positions.
LEMMA JoinedEmptyUnits ==
  ASSUME NEW n \in Nat, NEW fs, \A i \in 1..n : fs[i] \in Seq(Nat),
         NEW k \in 0..n, \A i \in (k + 1)..n : fs[i] = <<>>
  PROVE  Joined(fs, n) = Joined(fs, k)
  <1> DEFINE S == Nat
  <1>1. \A i \in 1..n : fs[i] \in Seq(S)
    OBVIOUS
  <1> HIDE DEF S
  <1> QED
    BY <1>1, JoinedEmpty

\* A beginning of them joined is a prefix of all joined.
LEMMA JoinedGrows ==
  ASSUME NEW n \in Nat, NEW fs, \A i \in 1..n : fs[i] \in Seq(Nat), NEW k \in 0..n
  PROVE  \E t \in Seq(Nat) : Joined(fs, n) = Joined(fs, k) \o t
  <1>a. Joined(fs, k) \in Seq(Nat)
    BY JoinedUnits
  <1>b. \A j \in 1..n : Joined(fs, j) = Joined(fs, j - 1) \o fs[j]
    BY JoinedUnits
  <1> DEFINE m == n - k
             Q == {i \in 0..m : \E t \in Seq(Nat) : Joined(fs, k + i) = Joined(fs, k) \o t}
  <1>1. m \in Nat /\ k + m = n /\ k + 0 = k /\ m \in 0..m /\ Joined(fs, k) \in Seq(Nat)
    BY <1>a
  <1>2. 0 \in Q
    <2>1. Joined(fs, k) \o <<>> = Joined(fs, k)
      <3> DEFINE t == Joined(fs, k)
      <3> HIDE DEF t
      <3>1. t \in Seq(Nat)
        BY <1>1 DEF t
      <3>2. t \o <<>> = t
        BY <3>1
      <3> QED
        BY <3>2 DEF t
    <2>2. <<>> \in Seq(Nat)
      OBVIOUS
    <2> HIDE DEF m
    <2>3. \E t \in Seq(Nat) : Joined(fs, k + 0) = Joined(fs, k) \o t
      BY <1>1, <2>1, <2>2
    <2>4. 0 \in 0..m
      BY <1>1
    <2> QED
      BY <2>3, <2>4
  <1>3. ASSUME NEW i \in 0..(m - 1), i \in Q PROVE i + 1 \in Q
    <2>1. /\ k + (i + 1) \in 1..n /\ (k + (i + 1)) - 1 = k + i
          /\ i + 1 \in 0..m
      BY <1>1
    <2>2. Joined(fs, k + (i + 1)) = Joined(fs, (k + (i + 1)) - 1) \o fs[k + (i + 1)]
      <3> HIDE DEF m
      <3> QED
        BY <1>b, <2>1
    <2>3. PICK t \in Seq(Nat) : Joined(fs, k + i) = Joined(fs, k) \o t
      BY <1>3
    <2>4. PICK u \in Seq(Nat), v \in Seq(Nat) : u = Joined(fs, k) /\ v = fs[k + (i + 1)]
      <3> HIDE DEF m
      <3> QED
        BY <1>1, <2>1
    <2>5. t \o v \in Seq(Nat) /\ (u \o t) \o v = u \o (t \o v)
      OBVIOUS
    <2>6. Joined(fs, k + (i + 1)) = Joined(fs, k) \o (t \o v)
      <3> HIDE DEF m
      <3> QED
        BY <2>1, <2>2, <2>3, <2>4, <2>5
    <2> QED
      BY <2>1, <2>5, <2>6
  <1>4. m \in Q
    <2> HIDE DEF Q, m
    <2> QED
      BY <1>1, <1>2, <1>3, UpToNumber
  <1>5. \E t \in Seq(Nat) : Joined(fs, k + m) = Joined(fs, k) \o t
    BY <1>4
  <1> HIDE DEF m
  <1> QED
    BY <1>1, <1>5

\* The smaller of two numbers.
LEMMA MinFacts ==
  ASSUME NEW a \in Int, NEW b \in Int
  PROVE  /\ Min({a, b}) \in Int /\ Min({a, b}) <= a /\ Min({a, b}) <= b
         /\ Min({a, b}) = a \/ Min({a, b}) = b
  <1>1. \E x \in {a, b} : \A y \in {a, b} : x <= y
    <2>1. CASE a <= b
      BY <2>1
    <2>2. CASE ~(a <= b)
      BY <2>2
    <2> QED
      BY <2>1, <2>2
  <1>2. Min({a, b}) \in {a, b} /\ \A y \in {a, b} : Min({a, b}) <= y
    BY <1>1 DEF Min
  <1> QED
    BY <1>2

\* Positions in a row.
LEMMA UnitsFacts ==
  ASSUME NEW a \in Nat, NEW b \in Nat, a <= b
  PROVE  /\ Units(a, b) \in Seq(Nat) /\ Len(Units(a, b)) = b - a
         /\ \A i \in 1..(b - a) : Units(a, b)[i] = a + i - 1
  BY DEF Units

\* No positions lie between a place and itself.
LEMMA UnitsNone ==
  ASSUME NEW a \in Nat
  PROVE  Units(a, a) = <<>>
  BY DEF Units

\* Positions in a row, and those that follow them, are in a row.
LEMMA UnitsJoin ==
  ASSUME NEW a \in Nat, NEW b \in Nat, NEW c \in Nat, a <= b, b <= c
  PROVE  Units(a, b) \o Units(b, c) = Units(a, c)
  <1>1. PICK s \in Seq(Nat) : /\ s = Units(a, b) /\ Len(s) = b - a
                             /\ \A i \in 1..(b - a) : s[i] = a + i - 1
    BY UnitsFacts
  <1>2. PICK t \in Seq(Nat) : /\ t = Units(b, c) /\ Len(t) = c - b
                             /\ \A i \in 1..(c - b) : t[i] = b + i - 1
    BY UnitsFacts
  <1>6. PICK u \in Seq(Nat) : /\ u = Units(a, c) /\ Len(u) = c - a
                             /\ \A i \in 1..(c - a) : u[i] = a + i - 1
    <2>1. a <= c
      OBVIOUS
    <2> QED
      BY <2>1, UnitsFacts
  <1>3. s \o t \in Seq(Nat) /\ Len(s \o t) = c - a
    <2>1. s \o t \in Seq(Nat) /\ Len(s \o t) = Len(s) + Len(t)
      OBVIOUS
    <2> QED
      BY <1>1, <1>2, <2>1
  <1>4. ASSUME NEW i \in 1..(c - a) PROVE (s \o t)[i] = u[i]
    <2>1. CASE i <= b - a
      BY <1>1, <1>6, <2>1
    <2>2. CASE i > b - a
      <3>1. (s \o t)[i] = t[i - (b - a)] /\ i - (b - a) \in 1..(c - b)
        BY <1>1, <1>2, <2>2
      <3>2. t[i - (b - a)] = b + (i - (b - a)) - 1
        BY <1>2, <3>1
      <3>3. u[i] = a + i - 1
        BY <1>6
      <3>4. b + (i - (b - a)) - 1 = a + i - 1
        OBVIOUS
      <3> QED
        BY <3>1, <3>2, <3>3, <3>4
    <2>3. i <= b - a \/ i > b - a
      OBVIOUS
    <2> QED
      BY <2>1, <2>2, <2>3
  <1>5. s \o t = u
    <2> DEFINE w == s \o t
    <2>1. w \in Seq(Nat) /\ Len(w) = Len(u) /\ \A i \in 1..Len(w) : w[i] = u[i]
      BY <1>3, <1>4, <1>6
    <2> HIDE DEF w
    <2>2. w = u
      BY <2>1, SeqEqual
    <2> QED
      BY <2>2 DEF w
  <1> QED
    BY <1>1, <1>2, <1>5, <1>6

\* A vector with room for its closing NULL.
Vectors == {v \in [size : Nat, length : Nat] : v.size < v.length}

\* It keeps that room, and counts what is put into it.
LEMMA PutParamFacts ==
  ASSUME NEW v \in Vectors
  PROVE  PutParam(v) \in Vectors /\ PutParam(v).size = v.size + 1
  BY DEF Vectors, PutParam

\* It counts all of those put in after one another.
LEMMA PutParamsFacts ==
  ASSUME NEW v \in Vectors, NEW n \in Nat
  PROVE  PutParams(v, n) \in Vectors /\ PutParams(v, n).size = v.size + n
  <1> DEFINE step == [i \in 1..n |-> [a \in Vectors |-> PutParam(a)]]
  <1>1. ASSUME NEW i \in 1..n, NEW a \in Vectors
        PROVE  step[i][a] = PutParam(a) /\ step[i][a] \in Vectors
    BY PutParamFacts
  <1>2. PICK g : Iterates(g, v, step, n, Vectors)
    <2>1. Stays(step, n, Vectors)
      <3> HIDE DEF step
      <3> QED
        BY <1>1 DEF Stays
    <2> HIDE DEF step
    <2> QED
      BY <2>1, Iterated
  <1>3. \A i \in 0..n : i # 0 => step[i][g[i - 1]] = PutParam(g[i - 1])
    <2>1. \A i \in 0..n : i # 0 => i \in 1..n /\ i - 1 \in 0..n
      OBVIOUS
    <2> HIDE DEF step
    <2> QED
      BY <1>1, <1>2, <2>1 DEF Iterates
  <1>4. g = [i \in 0..n |-> IF i = 0 THEN v ELSE PutParam(g[i - 1])]
    <2>1. \A i \in 0..n : (IF i = 0 THEN v ELSE step[i][g[i - 1]])
                            = (IF i = 0 THEN v ELSE PutParam(g[i - 1]))
      BY <1>3
    <2> HIDE DEF step
    <2> QED
      BY <1>2, <2>1 DEF Iterates
  <1>5. PICK h : /\ h = [i \in 0..n |-> IF i = 0 THEN v ELSE PutParam(h[i - 1])]
                 /\ PutParams(v, n) = h[n]
    BY <1>4 DEF PutParams
  <1> DEFINE Q == {i \in 0..n : h[i] \in Vectors /\ h[i].size = v.size + i}
  <1>6. v.size \in Nat
    BY DEF Vectors
  <1>7. 0 \in Q
    <2>1. 0 \in 0..n
      OBVIOUS
    <2>2. h[0] = v
      BY <1>5, <2>1
    <2> QED
      BY <1>6, <2>1, <2>2
  <1>8. ASSUME NEW i \in 0..(n - 1), i \in Q PROVE i + 1 \in Q
    <2>1. i + 1 \in 0..n /\ i + 1 # 0 /\ (i + 1) - 1 = i
      OBVIOUS
    <2>2. h[i + 1] = PutParam(h[i])
      BY <1>5, <2>1
    <2>3. h[i] \in Vectors /\ h[i].size = v.size + i
      BY <1>8
    <2>4. h[i + 1] \in Vectors /\ h[i + 1].size = v.size + i + 1
      BY <2>2, <2>3, PutParamFacts
    <2> QED
      BY <1>6, <2>1, <2>4
  <1>9. n \in Q
    <2>1. n \in 0..n
      OBVIOUS
    <2> HIDE DEF Q
    <2> QED
      BY <1>7, <1>8, <2>1, UpToNumber
  <1> QED
    BY <1>5, <1>9

---------------------------------------------------------------------------
(***************************************************************************)
(* The inductive invariant of the reader.  The first part holds of every   *)
(* connection: types, pointers, phases and what may be given back.  The    *)
(* second says where the reader is, as long as nothing failed: after the   *)
(* header of record k, with what it counts in contentLen and paddingLen    *)
(* left up to the next record.                                             *)
(***************************************************************************)

StreamTypes == {"NONE", "PARAMS", "STDIN", "DATA"}
Errors == {"none", "protocol", "version", "params", "os", "callSeq"}
Answers == {"CANT_MPX_CONN", "UNKNOWN_TYPE", "GET_VALUES_RESULT"}
Streams == [rdNext : Nat, stop : Nat, stopUnget : Nat, buffStop : Nat,
            type : StreamTypes, skip : BOOLEAN, contentLen : Nat, paddingLen : Nat,
            isClosed : BOOLEAN, errno : Errors, base : Nat]
Requests == [id : Ids \cup {NullId}, begun : BOOLEAN,
             role : Roles \cup {"NONE", "OTHER"}, keep : BOOLEAN, first : Nat]

ReaderTypes ==
  /\ script \in Seq(Sent) /\ rest \in Seq(Seq(Sent))
  /\ in \in Streams /\ req \in Requests
  /\ pc \in {"idle", "fill", "body", "values", "retry"}
  /\ headerLen \in 0..(HeadLen - 1) /\ half \in {0, 1}
  /\ want \in 0..MaxRead /\ nested \in Nat
  /\ vec \in Vectors /\ got \in Seq(Nat) /\ replies \in Seq(Answers)

Ordered(s) == s.stopUnget <= s.buffStop /\ s.rdNext <= s.buffStop /\ s.stop <= s.buffStop
Pointers ==
  /\ Ordered(in) /\ in.buffStop <= Total
  /\ ~Reading /\ ~in.isClosed => in.rdNext <= in.stop

Phases ==
  /\ Reading => ~in.isClosed
  /\ pc # "retry" => (req.begun <=> in.type # "NONE")
  /\ pc = "retry" => in.errno # "none" \/ in.type = "NONE"
  /\ pc = "body" => ~req.begun /\ req.first \in DOMAIN script
  /\ pc = "idle" => in.type \in {"STDIN", "DATA"}
  /\ headerLen > 0 => pc = "fill"
  /\ pc # "retry" /\ in.type # "PARAMS" => half = 0
  /\ in.type = "NONE" => got = <<>>

\* The units from stopUnget to rdNext are the last ones taken.
Windowed(s, g) ==
  \/ g = <<>> /\ s.stop = s.rdNext
  \/ \E c \in 0..Len(g) : /\ s.rdNext = s.stopUnget + c
                          /\ \A i \in 1..c : g[Len(g) - c + i] = s.stopUnget + i - 1
Window == pc = "idle" /\ ~in.isClosed => Windowed(in, got)

\* No padding comes where the reader forgets it.
PaddingFollowed ==
  /\ Aligned(in.base)
  /\ \A k \in Seen : script[k].pad > 0 => script[k].type # "BEGIN" /\ script[k].len > 0

HeadersFound == PaddingFollowed => in.errno # "version"

\* What each record adds to the replies, and to what a stream delivers.
Due == [k \in DOMAIN script |-> IF k \in Seen THEN Expected(k) ELSE <<>>]
Carried(t) ==
  [k \in DOMAIN script |->
    IF k \in Own(t) /\ \A e \in Ends(t) : k < e THEN Body(k) ELSE <<>>]

\* Up to which the record was taken over from the buffer.
Taken == IF pc = "idle" THEN in.stop ELSE in.rdNext

Located(k) ==
  /\ in.base <= Start(k + 1)
  /\ Taken + in.contentLen + in.paddingLen = Start(k + 1) + headerLen
  /\ headerLen > 0 => in.contentLen = 0 /\ in.paddingLen = 0
  /\ in.isClosed => in.contentLen = 0 /\ in.paddingLen = 0 /\ in.stop = in.rdNext
  /\ pc = "body" => in.paddingLen = 0

Logged(k) ==
  /\ replies = Joined(Due, IF pc = "values" THEN k - 1 ELSE k)
  /\ pc = "values" => k \in Seen /\ script[k].type = "GET_VALUES"
  /\ req.begun => req.first <= k
  /\ pc = "body" => req.first = k
  /\ \A j \in Seen : j <= k /\ script[j].type = "BEGIN" =>
       (req.begun \/ (pc = "body" /\ j = k))

\* The streams that come after the one of type t.
Later(t) == CASE t = "PARAMS" -> {"STDIN", "DATA"}
              [] t = "STDIN"  -> {"DATA"}
              [] OTHER        -> {}

Counted(k, t) ==
  /\ \A u \in Later(t) : \A j \in Own(u) : j > k
  /\ IF t = "PARAMS" THEN 2 * (vec.size - 1) + half = Len(got)
                     ELSE vec.size = 1 + Len(Content("PARAMS")) \div 2

\* In the content of record k, or past it.
Inside(k, t) ==
  /\ k \in Own(t) /\ ~in.skip /\ pc \in {"fill", "idle"}
  /\ headerLen = 0 /\ in.paddingLen = script[k].pad
  /\ Start(k) + HeadLen <= in.rdNext
  /\ got = Joined(Carried(t), k - 1) \o Units(Start(k) + HeadLen, in.rdNext)
  /\ pc = "idle" => Start(k) + HeadLen <= in.stopUnget
Past(k, t) ==
  /\ got = Joined(Carried(t), k)
  /\ in.contentLen > 0 => (in.skip \/ pc = "values")
  /\ pc = "idle" => /\ got = <<>> /\ in.stop = in.rdNext
                    /\ in.contentLen = 0 /\ in.paddingLen = 0

Delivered(k, t) ==
  IF in.isClosed THEN k \in Ends(t) /\ got = Joined(Carried(t), k)
  ELSE /\ \A e \in Ends(t) : e > k
       /\ in.skip => in.contentLen > 0
       /\ Inside(k, t) \/ Past(k, t)

Here(k, t) ==
  /\ k \in 0..Len(script) /\ t = in.type /\ Located(k) /\ Logged(k)
  /\ Regular /\ req.begun => Counted(k, t) /\ Delivered(k, t)

Placed == PaddingFollowed /\ in.errno = "none" /\ pc # "retry" => \E k, t : Here(k, t)

StreamInv == ReaderTypes /\ Pointers /\ Phases /\ Window
ReaderInv == StreamInv /\ HeadersFound /\ Placed

---------------------------------------------------------------------------
(***************************************************************************)
(* What holds of every connection.                                         *)
(***************************************************************************)

\* What web servers send are records whose request numbers tell them apart.
LEMMA ConnectionsSent ==
  ASSUME NEW c \in Connections
  PROVE  c \in Seq(Seq(Sent)) /\ c # <<>>
  <1>1. c \in Seq(Seq(Records)) /\ c # <<>>
    BY ReaderAssumption
  <1>2. ASSUME NEW i \in 1..Len(c) PROVE c[i] \in Seq(Sent)
    <2>1. i \in DOMAIN c /\ c[i] \in Seq(Records)
      BY <1>1
    <2>2. ASSUME NEW j \in 1..Len(c[i]) PROVE c[i][j] \in Sent
      <3>1. c[i][j] \in Records /\ j \in DOMAIN c[i]
        BY <2>1
      <3>2. c[i][j].id = NullId <=> c[i][j].type \in ManagementTypes
        BY <2>1, <3>1, ReaderAssumption
      <3> QED
        BY <3>1, <3>2 DEF Sent
    <2> QED
      BY <2>1, <2>2
  <1> QED
    BY <1>1, <1>2

\* The records of a connection lie in a row, up to its end.
LEMMA ScriptFacts ==
  ASSUME script \in Seq(Sent)
  PROVE  /\ script \in Seq(Records) /\ Len(script) \in Nat /\ DOMAIN script = 1..Len(script)
         /\ Total \in Nat /\ Start(1) = 0
         /\ \A k \in 1..(Len(script) + 1) : Start(k) \in Nat /\ Start(k) <= Total
         /\ \A k \in 1..Len(script) :
              /\ script[k] \in Records /\ script[k] \in Sent
              /\ script[k].len \in Nat /\ script[k].pad \in Nat
              /\ Start(k + 1) = Start(k) + HeadLen + script[k].len + script[k].pad
         /\ \A i, j \in 1..(Len(script) + 1) : i < j => Start(i) + HeadLen <= Start(j)
  <1>1. script \in Seq(Records) /\ Len(script) \in Nat /\ DOMAIN script = 1..Len(script)
    BY DEF Sent
  <1>2. \A k \in 1..Len(script) : script[k] \in Records /\ script[k] \in Sent
    BY DEF Sent
  <1>3. \A i, j \in 1..(Len(script) + 1) : i < j => Start(i) + HeadLen <= Start(j)
    <2> SUFFICES ASSUME NEW i \in 1..(Len(script) + 1), NEW j \in 1..(Len(script) + 1), i < j
                 PROVE  Start(i) + HeadLen <= Start(j)
      OBVIOUS
    <2>1. i \in 1..Len(script) /\ Start(i) + Size(script[i]) <= Start(j)
      BY <1>1, OffsetOrder DEF Start
    <2>2. Size(script[i]) \in Nat /\ Size(script[i]) >= HeadLen
      BY <1>2, <2>1, SizeFacts
    <2>3. Start(i) \in Nat /\ Start(j) \in Nat /\ HeadLen \in Nat
      BY <1>1, OffsetFacts, ReaderAssumption DEF Start
    <2> QED
      BY <2>1, <2>2, <2>3
  <1>4. \A k \in 1..(Len(script) + 1) : Start(k) \in Nat
    BY <1>1, OffsetFacts DEF Start
  <1>5. Len(script) + 1 \in 1..(Len(script) + 1) /\ HeadLen \in Nat
    BY <1>1, ReaderAssumption
  <1>6. \A k \in 1..(Len(script) + 1) : Start(k) <= Total
    <2> SUFFICES ASSUME NEW k \in 1..(Len(script) + 1) PROVE Start(k) <= Start(Len(script) + 1)
      BY DEF Total
    <2>1. CASE k = Len(script) + 1
      BY <1>4, <2>1
    <2>2. CASE k # Len(script) + 1
      <3>1. k < Len(script) + 1
        BY <1>1, <2>2
      <3>2. Start(k) + HeadLen <= Start(Len(script) + 1)
        BY <1>3, <1>5, <3>1
      <3>3. Start(k) \in Nat /\ Start(Len(script) + 1) \in Nat
        BY <1>4, <1>5
      <3> QED
        BY <1>5, <3>2, <3>3
    <2> QED
      BY <2>1, <2>2
  <1>7. ASSUME NEW k \in 1..Len(script)
        PROVE  /\ script[k].len \in Nat /\ script[k].pad \in Nat
               /\ Start(k + 1) = Start(k) + HeadLen + script[k].len + script[k].pad
    <2>1. Offset(script, k + 1) = Offset(script, k) + Size(script[k])
      BY <1>1, OffsetFacts
    <2>2. /\ Size(script[k]) = HeadLen + script[k].len + script[k].pad
          /\ script[k].len \in Nat /\ script[k].pad \in Nat
      BY <1>2, SizeFacts
    <2>3. Start(k) \in Nat
      BY <1>4, <1>1
    <2> QED
      BY <1>5, <2>1, <2>2, <2>3 DEF Start
  <1>8. Start(1) = 0 /\ Total \in Nat
    BY <1>1, <1>4, <1>5, OffsetFacts DEF Start, Total
  <1> QED
    BY <1>1, <1>2, <1>3, <1>4, <1>6, <1>7, <1>8

\* SetReaderType leaves the place and the error as they are.
LEMMA SetReaderTypeFacts ==
  ASSUME NEW s \in Streams, NEW t \in StreamTypes, NEW r, r = SetReaderType(s, t)
  PROVE  /\ r \in Streams /\ r.rdNext = s.rdNext /\ r.stop = s.rdNext
         /\ r.stopUnget = s.stopUnget /\ r.buffStop = s.buffStop /\ r.type = t
         /\ ~r.skip /\ r.contentLen = 0 /\ r.paddingLen = 0 /\ ~r.isClosed
         /\ r.errno = s.errno /\ r.base = s.base
  BY DEF SetReaderType, Streams

\* SetError closes the stream and keeps the first error.
LEMMA SetErrorFacts ==
  ASSUME NEW s \in Streams, NEW e \in Errors \ {"none"}, NEW r, r = SetError(s, e)
  PROVE  /\ r \in Streams /\ r.rdNext = s.rdNext /\ r.stop = s.stop
         /\ r.stopUnget = s.stopUnget /\ r.buffStop = s.buffStop /\ r.type = s.type
         /\ r.isClosed /\ r.base = s.base /\ r.errno # "none"
         /\ r.errno = IF s.errno = "none" THEN e ELSE s.errno
  BY DEF SetError, Streams, Errors

\* What has just been taken is what may be given back.
LEMMA WindowAfter ==
  ASSUME NEW s \in Streams, NEW g \in Seq(Nat), NEW m \in Nat,
         NEW a \in Nat, s.stopUnget = a, s.rdNext = a + m
  PROVE  Windowed(s, g \o Units(a, a + m))
  <1>1. PICK u \in Seq(Nat) : /\ u = Units(a, a + m) /\ Len(u) = m
                              /\ \A i \in 1..m : u[i] = a + i - 1
    <2>1. PICK b \in Nat : b = a + m
      OBVIOUS
    <2>2. a <= b /\ b - a = m
      BY <2>1
    <2>3. /\ Units(a, b) \in Seq(Nat) /\ Len(Units(a, b)) = b - a
          /\ \A i \in 1..(b - a) : Units(a, b)[i] = a + i - 1
      BY <2>1, <2>2, UnitsFacts
    <2> QED
      BY <2>1, <2>2, <2>3
  <1>2. /\ g \o u \in Seq(Nat) /\ Len(g \o u) = Len(g) + m /\ Len(g) \in Nat
        /\ \A i \in 1..Len(u) : (g \o u)[Len(g) + i] = u[i]
    <2>1. /\ g \o u \in Seq(Nat) /\ Len(g \o u) = Len(g) + Len(u) /\ Len(g) \in Nat
          /\ \A i \in 1..Len(u) : (g \o u)[Len(g) + i] = u[i]
      OBVIOUS
    <2> QED
      BY <1>1, <2>1
  <1> DEFINE h == g \o u
  <1> HIDE DEF h
  <1>3. m \in 0..Len(h) /\ \A i \in 1..m : h[Len(h) - m + i] = a + i - 1
    <2>1. Len(h) - m = Len(g) /\ m \in 0..Len(h)
      BY <1>2 DEF h
    <2>2. \A i \in 1..m : h[Len(g) + i] = a + i - 1
      BY <1>1, <1>2 DEF h
    <2> QED
      BY <2>1, <2>2
  <1>4. Windowed(s, h)
    BY <1>3 DEF Windowed
  <1> QED
    BY <1>1, <1>4 DEF h

\* A stream as FillBuffProc may return it.
Filled(s) ==
  /\ s \in Streams /\ Ordered(s) /\ s.buffStop = in.buffStop /\ s.type = in.type
  /\ ~s.isClosed => s.rdNext <= s.stop /\ s.stop >= 1

\* What a step of FillBuffProc leaves alone.
Around ==
  /\ UNCHANGED <<script, rest>> /\ headerLen' \in 0..(HeadLen - 1)
  /\ headerLen' > 0 => pc' = "fill"
  /\ replies' \in Seq(Answers)

\* A return to Accept_r with the BEGIN record keeps types and pointers in order.
LEMMA BeginReturnedKeeps ==
  ASSUME StreamInv, Reading, in.type = "NONE", Around,
         NEW s, Filled(s), NEW q \in Requests, req' = q, nested' = 0, BeginReturned(s, q)
  PROVE  StreamInv'
  <1> USE DEF StreamInv, Filled, Around
  <1>1. /\ half' = half /\ got' = got /\ want' = want /\ got = <<>>
        /\ script' = script /\ rest' = rest /\ half = 0
    BY DEF BeginReturned, Phases, Reading
  <1>2. CASE q.begun /\ q.role \in Roles
    <2>1. /\ in' = SetReaderType(s, "PARAMS") /\ vec' = PutParam(NewParams(VecLen))
          /\ pc' = "fill"
      BY <1>2 DEF BeginReturned
    <2>2. /\ in' \in Streams /\ Ordered(in') /\ in'.buffStop = in.buffStop
          /\ in'.type = "PARAMS" /\ ~in'.isClosed
      <3>1. "PARAMS" \in StreamTypes
        BY DEF StreamTypes
      <3> QED
        BY <2>1, <3>1, SetReaderTypeFacts DEF Ordered
    <2>3. vec' \in Vectors
      <3>1. NewParams(VecLen) \in Vectors
        BY ReaderAssumption DEF NewParams, Vectors
      <3> QED
        BY <2>1, <3>1, PutParamFacts
    <2>4. ReaderTypes'
      BY <1>1, <2>1, <2>2, <2>3 DEF ReaderTypes
    <2>5. Pointers'
      BY <1>1, <2>1, <2>2 DEF Pointers, Total, Start, Reading
    <2>6. Phases'
      BY <1>1, <1>2, <2>1, <2>2 DEF Phases, Reading
    <2>7. Window'
      BY <2>1 DEF Window
    <2> QED
      BY <2>4, <2>5, <2>6, <2>7
  <1>3. CASE ~(q.begun /\ q.role \in Roles)
    <2>1. in' = s /\ pc' = "retry" /\ vec' = vec
      BY <1>3 DEF BeginReturned
    <2>4. ReaderTypes'
      BY <1>1, <2>1 DEF ReaderTypes
    <2>5. Pointers'
      BY <1>1, <2>1 DEF Pointers, Total, Start, Reading
    <2>6. Phases'
      BY <1>1, <2>1 DEF Phases, Reading
    <2>7. Window'
      BY <2>1 DEF Window
    <2> QED
      BY <2>4, <2>5, <2>6, <2>7
  <1> QED
    BY <1>2, <1>3

\* So does a return to ReadParams.
LEMMA ParamsReturnedKeeps ==
  ASSUME StreamInv, Reading, in.type = "PARAMS", Around,
         NEW s, Filled(s), NEW q \in Requests, q.begun, req' = q, nested' = 0,
         ParamsReturned(s)
  PROVE  StreamInv'
  <1> USE DEF StreamInv, Filled, Around
  <1>1. s.type = "PARAMS" /\ "STDIN" \in StreamTypes /\ "params" \in Errors \ {"none"}
    BY DEF StreamTypes, Errors
  <1>2. CASE s.isClosed
    <2>1. /\ ParamsEnd(s) /\ got' = <<>> /\ half' = half /\ vec' = vec /\ want' = want
      BY <1>2 DEF ParamsReturned
    <2>2. CASE half = 1
      <3>1. in' = SetError(s, "params") /\ pc' = "retry"
        BY <2>1, <2>2 DEF ParamsEnd
      <3>2. /\ in' \in Streams /\ Ordered(in') /\ in'.buffStop = in.buffStop
            /\ in'.type = "PARAMS" /\ in'.isClosed /\ in'.errno # "none"
        BY <1>1, <3>1, SetErrorFacts DEF Ordered
      <3>3. ReaderTypes'
        BY <2>1, <3>1, <3>2 DEF ReaderTypes
      <3>4. Pointers'
        BY <3>1, <3>2 DEF Pointers, Total, Start, Reading
      <3>5. Phases'
        BY <2>1, <3>1, <3>2 DEF Phases, Reading
      <3>6. Window'
        BY <3>1 DEF Window
      <3> QED
        BY <3>3, <3>4, <3>5, <3>6
    <2>3. CASE half # 1
      <3>1. in' = SetReaderType(s, "STDIN") /\ pc' = "idle" /\ half = 0
        BY <2>1, <2>3 DEF ParamsEnd, ReaderTypes
      <3>2. /\ in' \in Streams /\ Ordered(in') /\ in'.buffStop = in.buffStop
            /\ in'.type = "STDIN" /\ ~in'.isClosed /\ in'.stop = in'.rdNext /\ in'.rdNext \in Nat
        BY <1>1, <3>1, SetReaderTypeFacts DEF Ordered, Streams
      <3>3. ReaderTypes'
        BY <2>1, <3>1, <3>2 DEF ReaderTypes
      <3>4. Pointers'
        BY <3>1, <3>2 DEF Pointers, Total, Start, Reading
      <3>5. Phases'
        BY <2>1, <3>1, <3>2 DEF Phases, Reading
      <3>6. Window'
        BY <2>1, <3>1, <3>2 DEF Window, Windowed
      <3> QED
        BY <3>3, <3>4, <3>5, <3>6
    <2> QED
      BY <2>2, <2>3
  <1>3. CASE ~s.isClosed
    <2>1. PICK n \in Nat : n = s.stop - s.rdNext
      BY <1>3 DEF Streams
    <2>2. /\ in' = [s EXCEPT !.stopUnget = s.rdNext, !.rdNext = s.stop]
          /\ vec' = PutParams(vec, (half + n) \div 2) /\ half' = (half + n) % 2
          /\ got' = got \o Units(s.rdNext, s.stop) /\ pc' = "fill" /\ want' = want
      BY <1>3, <2>1 DEF ParamsReturned
    <2>3. half \in {0, 1} /\ vec \in Vectors /\ got \in Seq(Nat)
      BY DEF ReaderTypes
    <2>4. half' \in {0, 1} /\ vec' \in Vectors
      <3>1. (half + n) \div 2 \in Nat /\ (half + n) % 2 \in {0, 1}
        BY <2>3
      <3> QED
        BY <2>2, <2>3, <3>1, PutParamsFacts
    <2>5. got' \in Seq(Nat)
      <3>1. Units(s.rdNext, s.stop) \in Seq(Nat)
        BY <1>3, UnitsFacts DEF Streams
      <3> QED
        BY <2>2, <2>3, <3>1
    <2>6. /\ in' \in Streams /\ Ordered(in') /\ in'.buffStop = in.buffStop
          /\ in'.type = "PARAMS" /\ ~in'.isClosed
      <3>1. /\ s \in Streams /\ s.stop \in Nat /\ s.rdNext \in Nat /\ s.rdNext <= s.stop
            /\ s.stop <= s.buffStop /\ s.buffStop \in Nat
        BY <1>3 DEF Ordered, Streams
      <3>2. /\ in' \in Streams /\ in'.stopUnget = s.rdNext /\ in'.rdNext = s.stop
            /\ in'.stop = s.stop /\ in'.buffStop = s.buffStop /\ in'.type = s.type
            /\ in'.isClosed = s.isClosed
        BY <2>2, <3>1 DEF Streams
      <3> QED
        BY <1>1, <1>3, <3>1, <3>2 DEF Ordered
    <2>7. ReaderTypes'
      BY <2>2, <2>4, <2>5, <2>6 DEF ReaderTypes
    <2>8. Pointers'
      BY <2>2, <2>6 DEF Pointers, Total, Start, Reading
    <2>9. Phases'
      BY <2>2, <2>6 DEF Phases, Reading
    <2>10. Window'
      BY <2>2 DEF Window
    <2> QED
      BY <2>7, <2>8, <2>9, <2>10
  <1> QED
    BY <1>2, <1>3

\* So does a return to the application's read.
LEMMA StrReturnedKeeps ==
  ASSUME StreamInv, Reading, in.type \in {"STDIN", "DATA"}, Around,
         NEW s, Filled(s), NEW q \in Requests, q.begun, req' = q, nested' = 0,
         headerLen' = 0, StrReturned(s)
  PROVE  StreamInv'
  <1> USE DEF StreamInv, Filled, Around
  <1>1. /\ half' = half /\ vec' = vec /\ half = 0 /\ script' = script /\ rest' = rest
        /\ got \in Seq(Nat) /\ want \in 0..MaxRead /\ MaxRead \in Nat
    BY ReaderAssumption DEF StrReturned, Phases, Reading, ReaderTypes
  <1>2. CASE s.isClosed
    <2>1. in' = s /\ pc' = "idle" /\ want' = 0 /\ got' = got
      BY <1>2 DEF StrReturned
    <2>2. want' \in 0..MaxRead
      BY <1>1, <2>1
    <2>3. ReaderTypes'
      BY <1>1, <2>1, <2>2 DEF ReaderTypes
    <2>4. Pointers'
      BY <1>1, <1>2, <2>1 DEF Pointers, Total, Start, Reading
    <2>5. Phases'
      BY <1>1, <2>1 DEF Phases, Reading
    <2>6. Window'
      BY <1>2, <2>1 DEF Window
    <2> QED
      BY <2>3, <2>4, <2>5, <2>6
  <1>3. CASE ~s.isClosed
    <2>1. PICK m \in Nat : /\ m = Min({want, s.stop - s.rdNext})
                           /\ m <= want /\ m <= s.stop - s.rdNext
      <3>1. PICK d \in Nat : d = s.stop - s.rdNext
        BY <1>3 DEF Streams
      <3>2. want \in Int /\ d \in Int /\ want \in Nat
        BY <1>1
      <3>3. /\ Min({want, d}) \in Int /\ Min({want, d}) <= want /\ Min({want, d}) <= d
            /\ Min({want, d}) = want \/ Min({want, d}) = d
        BY <3>2, MinFacts
      <3> QED
        BY <3>1, <3>2, <3>3
    <2>2. /\ in' = [s EXCEPT !.stopUnget = s.rdNext, !.rdNext = @ + m]
          /\ got' = got \o Units(s.rdNext, s.rdNext + m) /\ want' = want - m
          /\ pc' = IF want = m THEN "idle" ELSE "fill"
      BY <1>3, <2>1 DEF StrReturned
    <2>3. /\ in' \in Streams /\ Ordered(in') /\ in'.buffStop = in.buffStop
          /\ in'.type = in.type /\ ~in'.isClosed /\ in'.rdNext <= in'.stop
          /\ in'.stopUnget = s.rdNext /\ in'.rdNext = s.rdNext + m /\ s.rdNext \in Nat
      <3>1. /\ s \in Streams /\ s.rdNext \in Nat /\ s.rdNext + m \in Nat
            /\ s.rdNext + m <= s.stop /\ s.stop <= s.buffStop
            /\ s.buffStop \in Nat /\ s.stop \in Nat
        BY <1>3, <2>1 DEF Ordered, Streams
      <3>2. /\ in' \in Streams /\ in'.stopUnget = s.rdNext /\ in'.rdNext = s.rdNext + m
            /\ in'.stop = s.stop /\ in'.buffStop = s.buffStop /\ in'.type = s.type
            /\ in'.isClosed = s.isClosed
        BY <2>2, <3>1 DEF Streams
      <3> QED
        BY <1>3, <3>1, <3>2 DEF Ordered
    <2>4. got' \in Seq(Nat)
      <3>1. Units(s.rdNext, s.rdNext + m) \in Seq(Nat)
        <4>1. PICK a \in Nat, b \in Nat : a = s.rdNext /\ b = s.rdNext + m
          BY <2>1, <2>3
        <4>2. a <= b
          BY <4>1
        <4> QED
          BY <4>1, <4>2, UnitsFacts
      <3> QED
        BY <1>1, <2>2, <3>1
    <2>5. want' \in 0..MaxRead
      BY <1>1, <2>1, <2>2
    <2>6. ReaderTypes'
      BY <1>1, <2>2, <2>3, <2>4, <2>5 DEF ReaderTypes
    <2>7. Pointers'
      BY <1>1, <2>2, <2>3 DEF Pointers, Total, Start, Reading
    <2>8. Phases'
      BY <1>1, <2>2, <2>3 DEF Phases, Reading
    <2>9. Window'
      <3>1. Windowed(in', got')
        BY <1>1, <2>2, <2>3, WindowAfter
      <3> QED
        BY <3>1 DEF Window, Windowed
    <2> QED
      BY <2>6, <2>7, <2>8, <2>9
  <1> QED
    BY <1>2, <1>3

\* Return keeps what holds of every connection.
LEMMA ReturnKeeps ==
  ASSUME StreamInv, Reading, Around, headerLen' = 0,
         NEW s, Filled(s), NEW q \in Requests, in.type # "NONE" => q.begun, Return(s, q)
  PROVE  StreamInv'
  <1>1. s.type = in.type /\ in.type \in StreamTypes
    BY DEF Filled, StreamInv, ReaderTypes, Streams
  <1>2. req' = q /\ nested' = 0
    BY DEF Return
  <1>3. CASE in.type = "NONE"
    <2>1. BeginReturned(s, q)
      BY <1>1, <1>3 DEF Return
    <2> QED
      BY <1>2, <1>3, <2>1, BeginReturnedKeeps
  <1>4. CASE in.type = "PARAMS"
    <2>1. ParamsReturned(s)
      BY <1>1, <1>4 DEF Return
    <2> QED
      BY <1>2, <1>4, <2>1, ParamsReturnedKeeps
  <1>5. CASE in.type \in {"STDIN", "DATA"}
    <2>1. StrReturned(s)
      BY <1>1, <1>5 DEF Return
    <2> QED
      BY <1>2, <1>5, <2>1, StrReturnedKeeps
  <1> QED
    BY <1>1, <1>3, <1>4, <1>5 DEF StreamTypes

\* FillBuffProc gives up: the stream is closed and its caller goes on.
LEMMA FailedKeeps ==
  ASSUME StreamInv, Reading, Around, headerLen' = 0,
         NEW s \in Streams, Ordered(s), s.buffStop = in.buffStop, s.type = in.type,
         NEW e \in Errors \ {"none"}, Failed(s, e)
  PROVE  StreamInv'
  <1>1. PICK r : r = SetError(s, e) /\ Return(r, req)
    BY DEF Failed
  <1>2. Filled(r)
    BY <1>1, SetErrorFacts DEF Filled, Ordered
  <1>3. req \in Requests /\ (in.type # "NONE" => req.begun)
    BY DEF StreamInv, ReaderTypes, Phases, Reading
  <1> QED
    BY <1>1, <1>2, <1>3, ReturnKeeps

\* FillBuffProc goes on: with the same call or one nested in it.
LEMMA StayKeeps ==
  ASSUME StreamInv, Reading, Around, UNCHANGED <<half, want, vec, got>>,
         NEW s \in Streams, in' = s, Ordered(s), s.buffStop <= Total, s.type = in.type,
         ~s.isClosed, req' \in Requests, req'.begun = req.begun, nested' \in Nat,
         pc' \in {"fill", "body", "values"},
         pc' = "body" => ~req.begun /\ req'.first \in DOMAIN script
  PROVE  StreamInv'
  <1> USE DEF Around
  <1>1. ReaderTypes'
    BY DEF StreamInv, ReaderTypes
  <1>2. Pointers'
    BY DEF StreamInv, Pointers, Total, Start, Reading
  <1>3. Phases'
    BY DEF StreamInv, Phases, Reading
  <1>4. Window'
    BY DEF Window
  <1> QED
    BY <1>1, <1>2, <1>3, <1>4 DEF StreamInv

\* An answer is written, or the write fails.
LEMMA AnswerKeeps ==
  ASSUME StreamInv, Reading, UNCHANGED <<script, rest>>, headerLen' = 0,
         NEW s \in Streams, Ordered(s), s.buffStop = in.buffStop, s.type = in.type,
         ~s.isClosed, NEW reply \in Answers, Answer(reply, s)
  PROVE  StreamInv'
  <1>1. /\ replies \in Seq(Answers) /\ Append(replies, reply) \in Seq(Answers)
        /\ HeadLen - 1 \in Nat /\ 0 \in 0..(HeadLen - 1)
        /\ req \in Requests /\ s.buffStop <= Total
    BY ReaderAssumption DEF StreamInv, ReaderTypes, Pointers
  <1>2. CASE replies' = Append(replies, reply) /\ in' = s /\ pc' = "fill" /\ nested' = 0
             /\ UNCHANGED <<req, half, want, vec, got>>
    <2>1. Around
      BY <1>1, <1>2 DEF Around
    <2> QED
      BY <1>1, <1>2, <2>1, StayKeeps
  <1>3. CASE Failed(s, "os") /\ UNCHANGED replies
    <2>1. Around /\ "os" \in Errors \ {"none"}
      BY <1>1, <1>3 DEF Around, Errors
    <2> QED
      BY <1>3, <2>1, FailedKeeps
  <1> QED
    BY <1>2, <1>3 DEF Answer

\* The nested call ends: its record is answered or the connection given up.
LEMMA EndOfRecordKeeps ==
  ASSUME StreamInv, Reading, UNCHANGED <<script, rest>>, headerLen' = 0,
         NEW s \in Streams, Ordered(s), s.buffStop = in.buffStop, s.type = in.type,
         s.errno = "none" => ~s.isClosed, EndOfRecord(s)
  PROVE  StreamInv'
  <1>1. /\ replies \in Seq(Answers) /\ HeadLen - 1 \in Nat /\ 0 \in 0..(HeadLen - 1)
        /\ {"params", "protocol"} \subseteq Errors \ {"none"}
        /\ "GET_VALUES_RESULT" \in Answers
    BY ReaderAssumption DEF StreamInv, ReaderTypes, Errors, Answers
  <1>2. CASE pc = "values" /\ s.errno = "none" /\ nested % 2 = 0
    <2>1. PICK r : /\ r = [s EXCEPT !.stop = s.rdNext]
                   /\ Answer("GET_VALUES_RESULT", r)
      BY <1>2 DEF EndOfRecord
    <2>2. /\ r \in Streams /\ Ordered(r) /\ r.buffStop = in.buffStop /\ r.type = in.type
          /\ ~r.isClosed
      BY <1>2, <2>1 DEF Streams, Ordered
    <2> QED
      BY <1>1, <2>1, <2>2, AnswerKeeps
  <1>3. CASE Failed(s, "params") /\ UNCHANGED replies
    BY <1>1, <1>3, FailedKeeps DEF Around
  <1>4. CASE Failed(s, "protocol") /\ UNCHANGED replies
    BY <1>1, <1>4, FailedKeeps DEF Around
  <1> QED
    BY <1>2, <1>3, <1>4 DEF EndOfRecord

\* A read adds what it got to the buffer, whose units are all sent.
LEMMA OS_ReadStreams ==
  ASSUME StreamInv, OS_Read
  PROVE  StreamInv'
  <1>1. /\ Reading /\ UNCHANGED <<script, rest, req, pc, headerLen, nested, half, want, vec,
                                  got, replies>>
        /\ in \in Streams /\ Ordered(in) /\ ~in.isClosed /\ in.buffStop <= Total
    BY DEF OS_Read, StreamInv, ReaderTypes, Pointers, Phases
  <1>2. PICK n \in 1..Min({BuffLen, Total - in.buffStop}) : in' = [in EXCEPT !.buffStop = @ + n]
    BY DEF OS_Read
  <1>3. n \in Nat /\ in.buffStop + n <= Total /\ in.buffStop \in Nat /\ Total \in Nat
    <2>1. in.buffStop \in Nat /\ Total \in Nat /\ BuffLen \in Int
      BY <1>1, ScriptFacts, ReaderAssumption DEF StreamInv, ReaderTypes, Streams
    <2>2. PICK d \in Int : d = Total - in.buffStop
      BY <2>1
    <2>3. Min({BuffLen, d}) \in Int /\ Min({BuffLen, d}) <= d
      BY <2>1, <2>2, MinFacts
    <2>4. n \in 1..Min({BuffLen, d})
      BY <1>2, <2>2
    <2> QED
      BY <2>1, <2>2, <2>3, <2>4
  <1>4. PICK s \in Streams : /\ s = in' /\ Ordered(s) /\ s.buffStop <= Total /\ s.type = in.type
                             /\ ~s.isClosed
    BY <1>1, <1>2, <1>3 DEF Streams, Ordered
  <1>5. Around
    BY <1>1 DEF Around, StreamInv, ReaderTypes, Phases
  <1>6. /\ req' \in Requests /\ req'.begun = req.begun /\ nested' \in Nat
        /\ pc' \in {"fill", "body", "values"}
        /\ pc' = "body" => ~req.begun /\ req'.first \in DOMAIN script
    BY <1>1 DEF StreamInv, ReaderTypes, Phases, Reading
  <1> QED
    BY <1>1, <1>4, <1>5, <1>6, StayKeeps

\* A read that fails closes the stream and returns.
LEMMA OS_ReadFailsStreams ==
  ASSUME StreamInv, OS_ReadFails
  PROVE  StreamInv'
  <1>1. /\ Reading /\ UNCHANGED <<script, rest>> /\ headerLen' = 0
        /\ in \in Streams /\ Ordered(in) /\ HeadLen - 1 \in Nat /\ 0 \in 0..(HeadLen - 1)
        /\ replies \in Seq(Answers)
    BY ReaderAssumption DEF OS_ReadFails, StreamInv, ReaderTypes, Pointers
  <1>2. PICK e \in Errors \ {"none"} :
          IF pc = "fill" THEN Return(SetError(in, e), req) /\ UNCHANGED replies
                         ELSE EndOfRecord(SetError(in, e))
    BY DEF OS_ReadFails, Errors
  <1>3. CASE pc = "fill"
    <2>1. Failed(in, e) /\ Around
      BY <1>1, <1>2, <1>3 DEF Failed, Around
    <2> QED
      BY <1>1, <1>2, <2>1, FailedKeeps
  <1>4. CASE pc # "fill"
    <2>1. PICK s : s = SetError(in, e) /\ EndOfRecord(s)
      BY <1>2, <1>4
    <2>2. /\ s \in Streams /\ Ordered(s) /\ s.buffStop = in.buffStop /\ s.type = in.type
          /\ s.errno # "none"
      BY <1>1, <1>2, <2>1, SetErrorFacts DEF Ordered
    <2> QED
      BY <1>1, <2>1, <2>2, EndOfRecordKeeps
  <1> QED
    BY <1>3, <1>4

\* What Deliver hands over: some of the content, from rdNext to the new stop.
Portion(c, s, t) ==
  /\ c \in Nat /\ c >= 1 /\ c <= in.contentLen /\ in.rdNext + c <= in.buffStop
  /\ s \in Streams /\ Ordered(s) /\ s.rdNext = in.rdNext /\ s.stop = in.rdNext + c
  /\ s.stopUnget = in.stopUnget /\ s.buffStop = in.buffStop /\ s.type = in.type
  /\ s.contentLen = in.contentLen - c /\ s.paddingLen = in.paddingLen /\ s.skip = in.skip
  /\ s.isClosed = in.isClosed /\ s.errno = in.errno /\ s.base = in.base
  /\ t \in Streams /\ Ordered(t) /\ t.rdNext = in.rdNext + c /\ t.stop = in.rdNext + c
  /\ t.stopUnget = in.rdNext /\ t.buffStop = in.buffStop /\ t.type = in.type
  /\ t.contentLen = in.contentLen - c /\ t.paddingLen = in.paddingLen /\ t.skip = in.skip
  /\ t.isClosed = in.isClosed /\ t.errno = in.errno /\ t.base = in.base

\* The three ways in which content is handed on.
LEMMA DeliverFacts ==
  ASSUME StreamInv, Deliver
  PROVE  /\ Reading /\ in.contentLen > 0 /\ ~in.skip /\ headerLen' = 0
         /\ UNCHANGED <<script, rest, replies>>
         /\ \E c, s, t : Portion(c, s, t) /\
              \/ pc = "fill" /\ Return(s, req)
              \/ /\ pc = "body" /\ t.contentLen = 0
                 /\ Return(t, [req EXCEPT !.begun = TRUE, !.role = script[req.first].role,
                                          !.keep = script[req.first].keep])
              \/ /\ ~(pc = "body" /\ t.contentLen = 0) /\ pc # "fill"
                 /\ in' = t /\ nested' = nested + c
                 /\ UNCHANGED <<req, pc, half, want, vec, got>>
  <1>1. /\ Reading /\ in.contentLen > 0 /\ ~in.skip /\ headerLen' = 0
        /\ UNCHANGED <<script, rest, replies>> /\ InBuffer(in) > 0
    BY DEF Deliver
  <1>2. PICK c : c = Min({in.contentLen, InBuffer(in)})
    OBVIOUS
  <1>3. in \in Streams /\ Ordered(in)
    BY DEF StreamInv, ReaderTypes, Pointers
  <1>4. c \in Nat /\ c >= 1 /\ c <= in.contentLen /\ in.rdNext + c <= in.buffStop
    <2>1. PICK a \in Int, b \in Int : a = in.contentLen /\ b = InBuffer(in)
      BY <1>3 DEF Streams, InBuffer
    <2>2. /\ Min({a, b}) \in Int /\ Min({a, b}) <= a /\ Min({a, b}) <= b
          /\ Min({a, b}) = a \/ Min({a, b}) = b
      BY <2>1, MinFacts
    <2>3. in.rdNext \in Nat /\ in.buffStop \in Nat
      BY <1>3 DEF Streams
    <2> QED
      BY <1>1, <1>2, <2>1, <2>2, <2>3 DEF InBuffer
  <1>5. PICK s : s = [in EXCEPT !.contentLen = @ - c, !.stop = in.rdNext + c]
    OBVIOUS
  <1>6. PICK t : t = [s EXCEPT !.rdNext = @ + c, !.stopUnget = in.rdNext]
    OBVIOUS
  <1>7. Portion(c, s, t)
    <2>1. /\ s \in Streams /\ s.rdNext = in.rdNext /\ s.stop = in.rdNext + c
          /\ s.stopUnget = in.stopUnget /\ s.buffStop = in.buffStop /\ s.type = in.type
          /\ s.contentLen = in.contentLen - c /\ s.paddingLen = in.paddingLen
          /\ s.skip = in.skip
          /\ s.isClosed = in.isClosed /\ s.errno = in.errno /\ s.base = in.base
      <3>1. in.contentLen - c \in Nat /\ in.rdNext + c \in Nat
        BY <1>3, <1>4 DEF Streams
      <3> QED
        BY <1>3, <1>5, <3>1 DEF Streams
    <2>2. /\ t \in Streams /\ t.rdNext = s.rdNext + c /\ t.stop = s.stop
          /\ t.stopUnget = in.rdNext /\ t.buffStop = s.buffStop /\ t.type = s.type
          /\ t.contentLen = s.contentLen /\ t.paddingLen = s.paddingLen /\ t.skip = s.skip
          /\ t.isClosed = s.isClosed /\ t.errno = s.errno /\ t.base = s.base
      BY <1>3, <1>4, <1>6, <2>1 DEF Streams
    <2>3. in.rdNext \in Nat /\ in.buffStop \in Nat /\ in.stopUnget \in Nat
      BY <1>3 DEF Streams
    <2>4. Ordered(s) /\ Ordered(t)
      BY <1>3, <1>4, <2>1, <2>2, <2>3 DEF Ordered
    <2> QED
      BY <1>4, <2>1, <2>2, <2>4 DEF Portion
  <1>8. CASE pc = "fill"
    <2>1. Return(s, req)
      BY <1>2, <1>5, <1>8 DEF Deliver
    <2> QED
      BY <1>1, <1>7, <1>8, <2>1
  <1>9. CASE pc # "fill"
    <2>1. \/ /\ pc = "body" /\ t.contentLen = 0
             /\ Return(t, [req EXCEPT !.begun = TRUE, !.role = script[req.first].role,
                                      !.keep = script[req.first].keep])
          \/ /\ ~(pc = "body" /\ t.contentLen = 0)
             /\ in' = t /\ nested' = nested + c
             /\ UNCHANGED <<req, pc, half, want, vec, got>>
      BY <1>2, <1>5, <1>6, <1>9 DEF Deliver
    <2> QED
      BY <1>1, <1>7, <1>9, <2>1
  <1> QED
    BY <1>8, <1>9

\* What is handed on was in the buffer.
LEMMA DeliverStreams ==
  ASSUME StreamInv, Deliver
  PROVE  StreamInv'
  <1>1. /\ Reading /\ headerLen' = 0 /\ UNCHANGED <<script, rest, replies>>
    BY DeliverFacts
  <1>2. PICK c, s, t : Portion(c, s, t) /\
              \/ pc = "fill" /\ Return(s, req)
              \/ /\ pc = "body" /\ t.contentLen = 0
                 /\ Return(t, [req EXCEPT !.begun = TRUE, !.role = script[req.first].role,
                                          !.keep = script[req.first].keep])
              \/ /\ ~(pc = "body" /\ t.contentLen = 0) /\ pc # "fill"
                 /\ in' = t /\ nested' = nested + c
                 /\ UNCHANGED <<req, pc, half, want, vec, got>>
    BY DeliverFacts
  <1>3. Around
    BY <1>1, ReaderAssumption DEF Around, StreamInv, ReaderTypes
  <1>4. in \in Streams /\ req \in Requests /\ ~in.isClosed /\ (in.type # "NONE" => req.begun)
        /\ in.buffStop <= Total
    BY <1>1 DEF StreamInv, ReaderTypes, Phases, Pointers, Reading
  <1>5. Filled(s) /\ Filled(t)
    BY <1>2, <1>4 DEF Filled, Portion, Streams
  <1>6. CASE pc = "fill" /\ Return(s, req)
    BY <1>1, <1>3, <1>4, <1>5, <1>6, ReturnKeeps
  <1>7. CASE /\ pc = "body" /\ t.contentLen = 0
             /\ Return(t, [req EXCEPT !.begun = TRUE, !.role = script[req.first].role,
                                      !.keep = script[req.first].keep])
    <2>1. PICK q : /\ q = [req EXCEPT !.begun = TRUE, !.role = script[req.first].role,
                                      !.keep = script[req.first].keep]
                   /\ Return(t, q)
      BY <1>7
    <2>2. script[req.first] \in Records
      BY <1>7, ScriptFacts DEF StreamInv, Phases, ReaderTypes
    <2>3. q \in Requests /\ q.begun
      BY <1>4, <2>1, <2>2 DEF Requests, Records
    <2> QED
      BY <1>1, <1>3, <1>5, <2>1, <2>3, ReturnKeeps
  <1>8. CASE /\ ~(pc = "body" /\ t.contentLen = 0) /\ pc # "fill"
             /\ in' = t /\ nested' = nested + c
             /\ UNCHANGED <<req, pc, half, want, vec, got>>
    <2>1. /\ t \in Streams /\ Ordered(t) /\ t.buffStop <= Total /\ t.type = in.type /\ ~t.isClosed
          /\ c \in Nat
      BY <1>2, <1>4 DEF Portion
    <2>2. /\ req' \in Requests /\ nested' \in Nat /\ pc' \in {"fill", "body", "values"}
          /\ pc' = "body" => ~req.begun /\ req'.first \in DOMAIN script
      BY <1>1, <1>4, <1>8, <2>1 DEF StreamInv, ReaderTypes, Phases, Reading
    <2> QED
      BY <1>1, <1>3, <1>8, <2>1, <2>2, StayKeeps
  <1> QED
    BY <1>2, <1>6, <1>7, <1>8

\* Streams that differ in their place only.
Alike(a, b) ==
  /\ a.buffStop = b.buffStop /\ a.stopUnget = b.stopUnget /\ a.type = b.type
  /\ a.isClosed = b.isClosed /\ a.errno = b.errno /\ a.base = b.base

\* Content is skipped as far as the buffer goes.
LEMMA SkipContentFacts ==
  ASSUME NEW s \in Streams, Ordered(s), NEW c, c = SkipContent(s)
  PROVE  /\ c \in Streams /\ Ordered(c) /\ Alike(c, s) /\ c.stop = s.stop
         /\ c.rdNext + c.contentLen = s.rdNext + s.contentLen /\ c.rdNext >= s.rdNext
         /\ c.paddingLen = s.paddingLen
         /\ s.contentLen = 0 => c.skip = s.skip
         /\ s.contentLen > 0 => c.skip = (s.skip /\ c.contentLen > 0)
  <1>1. PICK m \in Nat : /\ m = Min({s.contentLen, InBuffer(s)})
                         /\ m <= s.contentLen /\ m <= s.buffStop - s.rdNext
    <2>1. PICK a \in Nat, b \in Nat : a = s.contentLen /\ b = InBuffer(s)
      BY DEF Ordered, Streams, InBuffer
    <2>2. a \in Int /\ b \in Int
      BY <2>1
    <2>3. /\ Min({a, b}) <= a /\ Min({a, b}) <= b
          /\ Min({a, b}) = a \/ Min({a, b}) = b
      BY <2>2, MinFacts
    <2> QED
      BY <2>1, <2>3 DEF InBuffer
  <1>2. c = [s EXCEPT !.rdNext = @ + m, !.contentLen = @ - m,
                      !.skip = @ /\ (s.contentLen = 0 \/ m < s.contentLen)]
    BY <1>1 DEF SkipContent
  <1>3. /\ s.contentLen - m \in Nat /\ s.rdNext + m \in Nat /\ s.rdNext + m <= s.buffStop
        /\ m < s.contentLen <=> s.contentLen - m > 0
    BY <1>1 DEF Streams, Ordered
  <1>4. /\ c \in Streams /\ Alike(c, s) /\ c.stop = s.stop /\ c.paddingLen = s.paddingLen
        /\ c.rdNext = s.rdNext + m /\ c.contentLen = s.contentLen - m
    BY <1>2, <1>3 DEF Streams, Alike
  <1>5. c.skip = (s.skip /\ (s.contentLen = 0 \/ m < s.contentLen))
    BY <1>2 DEF Streams
  <1>6. Ordered(c)
    BY <1>3, <1>4 DEF Ordered, Alike
  <1>7. c.rdNext + c.contentLen = s.rdNext + s.contentLen /\ c.rdNext >= s.rdNext
    BY <1>1, <1>4 DEF Streams
  <1>8. s.contentLen > 0 => c.skip = (s.skip /\ c.contentLen > 0)
    <2>1. s.contentLen \in Nat /\ (s.contentLen > 0 => s.contentLen # 0)
      BY DEF Streams
    <2>2. s.contentLen > 0 => (c.contentLen > 0 <=> m < s.contentLen)
      BY <1>3, <1>4
    <2> QED
      BY <1>5, <2>1, <2>2
  <1>9. s.contentLen = 0 => c.skip = s.skip
    BY <1>5 DEF Streams
  <1> QED
    BY <1>4, <1>6, <1>7, <1>8, <1>9

\* So is padding, and only what was skipped is no longer counted.
LEMMA SkipPaddingFacts ==
  ASSUME NEW s \in Streams, Ordered(s), NEW c, c = SkipPadding(s)
  PROVE  /\ c \in Streams /\ Ordered(c) /\ Alike(c, s) /\ c.stop = s.stop
         /\ c.rdNext + c.paddingLen = s.rdNext + s.paddingLen /\ c.rdNext >= s.rdNext
         /\ c.contentLen = s.contentLen /\ c.skip = s.skip
  <1>1. PICK m \in Nat : /\ m = Min({s.paddingLen, InBuffer(s)})
                         /\ m <= s.paddingLen /\ m <= s.buffStop - s.rdNext
    <2>1. PICK a \in Nat, b \in Nat : a = s.paddingLen /\ b = InBuffer(s)
      BY DEF Ordered, Streams, InBuffer
    <2>2. a \in Int /\ b \in Int
      BY <2>1
    <2>3. /\ Min({a, b}) <= a /\ Min({a, b}) <= b
          /\ Min({a, b}) = a \/ Min({a, b}) = b
      BY <2>2, MinFacts
    <2> QED
      BY <2>1, <2>3 DEF InBuffer
  <1>2. c = [s EXCEPT !.rdNext = @ + m, !.paddingLen = @ - m]
    BY <1>1 DEF SkipPadding
  <1>3. s.paddingLen - m \in Nat /\ s.rdNext + m \in Nat /\ s.rdNext + m <= s.buffStop
    BY <1>1 DEF Streams, Ordered
  <1>4. /\ c \in Streams /\ Alike(c, s) /\ c.stop = s.stop /\ c.contentLen = s.contentLen
        /\ c.rdNext = s.rdNext + m /\ c.paddingLen = s.paddingLen - m /\ c.skip = s.skip
    BY <1>2, <1>3 DEF Streams, Alike
  <1>6. Ordered(c)
    BY <1>3, <1>4 DEF Ordered, Alike
  <1>7. c.rdNext + c.paddingLen = s.rdNext + s.paddingLen /\ c.rdNext >= s.rdNext
    BY <1>1, <1>4 DEF Streams
  <1> QED
    BY <1>4, <1>6, <1>7

\* What NextRecord passes: content that is skipped, padding, and some of a header.
Skipped(c, p, n, h) ==
  /\ c \in Streams /\ Ordered(c) /\ Alike(c, in) /\ c.stop = in.stop
  /\ c.rdNext + c.contentLen = in.rdNext + in.contentLen /\ c.rdNext >= in.rdNext
  /\ c.paddingLen = in.paddingLen
  /\ in.contentLen = 0 => c.skip = in.skip
  /\ in.contentLen > 0 => in.skip /\ c.skip = (c.contentLen > 0)
  /\ p \in Streams /\ Ordered(p) /\ Alike(p, in) /\ p.stop = in.stop
  /\ p.rdNext + p.paddingLen = c.rdNext + c.paddingLen /\ p.rdNext >= c.rdNext
  /\ p.contentLen = c.contentLen /\ p.skip = c.skip
  /\ n \in Nat /\ h \in Streams /\ Ordered(h) /\ Alike(h, in) /\ h.stop = in.stop
  /\ h.rdNext = p.rdNext + n /\ h.contentLen = p.contentLen
  /\ h.paddingLen = p.paddingLen /\ h.skip = p.skip

\* The five ways through the rest of the loop.
LEMMA NextRecordFacts ==
  ASSUME StreamInv, NextRecord
  PROVE  /\ Reading /\ UNCHANGED <<script, rest>>
         /\ \E c, p, n, h : Skipped(c, p, n, h) /\
              \/ c.contentLen > 0 /\ Loop(c) /\ UNCHANGED <<headerLen, replies>>
              \/ /\ c.contentLen = 0 /\ p.paddingLen > 0
                 /\ Loop(p) /\ UNCHANGED <<headerLen, replies>>
              \/ /\ c.contentLen = 0 /\ p.paddingLen = 0 /\ pc # "fill"
                 /\ EndOfRecord(p) /\ UNCHANGED headerLen
              \/ /\ c.contentLen = 0 /\ p.paddingLen = 0 /\ pc = "fill"
                 /\ headerLen + n < HeadLen /\ headerLen' = headerLen + n
                 /\ Loop(h) /\ UNCHANGED replies
              \/ /\ c.contentLen = 0 /\ p.paddingLen = 0 /\ pc = "fill"
                 /\ headerLen + n = HeadLen /\ headerLen' = 0
                 /\ ProcessHeader(h)
  <1>1. /\ Reading /\ UNCHANGED <<script, rest>> /\ (in.contentLen > 0 => in.skip)
    BY DEF NextRecord
  <1>2. in \in Streams /\ Ordered(in) /\ headerLen \in 0..(HeadLen - 1) /\ HeadLen \in Nat
    BY ReaderAssumption DEF StreamInv, ReaderTypes, Pointers
  <1>3. PICK c : c = SkipContent(in)
    OBVIOUS
  <1>4. PICK p : p = SkipPadding(c)
    OBVIOUS
  <1>5. PICK n : n = Min({HeadLen - headerLen, InBuffer(p)})
    OBVIOUS
  <1>6. PICK h : h = [p EXCEPT !.rdNext = @ + n]
    OBVIOUS
  <1>7. /\ c \in Streams /\ Ordered(c) /\ Alike(c, in) /\ c.stop = in.stop
        /\ c.rdNext + c.contentLen = in.rdNext + in.contentLen /\ c.rdNext >= in.rdNext
        /\ c.paddingLen = in.paddingLen
        /\ in.contentLen = 0 => c.skip = in.skip
        /\ in.contentLen > 0 => c.skip = (in.skip /\ c.contentLen > 0)
    BY <1>2, <1>3, SkipContentFacts
  <1>8. /\ p \in Streams /\ Ordered(p) /\ Alike(p, c) /\ p.stop = c.stop
        /\ p.rdNext + p.paddingLen = c.rdNext + c.paddingLen /\ p.rdNext >= c.rdNext
        /\ p.contentLen = c.contentLen /\ p.skip = c.skip
    BY <1>4, <1>7, SkipPaddingFacts
  <1>9. n \in Nat /\ p.rdNext + n <= p.buffStop
    <2>1. PICK a \in Nat, b \in Nat : a = HeadLen - headerLen /\ b = InBuffer(p)
      <3>1. HeadLen - headerLen \in Nat
        BY <1>2
      <3>2. InBuffer(p) \in Nat
        BY <1>8 DEF Ordered, Streams, InBuffer
      <3> QED
        BY <3>1, <3>2
    <2>2. a \in Int /\ b \in Int
      BY <2>1
    <2>3. /\ Min({a, b}) <= b /\ (Min({a, b}) = a \/ Min({a, b}) = b)
      BY <2>2, MinFacts
    <2> QED
      BY <1>5, <1>8, <2>1, <2>3 DEF InBuffer, Streams
  <1>10. /\ h \in Streams /\ Alike(h, p) /\ h.stop = p.stop
         /\ h.rdNext = p.rdNext + n /\ h.contentLen = p.contentLen
         /\ h.paddingLen = p.paddingLen /\ h.skip = p.skip
    <2>1. p.rdNext + n \in Nat
      BY <1>8, <1>9 DEF Streams
    <2> QED
      BY <1>6, <1>8, <2>1 DEF Streams, Alike
  <1>11. Ordered(h)
    BY <1>8, <1>9, <1>10 DEF Ordered, Alike
  <1>12. Alike(p, in) /\ Alike(h, in)
    BY <1>7, <1>8, <1>10 DEF Alike
  <1>13. in.contentLen > 0 => in.skip /\ c.skip = (c.contentLen > 0)
    BY <1>1, <1>7
  <1>14. Skipped(c, p, n, h)
    BY <1>7, <1>8, <1>9, <1>10, <1>11, <1>12, <1>13 DEF Skipped
  <1>15. \/ c.contentLen > 0 /\ Loop(c) /\ UNCHANGED <<headerLen, replies>>
         \/ /\ c.contentLen = 0 /\ p.paddingLen > 0
            /\ Loop(p) /\ UNCHANGED <<headerLen, replies>>
         \/ /\ c.contentLen = 0 /\ p.paddingLen = 0 /\ pc # "fill"
            /\ EndOfRecord(p) /\ UNCHANGED headerLen
         \/ /\ c.contentLen = 0 /\ p.paddingLen = 0 /\ pc = "fill"
            /\ headerLen + n < HeadLen /\ headerLen' = headerLen + n
            /\ Loop(h) /\ UNCHANGED replies
         \/ /\ c.contentLen = 0 /\ p.paddingLen = 0 /\ pc = "fill"
            /\ headerLen + n = HeadLen /\ headerLen' = 0
            /\ ProcessHeader(h)
    BY <1>3, <1>4, <1>5, <1>6 DEF NextRecord
  <1> QED
    BY <1>1, <1>14, <1>15

\* What a header announces.
Announced(t, h, k) ==
  /\ t \in Streams /\ Ordered(t) /\ Alike(t, h) /\ t.rdNext = h.rdNext /\ t.stop = h.rdNext
  /\ t.contentLen = script[k].len /\ t.paddingLen = script[k].pad /\ t.skip = h.skip

\* What a complete header leads to: an error, or one of the three handlers.
LEMMA HeaderFacts ==
  ASSUME script \in Seq(Sent), NEW h \in Streams, Ordered(h), ProcessHeader(h)
  PROVE  \/ /\ RecordAt(h.rdNext - HeadLen) = {} /\ UNCHANGED replies
            /\ \E r : /\ r \in Streams /\ Ordered(r) /\ Alike(r, h) /\ r.rdNext = h.rdNext
                      /\ Failed(r, "version")
         \/ \E k, t : k \in RecordAt(h.rdNext - HeadLen) /\ Announced(t, h, k) /\
              \/ script[k].type = "BEGIN" /\ ProcessBeginRecord(t, k)
              \/ /\ script[k].type \in ManagementTypes
                 /\ ProcessManagementRecord(t, script[k])
              \/ /\ script[k].type \notin ManagementTypes \cup {"BEGIN"}
                 /\ ProcessStreamRecord(t, script[k])
  <1>1. CASE RecordAt(h.rdNext - HeadLen) = {}
    <2>1. PICK r : r = [h EXCEPT !.stop = h.rdNext] /\ Failed(r, "version") /\ UNCHANGED replies
      BY <1>1 DEF ProcessHeader
    <2>2. r \in Streams /\ Ordered(r) /\ Alike(r, h) /\ r.rdNext = h.rdNext
      BY <2>1 DEF Streams, Ordered, Alike
    <2> QED
      BY <1>1, <2>1, <2>2
  <1>2. CASE RecordAt(h.rdNext - HeadLen) # {}
    <2>1. PICK k : /\ k = CHOOSE n \in RecordAt(h.rdNext - HeadLen) : TRUE
                   /\ k \in RecordAt(h.rdNext - HeadLen)
      BY <1>2
    <2>2. PICK t : t = [h EXCEPT !.stop = h.rdNext, !.contentLen = script[k].len,
                                 !.paddingLen = script[k].pad]
      OBVIOUS
    <2>3. /\ CASE script[k].type = "BEGIN" -> ProcessBeginRecord(t, k)
               [] script[k].type # "BEGIN" /\ script[k].id = NullId ->
                    ProcessManagementRecord(t, script[k])
               [] OTHER -> ProcessStreamRecord(t, script[k])
      BY <1>2, <2>1, <2>2 DEF ProcessHeader
    <2>4. /\ k \in DOMAIN script /\ script[k] \in Sent /\ script[k].len \in Nat
          /\ script[k].pad \in Nat
      BY <2>1, ScriptFacts DEF RecordAt
    <2>5. script[k].id = NullId <=> script[k].type \in ManagementTypes
      BY <2>4 DEF Sent
    <2>6. Announced(t, h, k)
      <3>1. /\ t \in Streams /\ Alike(t, h) /\ t.rdNext = h.rdNext /\ t.stop = h.rdNext
            /\ t.contentLen = script[k].len /\ t.paddingLen = script[k].pad /\ t.skip = h.skip
        BY <2>2, <2>4 DEF Streams, Alike
      <3>2. Ordered(t)
        BY <3>1 DEF Ordered, Alike
      <3> QED
        BY <3>1, <3>2 DEF Announced
    <2>7. "BEGIN" \notin ManagementTypes
      BY DEF ManagementTypes
    <2> QED
      BY <2>1, <2>3, <2>5, <2>6, <2>7
  <1> QED
    BY <1>1, <1>2

\* A BEGIN record leaves types and pointers in order.
LEMMA BeginRecordStreams ==
  ASSUME StreamInv, Reading, pc = "fill", UNCHANGED <<script, rest>>, headerLen' = 0,
         NEW t \in Streams, Ordered(t), t.buffStop = in.buffStop, t.type = in.type,
         ~t.isClosed, NEW k \in DOMAIN script, ProcessBeginRecord(t, k)
  PROVE  StreamInv'
  <1>1. /\ replies \in Seq(Answers) /\ HeadLen - 1 \in Nat /\ 0 \in 0..(HeadLen - 1)
        /\ "protocol" \in Errors \ {"none"} /\ "CANT_MPX_CONN" \in Answers
        /\ script[k] \in Records /\ k \in Nat /\ req \in Requests /\ in.buffStop <= Total
    BY ReaderAssumption, ScriptFacts
    DEF StreamInv, ReaderTypes, Errors, Answers, Pointers
  <1>2. CASE Failed(t, "protocol") /\ UNCHANGED replies
    BY <1>1, <1>2, FailedKeeps DEF Around
  <1>3. CASE Answer("CANT_MPX_CONN", Skip(t))
    <2>1. PICK r : r = Skip(t) /\ Answer("CANT_MPX_CONN", r)
      BY <1>3
    <2>2. /\ r \in Streams /\ Ordered(r) /\ r.buffStop = in.buffStop /\ r.type = in.type
          /\ ~r.isClosed
      BY <2>1 DEF Skip, Streams, Ordered
    <2> QED
      BY <1>1, <2>1, <2>2, AnswerKeeps
  <1>4. CASE ~req.begun /\ Nest(t, "body", [req EXCEPT !.id = script[k].id, !.first = k])
    <2>1. /\ in' = t /\ pc' = "body" /\ nested' = 0
          /\ req' = [req EXCEPT !.id = script[k].id, !.first = k]
          /\ UNCHANGED <<half, want, vec, got, replies>>
      BY <1>4 DEF Nest
    <2>2. req' \in Requests /\ req'.begun = req.begun /\ req'.first = k
      BY <1>1, <2>1 DEF Requests, Records
    <2>3. Around
      BY <1>1, <2>1 DEF Around
    <2> QED
      BY <1>1, <1>4, <2>1, <2>2, <2>3, StayKeeps
  <1> QED
    BY <1>2, <1>3, <1>4 DEF ProcessBeginRecord

\* So does a management record.
LEMMA ManagementRecordStreams ==
  ASSUME StreamInv, Reading, pc = "fill", UNCHANGED <<script, rest>>, headerLen' = 0,
         NEW t \in Streams, Ordered(t), t.buffStop = in.buffStop, t.type = in.type,
         ~t.isClosed, NEW r, ProcessManagementRecord(t, r)
  PROVE  StreamInv'
  <1>1. /\ replies \in Seq(Answers) /\ HeadLen - 1 \in Nat /\ 0 \in 0..(HeadLen - 1)
        /\ "UNKNOWN_TYPE" \in Answers /\ req \in Requests /\ in.buffStop <= Total
    BY ReaderAssumption DEF StreamInv, ReaderTypes, Answers, Pointers
  <1>2. CASE Answer("UNKNOWN_TYPE", t)
    BY <1>1, <1>2, AnswerKeeps
  <1>3. CASE Nest(t, "values", req)
    <2>1. /\ in' = t /\ pc' = "values" /\ nested' = 0 /\ req' = req
          /\ UNCHANGED <<half, want, vec, got, replies>>
      BY <1>3 DEF Nest
    <2>2. Around
      BY <1>1, <2>1 DEF Around
    <2> QED
      BY <1>1, <2>1, <2>2, StayKeeps
  <1> QED
    BY <1>2, <1>3 DEF ProcessManagementRecord

\* So does a record of a stream.
LEMMA StreamRecordStreams ==
  ASSUME StreamInv, Reading, pc = "fill", UNCHANGED <<script, rest>>, headerLen' = 0,
         NEW t \in Streams, Ordered(t), t.buffStop = in.buffStop, t.type = in.type,
         ~t.isClosed, NEW r, ProcessStreamRecord(t, r)
  PROVE  StreamInv'
  <1>1. /\ replies \in Seq(Answers) /\ replies' = replies
        /\ HeadLen - 1 \in Nat /\ 0 \in 0..(HeadLen - 1)
        /\ "protocol" \in Errors \ {"none"} /\ req \in Requests /\ in.buffStop <= Total
        /\ nested \in Nat /\ (in.type # "NONE" => req.begun)
    BY ReaderAssumption
    DEF StreamInv, ReaderTypes, Errors, Pointers, ProcessStreamRecord, Phases
  <1>2. Around
    BY <1>1 DEF Around
  <1>3. CASE Failed(t, "protocol")
    BY <1>1, <1>2, <1>3, FailedKeeps
  <1>4. ASSUME NEW s, Loop(s), s = t \/ s = Skip(t) PROVE StreamInv'
    <2>1. /\ s \in Streams /\ Ordered(s) /\ s.buffStop = in.buffStop /\ s.type = in.type
          /\ ~s.isClosed
      BY <1>4 DEF Skip, Streams, Ordered
    <2> QED
      BY <1>1, <1>2, <1>4, <2>1, StayKeeps DEF Loop
  <1>5. CASE Return([t EXCEPT !.isClosed = TRUE], req)
    <2>1. PICK s : s = [t EXCEPT !.isClosed = TRUE] /\ Return(s, req)
      BY <1>5
    <2>2. Filled(s)
      BY <2>1 DEF Filled, Streams, Ordered
    <2> QED
      BY <1>1, <1>2, <2>1, <2>2, ReturnKeeps
  <1> QED
    BY <1>3, <1>4, <1>5 DEF ProcessStreamRecord

\* So does the rest of the loop as a whole.
LEMMA NextRecordStreams ==
  ASSUME StreamInv, NextRecord
  PROVE  StreamInv'
  <1>1. Reading /\ UNCHANGED <<script, rest>>
    BY NextRecordFacts
  <1>2. PICK c, p, n, h : Skipped(c, p, n, h) /\
              \/ c.contentLen > 0 /\ Loop(c) /\ UNCHANGED <<headerLen, replies>>
              \/ /\ c.contentLen = 0 /\ p.paddingLen > 0
                 /\ Loop(p) /\ UNCHANGED <<headerLen, replies>>
              \/ /\ c.contentLen = 0 /\ p.paddingLen = 0 /\ pc # "fill"
                 /\ EndOfRecord(p) /\ UNCHANGED headerLen
              \/ /\ c.contentLen = 0 /\ p.paddingLen = 0 /\ pc = "fill"
                 /\ headerLen + n < HeadLen /\ headerLen' = headerLen + n
                 /\ Loop(h) /\ UNCHANGED replies
              \/ /\ c.contentLen = 0 /\ p.paddingLen = 0 /\ pc = "fill"
                 /\ headerLen + n = HeadLen /\ headerLen' = 0
                 /\ ProcessHeader(h)
    BY NextRecordFacts
  <1>3. /\ in \in Streams /\ req \in Requests /\ ~in.isClosed /\ in.buffStop <= Total
        /\ script \in Seq(Sent) /\ replies \in Seq(Answers) /\ nested \in Nat
        /\ headerLen \in 0..(HeadLen - 1) /\ (headerLen > 0 => pc = "fill")
        /\ pc = "body" => ~req.begun /\ req.first \in DOMAIN script
    BY <1>1 DEF StreamInv, ReaderTypes, Phases, Pointers
  <1>4. ASSUME NEW s, s \in {c, p, h}
        PROVE  /\ s \in Streams /\ Ordered(s) /\ s.buffStop = in.buffStop /\ s.type = in.type
               /\ ~s.isClosed
    BY <1>2, <1>3, <1>4 DEF Skipped, Alike
  <1>5. ASSUME NEW s, s \in {c, p, h}, Loop(s), UNCHANGED replies,
               headerLen' \in 0..(HeadLen - 1), headerLen' > 0 => pc' = "fill"
        PROVE  StreamInv'
    <2>1. Around
      BY <1>1, <1>3, <1>5 DEF Around
    <2>2. UNCHANGED <<req, pc, nested, half, want, vec, got>> /\ in' = s
      BY <1>5 DEF Loop
    <2>3. pc' \in {"fill", "body", "values"}
      BY <1>1, <2>2 DEF Reading
    <2> QED
      BY <1>1, <1>3, <1>4, <1>5, <2>1, <2>2, <2>3, StayKeeps
  <1>6. CASE c.contentLen > 0 /\ Loop(c) /\ UNCHANGED <<headerLen, replies>>
    BY <1>3, <1>5, <1>6 DEF Loop
  <1>7. CASE Loop(p) /\ UNCHANGED <<headerLen, replies>>
    BY <1>3, <1>5, <1>7 DEF Loop
  <1>8. CASE pc # "fill" /\ EndOfRecord(p) /\ UNCHANGED headerLen
    <2>1. headerLen' = 0
      BY <1>3, <1>8
    <2> QED
      BY <1>1, <1>4, <1>8, <2>1, EndOfRecordKeeps
  <1>9. CASE /\ pc = "fill" /\ headerLen + n < HeadLen /\ headerLen' = headerLen + n
             /\ Loop(h) /\ UNCHANGED replies
    <2>1. headerLen' \in 0..(HeadLen - 1) /\ pc' = "fill"
      BY <1>2, <1>3, <1>9, ReaderAssumption DEF Loop, Skipped
    <2> QED
      BY <1>5, <1>9, <2>1
  <1>10. CASE pc = "fill" /\ headerLen' = 0 /\ ProcessHeader(h)
    <2>1. h \in Streams /\ Ordered(h) /\ h.buffStop = in.buffStop /\ h.type = in.type /\ ~h.isClosed
      BY <1>4
    <2>2. CASE /\ UNCHANGED replies
               /\ \E r : /\ r \in Streams /\ Ordered(r) /\ Alike(r, h) /\ r.rdNext = h.rdNext
                         /\ Failed(r, "version")
      <3>1. PICK r : /\ r \in Streams /\ Ordered(r) /\ Alike(r, h) /\ Failed(r, "version")
        BY <2>2
      <3>2. Around /\ "version" \in Errors \ {"none"}
        BY <1>1, <1>3, <1>10, <2>2, ReaderAssumption DEF Around, Errors
      <3> QED
        BY <1>1, <1>10, <2>1, <3>1, <3>2, FailedKeeps DEF Alike
    <2>3. ASSUME NEW k, NEW t, k \in RecordAt(h.rdNext - HeadLen), Announced(t, h, k),
                 \/ ProcessBeginRecord(t, k)
                 \/ ProcessManagementRecord(t, script[k])
                 \/ ProcessStreamRecord(t, script[k])
          PROVE  StreamInv'
      <3>1. /\ t \in Streams /\ Ordered(t) /\ t.buffStop = in.buffStop /\ t.type = in.type
            /\ ~t.isClosed /\ k \in DOMAIN script
        BY <2>1, <2>3 DEF Announced, Alike, RecordAt
      <3> QED
        BY <1>1, <1>10, <2>3, <3>1, BeginRecordStreams, ManagementRecordStreams,
           StreamRecordStreams
    <2> QED
      BY <1>3, <1>10, <2>1, <2>2, <2>3, HeaderFacts
  <1> QED
    BY <1>2, <1>6, <1>7, <1>8, <1>9, <1>10

\* The application reads what lies between rdNext and stop.
LEMMA GetStrStreams ==
  ASSUME StreamInv, NEW n \in 1..MaxRead, GetStr(n)
  PROVE  StreamInv'
  <1>1. /\ pc = "idle" /\ ~in.isClosed
        /\ UNCHANGED <<script, rest, req, headerLen, nested, half, vec, replies>>
    BY DEF GetStr, Idle
  <1>2. /\ in \in Streams /\ Ordered(in) /\ in.rdNext <= in.stop /\ in.buffStop <= Total
        /\ got \in Seq(Nat) /\ n \in Nat /\ MaxRead \in Nat /\ Windowed(in, got)
        /\ headerLen = 0
    BY <1>1, ReaderAssumption
    DEF StreamInv, ReaderTypes, Pointers, Phases, Window, Reading
  <1>3. PICK m \in Nat : /\ m = Min({n, in.stop - in.rdNext})
                         /\ m <= n /\ m <= in.stop - in.rdNext
                         /\ m = n \/ m = in.stop - in.rdNext
    <2>1. PICK d \in Nat : d = in.stop - in.rdNext
      BY <1>2 DEF Streams
    <2>2. n \in Int /\ d \in Int
      BY <2>1
    <2>3. /\ Min({n, d}) \in Int /\ Min({n, d}) <= n /\ Min({n, d}) <= d
          /\ Min({n, d}) = n \/ Min({n, d}) = d
      BY <2>2, MinFacts
    <2> QED
      BY <2>1, <2>3
  <1>4. /\ in' = [in EXCEPT !.rdNext = @ + m]
        /\ got' = got \o Units(in.rdNext, in.rdNext + m)
        /\ want' = n - m /\ pc' = IF m = n THEN "idle" ELSE "fill"
    BY <1>3 DEF GetStr
  <1>5. PICK a \in Nat, b \in Nat : a = in.rdNext /\ b = in.rdNext + m /\ a <= b /\ b = a + m
                                    /\ b <= in.stop
    <2>1. in.rdNext \in Nat /\ in.stop \in Nat
      BY <1>2 DEF Streams
    <2>2. PICK x \in Nat, y \in Nat : x = in.rdNext /\ y = in.stop
      BY <2>1
    <2>3. m \in Nat /\ m <= y - x
      BY <1>3, <2>2
    <2>4. x + m \in Nat /\ x <= x + m /\ x + m <= y
      BY <2>3
    <2> QED
      BY <2>2, <2>4
  <1>6. /\ in' \in Streams /\ in'.rdNext = b /\ in'.stop = in.stop /\ in'.stopUnget = in.stopUnget
        /\ in'.buffStop = in.buffStop /\ in'.type = in.type /\ in'.isClosed = in.isClosed
    BY <1>2, <1>4, <1>5 DEF Streams
  <1>7. PICK u \in Seq(Nat) : /\ u = Units(a, b) /\ Len(u) = m
                              /\ \A i \in 1..m : u[i] = a + i - 1
    <2>1. b - a = m
      BY <1>5
    <2>2. /\ Units(a, b) \in Seq(Nat) /\ Len(Units(a, b)) = b - a
          /\ \A i \in 1..(b - a) : Units(a, b)[i] = a + i - 1
      BY <1>5, UnitsFacts
    <2> QED
      BY <2>1, <2>2
  <1>8. /\ got' = got \o u /\ got' \in Seq(Nat) /\ Len(got') = Len(got) + m
        /\ Len(got) \in Nat
        /\ \A i \in 1..Len(got) : got'[i] = got[i]
        /\ \A i \in 1..m : got'[Len(got) + i] = u[i]
    <2>1. got' = got \o u
      BY <1>4, <1>5, <1>7
    <2>2. /\ got \o u \in Seq(Nat) /\ Len(got \o u) = Len(got) + Len(u) /\ Len(got) \in Nat
          /\ \A i \in 1..Len(got) : (got \o u)[i] = got[i]
          /\ \A i \in 1..Len(u) : (got \o u)[Len(got) + i] = u[i]
      BY <1>2
    <2> QED
      BY <1>7, <2>1, <2>2
  <1>9. ReaderTypes'
    <2>1. want' \in 0..MaxRead /\ pc' \in {"idle", "fill", "body", "values", "retry"}
      BY <1>2, <1>3, <1>4
    <2> QED
      BY <1>1, <1>6, <1>8, <2>1 DEF StreamInv, ReaderTypes
  <1>10. Pointers'
    <2>1. in.stop \in Nat /\ in.buffStop \in Nat /\ b \in Nat /\ b <= in.stop
      BY <1>2, <1>5 DEF Streams
    <2>2. Ordered(in') /\ in'.rdNext <= in'.stop
      BY <1>2, <1>6, <2>1 DEF Ordered
    <2>3. Total' = Total
      BY <1>1 DEF Total, Start
    <2> QED
      BY <1>2, <1>6, <2>2, <2>3 DEF Pointers
  <1>11. Phases'
    <2>1. pc' \in {"idle", "fill"}
      BY <1>4
    <2> QED
      BY <1>1, <1>2, <1>6, <2>1 DEF StreamInv, Phases, Reading
  <1>12. Window'
    <2> SUFFICES ASSUME pc' = "idle" PROVE Windowed(in', got')
      BY DEF Window, Windowed
    <2>1. m = n /\ m >= 1
      BY <1>4
    <2>2. ~(in.stop = in.rdNext)
      BY <1>2, <1>3, <2>1 DEF Streams
    <2>3. PICK c \in 0..Len(got) :
            /\ in.rdNext = in.stopUnget + c
            /\ \A i \in 1..c : got[Len(got) - c + i] = in.stopUnget + i - 1
      BY <1>2, <2>2 DEF Windowed
    <2>4. PICK w \in Nat, l \in Nat : w = in.stopUnget /\ l = Len(got) /\ a = w + c /\ c <= l
      <3>1. in.stopUnget \in Nat /\ Len(got) \in Nat
        BY <1>2, <1>8 DEF Streams
      <3> QED
        BY <1>5, <2>3, <3>1
    <2>5. c + m \in 0..Len(got') /\ in'.rdNext = in'.stopUnget + (c + m)
      <3>1. b = w + (c + m)
        BY <1>3, <1>5, <2>3, <2>4
      <3>2. c + m \in 0..(l + m)
        BY <1>3, <2>3, <2>4
      <3> QED
        BY <1>6, <1>8, <2>4, <3>1, <3>2
    <2>6. ASSUME NEW i \in 1..(c + m) PROVE got'[Len(got') - (c + m) + i] = in'.stopUnget + i - 1
      <3>1. Len(got') - (c + m) + i = l - c + i
        BY <1>8, <2>3, <2>4
      <3>2. CASE i <= c
        <4>1. i \in 1..c /\ l - c + i \in 1..l
          BY <2>3, <2>4, <3>2
        <4> QED
          BY <1>6, <1>8, <2>3, <2>4, <3>1, <4>1
      <3>3. CASE i > c
        <4>1. i - c \in 1..m /\ l - c + i = l + (i - c)
          BY <2>3, <2>4, <3>3
        <4>2. got'[l + (i - c)] = a + (i - c) - 1
          <5>1. got'[l + (i - c)] = u[i - c]
            BY <1>8, <2>4, <4>1
          <5>2. u[i - c] = a + (i - c) - 1
            BY <1>7, <4>1
          <5> QED
            BY <5>1, <5>2
        <4>3. a + (i - c) - 1 = w + i - 1
          BY <1>3, <2>3, <2>4
        <4>4. got'[l - c + i] = w + i - 1
          BY <4>1, <4>2, <4>3
        <4> QED
          BY <1>6, <2>4, <3>1, <4>4
      <3>4. i <= c \/ i > c
        BY <1>3, <2>3
      <3> QED
        BY <3>2, <3>3, <3>4
    <2> QED
      BY <2>5, <2>6 DEF Windowed
  <1> QED
    BY <1>9, <1>10, <1>11, <1>12 DEF StreamInv

\* It gives back a unit inside the window.
LEMMA UnGetCharStreams ==
  ASSUME StreamInv, UnGetChar
  PROVE  StreamInv'
  <1>1. /\ pc = "idle" /\ ~in.isClosed /\ in.rdNext # in.stopUnget /\ got # <<>>
        /\ in' = [in EXCEPT !.rdNext = @ - 1] /\ got' = SubSeq(got, 1, Len(got) - 1)
        /\ UNCHANGED <<script, rest, req, pc, headerLen, nested, half, want, vec, replies>>
    BY DEF UnGetChar, Idle, MayUnget, Front
  <1>2. /\ in \in Streams /\ Ordered(in) /\ in.rdNext <= in.stop /\ in.buffStop <= Total
        /\ got \in Seq(Nat) /\ Windowed(in, got)
    BY <1>1 DEF StreamInv, ReaderTypes, Pointers, Window, Reading
  <1>3. PICK c \in 0..Len(got) :
          /\ in.rdNext = in.stopUnget + c
          /\ \A i \in 1..c : got[Len(got) - c + i] = in.stopUnget + i - 1
    BY <1>1, <1>2 DEF Windowed
  <1>4. PICK w \in Nat, l \in Nat, a \in Nat :
          w = in.stopUnget /\ l = Len(got) /\ a = in.rdNext
    BY <1>2 DEF Streams
  <1>5. c \in 1..l /\ l >= 1 /\ a = w + c /\ a - 1 \in Nat
    BY <1>1, <1>3, <1>4
  <1>6. /\ got' \in Seq(Nat) /\ Len(got') = l - 1 /\ \A i \in 1..(l - 1) : got'[i] = got[i]
    <2>1. l - 1 \in 0..Len(got)
      BY <1>4, <1>5
    <2>2. got' = SubSeq(got, 1, l - 1)
      BY <1>1, <1>4
    <2>3. /\ SubSeq(got, 1, l - 1) \in Seq(Nat) /\ Len(SubSeq(got, 1, l - 1)) = l - 1
          /\ \A i \in 1..(l - 1) : SubSeq(got, 1, l - 1)[i] = got[i]
      <3>1. 1 \in 1..(Len(got) + 1) /\ l - 1 \in (1 - 1)..Len(got) /\ (l - 1) - 1 + 1 = l - 1
        BY <1>4, <1>5
      <3>2. \A i \in 1..(l - 1) : i \in 1..((l - 1) - 1 + 1) /\ 1 + i - 1 = i
        BY <3>1
      <3>3. /\ SubSeq(got, 1, l - 1) \in Seq(Nat)
            /\ Len(SubSeq(got, 1, l - 1)) = (l - 1) - 1 + 1
            /\ \A i \in 1..((l - 1) - 1 + 1) : SubSeq(got, 1, l - 1)[i] = got[1 + i - 1]
        BY <1>2, <3>1, SubSeqProperties
      <3> QED
        BY <3>1, <3>2, <3>3
    <2> QED
      BY <2>2, <2>3
  <1>7. /\ in' \in Streams /\ in'.rdNext = a - 1 /\ in'.stop = in.stop
        /\ in'.stopUnget = in.stopUnget /\ in'.buffStop = in.buffStop
        /\ in'.type = in.type /\ in'.isClosed = in.isClosed /\ in'.errno = in.errno
    BY <1>1, <1>2, <1>4, <1>5 DEF Streams
  <1>8. ReaderTypes'
    BY <1>1, <1>6, <1>7 DEF StreamInv, ReaderTypes
  <1>9. Pointers'
    <2>1. Ordered(in') /\ in'.rdNext <= in'.stop
      <3>1. /\ in.stop \in Nat /\ in.stopUnget \in Nat /\ in.buffStop \in Nat
            /\ in.base \in Nat /\ in.rdNext \in Nat
        BY <1>2 DEF Streams
      <3> QED
        BY <1>2, <1>4, <1>7, <3>1 DEF Ordered
    <2>2. Total' = Total
      BY <1>1 DEF Total, Start
    <2> QED
      BY <1>2, <1>7, <2>1, <2>2 DEF Pointers
  <1>10. Phases'
    BY <1>1, <1>7 DEF StreamInv, Phases, Reading
  <1>11. Window'
    <2>1. c - 1 \in 0..Len(got') /\ in'.rdNext = in'.stopUnget + (c - 1)
      BY <1>3, <1>4, <1>5, <1>6, <1>7
    <2>2. ASSUME NEW i \in 1..(c - 1)
          PROVE  got'[Len(got') - (c - 1) + i] = in'.stopUnget + i - 1
      <3>1. /\ Len(got') - (c - 1) + i = l - c + i /\ l - c + i \in 1..(l - 1) /\ i \in 1..c
        BY <1>5, <1>6
      <3>2. got[l - c + i] = w + i - 1
        BY <1>3, <1>4, <3>1
      <3> QED
        BY <1>4, <1>6, <1>7, <3>1, <3>2
    <2> QED
      BY <2>1, <2>2 DEF Window, Windowed
  <1> QED
    BY <1>8, <1>9, <1>10, <1>11 DEF StreamInv

\* It asks for the second stream of a filter.
LEMMA StartFilterDataStreams ==
  ASSUME StreamInv, StartFilterData
  PROVE  StreamInv'
  <1>1. /\ pc = "idle" /\ in.type = "STDIN"
        /\ UNCHANGED <<script, rest, req, pc, headerLen, nested, half, want, vec, replies>>
    BY DEF StartFilterData, Idle
  <1>2. /\ in \in Streams /\ Ordered(in) /\ in.buffStop <= Total /\ Total' = Total
        /\ "DATA" \in StreamTypes /\ "callSeq" \in Errors \ {"none"}
    BY <1>1 DEF StreamInv, ReaderTypes, Pointers, Total, Start, StreamTypes, Errors
  <1>3. CASE in' = SetReaderType(in, "DATA") /\ got' = <<>>
    <2>1. /\ in' \in Streams /\ in'.rdNext = in.rdNext /\ in'.stop = in.rdNext
          /\ in'.stopUnget = in.stopUnget /\ in'.buffStop = in.buffStop
          /\ in'.type = "DATA" /\ ~in'.isClosed
      BY <1>2, <1>3, SetReaderTypeFacts
    <2>2. ReaderTypes'
      BY <1>1, <1>3, <2>1 DEF StreamInv, ReaderTypes
    <2>3. Pointers'
      <3>1. in'.rdNext <= in'.stop /\ Ordered(in')
        BY <1>2, <2>1 DEF Ordered, Streams
      <3> QED
        BY <1>2, <2>1, <3>1 DEF Pointers
    <2>4. Phases'
      BY <1>1, <1>3, <2>1 DEF StreamInv, Phases, Reading
    <2>5. Window'
      BY <1>3, <2>1 DEF Window, Windowed
    <2> QED
      BY <2>2, <2>3, <2>4, <2>5 DEF StreamInv
  <1>4. CASE in' = SetError(in, "callSeq") /\ got' = got
    <2>1. /\ in' \in Streams /\ in'.rdNext = in.rdNext /\ in'.stop = in.stop
          /\ in'.stopUnget = in.stopUnget /\ in'.buffStop = in.buffStop
          /\ in'.type = in.type /\ in'.isClosed
      BY <1>2, <1>4, SetErrorFacts
    <2>2. ReaderTypes'
      BY <1>1, <1>4, <2>1 DEF StreamInv, ReaderTypes
    <2>3. Pointers'
      BY <1>2, <2>1 DEF Pointers, Ordered
    <2>4. Phases'
      BY <1>1, <1>4, <2>1 DEF StreamInv, Phases, Reading
    <2>5. Window'
      BY <2>1 DEF Window
    <2> QED
      BY <2>2, <2>3, <2>4, <2>5 DEF StreamInv
  <1> QED
    BY <1>3, <1>4 DEF StartFilterData

\* The records of another request follow those sent so far.
LEMMA NextRequestSent ==
  ASSUME script \in Seq(Sent), rest \in Seq(Seq(Sent)), rest # <<>>,
         script' = script \o Head(rest), rest' = Tail(rest)
  PROVE  /\ script' \in Seq(Sent) /\ rest' \in Seq(Seq(Sent)) /\ Len(script) <= Len(script')
         /\ \A k \in 1..Len(script) : script'[k] = script[k]
         /\ \A k \in 1..(Len(script) + 1) : Start(k)' = Start(k)
         /\ Total \in Nat /\ Total' \in Nat /\ Total <= Total'
  <1>1. PICK t \in Seq(Sent) : t = Head(rest)
    OBVIOUS
  <1>2. /\ script \o t \in Seq(Sent) /\ Len(script \o t) = Len(script) + Len(t)
        /\ \A k \in 1..Len(script) : (script \o t)[k] = script[k]
    OBVIOUS
  <1>3. /\ script' \in Seq(Sent) /\ Len(script') = Len(script) + Len(t)
        /\ \A k \in 1..Len(script) : script'[k] = script[k]
    BY <1>1, <1>2
  <1>4. rest' \in Seq(Seq(Sent))
    <2>1. Tail(rest) \in Seq(Seq(Sent))
      OBVIOUS
    <2> QED
      BY <2>1
  <1>5. script \in Seq(Records) /\ script' \in Seq(Records) /\ Len(script) \in Nat /\ Len(t) \in Nat
    BY <1>3 DEF Sent
  <1>6. \A k \in 1..(Len(script) + 1) : Offset(script', k) = Offset(script, k)
    <2>1. Len(script) <= Len(script')
      BY <1>3, <1>5
    <2>2. PICK ss \in Seq(Records) : ss = script'
      BY <1>5
    <2> QED
      BY <1>3, <1>5, <2>1, <2>2, OffsetKept
  <1>7. \A k \in 1..(Len(script) + 1) : Start(k)' = Start(k)
    BY <1>6 DEF Start
  <1>8. Total \in Nat /\ Total' \in Nat /\ Total <= Total'
    <2>1. Total = Offset(script, Len(script) + 1) /\ Total' = Offset(script', Len(script') + 1)
      BY DEF Total, Start
    <2>2. PICK ss \in Seq(Records), n \in Nat, m \in Nat :
            ss = script' /\ n = Len(script) /\ m = Len(ss)
      <3>1. PICK ss \in Seq(Records) : ss = script'
        BY <1>5
      <3>2. PICK n \in Nat, m \in Nat : n = Len(script) /\ m = Len(ss)
        BY <1>5
      <3> QED
        BY <3>1, <3>2
    <2>3. n <= m /\ n + 1 \in 1..(m + 1) /\ m + 1 \in 1..(m + 1) /\ n + 1 \in 1..(n + 1)
      BY <1>3, <1>5, <2>2
    <2>4. Total = Offset(ss, n + 1) /\ Total' = Offset(ss, m + 1)
      BY <1>6, <2>1, <2>2, <2>3
    <2>5. Offset(ss, n + 1) \in Nat /\ Offset(ss, m + 1) \in Nat
      BY <2>2, <2>3, OffsetFacts
    <2>6. CASE n = m
      BY <2>4, <2>5, <2>6
    <2>7. CASE n # m
      <3>1. n + 1 < m + 1
        BY <2>3, <2>7
      <3>2. n + 1 \in 1..m /\ Offset(ss, n + 1) + Size(ss[n + 1]) <= Offset(ss, m + 1)
        BY <2>2, <2>3, <3>1, OffsetOrder
      <3>3. Size(ss[n + 1]) \in Nat
        BY <2>2, <3>2, SizeFacts
      <3> QED
        BY <2>4, <2>5, <3>2, <3>3
    <2> QED
      BY <2>6, <2>7
  <1>9. Len(script) <= Len(script')
    BY <1>3, <1>5
  <1> QED
    BY <1>3, <1>4, <1>7, <1>8, <1>9

\* It accepts the next request of the connection.
LEMMA AcceptAgainStreams ==
  ASSUME StreamInv, AcceptAgain
  PROVE  StreamInv'
  <1>1. /\ pc = "idle" /\ rest # <<>>
        /\ script' = script \o Head(rest) /\ rest' = Tail(rest)
        /\ in' = NewReader(in.buffStop) /\ req' = [req EXCEPT !.begun = FALSE]
        /\ pc' = "fill" /\ got' = <<>> /\ replies' = <<>>
        /\ UNCHANGED <<headerLen, nested, half, want, vec>>
    BY DEF AcceptAgain, Idle
  <1>2. /\ in \in Streams /\ req \in Requests /\ in.buffStop <= Total /\ in.buffStop \in Nat
        /\ script \in Seq(Sent) /\ rest \in Seq(Seq(Sent)) /\ half = 0
    BY <1>1 DEF StreamInv, ReaderTypes, Pointers, Phases, Streams
  <1>3. /\ script' \in Seq(Sent) /\ rest' \in Seq(Seq(Sent)) /\ Len(script) <= Len(script')
        /\ Total \in Nat /\ Total' \in Nat /\ Total <= Total'
    BY <1>1, <1>2, NextRequestSent
  <1>4. /\ in' \in Streams /\ in'.rdNext = in.buffStop /\ in'.stop = in.buffStop
        /\ in'.stopUnget = in.buffStop /\ in'.buffStop = in.buffStop /\ in'.type = "NONE"
        /\ ~in'.isClosed /\ in'.errno = "none"
    BY <1>1, <1>2 DEF NewReader, Streams, StreamTypes, Errors
  <1>5. req' \in Requests /\ ~req'.begun
    BY <1>1, <1>2 DEF Requests
  <1>6. ReaderTypes'
    BY <1>1, <1>3, <1>4, <1>5 DEF StreamInv, ReaderTypes
  <1>7. Pointers'
    BY <1>1, <1>2, <1>3, <1>4 DEF Pointers, Ordered, Reading
  <1>8. Phases'
    BY <1>1, <1>2, <1>4, <1>5 DEF StreamInv, Phases, Reading
  <1>9. Window'
    BY <1>1 DEF Window
  <1> QED
    BY <1>6, <1>7, <1>8, <1>9 DEF StreamInv

\* Types and pointers are in order at the start.
LEMMA InitStreams ==
  ASSUME ReaderInit
  PROVE  StreamInv
  <1>1. PICK c \in Connections : script = Head(c) /\ rest = Tail(c)
    BY DEF ReaderInit
  <1>2. c \in Seq(Seq(Sent)) /\ c # <<>>
    BY <1>1, ConnectionsSent
  <1>3. script \in Seq(Sent) /\ rest \in Seq(Seq(Sent))
    <2>1. Head(c) \in Seq(Sent) /\ Tail(c) \in Seq(Seq(Sent))
      BY <1>2
    <2> QED
      BY <1>1, <2>1
  <1>4. /\ in = NewReader(0) /\ pc = "fill" /\ headerLen = 0 /\ nested = 0 /\ half = 0 /\ want = 0
        /\ req = [id |-> NullId, begun |-> FALSE, role |-> "NONE", keep |-> FALSE, first |-> 0]
        /\ vec = NewParams(VecLen) /\ got = <<>> /\ replies = <<>>
    BY DEF ReaderInit
  <1>5. /\ in \in Streams /\ in.rdNext = 0 /\ in.stop = 0 /\ in.stopUnget = 0 /\ in.buffStop = 0
        /\ in.type = "NONE" /\ ~in.isClosed
    BY <1>4 DEF NewReader, Streams, StreamTypes, Errors
  <1>6. req \in Requests /\ ~req.begun
    BY <1>4 DEF Requests
  <1>7. ReaderTypes
    <2>1. vec \in Vectors
      BY <1>4, ReaderAssumption DEF NewParams, Vectors
    <2>2. 0 \in 0..(HeadLen - 1) /\ 0 \in 0..MaxRead
      BY ReaderAssumption
    <2> QED
      BY <1>3, <1>4, <1>5, <1>6, <2>1, <2>2 DEF ReaderTypes
  <1>8. Pointers
    <2>1. Total \in Nat
      BY <1>3, ScriptFacts
    <2> QED
      BY <1>4, <1>5, <2>1 DEF Pointers, Ordered, Reading
  <1>9. Phases
    BY <1>4, <1>5, <1>6 DEF Phases, Reading
  <1>10. Window
    BY <1>4 DEF Window
  <1> QED
    BY <1>7, <1>8, <1>9, <1>10 DEF StreamInv

\* Every step keeps what holds of every connection.
LEMMA NextStreams ==
  ASSUME StreamInv, [ReaderNext]_readerVars
  PROVE  StreamInv'
  <1>1. CASE OS_Read
    BY <1>1, OS_ReadStreams
  <1>2. CASE OS_ReadFails
    BY <1>2, OS_ReadFailsStreams
  <1>3. CASE Deliver
    BY <1>3, DeliverStreams
  <1>4. CASE NextRecord
    BY <1>4, NextRecordStreams
  <1>5. CASE GetChar \/ GetLine(MaxRead + 1)
    <2>1. PICK n \in 1..MaxRead : GetStr(n)
      <3>1. MaxRead \in Nat \ {0} /\ 1 \in 1..MaxRead /\ 2..((MaxRead + 1) - 1) \subseteq 1..MaxRead
        BY ReaderAssumption
      <3> QED
        BY <1>5, <3>1 DEF GetChar, GetLine
    <2> QED
      BY <2>1, GetStrStreams
  <1>6. CASE UnGetChar
    BY <1>6, UnGetCharStreams
  <1>7. CASE StartFilterData
    BY <1>7, StartFilterDataStreams
  <1>8. CASE AcceptAgain
    BY <1>8, AcceptAgainStreams
  <1>9. CASE UNCHANGED readerVars
    BY <1>9 DEF readerVars, StreamInv, ReaderTypes, Pointers, Phases, Window, Windowed, Ordered,
       Total, Start, Reading
  <1> QED
    BY <1>1, <1>2, <1>3, <1>4, <1>5, <1>6, <1>7, <1>8, <1>9
    DEF ReaderNext, ReaderStep, ApplicationReads

---------------------------------------------------------------------------
(***************************************************************************)
(* Where the reader is.                                                    *)
(***************************************************************************)

\* What depends on the connection and the request only.
LEMMA FrameFacts ==
  ASSUME script' = script, in'.base = in.base, req'.id = req.id, req'.first = req.first
  PROVE  /\ Seen' = Seen /\ (PaddingFollowed' <=> PaddingFollowed) /\ (Regular' <=> Regular) /\ Due' = Due
         /\ \A k : Start(k)' = Start(k)
         /\ \A t : Own(t)' = Own(t) /\ Ends(t)' = Ends(t) /\ Carried(t)' = Carried(t)
                   /\ Content(t)' = Content(t)
  <1>1. \A k : Start(k)' = Start(k) /\ Body(k)' = Body(k)
    BY DEF Start, Body
  <1>2. Seen' = Seen
    BY <1>1 DEF Seen
  <1>3. \A p : Aligned(p)' <=> Aligned(p)
    BY <1>1 DEF Aligned
  <1>4. PaddingFollowed' <=> PaddingFollowed
    <2>1. Aligned(in.base)' <=> Aligned(in.base)
      BY <1>1 DEF Aligned
    <2> QED
      BY <1>2, <2>1 DEF PaddingFollowed
  <1>5. Regular' <=> Regular
    <2>1. Aligned(in.base)' <=> Aligned(in.base)
      BY <1>1 DEF Aligned
    <2>2. \A k : Unfollowed(script[k])' <=> Unfollowed(script[k])
      BY DEF Unfollowed
    <2> QED
      BY <1>2, <2>1, <2>2 DEF Regular
  <1>6. Due' = Due
    <2>1. \A k : Expected(k)' = Expected(k)
      BY DEF Expected
    <2> QED
      BY <1>2, <2>1 DEF Due
  <1>7. \A t : Own(t)' = Own(t)
    BY DEF Own
  <1>8. \A t : Ends(t)' = Ends(t)
    BY <1>7 DEF Ends
  <1>9. \A t : Carried(t)' = Carried(t)
    BY <1>1, <1>7, <1>8 DEF Carried
  <1>10. \A t : Content(t)' = Content(t)
    BY <1>1, <1>7, <1>8 DEF Content
  <1> QED
    BY <1>1, <1>2, <1>4, <1>5, <1>6, <1>7, <1>8, <1>9, <1>10

\* A record of the stream carries its content, up to the record that ends it.
LEMMA CarriedFacts ==
  ASSUME script \in Seq(Sent), NEW t
  PROVE  /\ \A k \in 1..Len(script) : Carried(t)[k] \in Seq(Nat)
         /\ Content(t) = Joined(Carried(t), Len(script))
         /\ \A k \in 1..Len(script) : k \notin Own(t) => Carried(t)[k] = <<>>
         /\ \A k \in 1..Len(script) : \A e \in Ends(t) : e <= k => Carried(t)[k] = <<>>
         /\ \A k \in Own(t) : (\A e \in Ends(t) : e > k) =>
              Carried(t)[k] = Units(Start(k) + HeadLen, Start(k) + HeadLen + script[k].len)
         /\ Own(t) \subseteq 1..Len(script) /\ Ends(t) \subseteq Own(t)
  <1>1. /\ Len(script) \in Nat /\ DOMAIN script = 1..Len(script) /\ HeadLen \in Nat
        /\ Own(t) \subseteq 1..Len(script) /\ Ends(t) \subseteq Own(t)
    BY ScriptFacts, ReaderAssumption DEF Own, Ends
  <1>2. ASSUME NEW k \in 1..Len(script)
        PROVE  /\ Body(k) \in Seq(Nat)
               /\ Body(k) = Units(Start(k) + HeadLen, Start(k) + HeadLen + script[k].len)
    <2>1. PICK a \in Nat, n \in Nat : a = Start(k) + HeadLen /\ n = script[k].len
      <3>1. k \in 1..(Len(script) + 1)
        BY <1>1
      <3>2. Start(k) \in Nat /\ script[k].len \in Nat
        BY <3>1, ScriptFacts
      <3>3. PICK n \in Nat : n = script[k].len
        BY <3>2
      <3>4. Start(k) + HeadLen \in Nat
        BY <1>1, <3>2
      <3>5. PICK a \in Nat : a = Start(k) + HeadLen
        BY <3>4
      <3> QED
        BY <3>3, <3>5
    <2>2. Body(k) = [i \in 1..n |-> a + i - 1]
      BY <2>1 DEF Body
    <2>3. Units(a, a + n) = [i \in 1..n |-> a + i - 1]
      <3>1. (a + n) - a = n
        BY <2>1
      <3> QED
        BY <3>1 DEF Units
    <2>4. [i \in 1..n |-> a + i - 1] \in Seq(Nat)
      BY <2>1
    <2> QED
      BY <2>1, <2>2, <2>3, <2>4
  <1>3. ASSUME NEW k \in 1..Len(script)
        PROVE  Carried(t)[k] = IF k \in Own(t) /\ \A e \in Ends(t) : k < e THEN Body(k) ELSE <<>>
    BY <1>1 DEF Carried
  <1>4. \A k \in 1..Len(script) : Carried(t)[k] \in Seq(Nat)
    <2>1. <<>> \in Seq(Nat)
      OBVIOUS
    <2> QED
      BY <1>2, <1>3, <2>1
  <1>5. Content(t) = Joined(Carried(t), Len(script))
    <2>1. Carried(t) = [i \in 1..Len(script) |-> Carried(t)[i]]
      BY <1>1 DEF Carried
    <2>2. Content(t) = FlattenSeq(Carried(t))
      BY DEF Content, Carried
    <2> QED
      BY <2>1, <2>2 DEF Joined
  <1>6. \A k \in 1..Len(script) : \A e \in Ends(t) : e <= k => Carried(t)[k] = <<>>
    <2> SUFFICES ASSUME NEW k \in 1..Len(script), NEW e \in Ends(t), e <= k
                 PROVE  ~(k < e)
      BY <1>3
    <2>1. e \in Int /\ k \in Int
      BY <1>1
    <2> QED
      BY <2>1
  <1>7. \A k \in Own(t) : (\A e \in Ends(t) : e > k) => \A e \in Ends(t) : k < e
    BY <1>1
  <1> QED
    BY <1>1, <1>2, <1>3, <1>4, <1>5, <1>6, <1>7

\* Records that are not the stream's add nothing.
LEMMA NothingCarried ==
  ASSUME script \in Seq(Sent), NEW t, NEW k \in 0..Len(script), \A j \in Own(t) : j > k
  PROVE  Joined(Carried(t), k) = <<>>
  <1>1. /\ Len(script) \in Nat /\ k \in Nat /\ 0 \in 0..k
        /\ \A i \in 1..k : i \in 1..Len(script) /\ ~(i > k) /\ i \in 1..k
    BY ScriptFacts
  <1>2. \A i \in 1..k : Carried(t)[i] \in Seq(Nat) /\ Carried(t)[i] = <<>>
    BY <1>1, CarriedFacts
  <1>3. \A i \in (0 + 1)..k : Carried(t)[i] = <<>>
    BY <1>2
  <1>4. Joined(Carried(t), k) = Joined(Carried(t), 0)
    BY <1>1, <1>2, <1>3, JoinedEmptyUnits
  <1>5. Joined(Carried(t), 0) = <<>>
    BY <1>1, <1>2, JoinedUnits
  <1> QED
    BY <1>4, <1>5

\* One more record, and what it adds.
LEMMA NextCarried ==
  ASSUME script \in Seq(Sent), NEW t, NEW k \in 1..Len(script)
  PROVE  /\ Joined(Carried(t), k) = Joined(Carried(t), k - 1) \o Carried(t)[k]
         /\ Joined(Carried(t), k) \in Seq(Nat) /\ Joined(Carried(t), k - 1) \in Seq(Nat)
         /\ Carried(t)[k] = <<>> => Joined(Carried(t), k) = Joined(Carried(t), k - 1)
  <1>1. Len(script) \in Nat /\ k \in 0..Len(script) /\ k - 1 \in 0..Len(script)
    BY ScriptFacts
  <1>2. \A i \in 1..Len(script) : Carried(t)[i] \in Seq(Nat)
    BY CarriedFacts
  <1>3. /\ \A j \in 0..Len(script) : Joined(Carried(t), j) \in Seq(Nat)
        /\ \A j \in 1..Len(script) : Joined(Carried(t), j) = Joined(Carried(t), j - 1) \o Carried(t)[j]
    <2>0. PICK n \in Nat : n = Len(script)
      BY <1>1
    <2>1. PICK fs : fs = Carried(t)
      OBVIOUS
    <2>2. n \in Nat /\ \A i \in 1..n : fs[i] \in Seq(Nat)
      BY <1>2, <2>0, <2>1
    <2>3. \A j \in 0..n : Joined(fs, j) \in Seq(Nat)
      BY <2>2, JoinedUnits
    <2>4. \A j \in 1..n : Joined(fs, j) = Joined(fs, j - 1) \o fs[j]
      BY <2>2, JoinedUnits
    <2> QED
      BY <2>0, <2>1, <2>3, <2>4
  <1>4. PICK a \in Seq(Nat) : a = Joined(Carried(t), k - 1)
    BY <1>1, <1>3
  <1>5. a \o <<>> = a
    OBVIOUS
  <1> QED
    BY <1>1, <1>3, <1>4, <1>5

\* All that is carried has been joined when the end of the stream is reached.
LEMMA AllCarried ==
  ASSUME script \in Seq(Sent), NEW t, NEW k \in 0..Len(script),
         \E e \in Ends(t) : e <= k + 1
  PROVE  Joined(Carried(t), k) = Content(t)
  <1>1. PICK e \in Ends(t) : e <= k + 1
    OBVIOUS
  <1>2. /\ Len(script) \in Nat /\ k \in Nat /\ e \in 1..Len(script)
        /\ \A i \in (k + 1)..Len(script) : i \in 1..Len(script) /\ e <= i
    BY <1>1, ScriptFacts, CarriedFacts
  <1>3. \A i \in 1..Len(script) : Carried(t)[i] \in Seq(Nat)
    BY CarriedFacts
  <1>4. \A i \in (k + 1)..Len(script) : Carried(t)[i] = <<>>
    BY <1>2, CarriedFacts
  <1>5. Joined(Carried(t), Len(script)) = Joined(Carried(t), k)
    <2>1. PICK n \in Nat : n = Len(script)
      BY <1>2
    <2>2. PICK fs : fs = Carried(t)
      OBVIOUS
    <2>3. /\ n \in Nat /\ \A i \in 1..n : fs[i] \in Seq(Nat)
          /\ k \in 0..n /\ \A i \in (k + 1)..n : fs[i] = <<>>
      BY <1>3, <1>4, <2>1, <2>2
    <2> HIDE <1>1
    <2>4. Joined(fs, n) = Joined(fs, k)
      <3>1. PICK m \in Nat : m = k
        BY <1>2
      <3>2. n \in Nat /\ m \in 0..n
        BY <2>3, <3>1
      <3>3. \A i \in 1..n : fs[i] \in Seq(Nat)
        BY <2>3
      <3>4. \A i \in (m + 1)..n : fs[i] = <<>>
        BY <2>3, <3>1
      <3>5. Joined(fs, n) = Joined(fs, m)
        BY <3>2, <3>3, <3>4, JoinedEmptyUnits
      <3> QED
        BY <3>1, <3>5
    <2> QED
      BY <2>1, <2>2, <2>4
  <1> QED
    BY <1>5, CarriedFacts

\* What each record seen adds to the replies.
LEMMA DueFacts ==
  ASSUME script \in Seq(Sent)
  PROVE  /\ \A k \in 1..Len(script) : Due[k] \in Seq(Answers)
         /\ \A k \in 1..Len(script) : Due[k] = IF k \in Seen THEN Expected(k) ELSE <<>>
         /\ Joined(Due, 0) = <<>>
         /\ \A k \in 1..Len(script) : Joined(Due, k) = Joined(Due, k - 1) \o Due[k]
         /\ \A k \in 0..Len(script) : Joined(Due, k) \in Seq(Answers)
  <1>1. Len(script) \in Nat /\ DOMAIN script = 1..Len(script)
    BY ScriptFacts
  <1>2. \A k \in 1..Len(script) : Due[k] = IF k \in Seen THEN Expected(k) ELSE <<>>
    BY <1>1 DEF Due
  <1>3. \A k : Expected(k) \in Seq(Answers)
    <2>1. \A x \in Answers : <<x>> \in Seq(Answers)
      OBVIOUS
    <2>2. <<>> \in Seq(Answers)
      OBVIOUS
    <2>3. /\ <<"GET_VALUES_RESULT">> \in Seq(Answers) /\ <<"UNKNOWN_TYPE">> \in Seq(Answers)
          /\ <<"CANT_MPX_CONN">> \in Seq(Answers)
      <3>1. "GET_VALUES_RESULT" \in Answers /\ "UNKNOWN_TYPE" \in Answers
            /\ "CANT_MPX_CONN" \in Answers
        BY DEF Answers
      <3> QED
        BY <2>1, <3>1
    <2> DEFINE A == Seq(Answers)
               a == <<"GET_VALUES_RESULT">>
               b == <<"UNKNOWN_TYPE">>
               c == <<"CANT_MPX_CONN">>
               z == <<>>
    <2>4. \A k : Expected(k) \in {a, b, c, z}
      BY DEF Expected
    <2> HIDE DEF A, a, b, c, z
    <2>5. a \in A /\ b \in A /\ c \in A /\ z \in A
      BY <2>2, <2>3 DEF A, a, b, c, z
    <2>6. \A k : Expected(k) \in A
      BY <2>4, <2>5
    <2> QED
      BY <2>6 DEF A
  <1>4. \A k \in 1..Len(script) : Due[k] \in Seq(Answers)
    <2>1. <<>> \in Seq(Answers)
      OBVIOUS
    <2> QED
      BY <1>2, <1>3, <2>1
  <1>5. PICK n \in Nat : n = Len(script)
    BY <1>1
  <1>6. \A i \in 1..n : Due[i] \in Seq(Answers)
    BY <1>4, <1>5
  <1>7. Joined(Due, 0) = <<>>
    BY <1>6, JoinedFacts
  <1>8. \A j \in 0..n : Joined(Due, j) \in Seq(Answers)
    BY <1>6, JoinedFacts
  <1>9. \A j \in 1..n : Joined(Due, j) = Joined(Due, j - 1) \o Due[j]
    BY <1>6, JoinedFacts
  <1> QED
    BY <1>2, <1>4, <1>5, <1>7, <1>8, <1>9

\* One more answer.
LEMMA NextDue ==
  ASSUME script \in Seq(Sent), NEW k \in 1..Len(script), NEW x \in Answers,
         Due[k] = <<x>>, replies = Joined(Due, k - 1)
  PROVE  Append(replies, x) = Joined(Due, k)
  <1>1. Len(script) \in Nat /\ k - 1 \in 0..Len(script)
    BY ScriptFacts
  <1>2. Joined(Due, k) = replies \o <<x>> /\ replies \in Seq(Answers)
    BY <1>1, DueFacts
  <1>3. replies \o <<x>> = Append(replies, x)
    BY <1>2
  <1> QED
    BY <1>2, <1>3

\* A record that asks for no answer adds none.
LEMMA NothingDue ==
  ASSUME script \in Seq(Sent), NEW k \in 1..Len(script), Due[k] = <<>>
  PROVE  Joined(Due, k) = Joined(Due, k - 1)
  <1>1. Len(script) \in Nat /\ k - 1 \in 0..Len(script)
    BY ScriptFacts
  <1>2. PICK a \in Seq(Answers) : a = Joined(Due, k - 1)
    BY <1>1, DueFacts
  <1>3. a \o <<>> = a
    OBVIOUS
  <1> QED
    BY <1>2, <1>3, DueFacts

\* Return keeps the error there is, and adds one at the end of the parameters only.
LEMMA ReturnErrors ==
  ASSUME NEW s \in Streams, NEW q, Return(s, q)
  PROVE  /\ in'.base = s.base
         /\ in'.errno = s.errno \/ (s.errno = "none" /\ in'.errno = "params")
  <1>1. {"STDIN", "PARAMS"} \subseteq StreamTypes /\ "params" \in Errors \ {"none"}
    BY DEF StreamTypes, Errors
  <1>2. CASE in' = s
    BY <1>2
  <1>3. ASSUME NEW t \in {"STDIN", "PARAMS"}, in' = SetReaderType(s, t)
        PROVE  in'.base = s.base /\ in'.errno = s.errno
    BY <1>1, <1>3, SetReaderTypeFacts
  <1>4. CASE in' = SetError(s, "params")
    BY <1>1, <1>4, SetErrorFacts
  <1>5. ASSUME NEW a, NEW b, in' = [s EXCEPT !.stopUnget = a, !.rdNext = b]
        PROVE  in'.base = s.base /\ in'.errno = s.errno
    BY <1>5 DEF Streams
  <1>6. BeginReturned(s, q) => in' = s \/ in' = SetReaderType(s, "PARAMS")
    BY DEF BeginReturned
  <1>7. ParamsReturned(s) =>
          \/ in' = SetError(s, "params") \/ in' = SetReaderType(s, "STDIN")
          \/ in' = [s EXCEPT !.stopUnget = s.rdNext, !.rdNext = s.stop]
    BY DEF ParamsReturned, ParamsEnd
  <1>8. StrReturned(s) =>
          \/ in' = s \/ \E m : in' = [s EXCEPT !.stopUnget = s.rdNext, !.rdNext = s.rdNext + m]
    BY DEF StrReturned, Streams
  <1>9. BeginReturned(s, q) \/ ParamsReturned(s) \/ StrReturned(s)
    BY DEF Return
  <1> QED
    BY <1>2, <1>3, <1>4, <1>5, <1>6, <1>7, <1>8, <1>9

\* A failure leaves an error: the one there was, or its own.
LEMMA FailedErrors ==
  ASSUME NEW s \in Streams, NEW e \in Errors \ {"none"}, Failed(s, e)
  PROVE  /\ in'.base = s.base /\ in'.errno # "none"
         /\ in'.errno = IF s.errno = "none" THEN e ELSE s.errno
  <1>1. PICK r : r = SetError(s, e) /\ Return(r, req)
    BY DEF Failed
  <1>2. /\ r \in Streams /\ r.base = s.base /\ r.errno # "none"
        /\ r.errno = IF s.errno = "none" THEN e ELSE s.errno
    BY <1>1, SetErrorFacts
  <1> QED
    BY <1>1, <1>2, ReturnErrors

\* After an error nothing is said of the place, and it is not taken for another.
LEMMA BrokenKeeps ==
  ASSUME script' = script, in'.base = in.base, in'.errno # "none",
         PaddingFollowed => in'.errno # "version"
  PROVE  HeadersFound' /\ Placed'
  <1>1. Seen' = Seen /\ (Aligned(in.base)' <=> Aligned(in.base))
    BY DEF Seen, Start, Aligned
  <1>2. PaddingFollowed' <=> PaddingFollowed
    BY <1>1 DEF PaddingFollowed
  <1> QED
    BY <1>2 DEF HeadersFound, Placed

\* Nothing is said either when Accept_r gives the connection up.
LEMMA GivenUpKeeps ==
  ASSUME HeadersFound, script' = script, in'.base = in.base, in'.errno = in.errno, pc' = "retry"
  PROVE  HeadersFound' /\ Placed'
  <1>1. Seen' = Seen /\ (Aligned(in.base)' <=> Aligned(in.base))
    BY DEF Seen, Start, Aligned
  <1>2. PaddingFollowed' <=> PaddingFollowed
    BY <1>1 DEF PaddingFollowed
  <1> QED
    BY <1>2 DEF HeadersFound, Placed

\* What depends on the connection only.
LEMMA ConnectionKept ==
  ASSUME script' = script, in'.base = in.base
  PROVE  /\ Seen' = Seen /\ (PaddingFollowed' <=> PaddingFollowed) /\ Total' = Total
         /\ \A k : Start(k)' = Start(k)
  <1>1. Seen' = Seen /\ (Aligned(in.base)' <=> Aligned(in.base)) /\ Total' = Total
    BY DEF Seen, Start, Aligned, Total
  <1>2. PaddingFollowed' <=> PaddingFollowed
    BY <1>1 DEF PaddingFollowed
  <1>3. \A k : Start(k)' = Start(k)
    BY DEF Start
  <1> QED
    BY <1>1, <1>2, <1>3

\* The types of the reader's parts, one by one.
LEMMA ReaderFacts ==
  ASSUME StreamInv
  PROVE  /\ script \in Seq(Sent) /\ Len(script) \in Nat
         /\ in \in Streams /\ in.rdNext \in Nat /\ in.stop \in Nat /\ in.stopUnget \in Nat
         /\ in.buffStop \in Nat /\ in.contentLen \in Nat /\ in.paddingLen \in Nat
         /\ in.base \in Nat /\ in.type \in StreamTypes /\ in.errno \in Errors
         /\ in.buffStop <= Total /\ in.rdNext <= in.buffStop
         /\ req \in Requests /\ req.first \in Nat
         /\ got \in Seq(Nat) /\ replies \in Seq(Answers)
         /\ headerLen \in Nat /\ headerLen < HeadLen /\ HeadLen \in Nat
         /\ half \in {0, 1} /\ want \in Nat /\ nested \in Nat /\ vec \in Vectors
  <1>1. HeadLen \in Nat
    BY ReaderAssumption
  <1>2. ReaderTypes /\ Pointers
    BY DEF StreamInv
  <1>3. headerLen \in Nat /\ headerLen < HeadLen /\ want \in Nat
    BY <1>1, <1>2, ReaderAssumption DEF ReaderTypes
  <1>4. in \in Streams /\ req \in Requests
    BY <1>2 DEF ReaderTypes
  <1>5. /\ in.rdNext \in Nat /\ in.stop \in Nat /\ in.stopUnget \in Nat
        /\ in.buffStop \in Nat /\ in.contentLen \in Nat /\ in.paddingLen \in Nat
        /\ in.base \in Nat /\ in.type \in StreamTypes /\ in.errno \in Errors
    BY <1>4 DEF Streams
  <1>6. req.first \in Nat
    BY <1>4 DEF Requests
  <1> QED
    BY <1>1, <1>2, <1>3, <1>4, <1>5, <1>6 DEF ReaderTypes, Pointers, Ordered

\* Where the reader is, when nothing failed.
LEMMA Somewhere ==
  ASSUME Placed, PaddingFollowed, in.errno = "none", Reading \/ pc = "idle"
  PROVE  \E k, t : Here(k, t)
  BY DEF Placed, Reading

\* Why the reader comes after record k or goes on inside it: what Here demands of a
\* step that leaves the connection and the request alone.
LEMMA HereAgain ==
  ASSUME UNCHANGED <<script, req>>, in'.base = in.base,
         NEW k \in 0..Len(script), NEW t, t = in'.type, Located(k)', Logged(k)',
         Regular /\ req.begun => Counted(k, t)' /\ Delivered(k, t)'
  PROVE  Here(k, t)'
  <1>1. Regular' <=> Regular
    BY FrameFacts
  <1> QED
    BY <1>1 DEF Here

\* The log is as it was.
LEMMA LoggedKept ==
  ASSUME UNCHANGED <<script, req, replies>>, in'.base = in.base,
         pc' = pc \/ {pc, pc'} \subseteq {"idle", "fill"}, NEW k, Logged(k)
  PROVE  Logged(k)'
  <1>1. Due' = Due /\ Seen' = Seen
    BY FrameFacts
  <1> QED
    BY <1>1 DEF Logged

\* What was counted is as it was.
LEMMA CountedKept ==
  ASSUME UNCHANGED <<script, req, vec>>, in'.base = in.base, NEW k, NEW t, Counted(k, t),
         t = "PARAMS" => UNCHANGED <<got, half>>
  PROVE  Counted(k, t)'
  <1>1. \A u : Own(u)' = Own(u) /\ Content(u)' = Content(u)
    BY FrameFacts
  <1> QED
    BY <1>1 DEF Counted

\* The reader goes on after the content of a record, at the same record.
LEMMA StayPlaced ==
  ASSUME StreamInv, Reading, HeadersFound, Placed,
         UNCHANGED <<script, req, pc, replies, vec, half, got>>,
         NEW s \in Streams, in' = s, s.base = in.base, s.errno = in.errno, s.type = in.type,
         s.isClosed = in.isClosed, headerLen' \in Nat,
         s.rdNext + s.contentLen + s.paddingLen + headerLen
           = in.rdNext + in.contentLen + in.paddingLen + headerLen',
         \A k : Located(k) /\ headerLen' > 0 => s.contentLen = 0 /\ s.paddingLen = 0,
         s.paddingLen <= in.paddingLen,
         (in.skip => in.contentLen > 0) => (s.skip => s.contentLen > 0),
         s.contentLen > 0 => s.skip \/ pc # "fill",
         \A k, t : Here(k, t) /\ Regular /\ req.begun => Past(k, t)
  PROVE  HeadersFound' /\ Placed'
  <1>1. /\ Seen' = Seen /\ (PaddingFollowed' <=> PaddingFollowed) /\ (Regular' <=> Regular) /\ Due' = Due
        /\ \A k : Start(k)' = Start(k)
        /\ \A t : Own(t)' = Own(t) /\ Ends(t)' = Ends(t) /\ Carried(t)' = Carried(t)
    BY FrameFacts
  <1>2. HeadersFound'
    BY <1>1 DEF HeadersFound
  <1>3. Reading' /\ ~in.isClosed /\ pc # "idle" /\ pc # "retry"
    BY DEF Reading, StreamInv, Phases
  <1>4. ASSUME PaddingFollowed, in.errno = "none"
        PROVE  \E k, t : Here(k, t)'
    <2>1. PICK k, t : Here(k, t)
      BY <1>3, <1>4, Somewhere
    <2>2. k \in 0..Len(script) /\ t = in.type /\ Located(k) /\ Logged(k)
      BY <2>1 DEF Here
    <2>3. Located(k)'
      <3>1. Taken = in.rdNext /\ Taken' = s.rdNext
        BY <1>3 DEF Taken
      <3>2. /\ in.rdNext \in Nat /\ in.contentLen \in Nat /\ in.paddingLen \in Nat
            /\ headerLen \in Nat /\ s.rdNext \in Nat /\ s.contentLen \in Nat
            /\ s.paddingLen \in Nat
        BY ReaderFacts DEF Streams
      <3>3. k + 1 \in 1..(Len(script) + 1)
        BY <2>2, ReaderFacts
      <3>4. Start(k + 1) \in Nat
        BY <3>3, ReaderFacts, ScriptFacts
      <3>5. Taken' + s.contentLen + s.paddingLen = Start(k + 1) + headerLen'
        <4>1. in.rdNext + in.contentLen + in.paddingLen = Start(k + 1) + headerLen
          BY <2>2, <3>1 DEF Located
        <4> QED
          BY <3>1, <3>2, <3>4, <4>1
      <3>6. pc' = "body" => s.paddingLen = 0
        BY <2>2, <3>2 DEF Located
      <3> QED
        BY <1>1, <1>3, <2>2, <3>5, <3>6 DEF Located
    <2>4. Logged(k)'
      BY <2>2, LoggedKept
    <2>5. ASSUME Regular, req.begun PROVE Counted(k, t)' /\ Delivered(k, t)'
      <3>1. Counted(k, t) /\ Delivered(k, t) /\ Past(k, t)
        BY <2>1, <2>5 DEF Here
      <3>2. Counted(k, t)'
        BY <3>1, CountedKept
      <3>3. pc # "body"
        BY <2>5 DEF StreamInv, Phases
      <3>4. (\A e \in Ends(t) : e > k) /\ (in.skip => in.contentLen > 0)
        BY <1>3, <3>1 DEF Delivered
      <3>5. pc \in {"fill", "values"}
        BY <3>3 DEF Reading
      <3>6. Past(k, t)'
        BY <1>1, <1>3, <3>1, <3>5 DEF Past
      <3> QED
        BY <1>1, <1>3, <3>2, <3>4, <3>6 DEF Delivered
    <2> QED
      BY <2>2, <2>3, <2>4, <2>5, HereAgain
  <1> QED
    BY <1>1, <1>2, <1>4 DEF Placed

\* A read adds to the buffer only.
LEMMA OS_ReadPlaced ==
  ASSUME StreamInv, HeadersFound, Placed, OS_Read
  PROVE  HeadersFound' /\ Placed'
  <1>1. PICK n : in' = [in EXCEPT !.buffStop = @ + n]
    BY DEF OS_Read
  <1>2. /\ in'.rdNext = in.rdNext /\ in'.stop = in.stop /\ in'.stopUnget = in.stopUnget
        /\ in'.type = in.type /\ in'.contentLen = in.contentLen /\ in'.skip = in.skip
        /\ in'.paddingLen = in.paddingLen /\ in'.isClosed = in.isClosed
        /\ in'.errno = in.errno /\ in'.base = in.base
    <2>1. in \in Streams
      BY ReaderFacts
    <2> QED
      BY <1>1, <2>1 DEF Streams
  <1>3. /\ Reading
        /\ UNCHANGED <<script, rest, req, pc, headerLen, nested, half, want, vec, got, replies>>
    BY DEF OS_Read
  <1>4. /\ Seen' = Seen /\ (PaddingFollowed' <=> PaddingFollowed) /\ (Regular' <=> Regular)
        /\ \A k : Start(k)' = Start(k)
        /\ \A t : Own(t)' = Own(t) /\ Ends(t)' = Ends(t) /\ Carried(t)' = Carried(t)
    BY <1>2, <1>3, FrameFacts
  <1>5. HeadersFound'
    BY <1>2, <1>4 DEF HeadersFound
  <1>6. ASSUME PaddingFollowed, in.errno = "none" PROVE \E k, t : Here(k, t)'
    <2>1. PICK k, t : Here(k, t)
      BY <1>3, <1>6, Somewhere
    <2>2. k \in 0..Len(script) /\ t = in.type /\ Located(k) /\ Logged(k)
      BY <2>1 DEF Here
    <2>3. Located(k)'
      BY <1>2, <1>3, <1>4, <2>2 DEF Located, Taken
    <2>4. Logged(k)'
      BY <1>2, <1>3, <2>2, LoggedKept
    <2>5. ASSUME Regular, req.begun PROVE Counted(k, t)' /\ Delivered(k, t)'
      <3>1. Counted(k, t) /\ Delivered(k, t)
        BY <2>1, <2>5 DEF Here
      <3>2. Counted(k, t)'
        BY <1>2, <1>3, <3>1, CountedKept
      <3>3. (Inside(k, t) => Inside(k, t)') /\ (Past(k, t) => Past(k, t)')
        BY <1>2, <1>3, <1>4 DEF Inside, Past
      <3>4. Delivered(k, t)'
        BY <1>2, <1>3, <1>4, <3>1, <3>3 DEF Delivered
      <3> QED
        BY <3>2, <3>4
    <2> QED
      BY <1>2, <1>3, <2>2, <2>3, <2>4, <2>5, HereAgain
  <1> QED
    BY <1>2, <1>4, <1>5, <1>6 DEF Placed

\* A failed read leaves an error: the one there was, or its own.
LEMMA OS_ReadFailsPlaced ==
  ASSUME StreamInv, HeadersFound, Placed, OS_ReadFails
  PROVE  HeadersFound' /\ Placed'
  <1>1. PICK e, s :
          /\ e \in {"protocol", "os"}
          /\ s = SetError(in, e) /\ script' = script
          /\ Return(s, req) \/ EndOfRecord(s)
    BY DEF OS_ReadFails
  <1>2. e \in Errors \ {"none"} /\ in \in Streams /\ e # "version"
    BY <1>1, ReaderFacts DEF Errors
  <1>3. /\ s \in Streams /\ s.base = in.base /\ s.errno # "none"
        /\ s.errno = IF in.errno = "none" THEN e ELSE in.errno
    BY <1>1, <1>2, SetErrorFacts
  <1>4. in'.base = in.base /\ in'.errno = s.errno
    <2>1. CASE Return(s, req)
      BY <1>3, <2>1, ReturnErrors
    <2>2. CASE EndOfRecord(s)
      <3>1. Failed(s, "protocol")
        BY <1>3, <2>2 DEF EndOfRecord
      <3>2. "protocol" \in Errors \ {"none"}
        BY DEF Errors
      <3> QED
        BY <1>3, <3>1, <3>2, FailedErrors
    <2> QED
      BY <1>1, <2>1, <2>2
  <1>5. in'.errno # "none" /\ (PaddingFollowed => in'.errno # "version")
    BY <1>2, <1>3, <1>4 DEF HeadersFound
  <1> QED
    BY <1>1, <1>4, <1>5, BrokenKeeps

\* The content of the record has been delivered: got has all of it.
LEMMA InsideEnds ==
  ASSUME StreamInv, NEW k, NEW t, Located(k), Inside(k, t), pc = "fill", in.contentLen = 0,
         \A e \in Ends(t) : e > k
  PROVE  Past(k, t)
  <1>1. /\ k \in Own(t) /\ headerLen = 0 /\ in.paddingLen = script[k].pad
        /\ got = Joined(Carried(t), k - 1) \o Units(Start(k) + HeadLen, in.rdNext)
    BY DEF Inside
  <1>2. /\ k \in 1..Len(script) /\ script \in Seq(Sent)
        /\ Carried(t)[k] = Units(Start(k) + HeadLen, Start(k) + HeadLen + script[k].len)
    BY <1>1, ReaderFacts, CarriedFacts
  <1>3. /\ Start(k + 1) = Start(k) + HeadLen + script[k].len + script[k].pad
        /\ script[k].len \in Nat /\ script[k].pad \in Nat
    BY <1>2, ScriptFacts
  <1>4. Start(k) \in Nat /\ HeadLen \in Nat
    <2>1. k \in 1..(Len(script) + 1)
      BY <1>2, ReaderFacts
    <2> QED
      BY <1>2, <2>1, ScriptFacts, ReaderAssumption
  <1>5. in.rdNext + in.contentLen + in.paddingLen = Start(k + 1) + headerLen
    BY DEF Located, Taken
  <1>6. in.rdNext \in Nat
    BY ReaderFacts
  <1>7. in.rdNext = Start(k) + HeadLen + script[k].len
    <2>1. PICK a \in Nat, l \in Nat, d \in Nat, r \in Nat :
            a = Start(k) + HeadLen /\ l = script[k].len /\ d = script[k].pad /\ r = in.rdNext
      BY <1>3, <1>4, <1>6
    <2>2. r + 0 + d = (a + l + d) + 0
      BY <1>1, <1>3, <1>5, <2>1
    <2>3. r = a + l
      BY <2>1, <2>2
    <2> QED
      BY <2>1, <2>3
  <1>8. got = Joined(Carried(t), k)
    <2>1. got = Joined(Carried(t), k - 1) \o Carried(t)[k]
      BY <1>1, <1>2, <1>7
    <2>2. Joined(Carried(t), k) = Joined(Carried(t), k - 1) \o Carried(t)[k]
      BY <1>2, NextCarried
    <2> QED
      BY <2>1, <2>2
  <1> QED
    BY <1>8 DEF Past

\* Between records a stream that was delivered inside one is past it.
LEMMA PastRecord ==
  ASSUME StreamInv, Reading, ~(in.contentLen > 0 /\ ~in.skip), NEW k, NEW t, Here(k, t),
         Regular, req.begun
  PROVE  /\ Past(k, t) /\ (\A e \in Ends(t) : e > k) /\ (in.skip => in.contentLen > 0)
         /\ Counted(k, t)
  <1>1. ~in.isClosed /\ pc # "idle"
    BY DEF Reading, StreamInv, Phases
  <1>2. Counted(k, t) /\ Delivered(k, t) /\ Located(k)
    BY DEF Here
  <1>3. /\ \A e \in Ends(t) : e > k
        /\ in.skip => in.contentLen > 0
        /\ Inside(k, t) \/ Past(k, t)
    BY <1>1, <1>2 DEF Delivered
  <1>4. ASSUME Inside(k, t) PROVE Past(k, t)
    <2>1. ~in.skip /\ pc = "fill"
      BY <1>1, <1>4 DEF Inside
    <2>2. in.contentLen \in Nat /\ ~(in.contentLen > 0)
      BY <2>1, ReaderFacts
    <2>3. in.contentLen = 0
      BY <2>2
    <2> QED
      BY <1>2, <1>3, <1>4, <2>1, <2>3, InsideEnds
  <1> QED
    BY <1>2, <1>3, <1>4

\* Units that follow one another are joined to what was there.
LEMMA UnitsAdded ==
  ASSUME NEW j \in Seq(Nat), NEW a \in Nat, NEW b \in Nat, NEW c \in Nat, a <= b, b <= c
  PROVE  (j \o Units(a, b)) \o Units(b, c) = j \o Units(a, c)
  <1>1. PICK y \in Seq(Nat), z \in Seq(Nat) : y = Units(a, b) /\ z = Units(b, c)
    <2>1. Units(a, b) \in Seq(Nat)
      BY UnitsFacts
    <2>2. Units(b, c) \in Seq(Nat)
      BY UnitsFacts
    <2> QED
      BY <2>1, <2>2
  <1>2. y \in Seq(Nat) /\ z \in Seq(Nat)
    BY <1>1
  <1>3. (j \o y) \o z = j \o (y \o z)
    BY <1>2, ConcatFacts
  <1>4. y \o z = Units(a, c)
    BY <1>1, UnitsJoin
  <1> QED
    BY <1>1, <1>3, <1>4

\* A record starts at a number, its content HeadLen later.
LEMMA RecordStart ==
  ASSUME StreamInv, NEW k \in 1..Len(script)
  PROVE  /\ Start(k) \in Nat /\ Start(k) + HeadLen \in Nat
         /\ Start(k + 1) \in Nat /\ Start(k) + HeadLen <= Start(k + 1)
         /\ Start(k + 1) = (Start(k) + HeadLen) + script[k].len + script[k].pad
         /\ script[k].len \in Nat /\ script[k].pad \in Nat
  <1>1. /\ script \in Seq(Sent) /\ Len(script) \in Nat /\ HeadLen \in Nat
    BY ReaderFacts
  <1>2. k \in 1..(Len(script) + 1) /\ k + 1 \in 1..(Len(script) + 1)
    BY <1>1
  <1>3. Start(k) \in Nat /\ Start(k + 1) \in Nat
    BY <1>1, <1>2, ScriptFacts
  <1>4. script[k].len \in Nat /\ script[k].pad \in Nat
    BY <1>1, ScriptFacts
  <1>5. Start(k + 1) = Start(k) + HeadLen + script[k].len + script[k].pad
    BY <1>1, ScriptFacts
  <1> QED
    BY <1>1, <1>3, <1>4, <1>5

\* More of the record's content has been taken.
LEMMA InsideGrows ==
  ASSUME StreamInv, UNCHANGED <<script, req>>, in'.base = in.base, headerLen' = 0,
         NEW m \in Nat, in'.rdNext = in.rdNext + m,
         got' = got \o Units(in.rdNext, in.rdNext + m),
         ~in'.skip, in'.paddingLen = in.paddingLen, pc' \in {"fill", "idle"},
         NEW k, NEW t, Inside(k, t),
         pc' = "idle" => Start(k) + HeadLen <= in'.stopUnget
  PROVE  Inside(k, t)'
  <1>1. /\ \A j : Start(j)' = Start(j)
        /\ Own(t)' = Own(t) /\ Carried(t)' = Carried(t)
    BY FrameFacts
  <1>2. /\ k \in Own(t) /\ in.paddingLen = script[k].pad /\ Start(k) + HeadLen <= in.rdNext
        /\ got = Joined(Carried(t), k - 1) \o Units(Start(k) + HeadLen, in.rdNext)
    BY DEF Inside
  <1>3. k \in 1..Len(script) /\ script \in Seq(Sent) /\ in.rdNext \in Nat
    BY <1>2, ReaderFacts, CarriedFacts
  <1>4. PICK a \in Nat, b \in Nat, j \in Seq(Nat) :
          a = Start(k) + HeadLen /\ b = in.rdNext /\ j = Joined(Carried(t), k - 1)
    <2>1. Start(k) + HeadLen \in Nat
      BY <1>3, RecordStart
    <2>2. Joined(Carried(t), k - 1) \in Seq(Nat)
      BY <1>3, NextCarried
    <2> QED
      BY <1>3, <2>1, <2>2
  <1>5. a <= b /\ b <= b + m /\ b + m \in Nat
    BY <1>2, <1>4
  <1>7. got' = j \o Units(a, b + m)
    <2>1. got' = (j \o Units(a, b)) \o Units(b, b + m)
      BY <1>2, <1>4
    <2>2. (j \o Units(a, b)) \o Units(b, b + m) = j \o Units(a, b + m)
      <3>1. /\ j \in Seq(Nat) /\ a \in Nat /\ b \in Nat /\ b + m \in Nat
            /\ a <= b /\ b <= b + m
        BY <1>4, <1>5
      <3> QED
        BY <3>1, UnitsAdded
    <2> QED
      BY <2>1, <2>2
  <1>8. in'.rdNext = b + m /\ a <= in'.rdNext
    BY <1>4, <1>5
  <1>9. got' = Joined(Carried(t), k - 1) \o Units(Start(k) + HeadLen, in'.rdNext)
    BY <1>4, <1>7, <1>8
  <1> QED
    BY <1>1, <1>2, <1>4, <1>8, <1>9 DEF Inside

\* The reader took more of the content it is in the middle of.
LEMMA InsidePlaced ==
  ASSUME StreamInv, HeadersFound, Placed, Reading \/ pc = "idle", ~in.isClosed,
         UNCHANGED <<script, req, replies>>, headerLen = 0, headerLen' = 0,
         NEW m \in Nat, in'.rdNext = in.rdNext + m,
         got' = got \o Units(in.rdNext, in.rdNext + m),
         in' \in Streams, ~in'.skip, in'.paddingLen = in.paddingLen, in'.base = in.base,
         in'.errno = in.errno, in'.type = in.type, ~in'.isClosed,
         pc \in {"fill", "idle"}, pc' \in {"fill", "idle"},
         Taken' + in'.contentLen = Taken + in.contentLen,
         pc' = "idle" => \/ in'.stopUnget = in.rdNext
                         \/ in'.stopUnget = in.stopUnget /\ pc = "idle",
         \A k, t : Here(k, t) /\ Regular /\ req.begun => Inside(k, t) /\ Counted(k, t)'
  PROVE  HeadersFound' /\ Placed'
  <1>1. /\ Seen' = Seen /\ (PaddingFollowed' <=> PaddingFollowed) /\ (Regular' <=> Regular)
        /\ \A k : Start(k)' = Start(k)
        /\ \A t : Own(t)' = Own(t) /\ Ends(t)' = Ends(t) /\ Carried(t)' = Carried(t)
    BY FrameFacts
  <1>2. HeadersFound'
    BY <1>1 DEF HeadersFound
  <1>3. ASSUME PaddingFollowed, in.errno = "none" PROVE \E k, t : Here(k, t)'
    <2>1. PICK k, t : Here(k, t)
      BY <1>3, Somewhere
    <2>2. k \in 0..Len(script) /\ t = in.type /\ Located(k) /\ Logged(k)
      BY <2>1 DEF Here
    <2>3. Located(k)'
      <3>1. Taken + in.contentLen + in.paddingLen = Start(k + 1) + headerLen
        BY <2>2 DEF Located
      <3>2. Taken' + in'.contentLen + in'.paddingLen = Start(k + 1) + headerLen'
        BY <3>1
      <3> QED
        BY <1>1, <2>2, <3>2 DEF Located
    <2>4. Logged(k)'
      BY <2>2, LoggedKept
    <2>5. ASSUME Regular, req.begun PROVE Counted(k, t)' /\ Delivered(k, t)'
      <3>1. Inside(k, t) /\ Counted(k, t)' /\ Delivered(k, t)
        BY <2>1, <2>5 DEF Here
      <3>2. pc' = "idle" => Start(k) + HeadLen <= in'.stopUnget
        BY <3>1 DEF Inside
      <3>3. Inside(k, t)'
        BY <3>1, <3>2, InsideGrows
      <3>4. \A e \in Ends(t) : e > k
        BY <3>1 DEF Delivered
      <3>5. Delivered(k, t)'
        BY <1>1, <3>3, <3>4 DEF Delivered
      <3> QED
        BY <3>1, <3>5
    <2> QED
      BY <2>2, <2>3, <2>4, <2>5, HereAgain
  <1> QED
    BY <1>1, <1>2, <1>3 DEF Placed

\* Content for the client of a stream: it takes what it wants, the record goes on.
LEMMA StrDelivered ==
  ASSUME StreamInv, HeadersFound, Placed, pc = "fill", in.contentLen > 0, ~in.skip,
         headerLen' = 0, UNCHANGED <<script, rest, replies>>,
         in.type \in {"STDIN", "DATA"}, NEW c, NEW s, NEW t, Portion(c, s, t), Return(s, req)
  PROVE  HeadersFound' /\ Placed'
  <1>1. /\ ~in.isClosed /\ Reading /\ s \in Streams /\ s.stop = in.rdNext + c
        /\ s.rdNext = in.rdNext /\ c \in Nat /\ ~s.isClosed /\ s.type = in.type
        /\ s.errno = in.errno /\ s.base = in.base /\ ~s.skip
        /\ s.contentLen = in.contentLen - c /\ s.paddingLen = in.paddingLen
    BY DEF Portion, Reading, StreamInv, Phases
  <1>2. /\ in.rdNext \in Nat /\ want \in Nat /\ in.contentLen \in Nat /\ s.stop - s.rdNext = c
    <2>1. in.rdNext \in Nat /\ want \in Nat /\ in.contentLen \in Nat
      BY ReaderFacts
    <2>2. s.stop - s.rdNext = c
      BY <1>1, <2>1
    <2> QED
      BY <2>1, <2>2
  <1>3. PICK m : m = Min({want, c})
    OBVIOUS
  <1>4. m \in Nat /\ m <= c /\ m <= want /\ (m = want \/ m = c)
    <2>1. PICK a \in Int, b \in Int : a = want /\ b = c
      BY <1>1, <1>2
    <2>2. Min({a, b}) \in Int /\ Min({a, b}) <= a /\ Min({a, b}) <= b
          /\ (Min({a, b}) = a \/ Min({a, b}) = b)
      BY <2>1, MinFacts
    <2> QED
      BY <1>1, <1>2, <1>3, <2>1, <2>2
  <1>5. /\ in' = [s EXCEPT !.stopUnget = s.rdNext, !.rdNext = s.rdNext + m]
        /\ got' = got \o Units(s.rdNext, s.rdNext + m)
        /\ pc' = IF want = m THEN "idle" ELSE "fill"
        /\ UNCHANGED <<half, vec, req>>
    BY <1>1, <1>2, <1>3 DEF Return, StrReturned
  <1>6. /\ in' \in Streams /\ in'.rdNext = in.rdNext + m /\ in'.stop = in.rdNext + c
        /\ in'.contentLen = in.contentLen - c /\ in'.paddingLen = in.paddingLen /\ ~in'.skip
        /\ in'.base = in.base /\ in'.errno = in.errno /\ in'.type = in.type /\ ~in'.isClosed
        /\ in'.stopUnget = in.rdNext
    <2>1. in.rdNext + m \in Nat
      BY <1>2, <1>4
    <2>2. in' \in Streams
      BY <1>1, <1>5, <2>1 DEF Streams
    <2> QED
      BY <1>1, <1>5, <2>2 DEF Streams
  <1>7. Taken' + in'.contentLen = Taken + in.contentLen
    <2>1. Taken = in.rdNext /\ Taken' = in.rdNext + c
      BY <1>4, <1>5, <1>6 DEF Taken
    <2> QED
      BY <1>1, <1>2, <1>6, <2>1
  <1>8. got' = got \o Units(in.rdNext, in.rdNext + m)
    BY <1>1, <1>5
  <1>9. ASSUME NEW k, NEW u, Here(k, u), Regular, req.begun
        PROVE  Inside(k, u) /\ Counted(k, u)'
    <2>1. Delivered(k, u) /\ Counted(k, u) /\ u = in.type
      BY <1>9 DEF Here
    <2>2. Inside(k, u)
      BY <1>1, <2>1 DEF Delivered, Past
    <2>3. Counted(k, u)'
      BY <1>5, <1>6, <2>1, CountedKept
    <2> QED
      BY <2>2, <2>3
  <1>10. CASE \E k, u : Here(k, u)
    <2>1. headerLen = 0
      <3>1. PICK k, u : Here(k, u)
        BY <1>10
      <3>2. Located(k)
        BY <3>1 DEF Here
      <3>3. headerLen \in Nat /\ in.contentLen \in Nat
        BY ReaderFacts
      <3>4. headerLen > 0 => in.contentLen = 0
        BY <3>2 DEF Located
      <3> QED
        BY <3>3, <3>4
    <2>2. pc' \in {"fill", "idle"} /\ UNCHANGED req
      BY <1>5
    <2> QED
      BY <1>1, <1>4, <1>6, <1>7, <1>8, <1>9, <2>1, <2>2, InsidePlaced
  <1>11. CASE ~\E k, u : Here(k, u)
    <2>1. PaddingFollowed' <=> PaddingFollowed
      BY <1>6, ConnectionKept
    <2> QED
      BY <1>1, <1>6, <1>11, <2>1, Somewhere DEF HeadersFound, Placed
  <1> QED
    BY <1>10, <1>11

\* A number is twice its half, and what is left.
LEMMA Halved ==
  ASSUME NEW a \in Nat
  PROVE  \E d \in Nat, r \in {0, 1} : d = a \div 2 /\ r = a % 2 /\ a = 2 * d + r
  OBVIOUS

\* Two entries to a unit, and half of one.
LEMMA CountGrows ==
  ASSUME NEW v \in Nat, NEW x \in Nat, NEW y \in Nat, NEW c \in Nat, NEW d \in Nat,
         NEW r \in Nat, 2 * (v - 1) + y = x, y + c = 2 * d + r
  PROVE  2 * ((v + d) - 1) + r = x + c
  OBVIOUS

\* Content for ReadParams: it takes all there is, and keeps count.
LEMMA ParamsDelivered ==
  ASSUME StreamInv, HeadersFound, Placed, pc = "fill", in.contentLen > 0, ~in.skip,
         headerLen' = 0, UNCHANGED <<script, rest, replies>>,
         in.type = "PARAMS", NEW c, NEW s, NEW t, Portion(c, s, t), Return(s, req)
  PROVE  HeadersFound' /\ Placed'
  <1>1. /\ ~in.isClosed /\ Reading /\ s \in Streams /\ s.stop = in.rdNext + c
        /\ s.rdNext = in.rdNext /\ c \in Nat /\ c >= 1 /\ ~s.isClosed /\ s.type = in.type
        /\ s.errno = in.errno /\ s.base = in.base /\ ~s.skip
        /\ s.contentLen = in.contentLen - c /\ s.paddingLen = in.paddingLen
    BY DEF Portion, Reading, StreamInv, Phases
  <1>2. /\ in.rdNext \in Nat /\ in.contentLen \in Nat /\ s.stop - s.rdNext = c
        /\ half \in {0, 1} /\ vec \in Vectors /\ got \in Seq(Nat)
    <2>1. /\ in.rdNext \in Nat /\ in.contentLen \in Nat
          /\ half \in {0, 1} /\ vec \in Vectors /\ got \in Seq(Nat)
      BY ReaderFacts
    <2>2. s.stop - s.rdNext = c
      BY <1>1, <2>1
    <2> QED
      BY <2>1, <2>2
  <1>3. PICK d \in Nat, r \in {0, 1} : /\ d = (half + c) \div 2 /\ r = (half + c) % 2
                                       /\ half + c = 2 * d + r
    <2>1. PICK a \in Nat : a = half + c
      BY <1>1, <1>2
    <2>2. PICK d \in Nat, r \in {0, 1} : d = a \div 2 /\ r = a % 2 /\ a = 2 * d + r
      BY <2>1, Halved
    <2> QED
      BY <2>1, <2>2
  <1>4. /\ in' = [s EXCEPT !.stopUnget = s.rdNext, !.rdNext = s.stop]
        /\ got' = got \o Units(s.rdNext, s.stop) /\ pc' = "fill"
        /\ vec' = PutParams(vec, d) /\ half' = r /\ UNCHANGED req
    BY <1>1, <1>2, <1>3 DEF Return, ParamsReturned
  <1>5. /\ in' \in Streams /\ in'.rdNext = in.rdNext + c /\ in'.stop = in.rdNext + c
        /\ in'.contentLen = in.contentLen - c /\ in'.paddingLen = in.paddingLen /\ ~in'.skip
        /\ in'.base = in.base /\ in'.errno = in.errno /\ in'.type = in.type /\ ~in'.isClosed
    <2>1. in.rdNext + c \in Nat /\ (in.rdNext + c) - 1 \in Nat
      BY <1>1, <1>2
    <2>2. in' \in Streams
      BY <1>1, <1>4, <2>1 DEF Streams
    <2> QED
      BY <1>1, <1>4, <2>2 DEF Streams
  <1>6. Taken' + in'.contentLen = Taken + in.contentLen
    <2>1. Taken = in.rdNext /\ Taken' = in.rdNext + c
      BY <1>4, <1>5 DEF Taken
    <2> QED
      BY <1>1, <1>2, <1>5, <2>1
  <1>7. got' = got \o Units(in.rdNext, in.rdNext + c)
    BY <1>1, <1>4
  <1>8. vec'.size = vec.size + d /\ vec.size \in Nat
    <2>1. PutParams(vec, d).size = vec.size + d
      BY <1>2, PutParamsFacts
    <2> QED
      BY <1>2, <1>4, <2>1 DEF Vectors
  <1>9. Len(got') = Len(got) + c
    <2>1. in.rdNext + c \in Nat /\ in.rdNext <= in.rdNext + c /\ (in.rdNext + c) - in.rdNext = c
      BY <1>1, <1>2
    <2>2. PICK a \in Nat, b \in Nat : a = in.rdNext /\ b = in.rdNext + c /\ a <= b /\ b - a = c
      BY <1>2, <2>1
    <2>3. Units(a, b) \in Seq(Nat) /\ Len(Units(a, b)) = b - a
      BY <2>2, UnitsFacts
    <2>4. PICK u \in Seq(Nat) : u = Units(in.rdNext, in.rdNext + c) /\ Len(u) = c
      BY <2>2, <2>3
    <2> QED
      BY <1>2, <1>7, <2>4
  <1>10. ASSUME NEW k, NEW u, Here(k, u), Regular, req.begun
         PROVE  Inside(k, u) /\ Counted(k, u)'
    <2>1. Delivered(k, u) /\ Counted(k, u) /\ u = "PARAMS"
      BY <1>10 DEF Here
    <2>2. Inside(k, u)
      BY <1>1, <2>1 DEF Delivered, Past
    <2>3. 2 * (vec.size - 1) + half = Len(got) /\ \A v \in Later(u) : \A j \in Own(v) : j > k
      BY <2>1 DEF Counted
    <2>4. 2 * (vec'.size - 1) + half' = Len(got')
      <3>1. PICK x \in Nat, v \in Nat, y \in Nat :
              x = Len(got) /\ v = vec.size /\ y = half
        BY <1>2, <1>8
      <3>2. 2 * (v - 1) + y = x /\ y + c = 2 * d + r
        BY <1>3, <2>3, <3>1
      <3>3. 2 * ((v + d) - 1) + r = x + c
        <4>1. c \in Nat /\ d \in Nat /\ r \in Nat
          BY <1>1, <1>3
        <4>2. x \in Nat /\ v \in Nat /\ y \in Nat
          BY <3>1
        <4> QED
          BY <3>2, <4>1, <4>2, CountGrows
      <3> QED
        BY <1>4, <1>8, <1>9, <3>1, <3>3
    <2>5. \A v : Own(v)' = Own(v)
      BY <1>4, <1>5, FrameFacts
    <2>6. Counted(k, u)'
      BY <2>1, <2>3, <2>4, <2>5 DEF Counted
    <2> QED
      BY <2>2, <2>6
  <1>11. CASE \E k, u : Here(k, u)
    <2>1. headerLen = 0
      <3>1. PICK k, u : Here(k, u)
        BY <1>11
      <3>2. Located(k)
        BY <3>1 DEF Here
      <3>3. headerLen \in Nat /\ in.contentLen \in Nat
        BY ReaderFacts
      <3>4. headerLen > 0 => in.contentLen = 0
        BY <3>2 DEF Located
      <3> QED
        BY <3>3, <3>4
    <2>2. pc' = "fill" /\ UNCHANGED req
      BY <1>4
    <2> QED
      BY <1>1, <1>5, <1>6, <1>7, <1>10, <2>1, <2>2, InsidePlaced
  <1>12. CASE ~\E k, u : Here(k, u)
    <2>1. PaddingFollowed' <=> PaddingFollowed
      BY <1>5, ConnectionKept
    <2> QED
      BY <1>1, <1>5, <1>12, <2>1, Somewhere DEF HeadersFound, Placed
  <1> QED
    BY <1>11, <1>12

\* The content of a BEGIN record is complete: the parameters come next, from where
\* nothing of them was passed.
LEMMA BodyDelivered ==
  ASSUME StreamInv, HeadersFound, Placed, pc = "body", in.contentLen > 0, ~in.skip,
         headerLen' = 0, UNCHANGED <<script, rest, replies>>,
         NEW c, NEW s, NEW t, Portion(c, s, t), t.contentLen = 0,
         Return(t, [req EXCEPT !.begun = TRUE, !.role = script[req.first].role,
                               !.keep = script[req.first].keep])
  PROVE  HeadersFound' /\ Placed'
  <1>1. PICK q : q = [req EXCEPT !.begun = TRUE, !.role = script[req.first].role,
                                 !.keep = script[req.first].keep]
    OBVIOUS
  <1>2. /\ Reading /\ ~req.begun /\ in.type = "NONE" /\ req.first \in DOMAIN script
        /\ got = <<>> /\ half = 0 /\ ~in.isClosed
    BY DEF Reading, StreamInv, Phases
  <1>3. /\ t \in Streams /\ t.rdNext = in.rdNext + c /\ t.type = "NONE" /\ t.errno = in.errno
        /\ t.base = in.base /\ ~t.isClosed /\ in.contentLen - c = 0 /\ c \in Nat
    BY <1>2 DEF Portion
  <1>4. q.id = req.id /\ q.first = req.first /\ q.begun
    BY <1>1, ReaderFacts DEF Requests
  <1>5. req' = q /\ BeginReturned(t, q)
    BY <1>1, <1>3 DEF Return
  <1>6. CASE in' = t /\ pc' = "retry"
    BY <1>3, <1>6, GivenUpKeeps
  <1>7. CASE /\ in' = SetReaderType(t, "PARAMS") /\ vec' = PutParam(NewParams(VecLen))
             /\ pc' = "fill" /\ UNCHANGED <<half, got>>
    <2>1. /\ in'.rdNext = in.rdNext + c /\ in'.type = "PARAMS" /\ ~in'.skip
          /\ in'.contentLen = 0 /\ in'.paddingLen = 0 /\ ~in'.isClosed
          /\ in'.errno = in.errno /\ in'.base = in.base
      <3>1. "PARAMS" \in StreamTypes
        BY DEF StreamTypes
      <3> QED
        BY <1>3, <1>7, <3>1, SetReaderTypeFacts
    <2>2. /\ Seen' = Seen /\ (PaddingFollowed' <=> PaddingFollowed) /\ (Regular' <=> Regular) /\ Due' = Due
          /\ \A k : Start(k)' = Start(k)
          /\ \A u : Own(u)' = Own(u) /\ Ends(u)' = Ends(u) /\ Carried(u)' = Carried(u)
      BY <1>4, <1>5, <2>1, FrameFacts
    <2>3. HeadersFound'
      BY <2>1, <2>2 DEF HeadersFound
    <2>4. ASSUME PaddingFollowed, in.errno = "none" PROVE \E k, u : Here(k, u)'
      <3>1. PICK k, u : Here(k, u)
        BY <1>2, <2>4, Somewhere
      <3>2. /\ k \in 0..Len(script) /\ Located(k) /\ Logged(k) /\ in.base <= Start(k + 1)
            /\ replies = Joined(Due, k) /\ req.first = k
        BY <1>2, <3>1 DEF Here, Located, Logged
      <3>3. Located(k)'
        <4>1. /\ in.rdNext + in.contentLen + in.paddingLen = Start(k + 1) + headerLen
              /\ in.paddingLen = 0 /\ (headerLen > 0 => in.contentLen = 0)
          BY <1>2, <3>2 DEF Located, Taken
        <4>2. /\ in.rdNext \in Nat /\ in.contentLen \in Nat /\ headerLen \in Nat
          BY ReaderFacts
        <4>3. Start(k + 1) \in Nat
          <5>1. k + 1 \in 1..(Len(script) + 1)
            <6>1. Len(script) \in Nat
              BY ReaderFacts
            <6> QED
              BY <3>2, <6>1
          <5> QED
            BY <5>1, ReaderFacts, ScriptFacts
        <4>4. in.rdNext + c = Start(k + 1)
          <5>1. headerLen = 0 /\ c = in.contentLen
            BY <1>3, <4>1, <4>2
          <5> QED
            BY <4>1, <4>2, <4>3, <5>1
        <4>5. Taken' = in.rdNext + c
          BY <1>7, <2>1 DEF Taken
        <4>6. Taken' + in'.contentLen + in'.paddingLen = Start(k + 1) + headerLen'
          BY <2>1, <4>3, <4>4, <4>5
        <4> QED
          BY <1>7, <2>1, <2>2, <3>2, <4>6 DEF Located
      <3>4. Logged(k)'
        <4>1. /\ pc' = "fill" /\ replies' = Joined(Due, k)' /\ req'.begun /\ req'.first = k
          BY <1>4, <1>5, <1>7, <2>2, <3>2 DEF Joined
        <4>2. req'.first <= k
          BY <3>2, <4>1
        <4>3. \A j \in Seen : j <= k /\ script[j].type = "BEGIN" => (req.begun \/ (pc = "body" /\ j = k))
          BY <3>2 DEF Logged
        <4> QED
          BY <2>2, <4>1, <4>2, <4>3 DEF Logged
      <3>5. \A v : \A j \in Own(v) : j > k
        BY <3>2 DEF Own
      <3>6. Counted(k, "PARAMS")'
        <4>1. vec'.size = 1
          BY <1>7 DEF PutParam, NewParams
        <4>2. Len(got') = 0 /\ half' = 0
          BY <1>2, <1>7
        <4>3. 2 * (vec'.size - 1) + half' = Len(got')
          BY <4>1, <4>2
        <4> QED
          BY <2>2, <3>5, <4>3 DEF Counted
      <3>7. Delivered(k, "PARAMS")'
        <4>1. got = Joined(Carried("PARAMS"), k)
          BY <1>2, <3>2, <3>5, ReaderFacts, NothingCarried
        <4>2. \A e \in Ends("PARAMS") : e > k
          BY <3>5 DEF Ends
        <4>3. Past(k, "PARAMS")'
          BY <1>7, <2>1, <2>2, <4>1 DEF Past
        <4> QED
          BY <2>1, <2>2, <4>2, <4>3 DEF Delivered
      <3> QED
        BY <2>1, <3>2, <3>3, <3>4, <3>6, <3>7 DEF Here
    <2> QED
      BY <2>1, <2>2, <2>3, <2>4 DEF Placed
  <1> QED
    BY <1>5, <1>6, <1>7 DEF BeginReturned

\* A nested call takes content, and the record goes on.
LEMMA NestedDelivered ==
  ASSUME StreamInv, HeadersFound, Placed, pc \in {"body", "values"}, in.contentLen > 0,
         ~in.skip, headerLen' = 0, UNCHANGED <<script, rest, replies>>,
         NEW c, NEW s, NEW t, Portion(c, s, t), in' = t,
         UNCHANGED <<req, pc, half, want, vec, got>>
  PROVE  HeadersFound' /\ Placed'
  <1>1. /\ t \in Streams /\ t.rdNext = in.rdNext + c /\ t.type = in.type
        /\ t.errno = in.errno /\ t.base = in.base /\ t.isClosed = in.isClosed /\ ~t.skip
        /\ t.contentLen = in.contentLen - c /\ t.paddingLen = in.paddingLen
        /\ c \in Nat /\ c <= in.contentLen
    BY DEF Portion
  <1>2. headerLen = 0 /\ Reading /\ pc # "fill"
    <2>1. Reading /\ pc # "fill"
      BY DEF Reading
    <2> QED
      BY <2>1, ReaderFacts DEF StreamInv, Phases
  <1>3. /\ in.rdNext \in Nat /\ in.contentLen \in Nat /\ in.paddingLen \in Nat
    BY ReaderFacts
  <1>4. t.rdNext + t.contentLen + t.paddingLen + headerLen
          = in.rdNext + in.contentLen + in.paddingLen + headerLen'
    BY <1>1, <1>2, <1>3
  <1>5. ASSUME NEW k, NEW u, Here(k, u), Regular, req.begun PROVE Past(k, u)
    <2>1. Delivered(k, u) /\ ~in.isClosed
      BY <1>2, <1>5 DEF Here, StreamInv, Phases
    <2>2. ~Inside(k, u)
      BY DEF Inside
    <2> QED
      BY <2>1, <2>2 DEF Delivered
  <1>6. t.paddingLen <= in.paddingLen /\ headerLen' \in Nat /\ ~(headerLen' > 0)
    BY <1>1, <1>3
  <1> QED
    BY <1>1, <1>2, <1>4, <1>5, <1>6, StayPlaced

\* Content goes to whoever waits for it.
LEMMA DeliverPlaced ==
  ASSUME StreamInv, HeadersFound, Placed, Deliver
  PROVE  HeadersFound' /\ Placed'
  <1>1. /\ Reading /\ in.contentLen > 0 /\ ~in.skip /\ headerLen' = 0
        /\ UNCHANGED <<script, rest, replies>>
    BY DeliverFacts
  <1>2. PICK c, s, t : Portion(c, s, t) /\
          \/ pc = "fill" /\ Return(s, req)
          \/ /\ pc = "body" /\ t.contentLen = 0
             /\ Return(t, [req EXCEPT !.begun = TRUE, !.role = script[req.first].role,
                                      !.keep = script[req.first].keep])
          \/ /\ ~(pc = "body" /\ t.contentLen = 0) /\ pc # "fill"
             /\ in' = t /\ nested' = nested + c
             /\ UNCHANGED <<req, pc, half, want, vec, got>>
    BY DeliverFacts
  <1>3. CASE pc = "fill" /\ Return(s, req)
    <2>1. s.type = in.type /\ s.base = in.base /\ s.errno = in.errno
      BY <1>2 DEF Portion
    <2>2. CASE in.type = "NONE"
      <3>1. ~req.begun
        BY <1>3, <2>2 DEF StreamInv, Phases
      <3>2. in' = s /\ pc' = "retry"
        BY <1>3, <2>1, <2>2, <3>1 DEF Return, BeginReturned
      <3> QED
        BY <1>1, <2>1, <3>2, GivenUpKeeps
    <2>3. CASE in.type = "PARAMS"
      BY <1>1, <1>2, <1>3, <2>3, ParamsDelivered
    <2>4. CASE in.type \in {"STDIN", "DATA"}
      BY <1>1, <1>2, <1>3, <2>4, StrDelivered
    <2>5. in.type \in {"NONE", "PARAMS", "STDIN", "DATA"}
      BY ReaderFacts DEF StreamTypes
    <2> QED
      BY <2>2, <2>3, <2>4, <2>5
  <1>4. CASE /\ pc = "body" /\ t.contentLen = 0
             /\ Return(t, [req EXCEPT !.begun = TRUE, !.role = script[req.first].role,
                                      !.keep = script[req.first].keep])
    BY <1>1, <1>2, <1>4, BodyDelivered
  <1>5. CASE /\ pc # "fill" /\ in' = t /\ UNCHANGED <<req, pc, half, want, vec, got>>
    <2>1. pc \in {"body", "values"}
      BY <1>1, <1>5 DEF Reading
    <2> QED
      BY <1>1, <1>2, <1>5, <2>1, NestedDelivered
  <1> QED
    BY <1>2, <1>3, <1>4, <1>5

\* A place that is found again keeps what is said of places.
LEMMA PlacedFrom ==
  ASSUME HeadersFound, script' = script, in'.base = in.base, in'.errno = in.errno,
         PaddingFollowed /\ in.errno = "none" => \E k, t : Here(k, t)'
  PROVE  HeadersFound' /\ Placed'
  <1>1. PaddingFollowed' <=> PaddingFollowed
    BY ConnectionKept
  <1> QED
    BY <1>1 DEF HeadersFound, Placed

\* A failure that is not the header's says nothing of headers.
LEMMA FailedPlaced ==
  ASSUME HeadersFound, script' = script, NEW s \in Streams, s.base = in.base,
         s.errno = in.errno, NEW e \in Errors \ {"none", "version"}, Failed(s, e)
  PROVE  HeadersFound' /\ Placed'
  <1>1. /\ in'.base = in.base /\ in'.errno # "none"
        /\ in'.errno = IF in.errno = "none" THEN e ELSE in.errno
    BY FailedErrors
  <1> QED
    BY <1>1, BrokenKeeps DEF HeadersFound

\* An answer is written, or the connection fails.
LEMMA AnswerPlaced ==
  ASSUME HeadersFound, script' = script, NEW s \in Streams, s.base = in.base,
         s.errno = in.errno, NEW reply, Answer(reply, s)
  PROVE  \/ HeadersFound' /\ Placed'
         \/ /\ replies' = Append(replies, reply) /\ in' = s /\ pc' = "fill"
            /\ UNCHANGED <<req, half, want, vec, got>>
  <1>1. "os" \in Errors \ {"none", "version"}
    BY DEF Errors
  <1>2. CASE Failed(s, "os")
    BY <1>1, <1>2, FailedPlaced
  <1> QED
    BY <1>2 DEF Answer

\* A nested call comes to the end of its record: values are answered, anything else
\* is an error.
LEMMA EndOfRecordPlaced ==
  ASSUME StreamInv, HeadersFound, Placed, Reading, pc # "fill",
         ~(in.contentLen > 0 /\ ~in.skip), UNCHANGED <<script, rest, headerLen>>,
         NEW s \in Streams, EndOfRecord(s), s.base = in.base, s.errno = in.errno,
         s.type = in.type, s.isClosed = in.isClosed, s.contentLen = 0, s.paddingLen = 0,
         s.rdNext = in.rdNext + in.contentLen + in.paddingLen,
         (in.skip => in.contentLen > 0) => ~s.skip
  PROVE  HeadersFound' /\ Placed'
  <1>1. /\ "protocol" \in Errors \ {"none", "version"}
        /\ "params" \in Errors \ {"none", "version"}
    BY DEF Errors
  <1>2. CASE Failed(s, "protocol")
    BY <1>1, <1>2, FailedPlaced
  <1>3. CASE Failed(s, "params")
    BY <1>1, <1>3, FailedPlaced
  <1>4. PICK w : w = [s EXCEPT !.stop = s.rdNext]
    OBVIOUS
  <1>5. CASE pc = "values" /\ s.errno = "none" /\ Answer("GET_VALUES_RESULT", w)
    <2>1. /\ w \in Streams /\ w.base = in.base /\ w.errno = in.errno /\ w.type = in.type
          /\ w.isClosed = in.isClosed /\ w.contentLen = 0 /\ w.paddingLen = 0
          /\ w.rdNext = s.rdNext /\ w.skip = s.skip
      BY <1>4 DEF Streams
    <2>2. CASE /\ replies' = Append(replies, "GET_VALUES_RESULT") /\ in' = w /\ pc' = "fill"
               /\ UNCHANGED <<req, half, want, vec, got>>
      <3>1. headerLen = 0 /\ headerLen' = 0 /\ ~in.isClosed
        BY ReaderFacts DEF StreamInv, Phases
      <3>2. /\ Seen' = Seen /\ (PaddingFollowed' <=> PaddingFollowed) /\ (Regular' <=> Regular)
            /\ Due' = Due /\ \A k : Start(k)' = Start(k)
            /\ \A t : Own(t)' = Own(t) /\ Ends(t)' = Ends(t) /\ Carried(t)' = Carried(t)
        BY <2>1, <2>2, FrameFacts
      <3>3. ASSUME PaddingFollowed, in.errno = "none" PROVE \E k, t : Here(k, t)'
        <4>1. PICK k, t : Here(k, t)
          BY <3>3, Somewhere
        <4>2. /\ k \in 0..Len(script) /\ t = in.type /\ Located(k) /\ Logged(k)
              /\ in.base <= Start(k + 1)
          BY <4>1 DEF Here, Located
        <4>3. /\ k \in Seen /\ script[k].type = "GET_VALUES" /\ replies = Joined(Due, k - 1)
          BY <1>5, <4>2 DEF Logged
        <4>4. replies' = Joined(Due, k)
          <5>1. k \in 1..Len(script) /\ script \in Seq(Sent)
            BY <4>2, <4>3, ReaderFacts, ScriptFacts DEF Seen
          <5>2. Due[k] = <<"GET_VALUES_RESULT">>
            BY <4>3, <5>1, DueFacts DEF Expected
          <5>3. "GET_VALUES_RESULT" \in Answers
            BY DEF Answers
          <5> QED
            BY <2>2, <4>3, <5>1, <5>2, <5>3, NextDue
        <4>5. Located(k)'
          <5>1. in.rdNext + in.contentLen + in.paddingLen = Start(k + 1) + headerLen
            BY <1>5, <4>2 DEF Located, Taken
          <5>2. Taken' = in.rdNext + in.contentLen + in.paddingLen
            BY <2>1, <2>2 DEF Taken
          <5>3. Start(k + 1) \in Nat
            <6>1. k + 1 \in 1..(Len(script) + 1)
              BY <4>2, ReaderFacts
            <6> QED
              BY <6>1, ReaderFacts, ScriptFacts
          <5>4. Taken' + in'.contentLen + in'.paddingLen = Start(k + 1) + headerLen'
            BY <2>1, <2>2, <3>1, <5>1, <5>2, <5>3
          <5> QED
            BY <2>1, <2>2, <3>1, <3>2, <4>2, <5>4 DEF Located
        <4>6. Logged(k)'
          BY <1>5, <2>1, <2>2, <3>2, <4>2, <4>4 DEF Logged
        <4>7. ASSUME Regular, req.begun PROVE Counted(k, t)' /\ Delivered(k, t)'
          <5>1. /\ Past(k, t) /\ (\A e \in Ends(t) : e > k)
                /\ (in.skip => in.contentLen > 0) /\ Counted(k, t)
            BY <4>1, <4>7, PastRecord
          <5>2. Counted(k, t)'
            BY <2>1, <2>2, <5>1, CountedKept
          <5>3. Past(k, t)'
            BY <2>1, <2>2, <3>2, <5>1 DEF Past
          <5>4. Delivered(k, t)'
            BY <2>1, <2>2, <3>1, <3>2, <5>1, <5>3 DEF Delivered
          <5> QED
            BY <5>2, <5>4
        <4> QED
          BY <2>1, <2>2, <4>2, <4>5, <4>6, <4>7, HereAgain
      <3> QED
        BY <2>1, <2>2, <3>3, PlacedFrom
    <2> QED
      BY <1>5, <2>1, <2>2, AnswerPlaced
  <1> QED
    BY <1>2, <1>3, <1>4, <1>5 DEF EndOfRecord

\* A header gathered after record k is that of record k + 1, which was sent.
LEMMA RecordFound ==
  ASSUME StreamInv, pc = "fill", NEW k, NEW u, Here(k, u), NEW h \in Streams,
         h.rdNext <= in.buffStop,
         h.rdNext + headerLen = in.rdNext + in.contentLen + in.paddingLen + HeadLen
  PROVE  /\ k + 1 \in 1..Len(script) /\ h.rdNext = Start(k + 1) + HeadLen
         /\ k + 1 \in Seen /\ RecordAt(h.rdNext - HeadLen) = {k + 1}
  <1>1. /\ k \in 0..Len(script) /\ in.base <= Start(k + 1)
        /\ in.rdNext + in.contentLen + in.paddingLen = Start(k + 1) + headerLen
    BY DEF Here, Located, Taken
  <1>2. /\ script \in Seq(Sent) /\ Len(script) \in Nat /\ HeadLen \in Nat /\ HeadLen # 0
        /\ headerLen \in Nat /\ k + 1 \in 1..(Len(script) + 1) /\ in.buffStop \in Nat
        /\ in.rdNext \in Nat /\ in.contentLen \in Nat /\ in.paddingLen \in Nat
        /\ in.buffStop <= Total /\ h.rdNext \in Nat
    <2>1. /\ script \in Seq(Sent) /\ Len(script) \in Nat /\ headerLen \in Nat
          /\ in.buffStop \in Nat /\ in.rdNext \in Nat /\ in.contentLen \in Nat
          /\ in.paddingLen \in Nat /\ in.buffStop <= Total
      BY ReaderFacts
    <2>2. HeadLen \in Nat /\ HeadLen # 0
      BY ReaderAssumption
    <2>3. h.rdNext \in Nat
      BY DEF Streams
    <2>4. k + 1 \in 1..(Len(script) + 1)
      BY <1>1, <2>1
    <2> QED
      BY <2>1, <2>2, <2>3, <2>4
  <1>3. Start(k + 1) \in Nat /\ Total \in Nat
    BY <1>2, ScriptFacts
  <1>4. h.rdNext = Start(k + 1) + HeadLen
    <2>1. PICK x \in Nat, a \in Nat, g \in Nat, r \in Nat :
            /\ x = in.rdNext + in.contentLen + in.paddingLen /\ a = Start(k + 1)
            /\ g = headerLen /\ r = h.rdNext
      <3>1. in.rdNext \in Nat /\ in.contentLen \in Nat /\ in.paddingLen \in Nat
        BY <1>2
      <3>2. in.rdNext + in.contentLen + in.paddingLen \in Nat
        BY <3>1
      <3>3. headerLen \in Nat /\ h.rdNext \in Nat
        BY <1>2
      <3> QED
        BY <1>3, <3>2, <3>3
    <2>2. x = a + g /\ r + g = x + HeadLen
      BY <1>1, <2>1
    <2>3. r = a + HeadLen
      <3>1. /\ x \in Nat /\ a \in Nat /\ g \in Nat /\ r \in Nat /\ HeadLen \in Nat
        BY <1>2, <2>1
      <3> QED
        BY <2>2, <3>1
    <2> QED
      BY <2>1, <2>3
  <1>5. k + 1 # Len(script) + 1
    <2> SUFFICES ASSUME k + 1 = Len(script) + 1 PROVE FALSE
      OBVIOUS
    <2>1. Start(k + 1) = Total
      BY DEF Total
    <2> QED
      BY <1>2, <1>3, <1>4, <2>1
  <1>6. k + 1 \in 1..Len(script) /\ DOMAIN script = 1..Len(script)
    <2>1. k + 1 \in 1..Len(script)
      <3>1. Len(script) \in Nat /\ k + 1 \in 1..(Len(script) + 1)
        BY <1>2
      <3> QED
        BY <1>5, <3>1
    <2>2. DOMAIN script = 1..Len(script)
      BY <1>2, ScriptFacts
    <2> QED
      BY <2>1, <2>2
  <1>7. h.rdNext - HeadLen = Start(k + 1)
    <2>1. Start(k + 1) \in Nat /\ HeadLen \in Nat
      BY <1>2, <1>3
    <2> QED
      BY <1>4, <2>1
  <1>8. ASSUME NEW j \in 1..Len(script), Start(j) = Start(k + 1) PROVE j = k + 1
    <2>1. /\ j \in 1..(Len(script) + 1) /\ Start(j) \in Nat
      <3>1. Len(script) \in Nat
        BY <1>2
      <3>2. j \in 1..(Len(script) + 1)
        BY <3>1
      <3>3. script \in Seq(Sent)
        BY <1>2
      <3>4. Start(j) \in Nat
        BY <3>2, <3>3, ScriptFacts
      <3> QED
        BY <3>2, <3>4
    <2>2. ~(j < k + 1)
      <3> SUFFICES ASSUME j < k + 1 PROVE FALSE
        OBVIOUS
      <3>1. Start(j) + HeadLen <= Start(k + 1)
        BY <1>2, <2>1, ScriptFacts
      <3> QED
        BY <1>2, <1>3, <1>8, <3>1
    <2>3. ~(k + 1 < j)
      <3> SUFFICES ASSUME k + 1 < j PROVE FALSE
        OBVIOUS
      <3>1. Start(k + 1) + HeadLen <= Start(j)
        BY <1>2, <2>1, ScriptFacts
      <3> QED
        BY <1>2, <1>3, <1>8, <3>1
    <2> QED
      BY <1>2, <2>1, <2>2, <2>3
  <1>9. RecordAt(h.rdNext - HeadLen) = {k + 1}
    <2>1. RecordAt(h.rdNext - HeadLen) = {j \in 1..Len(script) : Start(j) = Start(k + 1)}
      BY <1>6, <1>7 DEF RecordAt
    <2> QED
      BY <1>6, <1>8, <2>1
  <1>10. k + 1 \in Seen
    BY <1>1, <1>2, <1>3, <1>6 DEF Seen
  <1> QED
    BY <1>4, <1>6, <1>9, <1>10

\* The place after a header: what it announces lies ahead.
LEMMA LocatedNext ==
  ASSUME StreamInv, script' = script, in'.base = in.base, headerLen' = 0,
         NEW k \in 1..Len(script), in.base <= Start(k), Taken' = Start(k) + HeadLen,
         in'.contentLen = script[k].len, in'.paddingLen = script[k].pad,
         in'.isClosed => in'.stop = in'.rdNext /\ script[k].len = 0 /\ script[k].pad = 0,
         pc' = "body" => script[k].pad = 0
  PROVE  Located(k)'
  <1>1. \A j : Start(j)' = Start(j)
    BY ConnectionKept
  <1>2. /\ Start(k) \in Nat /\ Start(k + 1) \in Nat /\ Start(k) <= Start(k + 1)
        /\ Start(k + 1) = (Start(k) + HeadLen) + script[k].len + script[k].pad
    <2>1. /\ Start(k) \in Nat /\ Start(k) + HeadLen <= Start(k + 1) /\ Start(k + 1) \in Nat
          /\ Start(k + 1) = (Start(k) + HeadLen) + script[k].len + script[k].pad
      BY RecordStart
    <2>2. HeadLen \in Nat
      BY ReaderFacts
    <2> QED
      BY <2>1, <2>2
  <1>3. in.base \in Nat
    BY ReaderFacts
  <1>4. in.base <= Start(k + 1)
    BY <1>2, <1>3
  <1>5. Taken' + in'.contentLen + in'.paddingLen = Start(k + 1) + headerLen'
    BY <1>2
  <1> QED
    BY <1>1, <1>4, <1>5 DEF Located

\* The log after a header that begins no request.
LEMMA LoggedNext ==
  ASSUME StreamInv, pc = "fill", UNCHANGED <<script, req>>, in'.base = in.base,
         NEW k \in 0..Len(script), k + 1 \in 1..Len(script), Logged(k), k + 1 \in Seen,
         script[k + 1].type = "BEGIN" => req.begun, pc' # "body",
         replies' = Joined(Due, IF pc' = "values" THEN k ELSE k + 1),
         pc' = "values" => script[k + 1].type = "GET_VALUES"
  PROVE  Logged(k + 1)'
  <1>1. Due' = Due /\ Seen' = Seen
    BY FrameFacts
  <1>2. (k + 1) - 1 = k /\ k \in Int
    OBVIOUS
  <1>3. req.begun => req.first <= k /\ req.first <= k + 1
    <2>1. req.first \in Nat
      BY ReaderFacts
    <2> QED
      BY <1>2, <2>1 DEF Logged
  <1>4. ASSUME NEW j \in Seen, j <= k + 1, script[j].type = "BEGIN" PROVE req.begun
    <2>1. j \in 1..Len(script)
      BY ReaderFacts, ScriptFacts DEF Seen
    <2>2. j <= k \/ j = k + 1
      BY <1>4, <2>1
    <2> QED
      BY <1>4, <2>2 DEF Logged
  <1>5. replies' = Joined(Due', IF pc' = "values" THEN (k + 1) - 1 ELSE k + 1)
    BY <1>1, <1>2
  <1> QED
    BY <1>1, <1>3, <1>4, <1>5 DEF Logged

\* The streams to come have not come yet.
LEMMA CountedNext ==
  ASSUME StreamInv, UNCHANGED <<script, req, vec, half, got>>, in'.base = in.base,
         NEW k \in 0..Len(script), NEW u, Counted(k, u),
         \A v \in Later(u) : k + 1 \notin Own(v)
  PROVE  Counted(k + 1, u)'
  <1>1. \A v : Own(v)' = Own(v) /\ Content(v)' = Content(v)
    BY FrameFacts
  <1>2. ASSUME NEW v \in Later(u), NEW j \in Own(v) PROVE j > k + 1
    <2>1. j > k /\ j # k + 1
      BY <1>2 DEF Counted
    <2>2. j \in Int
      <3>1. j \in 1..Len(script)
        BY ReaderFacts, CarriedFacts
      <3> QED
        BY <3>1
    <2> QED
      BY <2>1, <2>2
  <1> QED
    BY <1>1, <1>2 DEF Counted

\* No record of the stream: the end is still to come, and nothing more is carried.
LEMMA PassedNext ==
  ASSUME StreamInv, NEW k \in 0..Len(script), k + 1 \in 1..Len(script), NEW u,
         \A e \in Ends(u) : e > k, k + 1 \notin Own(u)
  PROVE  /\ \A e \in Ends(u) : e > k + 1
         /\ Joined(Carried(u), k + 1) = Joined(Carried(u), k)
  <1>1. ASSUME NEW e \in Ends(u) PROVE e > k + 1
    <2>1. e \in 1..Len(script) /\ e # k + 1 /\ e > k
      BY <1>1, ReaderFacts, CarriedFacts
    <2> QED
      BY <2>1
  <1>2. Carried(u)[k + 1] = <<>> /\ (k + 1) - 1 = k
    BY ReaderFacts, CarriedFacts
  <1>3. Joined(Carried(u), k + 1) = Joined(Carried(u), (k + 1) - 1)
    BY <1>2, ReaderFacts, NextCarried
  <1> QED
    BY <1>1, <1>2, <1>3

\* A record that is not of the stream is answered, skipped or read by a nested call.
LEMMA RecordPassed ==
  ASSUME StreamInv, HeadersFound, pc = "fill", ~(in.contentLen > 0 /\ ~in.skip),
         NEW k, NEW u, Here(k, u), k + 1 \in 1..Len(script), k + 1 \in Seen,
         UNCHANGED <<script, req, vec, half, got>>, headerLen' = 0, pc' \in {"fill", "values"},
         in'.base = in.base, in'.errno = in.errno, in'.type = in.type, ~in'.isClosed,
         in'.rdNext = Start(k + 1) + HeadLen, in'.contentLen = script[k + 1].len,
         in'.paddingLen = script[k + 1].pad,
         script[k + 1].type = "BEGIN" => req.begun,
         replies' = Joined(Due, IF pc' = "values" THEN k ELSE k + 1),
         pc' = "values" => script[k + 1].type = "GET_VALUES",
         Regular /\ req.begun =>
           /\ \A v \in StreamTypes : k + 1 \notin Own(v)
           /\ in'.skip => in'.contentLen > 0
           /\ in'.contentLen > 0 => in'.skip \/ pc' = "values"
  PROVE  HeadersFound' /\ Placed'
  <1>1. /\ k \in 0..Len(script) /\ u = in.type /\ Located(k) /\ Logged(k)
        /\ in.base <= Start(k + 1) /\ Reading
    BY DEF Here, Located, Reading
  <1>2. Located(k + 1)'
    <2>1. Taken' = Start(k + 1) + HeadLen
      BY DEF Taken
    <2> QED
      BY <1>1, <2>1, LocatedNext
  <1>3. Logged(k + 1)'
    BY <1>1, LoggedNext
  <1>4. ASSUME Regular, req.begun PROVE Counted(k + 1, u)' /\ Delivered(k + 1, u)'
    <2>1. Past(k, u) /\ (\A e \in Ends(u) : e > k) /\ Counted(k, u)
      BY <1>1, <1>4, PastRecord
    <2>2. u \in StreamTypes /\ Later(u) \subseteq StreamTypes
      BY <1>1, ReaderFacts DEF Later, StreamTypes
    <2>3. Counted(k + 1, u)'
      BY <1>1, <1>4, <2>1, <2>2, CountedNext
    <2>4. /\ \A e \in Ends(u) : e > k + 1
          /\ Joined(Carried(u), k + 1) = Joined(Carried(u), k)
      BY <1>1, <1>4, <2>1, <2>2, PassedNext
    <2>5. Ends(u)' = Ends(u) /\ Carried(u)' = Carried(u)
      BY FrameFacts
    <2>6. Past(k + 1, u)'
      BY <1>4, <2>1, <2>4, <2>5 DEF Past
    <2>7. Delivered(k + 1, u)'
      BY <1>4, <2>4, <2>5, <2>6 DEF Delivered
    <2> QED
      BY <2>3, <2>7
  <1>5. k + 1 \in 0..Len(script)
    BY ReaderFacts
  <1>6. Here(k + 1, u)'
    BY <1>1, <1>2, <1>3, <1>4, <1>5, HereAgain
  <1> QED
    BY <1>6, PlacedFrom

\* A record of the client's stream comes after those that were begun, and begins.
LEMMA OwnRecord ==
  ASSUME StreamInv, pc = "fill", NEW k \in 0..Len(script), k + 1 \in 1..Len(script),
         Logged(k), req.begun, NEW u, script[k + 1].type = u, script[k + 1].id = req.id
  PROVE  /\ k + 1 \in Own(u) /\ (script[k + 1].len = 0 => k + 1 \in Ends(u))
         /\ \A v : v # u => k + 1 \notin Own(v)
  <1>1. req.first <= k /\ req.first \in Nat /\ k + 1 > req.first
    <2>1. req.first <= k /\ req.first \in Nat
      BY ReaderFacts DEF Logged
    <2> QED
      BY <2>1
  <1>2. k + 1 \in DOMAIN script
    BY ReaderFacts, ScriptFacts
  <1> QED
    BY <1>1, <1>2 DEF Own, Ends

\* Content of the client's stream begins.
LEMMA RecordEntered ==
  ASSUME StreamInv, HeadersFound, pc = "fill", ~(in.contentLen > 0 /\ ~in.skip),
         NEW k, NEW u, Here(k, u), k + 1 \in 1..Len(script), k + 1 \in Seen,
         UNCHANGED <<script, req, pc, vec, half, got, replies>>, headerLen' = 0,
         in'.base = in.base, in'.errno = in.errno, in'.type = in.type, ~in'.isClosed,
         in'.rdNext = Start(k + 1) + HeadLen, in'.contentLen = script[k + 1].len,
         in'.paddingLen = script[k + 1].pad,
         script[k + 1].type = in.type, script[k + 1].id = req.id, script[k + 1].len > 0,
         (in.skip => in.contentLen > 0) => ~in'.skip
  PROVE  HeadersFound' /\ Placed'
  <1>1. /\ k \in 0..Len(script) /\ u = in.type /\ Located(k) /\ Logged(k)
        /\ in.base <= Start(k + 1) /\ Reading
    BY DEF Here, Located, Reading
  <1>2. /\ script \in Seq(Sent) /\ u \in StreamTypes /\ u # "BEGIN"
        /\ u \notin {"GET_VALUES", "OTHER"}
    BY <1>1, ReaderFacts DEF StreamTypes
  <1>3. Due[k + 1] = <<>>
    BY <1>1, <1>2, DueFacts DEF Expected
  <1>4. replies' = Joined(Due, k + 1)
    <2>1. Joined(Due, k + 1) = Joined(Due, (k + 1) - 1) /\ (k + 1) - 1 = k
      BY <1>1, <1>2, <1>3, NothingDue
    <2>2. replies = Joined(Due, k)
      BY <1>1 DEF Logged
    <2> QED
      BY <2>1, <2>2
  <1>5. Located(k + 1)'
    <2>1. Taken' = Start(k + 1) + HeadLen
      BY DEF Taken
    <2> QED
      BY <1>1, <2>1, LocatedNext
  <1>6. Logged(k + 1)'
    BY <1>1, <1>2, <1>4, LoggedNext
  <1>7. ASSUME Regular, req.begun PROVE Counted(k + 1, u)' /\ Delivered(k + 1, u)'
    <2>1. /\ Past(k, u) /\ (\A e \in Ends(u) : e > k) /\ Counted(k, u)
          /\ (in.skip => in.contentLen > 0)
      BY <1>1, <1>7, PastRecord
    <2>2. /\ k + 1 \in Own(u) /\ \A v : v # u => k + 1 \notin Own(v)
      BY <1>1, <1>7, OwnRecord
    <2>3. Counted(k + 1, u)'
      <3>1. \A v \in Later(u) : v # u
        BY DEF Later
      <3> QED
        BY <1>1, <2>1, <2>2, <3>1, CountedNext
    <2>4. \A e \in Ends(u) : e > k + 1
      <3> SUFFICES ASSUME NEW e \in Ends(u) PROVE e > k + 1
        OBVIOUS
      <3>1. e > k /\ e # k + 1
        BY <2>1 DEF Ends
      <3>2. e \in 1..Len(script)
        BY <1>2, CarriedFacts
      <3> QED
        BY <1>1, <3>1, <3>2
    <2>5. /\ Ends(u)' = Ends(u) /\ Own(u)' = Own(u) /\ Carried(u)' = Carried(u)
          /\ \A j : Start(j)' = Start(j)
      BY FrameFacts
    <2>6. Inside(k + 1, u)'
      <3>1. PICK a \in Nat, g \in Seq(Nat) : a = Start(k + 1) + HeadLen /\ g = got
        BY RecordStart, ReaderFacts
      <3>2. g \o Units(a, a) = g
        <4>1. g \o <<>> = g
          BY <3>1
        <4> QED
          BY <3>1, <4>1, UnitsNone
      <3>3. got' = Joined(Carried(u), (k + 1) - 1) \o Units(Start(k + 1) + HeadLen, in'.rdNext)
        <4>1. got = Joined(Carried(u), k) /\ (k + 1) - 1 = k
          BY <1>1, <2>1 DEF Past
        <4> QED
          BY <3>1, <3>2, <4>1
      <3>4. Start(k + 1) + HeadLen <= in'.rdNext
        BY <3>1
      <3> QED
        BY <2>1, <2>2, <2>5, <3>3, <3>4 DEF Inside
    <2>7. Delivered(k + 1, u)'
      BY <1>7, <2>1, <2>4, <2>5, <2>6 DEF Delivered
    <2> QED
      BY <2>3, <2>7
  <1>8. k + 1 \in 0..Len(script)
    BY ReaderFacts
  <1>9. Here(k + 1, u)'
    BY <1>1, <1>5, <1>6, <1>7, <1>8, HereAgain
  <1> QED
    BY <1>9, PlacedFrom

\* The stream of the application ends: it has all of it.
LEMMA StreamEnded ==
  ASSUME StreamInv, HeadersFound, pc = "fill", ~(in.contentLen > 0 /\ ~in.skip),
         NEW k, NEW u, Here(k, u), k + 1 \in 1..Len(script), k + 1 \in Seen, PaddingFollowed,
         UNCHANGED <<script, req, vec, half, got, replies>>, headerLen' = 0, pc' = "idle",
         in'.base = in.base, in'.errno = in.errno, in'.type = in.type, in'.isClosed,
         in'.rdNext = Start(k + 1) + HeadLen, in'.stop = in'.rdNext,
         in'.contentLen = script[k + 1].len, in'.paddingLen = script[k + 1].pad,
         script[k + 1].type = in.type, script[k + 1].id = req.id, script[k + 1].len = 0
  PROVE  HeadersFound' /\ Placed'
  <1>1. /\ k \in 0..Len(script) /\ u = in.type /\ Located(k) /\ Logged(k)
        /\ in.base <= Start(k + 1) /\ Reading
    BY DEF Here, Located, Reading
  <1>2. /\ script \in Seq(Sent) /\ u \in StreamTypes /\ u # "BEGIN"
        /\ u \notin {"GET_VALUES", "OTHER"} /\ script[k + 1].pad \in Nat
    BY <1>1, ReaderFacts, RecordStart DEF StreamTypes
  <1>3. Due[k + 1] = <<>>
    BY <1>1, <1>2, DueFacts DEF Expected
  <1>4. replies' = Joined(Due, k + 1)
    <2>1. Joined(Due, k + 1) = Joined(Due, (k + 1) - 1) /\ (k + 1) - 1 = k
      BY <1>1, <1>2, <1>3, NothingDue
    <2>2. replies = Joined(Due, k)
      BY <1>1 DEF Logged
    <2> QED
      BY <2>1, <2>2
  <1>5. script[k + 1].pad = 0
    <2>1. ~(script[k + 1].pad > 0)
      BY DEF PaddingFollowed
    <2> QED
      BY <1>2, <2>1
  <1>6. Located(k + 1)'
    <2>1. Taken' = Start(k + 1) + HeadLen
      BY DEF Taken
    <2> QED
      BY <1>1, <1>5, <2>1, LocatedNext
  <1>7. Logged(k + 1)'
    BY <1>1, <1>2, <1>4, LoggedNext
  <1>8. ASSUME Regular, req.begun PROVE Counted(k + 1, u)' /\ Delivered(k + 1, u)'
    <2>1. Past(k, u) /\ (\A e \in Ends(u) : e > k) /\ Counted(k, u)
      BY <1>1, <1>8, PastRecord
    <2>2. k + 1 \in Ends(u) /\ \A v : v # u => k + 1 \notin Own(v)
      BY <1>1, <1>8, OwnRecord
    <2>3. Counted(k + 1, u)'
      <3>1. \A v \in Later(u) : v # u
        BY DEF Later
      <3> QED
        BY <1>1, <2>1, <2>2, <3>1, CountedNext
    <2>4. Joined(Carried(u), k + 1) = Joined(Carried(u), k)
      <3>1. Carried(u)[k + 1] = <<>> /\ (k + 1) - 1 = k
        <4>1. k + 1 <= k + 1
          BY <1>1
        <4> QED
          BY <1>1, <1>2, <2>2, <4>1, CarriedFacts
      <3>2. Joined(Carried(u), k + 1) = Joined(Carried(u), (k + 1) - 1)
        BY <1>2, <3>1, NextCarried
      <3> QED
        BY <3>1, <3>2
    <2>5. Ends(u)' = Ends(u) /\ Carried(u)' = Carried(u)
      BY FrameFacts
    <2>6. Delivered(k + 1, u)'
      BY <2>1, <2>2, <2>4, <2>5 DEF Delivered, Past
    <2> QED
      BY <2>3, <2>6
  <1>9. k + 1 \in 0..Len(script)
    BY ReaderFacts
  <1>10. Here(k + 1, u)'
    BY <1>1, <1>6, <1>7, <1>8, <1>9, HereAgain
  <1> QED
    BY <1>10, PlacedFrom

\* The parameters end: all of them were counted, and the body comes next.
LEMMA ParamsEnded ==
  ASSUME StreamInv, HeadersFound, pc = "fill", ~(in.contentLen > 0 /\ ~in.skip),
         NEW k, NEW u, Here(k, u), k + 1 \in 1..Len(script), k + 1 \in Seen, PaddingFollowed,
         UNCHANGED <<script, req, vec, half, replies>>, headerLen' = 0, pc' = "idle",
         half = 0, got' = <<>>, in.type = "PARAMS",
         in'.base = in.base, in'.errno = in.errno, in'.type = "STDIN", ~in'.isClosed,
         in'.rdNext = Start(k + 1) + HeadLen, in'.stop = in'.rdNext, ~in'.skip,
         in'.contentLen = 0, in'.paddingLen = 0,
         script[k + 1].type = "PARAMS", script[k + 1].id = req.id, script[k + 1].len = 0
  PROVE  HeadersFound' /\ Placed'
  <1>1. /\ k \in 0..Len(script) /\ u = "PARAMS" /\ Located(k) /\ Logged(k)
        /\ in.base <= Start(k + 1) /\ Reading
    BY DEF Here, Located, Reading
  <1>2. script \in Seq(Sent) /\ script[k + 1].pad \in Nat
    BY <1>1, ReaderFacts, RecordStart
  <1>3. Due[k + 1] = <<>>
    BY <1>1, <1>2, DueFacts DEF Expected
  <1>4. replies' = Joined(Due, k + 1)
    <2>1. Joined(Due, k + 1) = Joined(Due, (k + 1) - 1) /\ (k + 1) - 1 = k
      BY <1>1, <1>2, <1>3, NothingDue
    <2>2. replies = Joined(Due, k)
      BY <1>1 DEF Logged
    <2> QED
      BY <2>1, <2>2
  <1>5. script[k + 1].pad = 0
    <2>1. ~(script[k + 1].pad > 0)
      BY DEF PaddingFollowed
    <2> QED
      BY <1>2, <2>1
  <1>6. Located(k + 1)'
    <2>1. Taken' = Start(k + 1) + HeadLen
      BY DEF Taken
    <2> QED
      BY <1>1, <1>5, <2>1, LocatedNext
  <1>7. Logged(k + 1)'
    BY <1>1, <1>4, LoggedNext
  <1>8. ASSUME Regular, req.begun
        PROVE  Counted(k + 1, "STDIN")' /\ Delivered(k + 1, "STDIN")'
    <2>1. Past(k, u) /\ (\A e \in Ends(u) : e > k) /\ Counted(k, u)
      BY <1>1, <1>8, PastRecord
    <2>2. k + 1 \in Ends(u) /\ \A v : v # u => k + 1 \notin Own(v)
      BY <1>1, <1>8, OwnRecord
    <2>3. \A v \in {"STDIN", "DATA"} : \A j \in Own(v) : j > k + 1
      <3> SUFFICES ASSUME NEW v \in {"STDIN", "DATA"}, NEW j \in Own(v) PROVE j > k + 1
        OBVIOUS
      <3>1. j > k /\ j # k + 1
        BY <1>1, <2>1, <2>2 DEF Counted, Later
      <3>2. j \in 1..Len(script)
        BY <1>2, CarriedFacts
      <3> QED
        BY <1>1, <3>1, <3>2
    <2>4. /\ \A v : Own(v)' = Own(v) /\ Ends(v)' = Ends(v) /\ Carried(v)' = Carried(v)
                    /\ Content(v)' = Content(v)
      BY FrameFacts
    <2>5. vec.size = 1 + Len(Content("PARAMS")) \div 2
      <3>1. got = Content("PARAMS")
        <4>1. k + 1 <= k + 1
          BY <1>1
        <4>2. Joined(Carried(u), k) = Content(u)
          BY <1>1, <1>2, <2>2, <4>1, AllCarried
        <4> QED
          BY <1>1, <2>1, <4>2 DEF Past
      <3>2. 2 * (vec.size - 1) = Len(got)
        <4>1. 2 * (vec.size - 1) + half = Len(got) /\ vec.size \in Nat
          BY <1>1, <2>1, ReaderFacts DEF Counted, Vectors
        <4> QED
          BY <4>1
      <3>3. PICK n \in Nat, x \in Nat : n = Len(got) /\ x = vec.size
        BY ReaderFacts DEF Vectors
      <3>4. x = 1 + n \div 2
        <4>1. 2 * (x - 1) = n
          BY <3>2, <3>3
        <4> QED
          BY <3>3, <4>1
      <3> QED
        BY <3>1, <3>3, <3>4
    <2>6. Counted(k + 1, "STDIN")'
      BY <2>3, <2>4, <2>5 DEF Counted, Later
    <2>7. Delivered(k + 1, "STDIN")'
      <3>1. k + 1 \in 0..Len(script)
        BY ReaderFacts
      <3>2. Joined(Carried("STDIN"), k + 1) = <<>>
        BY <1>2, <2>3, <3>1, NothingCarried
      <3>3. \A e \in Ends("STDIN") : e > k + 1
        BY <2>3 DEF Ends
      <3>4. Past(k + 1, "STDIN")'
        BY <2>4, <3>2 DEF Past
      <3> QED
        BY <2>4, <3>3, <3>4 DEF Delivered
    <2> QED
      BY <2>6, <2>7
  <1>9. k + 1 \in 0..Len(script)
    BY ReaderFacts
  <1>10. Here(k + 1, "STDIN")'
    BY <1>6, <1>7, <1>8, <1>9, HereAgain
  <1> QED
    BY <1>10, PlacedFrom

\* A BEGIN record for a reader without a request: the number of the request is known,
\* no record of it was passed, and its content is read by a nested call.
LEMMA BodyEntered ==
  ASSUME StreamInv, HeadersFound, pc = "fill", ~req.begun,
         NEW k, NEW u, Here(k, u), k + 1 \in 1..Len(script), k + 1 \in Seen, PaddingFollowed,
         script[k + 1].type = "BEGIN", script' = script,
         req' = [req EXCEPT !.id = script[k + 1].id, !.first = k + 1],
         UNCHANGED <<vec, half, got, replies>>, headerLen' = 0, pc' = "body",
         in'.base = in.base, in'.errno = in.errno, in'.type = in.type, ~in'.isClosed,
         in'.rdNext = Start(k + 1) + HeadLen, in'.contentLen = script[k + 1].len,
         in'.paddingLen = script[k + 1].pad
  PROVE  HeadersFound' /\ Placed'
  <1>1. /\ k \in 0..Len(script) /\ Located(k) /\ Logged(k)
        /\ in.base <= Start(k + 1) /\ script \in Seq(Sent) /\ Len(script) \in Nat
    BY ReaderFacts DEF Here, Located
  <1>2. req'.first = k + 1 /\ ~req'.begun
    <2>1. req \in Requests
      BY ReaderFacts
    <2> QED
      BY <2>1 DEF Requests
  <1>3. Seen' = Seen /\ (PaddingFollowed' <=> PaddingFollowed) /\ \A j : Start(j)' = Start(j)
    BY ConnectionKept
  <1>4. script[k + 1].pad = 0
    <2>1. ~(script[k + 1].pad > 0)
      BY DEF PaddingFollowed
    <2>2. script[k + 1].pad \in Nat
      BY RecordStart
    <2> QED
      BY <2>1, <2>2
  <1>5. Located(k + 1)'
    <2>1. Taken' = Start(k + 1) + HeadLen
      BY DEF Taken
    <2> QED
      BY <1>1, <1>4, <2>1, LocatedNext
  <1>6. \A j \in Seen : j <= k => script[j].type # "BEGIN"
    BY <1>1 DEF Logged
  <1>7. Due'[k + 1] = <<>>
    <2>1. Expected(k + 1)' = <<>>
      BY <1>2 DEF Expected
    <2>2. k + 1 \in DOMAIN script
      BY <1>1
    <2> QED
      BY <2>1, <2>2 DEF Due
  <1>8. ASSUME NEW j \in 1..k PROVE Due'[j] = Due[j]
    <2>1. j \in DOMAIN script /\ j <= k /\ j \in Int
      BY <1>1, <1>8
    <2>2. CASE j \in Seen
      <3>1. script[j].type # "BEGIN"
        BY <1>6, <2>1, <2>2
      <3>2. Expected(j)' = Expected(j)
        BY <3>1 DEF Expected
      <3> QED
        BY <1>3, <2>1, <3>2 DEF Due
    <2>3. CASE j \notin Seen
      BY <1>3, <2>1, <2>3 DEF Due
    <2> QED
      BY <2>2, <2>3
  <1>9. replies' = Joined(Due', k + 1)
    <2>1. replies = Joined(Due, k)
      BY <1>1 DEF Logged
    <2>2. PICK n \in Nat : n = k
      BY <1>1
    <2>3. PICK fs : fs = Due'
      OBVIOUS
    <2>4. PICK g : g = Due
      OBVIOUS
    <2>5. Joined(fs, n) = Joined(g, n)
      <3>1. \A i \in 1..n : fs[i] = g[i]
        BY <1>8, <2>2, <2>3, <2>4
      <3> QED
        BY <2>2, <3>1, JoinedSame
    <2>6. Joined(fs, n + 1) = Joined(fs, n)
      <3>1. \A i \in 1..n : fs[i] \in Seq(Answers)
        <4>1. \A i \in 1..n : i \in 1..Len(script) /\ fs[i] = Due[i]
          BY <1>1, <1>8, <2>2, <2>3
        <4> QED
          BY <1>1, <4>1, DueFacts
      <3>2. fs[n + 1] = <<>>
        BY <1>7, <2>2, <2>3
      <3>3. /\ n + 1 \in Nat /\ n \in 0..(n + 1)
            /\ \A i \in 1..(n + 1) : i \in 1..n \/ i = n + 1
            /\ \A i \in (n + 1)..(n + 1) : i = n + 1
        BY <2>2
      <3>4. \A i \in 1..(n + 1) : fs[i] \in Seq(Answers)
        <4>1. <<>> \in Seq(Answers)
          OBVIOUS
        <4> QED
          BY <3>1, <3>2, <3>3, <4>1
      <3>5. \A i \in (n + 1)..(n + 1) : fs[i] = <<>>
        BY <3>2, <3>3
      <3> QED
        BY <3>3, <3>4, <3>5, JoinedEmpty
    <2> QED
      BY <2>1, <2>2, <2>3, <2>4, <2>5, <2>6
  <1>10. Logged(k + 1)'
    <2>1. ASSUME NEW j \in Seen, j <= k + 1, script[j].type = "BEGIN" PROVE j = k + 1
      <3>1. j \in 1..Len(script) /\ ~(j <= k)
        BY <1>6, <2>1, ScriptFacts, ReaderFacts DEF Seen
      <3> QED
        BY <1>1, <2>1, <3>1
    <2> QED
      BY <1>2, <1>3, <1>9, <2>1 DEF Logged
  <1>11. k + 1 \in 0..Len(script)
    BY <1>1
  <1>12. Here(k + 1, in.type)'
    BY <1>2, <1>5, <1>10, <1>11 DEF Here
  <1> QED
    BY <1>12, PlacedFrom

\* The header of record k + 1 was gathered, after all of record k was passed.
Between(h) ==
  /\ h \in Streams /\ h.rdNext <= in.buffStop
  /\ h.rdNext + headerLen = in.rdNext + in.contentLen + in.paddingLen + HeadLen
  /\ h.base = in.base /\ h.errno = in.errno /\ h.type = in.type /\ ~h.isClosed
  /\ (in.skip => in.contentLen > 0) => ~h.skip

\* The record j of the header h is the one after k, where the reader is.
Announces(h, j, k, u) ==
  /\ Here(k, u) /\ j = k + 1 /\ k + 1 \in 1..Len(script) /\ k + 1 \in Seen
  /\ h.rdNext = Start(k + 1) + HeadLen

\* The header that was gathered is that of the next record.
LEMMA RecordNext ==
  ASSUME StreamInv, Placed, pc = "fill", NEW h, Between(h),
         NEW j, j \in RecordAt(h.rdNext - HeadLen), PaddingFollowed, in.errno = "none"
  PROVE  \E k, u : Announces(h, j, k, u)
  <1>1. Reading
    BY DEF Reading
  <1>2. PICK k, u : Here(k, u)
    BY <1>1, Somewhere
  <1>3. /\ k + 1 \in 1..Len(script) /\ h.rdNext = Start(k + 1) + HeadLen
        /\ k + 1 \in Seen /\ RecordAt(h.rdNext - HeadLen) = {k + 1}
    BY <1>2, RecordFound DEF Between
  <1> QED
    BY <1>2, <1>3 DEF Announces

\* A BEGIN record is refused, answered or read.
LEMMA BeginRecordPlaced ==
  ASSUME StreamInv, HeadersFound, Placed, pc = "fill", ~(in.contentLen > 0 /\ ~in.skip),
         script' = script, headerLen' = 0,
         NEW h, Between(h), NEW j, j \in RecordAt(h.rdNext - HeadLen), NEW t,
         Announced(t, h, j), script[j].type = "BEGIN", ProcessBeginRecord(t, j)
  PROVE  HeadersFound' /\ Placed'
  <1>1. /\ t \in Streams /\ t.base = in.base /\ t.errno = in.errno /\ t.type = in.type
        /\ ~t.isClosed /\ t.rdNext = h.rdNext /\ t.stop = h.rdNext /\ t.skip = h.skip
        /\ t.contentLen = script[j].len /\ t.paddingLen = script[j].pad
    BY DEF Between, Announced, Alike
  <1>2. "protocol" \in Errors \ {"none", "version"}
    BY DEF Errors
  <1>3. CASE Failed(t, "protocol")
    BY <1>1, <1>2, <1>3, FailedPlaced
  <1>4. PaddingFollowed /\ in.errno = "none" => \E k, u : Announces(h, j, k, u)
    BY RecordNext
  <1>6. CASE /\ script[j].id # NullId /\ script[j].len = BeginLen /\ req.begun
             /\ Answer("CANT_MPX_CONN", Skip(t))
    <2>1. PICK s : s = Skip(t)
      OBVIOUS
    <2>2. /\ s \in Streams /\ s.base = in.base /\ s.errno = in.errno /\ s.type = in.type
          /\ ~s.isClosed /\ s.rdNext = h.rdNext /\ s.skip
          /\ s.contentLen = script[j].len /\ s.paddingLen = script[j].pad
      BY <1>1, <2>1 DEF Skip, Streams
    <2>3. CASE /\ replies' = Append(replies, "CANT_MPX_CONN") /\ in' = s /\ pc' = "fill"
               /\ UNCHANGED <<req, half, want, vec, got>>
      <3>1. CASE ~(PaddingFollowed /\ in.errno = "none")
        BY <2>2, <2>3, <3>1, PlacedFrom
      <3>2. CASE PaddingFollowed /\ in.errno = "none"
        <4>1. PICK k, u : /\ Here(k, u) /\ j = k + 1 /\ k + 1 \in 1..Len(script)
                          /\ k + 1 \in Seen /\ h.rdNext = Start(k + 1) + HeadLen
          BY <1>4, <3>2 DEF Announces
        <4>2. /\ k \in 0..Len(script) /\ req.first <= k /\ req.first \in Nat
              /\ replies = Joined(Due, k) /\ script \in Seq(Sent)
          BY <1>6, <4>1, ReaderFacts DEF Here, Logged
        <4>3. replies' = Joined(Due, k + 1)
          <5>1. k + 1 # req.first /\ (k + 1) - 1 = k
            BY <4>2
          <5>2. Due[k + 1] = <<"CANT_MPX_CONN">>
            BY <4>1, <4>2, <5>1, DueFacts DEF Expected
          <5>3. "CANT_MPX_CONN" \in Answers
            BY DEF Answers
          <5> QED
            BY <2>3, <4>1, <4>2, <5>1, <5>2, <5>3, NextDue
        <4>4. \A v \in StreamTypes : k + 1 \notin Own(v)
          BY <4>1 DEF Own, StreamTypes
        <4>5. in'.contentLen > 0
          BY <1>6, <2>2, <2>3, ReaderAssumption
        <4> QED
          BY <1>6, <2>2, <2>3, <4>1, <4>3, <4>4, <4>5, RecordPassed
      <3> QED
        BY <3>1, <3>2
    <2> QED
      BY <1>6, <2>1, <2>2, <2>3, AnswerPlaced
  <1>7. CASE /\ ~req.begun
             /\ Nest(t, "body", [req EXCEPT !.id = script[j].id, !.first = j])
    <2>1. /\ in' = t /\ pc' = "body" /\ UNCHANGED <<half, vec, got, replies>>
          /\ req' = [req EXCEPT !.id = script[j].id, !.first = j]
      BY <1>7 DEF Nest
    <2>2. CASE ~(PaddingFollowed /\ in.errno = "none")
      BY <1>1, <2>1, <2>2, PlacedFrom
    <2>3. CASE PaddingFollowed /\ in.errno = "none"
      <3>1. PICK k, u : /\ Here(k, u) /\ j = k + 1 /\ k + 1 \in 1..Len(script)
                        /\ k + 1 \in Seen /\ h.rdNext = Start(k + 1) + HeadLen
        BY <1>4, <2>3 DEF Announces
      <3> QED
        BY <1>1, <1>7, <2>1, <2>3, <3>1, BodyEntered
    <2> QED
      BY <2>2, <2>3
  <1>8. \/ Failed(t, "protocol")
        \/ /\ script[j].id # NullId /\ script[j].len = BeginLen /\ req.begun
           /\ Answer("CANT_MPX_CONN", Skip(t))
        \/ /\ ~req.begun
           /\ Nest(t, "body", [req EXCEPT !.id = script[j].id, !.first = j])
    BY DEF ProcessBeginRecord
  <1> QED
    BY <1>3, <1>6, <1>7, <1>8

\* A management record is answered, at once or after its values were read.
LEMMA ManagementRecordPlaced ==
  ASSUME StreamInv, HeadersFound, Placed, pc = "fill", ~(in.contentLen > 0 /\ ~in.skip),
         script' = script, headerLen' = 0,
         NEW h, Between(h), NEW j, j \in RecordAt(h.rdNext - HeadLen), NEW t,
         Announced(t, h, j), script[j].type \in ManagementTypes,
         ProcessManagementRecord(t, script[j])
  PROVE  HeadersFound' /\ Placed'
  <1>1. /\ t \in Streams /\ t.base = in.base /\ t.errno = in.errno /\ t.type = in.type
        /\ ~t.isClosed /\ t.rdNext = h.rdNext /\ t.stop = h.rdNext /\ t.skip = h.skip
        /\ t.contentLen = script[j].len /\ t.paddingLen = script[j].pad
    BY DEF Between, Announced, Alike
  <1>2. PaddingFollowed /\ in.errno = "none" => \E k, u : Announces(h, j, k, u)
    BY RecordNext
  <1>3. CASE script[j].type = "GET_VALUES" /\ Nest(t, "values", req)
    <2>1. /\ in' = t /\ pc' = "values" /\ UNCHANGED <<half, vec, got, replies, req>>
      BY <1>3 DEF Nest
    <2>2. CASE ~(PaddingFollowed /\ in.errno = "none")
      BY <1>1, <2>1, <2>2, PlacedFrom
    <2>3. CASE PaddingFollowed /\ in.errno = "none"
      <3>1. PICK k, u : /\ Here(k, u) /\ j = k + 1 /\ k + 1 \in 1..Len(script)
                        /\ k + 1 \in Seen /\ h.rdNext = Start(k + 1) + HeadLen
        BY <1>2, <2>3 DEF Announces
      <3>2. replies' = Joined(Due, k)
        BY <2>1, <3>1 DEF Here, Logged
      <3>3. \A v \in StreamTypes : k + 1 \notin Own(v)
        BY <1>3, <3>1 DEF Own, StreamTypes
      <3>4. Regular /\ req.begun => ~in'.skip
        <4>1. Reading
          BY DEF Reading
        <4> QED
          BY <1>1, <2>1, <3>1, <4>1, PastRecord DEF Between
      <3> QED
        BY <1>1, <1>3, <2>1, <3>1, <3>2, <3>3, <3>4, RecordPassed
    <2> QED
      BY <2>2, <2>3
  <1>4. CASE script[j].type = "OTHER" /\ Answer("UNKNOWN_TYPE", t)
    <2>1. CASE /\ replies' = Append(replies, "UNKNOWN_TYPE") /\ in' = t /\ pc' = "fill"
               /\ UNCHANGED <<req, half, want, vec, got>>
      <3>1. CASE ~(PaddingFollowed /\ in.errno = "none")
        BY <1>1, <2>1, <3>1, PlacedFrom
      <3>2. CASE PaddingFollowed /\ in.errno = "none"
        <4>1. PICK k, u : /\ Here(k, u) /\ j = k + 1 /\ k + 1 \in 1..Len(script)
                          /\ k + 1 \in Seen /\ h.rdNext = Start(k + 1) + HeadLen
          BY <1>2, <3>2 DEF Announces
        <4>2. /\ k \in 0..Len(script) /\ replies = Joined(Due, k) /\ script \in Seq(Sent)
          BY <4>1, ReaderFacts DEF Here, Logged
        <4>3. replies' = Joined(Due, k + 1)
          <5>1. (k + 1) - 1 = k
            BY <4>2
          <5>2. Due[k + 1] = <<"UNKNOWN_TYPE">>
            BY <1>4, <4>1, <4>2, <5>1, DueFacts DEF Expected
          <5>3. "UNKNOWN_TYPE" \in Answers
            BY DEF Answers
          <5> QED
            BY <2>1, <4>1, <4>2, <5>1, <5>2, <5>3, NextDue
        <4>4. \A v \in StreamTypes : k + 1 \notin Own(v)
          BY <1>4, <4>1 DEF Own, StreamTypes
        <4>5. Regular /\ req.begun => ~in'.skip
          <5>1. Reading
            BY DEF Reading
          <5> QED
            BY <1>1, <2>1, <4>1, <5>1, PastRecord DEF Between
        <4>6. Regular => ~(in'.contentLen > 0)
          BY <1>1, <1>4, <2>1, <4>1 DEF Regular, Unfollowed
        <4> QED
          BY <1>1, <1>4, <2>1, <4>1, <4>3, <4>4, <4>5, <4>6, RecordPassed
      <3> QED
        BY <3>1, <3>2
    <2> QED
      BY <1>1, <1>4, <2>1, AnswerPlaced
  <1> QED
    BY <1>3, <1>4 DEF ProcessManagementRecord, ManagementTypes

\* A record of another request is skipped.
LEMMA ForeignRecordPlaced ==
  ASSUME StreamInv, HeadersFound, pc = "fill", ~(in.contentLen > 0 /\ ~in.skip),
         script' = script, headerLen' = 0, UNCHANGED replies,
         NEW h, Between(h), NEW j, NEW t,
         PaddingFollowed /\ in.errno = "none" => \E k, u : Announces(h, j, k, u),
         Announced(t, h, j), script[j].type \notin ManagementTypes \cup {"BEGIN"},
         IsForeign(script[j]), Loop(Skip(t))
  PROVE  HeadersFound' /\ Placed'
  <1>1. PICK s : s = Skip(t)
    OBVIOUS
  <1>2. /\ s \in Streams /\ s.base = in.base /\ s.errno = in.errno /\ s.type = in.type
        /\ ~s.isClosed /\ s.rdNext = h.rdNext /\ s.skip
        /\ s.contentLen = script[j].len /\ s.paddingLen = script[j].pad
    BY <1>1 DEF Skip, Streams, Between, Announced, Alike
  <1>3. in' = s /\ UNCHANGED <<req, pc, nested, half, want, vec, got>>
    BY <1>1 DEF Loop
  <1>4. CASE ~(PaddingFollowed /\ in.errno = "none")
    BY <1>2, <1>3, <1>4, PlacedFrom
  <1>5. CASE PaddingFollowed /\ in.errno = "none"
    <2>1. PICK k, u : /\ Here(k, u) /\ j = k + 1 /\ k + 1 \in 1..Len(script)
                      /\ k + 1 \in Seen /\ h.rdNext = Start(k + 1) + HeadLen
      BY <1>5 DEF Announces
    <2>2. /\ k \in 0..Len(script) /\ replies = Joined(Due, k) /\ script \in Seq(Sent)
      BY <2>1, ReaderFacts DEF Here, Logged
    <2>3. replies' = Joined(Due, k + 1)
      <3>1. (k + 1) - 1 = k
        BY <2>2
      <3>2. Due[k + 1] = <<>>
        BY <2>1, <2>2, <3>1, DueFacts DEF Expected, ManagementTypes
      <3>3. Joined(Due, k + 1) = Joined(Due, (k + 1) - 1)
        BY <2>1, <2>2, <3>2, NothingDue
      <3> QED
        BY <2>2, <3>1, <3>3
    <2>4. \A v \in StreamTypes : k + 1 \notin Own(v)
      BY <2>1 DEF Own, IsForeign
    <2>5. Regular => in'.contentLen > 0
      <3>1. script[k + 1].len \in Nat
        BY <2>1, RecordStart
      <3>2. Regular => script[k + 1].len # 0
        BY <2>1 DEF Regular, Unfollowed, IsForeign
      <3> QED
        BY <1>2, <1>3, <2>1, <3>1, <3>2
    <2>6. script[k + 1].type # "BEGIN" /\ pc' = "fill"
      BY <1>3, <2>1
    <2> QED
      BY <1>2, <1>3, <2>1, <2>3, <2>4, <2>5, <2>6, RecordPassed
  <1> QED
    BY <1>4, <1>5

\* The record that ends the stream the reader is on.
LEMMA EndRecordPlaced ==
  ASSUME StreamInv, HeadersFound, pc = "fill", ~(in.contentLen > 0 /\ ~in.skip),
         script' = script, headerLen' = 0, UNCHANGED replies,
         NEW h, Between(h), NEW j, NEW t,
         PaddingFollowed /\ in.errno = "none" => \E k, u : Announces(h, j, k, u),
         Announced(t, h, j), script[j].type = in.type, script[j].id = req.id,
         script[j].len = 0, in.type # "NONE",
         Return([t EXCEPT !.isClosed = TRUE], req)
  PROVE  HeadersFound' /\ Placed'
  <1>1. PICK s : s = [t EXCEPT !.isClosed = TRUE]
    OBVIOUS
  <1>2. /\ s \in Streams /\ s.base = in.base /\ s.errno = in.errno /\ s.type = in.type
        /\ s.isClosed /\ s.rdNext = h.rdNext /\ s.stop = h.rdNext
        /\ s.contentLen = script[j].len /\ s.paddingLen = script[j].pad
    BY <1>1 DEF Streams, Between, Announced, Alike
  <1>3. CASE in.type = "PARAMS"
    <2>1. ParamsEnd(s) /\ got' = <<>> /\ UNCHANGED <<half, vec, want, req>>
      BY <1>1, <1>2, <1>3 DEF Return, ParamsReturned
    <2>2. CASE half = 1
      <3>1. "params" \in Errors \ {"none"}
        BY DEF Errors
      <3>2. in' = SetError(s, "params")
        BY <2>1, <2>2 DEF ParamsEnd
      <3>3. /\ in'.base = in.base /\ in'.errno # "none"
            /\ in'.errno = IF in.errno = "none" THEN "params" ELSE in.errno
        BY <1>2, <3>1, <3>2, SetErrorFacts
      <3> QED
        BY <3>3, BrokenKeeps DEF HeadersFound
    <2>3. CASE half # 1
      <3>1. half = 0 /\ in' = SetReaderType(s, "STDIN") /\ pc' = "idle"
        BY <2>1, <2>3, ReaderFacts DEF ParamsEnd
      <3>2. /\ in'.rdNext = h.rdNext /\ in'.stop = h.rdNext /\ in'.type = "STDIN"
            /\ ~in'.skip /\ in'.contentLen = 0 /\ in'.paddingLen = 0 /\ ~in'.isClosed
            /\ in'.errno = in.errno /\ in'.base = in.base
        <4>1. "STDIN" \in StreamTypes
          BY DEF StreamTypes
        <4> QED
          BY <1>2, <3>1, <4>1, SetReaderTypeFacts
      <3>3. CASE ~(PaddingFollowed /\ in.errno = "none")
        BY <3>2, <3>3, PlacedFrom
      <3>4. CASE PaddingFollowed /\ in.errno = "none"
        <4>1. PICK k, u : /\ Here(k, u) /\ j = k + 1 /\ k + 1 \in 1..Len(script)
                          /\ k + 1 \in Seen /\ h.rdNext = Start(k + 1) + HeadLen
          BY <3>4 DEF Announces
        <4> QED
          BY <1>3, <2>1, <3>1, <3>2, <3>4, <4>1, ParamsEnded
      <3> QED
        BY <3>3, <3>4
    <2> QED
      BY <2>2, <2>3
  <1>4. CASE in.type # "PARAMS"
    <2>1. in' = s /\ pc' = "idle" /\ UNCHANGED <<got, half, vec, req>>
      BY <1>1, <1>2, <1>4 DEF Return, StrReturned
    <2>2. CASE ~(PaddingFollowed /\ in.errno = "none")
      BY <1>2, <2>1, <2>2, PlacedFrom
    <2>3. CASE PaddingFollowed /\ in.errno = "none"
      <3>1. PICK k, u : /\ Here(k, u) /\ j = k + 1 /\ k + 1 \in 1..Len(script)
                        /\ k + 1 \in Seen /\ h.rdNext = Start(k + 1) + HeadLen
        BY <2>3 DEF Announces
      <3> QED
        BY <1>2, <2>1, <2>3, <3>1, StreamEnded
    <2> QED
      BY <2>2, <2>3
  <1> QED
    BY <1>3, <1>4

\* A record of a stream: another's, one that does not belong here, the end, content.
LEMMA StreamRecordPlaced ==
  ASSUME StreamInv, HeadersFound, Placed, pc = "fill", ~(in.contentLen > 0 /\ ~in.skip),
         script' = script, headerLen' = 0,
         NEW h, Between(h), NEW j, j \in RecordAt(h.rdNext - HeadLen), NEW t,
         Announced(t, h, j), script[j].type \notin ManagementTypes \cup {"BEGIN"},
         ProcessStreamRecord(t, script[j])
  PROVE  HeadersFound' /\ Placed'
  <1>1. /\ t \in Streams /\ t.base = in.base /\ t.errno = in.errno /\ t.type = in.type
        /\ ~t.isClosed /\ t.rdNext = h.rdNext /\ t.stop = h.rdNext /\ t.skip = h.skip
        /\ t.contentLen = script[j].len /\ t.paddingLen = script[j].pad
    BY DEF Between, Announced, Alike
  <1>2. PaddingFollowed /\ in.errno = "none" => \E k, u : Announces(h, j, k, u)
    BY RecordNext
  <1>3. UNCHANGED replies
    BY DEF ProcessStreamRecord
  <1>4. CASE IsForeign(script[j]) /\ Loop(Skip(t))
    BY <1>2, <1>3, <1>4, ForeignRecordPlaced
  <1>5. CASE Failed(t, "protocol")
    <2>1. "protocol" \in Errors \ {"none", "version"}
      BY DEF Errors
    <2> QED
      BY <1>1, <1>5, <2>1, FailedPlaced
  <1>6. in.type = script[j].type => in.type # "NONE"
    <2>1. j \in 1..Len(script) /\ script \in Seq(Sent)
      BY ReaderFacts, ScriptFacts DEF RecordAt
    <2>2. script[j] \in Records
      BY <2>1, ScriptFacts
    <2> QED
      BY <2>2 DEF Records, RecordTypes, ManagementTypes
  <1>7. CASE /\ ~IsForeign(script[j]) /\ script[j].type = in.type /\ script[j].len = 0
             /\ Return([t EXCEPT !.isClosed = TRUE], req)
    BY <1>2, <1>3, <1>6, <1>7, EndRecordPlaced DEF IsForeign
  <1>8. CASE /\ ~IsForeign(script[j]) /\ script[j].type = in.type /\ script[j].len # 0
             /\ Loop(t)
    <2>1. in' = t /\ UNCHANGED <<req, pc, nested, half, want, vec, got>>
      BY <1>8 DEF Loop
    <2>2. CASE ~(PaddingFollowed /\ in.errno = "none")
      BY <1>1, <2>1, <2>2, PlacedFrom
    <2>3. CASE PaddingFollowed /\ in.errno = "none"
      <3>1. PICK k, u : /\ Here(k, u) /\ j = k + 1 /\ k + 1 \in 1..Len(script)
                        /\ k + 1 \in Seen /\ h.rdNext = Start(k + 1) + HeadLen
        BY <1>2, <2>3 DEF Announces
      <3>2. script[k + 1].len > 0
        <4>1. script[k + 1].len \in Nat /\ script[k + 1].len # 0
          BY <1>8, <3>1, RecordStart
        <4> QED
          BY <4>1
      <3>3. (in.skip => in.contentLen > 0) => ~in'.skip
        BY <1>1, <2>1 DEF Between
      <3>4. script[k + 1].id = req.id /\ script[k + 1].type = in.type
        BY <1>8, <3>1 DEF IsForeign
      <3> QED
        BY <1>1, <1>3, <2>1, <3>1, <3>2, <3>3, <3>4, RecordEntered
    <2> QED
      BY <2>2, <2>3
  <1>9. \/ IsForeign(script[j]) /\ Loop(Skip(t))
        \/ Failed(t, "protocol")
        \/ /\ ~IsForeign(script[j]) /\ script[j].type = in.type /\ script[j].len = 0
           /\ Return([t EXCEPT !.isClosed = TRUE], req)
        \/ /\ ~IsForeign(script[j]) /\ script[j].type = in.type /\ script[j].len # 0
           /\ Loop(t)
    BY DEF ProcessStreamRecord
  <1> QED
    BY <1>4, <1>5, <1>7, <1>8, <1>9

\* The rest of the loop: skipping, gathering, the end of a nested call, a header.
LEMMA NextRecordPlaced ==
  ASSUME StreamInv, HeadersFound, Placed, NextRecord
  PROVE  HeadersFound' /\ Placed'
  <1>1. Reading /\ UNCHANGED <<script, rest>> /\ ~(in.contentLen > 0 /\ ~in.skip)
    BY DEF NextRecord
  <1>2. PICK c, p, n, h : Skipped(c, p, n, h) /\
          \/ c.contentLen > 0 /\ Loop(c) /\ UNCHANGED <<headerLen, replies>>
          \/ /\ c.contentLen = 0 /\ p.paddingLen > 0
             /\ Loop(p) /\ UNCHANGED <<headerLen, replies>>
          \/ /\ c.contentLen = 0 /\ p.paddingLen = 0 /\ pc # "fill"
             /\ EndOfRecord(p) /\ UNCHANGED headerLen
          \/ /\ c.contentLen = 0 /\ p.paddingLen = 0 /\ pc = "fill"
             /\ headerLen + n < HeadLen /\ headerLen' = headerLen + n
             /\ Loop(h) /\ UNCHANGED replies
          \/ /\ c.contentLen = 0 /\ p.paddingLen = 0 /\ pc = "fill"
             /\ headerLen + n = HeadLen /\ headerLen' = 0
             /\ ProcessHeader(h)
    BY NextRecordFacts
  <1>3. /\ c \in Streams /\ p \in Streams /\ h \in Streams
        /\ c.base = in.base /\ c.errno = in.errno /\ c.type = in.type /\ c.isClosed = in.isClosed
        /\ p.base = in.base /\ p.errno = in.errno /\ p.type = in.type /\ p.isClosed = in.isClosed
        /\ h.base = in.base /\ h.errno = in.errno /\ h.type = in.type /\ h.isClosed = in.isClosed
    BY <1>2 DEF Skipped, Alike
  <1>4. /\ c.rdNext \in Nat /\ c.contentLen \in Nat /\ c.paddingLen \in Nat
        /\ p.rdNext \in Nat /\ p.contentLen \in Nat /\ p.paddingLen \in Nat
        /\ h.rdNext \in Nat /\ h.contentLen \in Nat /\ h.paddingLen \in Nat
        /\ in.rdNext \in Nat /\ in.contentLen \in Nat /\ in.paddingLen \in Nat
        /\ headerLen \in Nat /\ n \in Nat
    <2>1. /\ in.rdNext \in Nat /\ in.contentLen \in Nat /\ in.paddingLen \in Nat
          /\ headerLen \in Nat
      BY ReaderFacts
    <2>2. n \in Nat
      BY <1>2 DEF Skipped
    <2> QED
      BY <1>3, <2>1, <2>2 DEF Streams
  <1>5. /\ c.rdNext + c.contentLen = in.rdNext + in.contentLen /\ c.rdNext >= in.rdNext
        /\ c.paddingLen = in.paddingLen
        /\ p.rdNext + p.paddingLen = c.rdNext + c.paddingLen /\ p.rdNext >= c.rdNext
        /\ p.contentLen = c.contentLen /\ h.rdNext = p.rdNext + n
        /\ h.contentLen = p.contentLen /\ h.paddingLen = p.paddingLen
    BY <1>2 DEF Skipped
  <1>6. /\ in.contentLen = 0 => (c.skip <=> in.skip)
        /\ in.contentLen > 0 => (c.skip <=> c.contentLen > 0)
        /\ (p.skip <=> c.skip) /\ (h.skip <=> p.skip)
    BY <1>2 DEF Skipped
  <1>7. ~in.isClosed /\ (headerLen > 0 => pc = "fill")
    BY <1>1 DEF StreamInv, Phases
  <1>8. \A k, t : Here(k, t) /\ Regular /\ req.begun => Past(k, t)
    BY <1>1, PastRecord
  <1>9. \A k : Located(k) => (headerLen > 0 => in.contentLen = 0 /\ in.paddingLen = 0)
    BY DEF Located
  <1>10. c.contentLen = 0 => ((in.skip => in.contentLen > 0) => ~p.skip /\ ~h.skip)
    <2> SUFFICES ASSUME c.contentLen = 0, in.skip => in.contentLen > 0 PROVE ~c.skip
      BY <1>6
    <2>1. CASE in.contentLen = 0
      BY <1>6, <2>1
    <2>2. CASE in.contentLen > 0
      BY <1>6, <2>2
    <2> QED
      BY <1>4, <2>1, <2>2
  <1>11. CASE c.contentLen > 0 /\ Loop(c) /\ UNCHANGED <<headerLen, replies>>
    <2>1. in' = c /\ UNCHANGED <<req, pc, nested, half, want, vec, got>>
      BY <1>11 DEF Loop
    <2>2. in.contentLen > 0
      BY <1>4, <1>5, <1>11
    <2>3. c.rdNext + c.contentLen + c.paddingLen + headerLen
            = in.rdNext + in.contentLen + in.paddingLen + headerLen'
      BY <1>4, <1>5, <1>11
    <2>4. \A k : Located(k) /\ headerLen' > 0 => c.contentLen = 0 /\ c.paddingLen = 0
      BY <1>4, <1>9, <1>11, <2>2
    <2>5. c.skip /\ c.paddingLen <= in.paddingLen /\ headerLen' \in Nat
      BY <1>4, <1>5, <1>6, <1>11, <2>2
    <2> QED
      BY <1>1, <1>3, <1>8, <1>11, <2>1, <2>3, <2>4, <2>5, StayPlaced
  <1>12. CASE /\ c.contentLen = 0 /\ p.paddingLen > 0
              /\ Loop(p) /\ UNCHANGED <<headerLen, replies>>
    <2>1. in' = p /\ UNCHANGED <<req, pc, nested, half, want, vec, got>>
      BY <1>12 DEF Loop
    <2>2. in.paddingLen > 0 /\ p.paddingLen <= in.paddingLen /\ ~(p.contentLen > 0)
      BY <1>4, <1>5, <1>12
    <2>3. p.rdNext + p.contentLen + p.paddingLen + headerLen
            = in.rdNext + in.contentLen + in.paddingLen + headerLen'
      BY <1>4, <1>5, <1>12
    <2>4. \A k : Located(k) /\ headerLen' > 0 => p.contentLen = 0 /\ p.paddingLen = 0
      BY <1>4, <1>9, <1>12, <2>2
    <2>5. headerLen' \in Nat
      BY <1>4, <1>12
    <2> QED
      BY <1>1, <1>3, <1>8, <1>10, <1>12, <2>1, <2>2, <2>3, <2>4, <2>5, StayPlaced
  <1>13. CASE /\ c.contentLen = 0 /\ p.paddingLen = 0 /\ pc # "fill"
              /\ EndOfRecord(p) /\ UNCHANGED headerLen
    <2>1. p.contentLen = 0 /\ p.rdNext = in.rdNext + in.contentLen + in.paddingLen
      BY <1>4, <1>5, <1>13
    <2> QED
      BY <1>1, <1>3, <1>10, <1>13, <2>1, EndOfRecordPlaced
  <1>14. CASE /\ c.contentLen = 0 /\ p.paddingLen = 0 /\ pc = "fill"
              /\ headerLen + n < HeadLen /\ headerLen' = headerLen + n
              /\ Loop(h) /\ UNCHANGED replies
    <2>1. in' = h /\ UNCHANGED <<req, pc, nested, half, want, vec, got>>
      BY <1>14 DEF Loop
    <2>2. h.contentLen = 0 /\ h.paddingLen = 0 /\ h.paddingLen <= in.paddingLen
          /\ ~(h.contentLen > 0)
      BY <1>4, <1>5, <1>14
    <2>3. h.rdNext + h.contentLen + h.paddingLen + headerLen
            = in.rdNext + in.contentLen + in.paddingLen + headerLen'
      BY <1>4, <1>5, <1>14
    <2>4. headerLen' \in Nat
      BY <1>4, <1>14
    <2> QED
      BY <1>1, <1>3, <1>8, <1>10, <1>14, <2>1, <2>2, <2>3, <2>4, StayPlaced
  <1>15. CASE /\ c.contentLen = 0 /\ p.paddingLen = 0 /\ pc = "fill"
              /\ headerLen + n = HeadLen /\ headerLen' = 0
              /\ ProcessHeader(h)
    <2>1. Ordered(h) /\ h.buffStop = in.buffStop /\ h.rdNext <= in.buffStop
      BY <1>2 DEF Skipped, Alike, Ordered
    <2>2. h.rdNext + headerLen = in.rdNext + in.contentLen + in.paddingLen + HeadLen
      <3>1. HeadLen \in Nat
        BY ReaderFacts
      <3> QED
        BY <1>4, <1>5, <1>15, <3>1
    <2>3. Between(h)
      BY <1>3, <1>7, <1>10, <1>15, <2>1, <2>2 DEF Between
    <2>4. CASE /\ RecordAt(h.rdNext - HeadLen) = {} /\ UNCHANGED replies
               /\ \E r : /\ r \in Streams /\ Ordered(r) /\ Alike(r, h) /\ r.rdNext = h.rdNext
                         /\ Failed(r, "version")
      <3>1. PICK r : r \in Streams /\ Alike(r, h) /\ Failed(r, "version")
        BY <2>4
      <3>2. "version" \in Errors \ {"none"}
        BY DEF Errors
      <3>3. /\ in'.base = in.base /\ in'.errno # "none"
            /\ in'.errno = IF in.errno = "none" THEN "version" ELSE in.errno
        BY <1>3, <3>1, <3>2, FailedErrors DEF Alike
      <3>4. ~(PaddingFollowed /\ in.errno = "none")
        <4> SUFFICES ASSUME PaddingFollowed, in.errno = "none" PROVE FALSE
          OBVIOUS
        <4>1. PICK k, u : Here(k, u)
          BY <1>1, Somewhere
        <4>2. RecordAt(h.rdNext - HeadLen) = {k + 1}
          BY <1>3, <1>15, <2>1, <2>2, <4>1, RecordFound
        <4> QED
          BY <2>4, <4>2
      <3> QED
        BY <1>1, <3>3, <3>4, BrokenKeeps DEF HeadersFound
    <2>5. ASSUME NEW k, NEW t, k \in RecordAt(h.rdNext - HeadLen), Announced(t, h, k),
                 \/ script[k].type = "BEGIN" /\ ProcessBeginRecord(t, k)
                 \/ /\ script[k].type \in ManagementTypes
                    /\ ProcessManagementRecord(t, script[k])
                 \/ /\ script[k].type \notin ManagementTypes \cup {"BEGIN"}
                    /\ ProcessStreamRecord(t, script[k])
          PROVE  HeadersFound' /\ Placed'
      <3>1. CASE script[k].type = "BEGIN" /\ ProcessBeginRecord(t, k)
        BY <1>1, <1>15, <2>3, <2>5, <3>1, BeginRecordPlaced
      <3>2. CASE script[k].type \in ManagementTypes /\ ProcessManagementRecord(t, script[k])
        BY <1>1, <1>15, <2>3, <2>5, <3>2, ManagementRecordPlaced
      <3>3. CASE /\ script[k].type \notin ManagementTypes \cup {"BEGIN"}
                 /\ ProcessStreamRecord(t, script[k])
        BY <1>1, <1>15, <2>3, <2>5, <3>3, StreamRecordPlaced
      <3> QED
        BY <2>5, <3>1, <3>2, <3>3
    <2>6. script \in Seq(Sent)
      BY ReaderFacts
    <2> QED
      BY <1>3, <1>15, <2>1, <2>4, <2>5, <2>6, HeaderFacts
  <1> QED
    BY <1>2, <1>11, <1>12, <1>13, <1>14, <1>15

\* The application takes units: of the record it is in, or none and waits for more.
LEMMA GetStrPlaced ==
  ASSUME StreamInv, HeadersFound, Placed, NEW n \in 1..MaxRead, GetStr(n)
  PROVE  HeadersFound' /\ Placed'
  <1>1. /\ pc = "idle" /\ ~in.isClosed
        /\ UNCHANGED <<script, rest, req, headerLen, nested, half, vec, replies>>
    BY DEF GetStr, Idle
  <1>2. /\ in \in Streams /\ in.rdNext \in Nat /\ in.stop \in Nat /\ n \in Nat /\ n >= 1
        /\ in.rdNext <= in.stop /\ got \in Seq(Nat) /\ headerLen = 0
    <2>1. in \in Streams /\ in.rdNext \in Nat /\ in.stop \in Nat /\ got \in Seq(Nat)
          /\ headerLen \in Nat
      BY ReaderFacts
    <2>2. n \in Nat /\ n >= 1
      BY ReaderAssumption
    <2>3. in.rdNext <= in.stop /\ ~(headerLen > 0)
      BY <1>1 DEF StreamInv, Pointers, Phases, Reading
    <2> QED
      BY <2>1, <2>2, <2>3
  <1>3. PICK a, b, m : /\ a \in Int /\ b \in Int /\ a = n /\ b = in.stop - in.rdNext
                       /\ m = Min({n, in.stop - in.rdNext})
    BY <1>2
  <1>4. m \in Nat /\ m <= n /\ m <= b /\ (m = n \/ m = b) /\ b \in Nat
    <2>1. b \in Nat
      BY <1>2, <1>3
    <2>2. Min({a, b}) \in Int /\ Min({a, b}) <= a /\ Min({a, b}) <= b
          /\ (Min({a, b}) = a \/ Min({a, b}) = b)
      BY <1>3, MinFacts
    <2> QED
      BY <1>2, <1>3, <2>1, <2>2
  <1>5. /\ in' = [in EXCEPT !.rdNext = in.rdNext + m]
        /\ got' = got \o Units(in.rdNext, in.rdNext + m)
        /\ pc' = IF m = n THEN "idle" ELSE "fill"
    <2>1. in' = [in EXCEPT !.rdNext = @ + m]
      BY <1>3 DEF GetStr
    <2> QED
      BY <1>2, <1>3, <2>1 DEF GetStr, Streams
  <1>6. /\ in'.rdNext = in.rdNext + m /\ in'.stop = in.stop /\ in'.stopUnget = in.stopUnget
        /\ in'.type = in.type /\ in'.contentLen = in.contentLen /\ in'.skip = in.skip
        /\ in'.paddingLen = in.paddingLen /\ ~in'.isClosed
        /\ in'.errno = in.errno /\ in'.base = in.base
    BY <1>1, <1>2, <1>5 DEF Streams
  <1>7. Taken' = Taken
    <2>1. Taken = in.stop
      BY <1>1 DEF Taken
    <2>2. CASE m = n
      BY <1>5, <1>6, <2>1, <2>2 DEF Taken
    <2>3. CASE m # n
      <3>1. in.rdNext + m = in.stop
        BY <1>2, <1>3, <1>4, <2>3
      <3> QED
        BY <1>5, <1>6, <2>1, <2>3, <3>1 DEF Taken
    <2> QED
      BY <2>2, <2>3
  <1>8. pc' \in {"idle", "fill"}
    BY <1>5
  <1>9. /\ \A k : Start(k)' = Start(k)
        /\ \A t : Ends(t)' = Ends(t) /\ Carried(t)' = Carried(t)
    BY <1>1, <1>6, FrameFacts
  <1>10. ASSUME PaddingFollowed, in.errno = "none" PROVE \E k, t : Here(k, t)'
    <2>1. PICK k, t : Here(k, t)
      BY <1>1, <1>10, Somewhere
    <2>2. k \in 0..Len(script) /\ t = in.type /\ Located(k) /\ Logged(k)
      BY <2>1 DEF Here
    <2>3. Located(k)'
      BY <1>1, <1>2, <1>6, <1>7, <1>8, <1>9, <2>2 DEF Located
    <2>4. Logged(k)'
      BY <1>1, <1>6, <1>8, <2>2, LoggedKept
    <2>5. ASSUME Regular, req.begun PROVE Counted(k, t)' /\ Delivered(k, t)'
      <3>1. Counted(k, t) /\ Delivered(k, t)
        BY <2>1, <2>5 DEF Here
      <3>2. t # "PARAMS"
        BY <1>1, <2>2 DEF StreamInv, Phases
      <3>3. Counted(k, t)'
        BY <1>1, <1>6, <3>1, <3>2, CountedKept
      <3>4. /\ \A e \in Ends(t) : e > k
            /\ in.skip => in.contentLen > 0
            /\ Inside(k, t) \/ Past(k, t)
        BY <1>1, <3>1 DEF Delivered
      <3>5. CASE Inside(k, t)
        <4>1. ~in.skip /\ Start(k) + HeadLen <= in.stopUnget
          BY <1>1, <3>5 DEF Inside
        <4>2. Inside(k, t)'
          BY <1>1, <1>2, <1>4, <1>5, <1>6, <1>8, <3>5, <4>1, InsideGrows
        <4> QED
          BY <1>6, <1>9, <3>3, <3>4, <4>2 DEF Delivered
      <3>6. CASE Past(k, t)
        <4>1. got = Joined(Carried(t), k) /\ got = <<>> /\ in.stop = in.rdNext
              /\ in.contentLen = 0
          BY <1>1, <3>6 DEF Past
        <4>2. m = 0 /\ m # n
          BY <1>2, <1>3, <1>4, <4>1
        <4>3. got' = <<>>
          <5>1. Units(in.rdNext, in.rdNext + m) = <<>>
            <6>1. in.rdNext + m = in.rdNext
              BY <1>2, <4>2
            <6> QED
              BY <1>2, <6>1, UnitsNone
          <5> QED
            BY <1>5, <4>1, <5>1
        <4>4. Past(k, t)'
          <5>1. pc' = "fill" /\ ~(in'.contentLen > 0)
            BY <1>5, <1>6, <4>1, <4>2
          <5>2. got' = Joined(Carried(t)', k)
            BY <1>9, <4>1, <4>3
          <5> QED
            BY <5>1, <5>2 DEF Past
        <4> QED
          BY <1>6, <1>9, <3>3, <3>4, <4>4 DEF Delivered
      <3> QED
        BY <3>4, <3>5, <3>6
    <2> QED
      BY <1>1, <1>6, <2>2, <2>3, <2>4, <2>5, HereAgain
  <1> QED
    BY <1>1, <1>6, <1>10, PlacedFrom

\* What was given back is taken from the end.
LEMMA FrontOfUnits ==
  ASSUME NEW j \in Seq(Nat), NEW a \in Nat, NEW b \in Nat, a < b
  PROVE  Front(j \o Units(a, b)) = j \o Units(a, b - 1)
  <1>1. PICK c \in Nat : c = b - 1 /\ a <= c /\ c <= b /\ b - c = 1
    OBVIOUS
  <1>2. PICK x \in Seq(Nat), z \in Seq(Nat) :
          x = j \o Units(a, c) /\ z = Units(c, b) /\ Len(z) = 1
    <2>1. Units(a, c) \in Seq(Nat)
      BY <1>1, UnitsFacts
    <2>2. Units(c, b) \in Seq(Nat) /\ Len(Units(c, b)) = b - c
      BY <1>1, UnitsFacts
    <2>3. j \o Units(a, c) \in Seq(Nat)
      BY <2>1
    <2> QED
      BY <1>1, <2>2, <2>3
  <1>3. j \o Units(a, b) = x \o z
    <2>1. /\ j \in Seq(Nat) /\ a \in Nat /\ b \in Nat /\ c \in Nat
          /\ a <= c /\ c <= b
      BY <1>1
    <2>2. (j \o Units(a, c)) \o Units(c, b) = j \o Units(a, b)
      BY <2>1, UnitsAdded, ZenonT(60)
    <2> QED
      BY <1>2, <2>2
  <1>4. PICK l \in Nat : l = Len(x)
    BY <1>2
  <1>5. Len(x \o z) = l + 1
    <2>1. Len(x \o z) = Len(x) + Len(z)
      <3>1. x \in Seq(Nat) /\ z \in Seq(Nat)
        BY <1>2
      <3> QED
        BY <3>1, ConcatProperties
    <2> QED
      BY <1>2, <1>4, <2>1
  <1>6. Front(x \o z) = SubSeq(x \o z, 1, l)
    <2>1. (l + 1) - 1 = l
      BY <1>4
    <2> QED
      BY <1>5, <2>1 DEF Front
  <1>7. SubSeq(x \o z, 1, l) = SubSeq(x, 1, l)
    BY <1>2, <1>4, SubSeqOfConcat1
  <1>8. SubSeq(x, 1, l) = x
    BY <1>2, <1>4, SubSeqFull
  <1> QED
    BY <1>1, <1>2, <1>3, <1>6, <1>7, <1>8

\* Only units of the record the application is in are given back.
LEMMA UnGetCharPlaced ==
  ASSUME StreamInv, HeadersFound, Placed, UnGetChar
  PROVE  HeadersFound' /\ Placed'
  <1>1. /\ pc = "idle" /\ ~in.isClosed /\ in.rdNext # in.stopUnget /\ got # <<>>
        /\ got' = Front(got)
        /\ UNCHANGED <<script, rest, req, pc, headerLen, nested, half, want, vec, replies>>
    BY DEF UnGetChar, Idle, MayUnget
  <1>2. /\ in \in Streams /\ in.rdNext \in Nat /\ in.stopUnget \in Nat
    BY ReaderFacts
  <1>3. /\ in'.rdNext = in.rdNext - 1 /\ in'.stop = in.stop /\ in'.stopUnget = in.stopUnget
        /\ in'.type = in.type /\ in'.contentLen = in.contentLen /\ in'.skip = in.skip
        /\ in'.paddingLen = in.paddingLen /\ in'.isClosed = in.isClosed
        /\ in'.errno = in.errno /\ in'.base = in.base
    BY <1>2 DEF UnGetChar, Streams
  <1>4. in.stopUnget <= in.rdNext - 1
    <2>1. Windowed(in, got)
      BY <1>1 DEF StreamInv, Window
    <2>2. PICK c \in 0..Len(got) : in.rdNext = in.stopUnget + c
      BY <1>1, <2>1 DEF Windowed
    <2>3. c \in Nat /\ c # 0
      BY <1>1, <1>2, <2>2
    <2> QED
      BY <1>2, <2>2, <2>3
  <1>5. /\ \A k : Start(k)' = Start(k)
        /\ \A t : Own(t)' = Own(t) /\ Ends(t)' = Ends(t) /\ Carried(t)' = Carried(t)
    BY <1>1, <1>3, FrameFacts
  <1>6. ASSUME PaddingFollowed, in.errno = "none" PROVE \E k, t : Here(k, t)'
    <2>1. PICK k, t : Here(k, t)
      BY <1>1, <1>6, Somewhere
    <2>2. k \in 0..Len(script) /\ t = in.type /\ Located(k) /\ Logged(k)
      BY <2>1 DEF Here
    <2>3. Located(k)'
      BY <1>1, <1>3, <1>5, <2>2 DEF Located, Taken
    <2>4. Logged(k)'
      BY <1>1, <1>3, <2>2, LoggedKept
    <2>5. ASSUME Regular, req.begun PROVE Counted(k, t)' /\ Delivered(k, t)'
      <3>1. Counted(k, t) /\ Delivered(k, t)
        BY <2>1, <2>5 DEF Here
      <3>2. t # "PARAMS"
        BY <1>1, <2>2 DEF StreamInv, Phases
      <3>3. Counted(k, t)'
        BY <1>1, <1>3, <3>1, <3>2, CountedKept
      <3>4. /\ \A e \in Ends(t) : e > k
            /\ in.skip => in.contentLen > 0
            /\ Inside(k, t)
        BY <1>1, <3>1 DEF Delivered, Past
      <3>5. /\ k \in Own(t) /\ Start(k) + HeadLen <= in.stopUnget
            /\ got = Joined(Carried(t), k - 1) \o Units(Start(k) + HeadLen, in.rdNext)
        BY <1>1, <3>4 DEF Inside
      <3>6. k \in 1..Len(script) /\ script \in Seq(Sent)
        BY <3>5, ReaderFacts, CarriedFacts
      <3>7. PICK a \in Nat, b \in Nat, j \in Seq(Nat) :
              a = Start(k) + HeadLen /\ b = in.rdNext /\ j = Joined(Carried(t), k - 1)
        <4>1. Start(k) + HeadLen \in Nat
          BY <3>6, RecordStart
        <4>2. Joined(Carried(t), k - 1) \in Seq(Nat)
          BY <3>6, NextCarried
        <4> QED
          BY <1>2, <4>1, <4>2
      <3>8. a <= b - 1 /\ a < b
        BY <1>2, <1>4, <3>5, <3>7
      <3>9. got' = j \o Units(a, b - 1)
        <4>1. Front(j \o Units(a, b)) = j \o Units(a, b - 1)
          <5>1. a \in Nat /\ b \in Nat /\ j \in Seq(Nat)
            BY <3>7
          <5> QED
            BY <3>8, <5>1, FrontOfUnits
        <4> QED
          BY <1>1, <3>5, <3>7, <4>1
      <3>10. Inside(k, t)'
        BY <1>1, <1>3, <1>5, <3>4, <3>5, <3>7, <3>8, <3>9 DEF Inside
      <3> QED
        BY <1>1, <1>3, <1>5, <3>3, <3>4, <3>10 DEF Delivered
    <2> QED
      BY <1>1, <1>3, <2>2, <2>3, <2>4, <2>5, HereAgain
  <1> QED
    BY <1>1, <1>3, <1>6, PlacedFrom

\* The data of a filter comes after its standard input.
LEMMA StartFilterDataPlaced ==
  ASSUME StreamInv, HeadersFound, Placed, StartFilterData
  PROVE  HeadersFound' /\ Placed'
  <1>1. /\ pc = "idle" /\ in.type = "STDIN" /\ in \in Streams
        /\ UNCHANGED <<script, rest, req, pc, headerLen, nested, half, want, vec, replies>>
    BY ReaderFacts DEF StartFilterData, Idle
  <1>2. CASE in' = SetError(in, "callSeq")
    <2>1. "callSeq" \in Errors \ {"none"}
      BY DEF Errors
    <2>2. /\ in'.base = in.base /\ in'.errno # "none"
          /\ in'.errno = IF in.errno = "none" THEN "callSeq" ELSE in.errno
      BY <1>1, <1>2, <2>1, SetErrorFacts
    <2> QED
      BY <1>1, <2>2, BrokenKeeps DEF HeadersFound
  <1>3. CASE in.isClosed /\ in' = SetReaderType(in, "DATA") /\ got' = <<>>
    <2>1. /\ in'.rdNext = in.rdNext /\ in'.stop = in.rdNext /\ in'.type = "DATA"
          /\ ~in'.skip /\ in'.contentLen = 0 /\ in'.paddingLen = 0 /\ ~in'.isClosed
          /\ in'.errno = in.errno /\ in'.base = in.base
      <3>1. "DATA" \in StreamTypes
        BY DEF StreamTypes
      <3> QED
        BY <1>1, <1>3, <3>1, SetReaderTypeFacts
    <2>2. /\ \A k : Start(k)' = Start(k)
          /\ \A t : Own(t)' = Own(t) /\ Ends(t)' = Ends(t) /\ Carried(t)' = Carried(t)
                    /\ Content(t)' = Content(t)
      BY <1>1, <2>1, FrameFacts
    <2>3. ASSUME PaddingFollowed, in.errno = "none" PROVE \E k, t : Here(k, t)'
      <3>1. PICK k, t : Here(k, t)
        BY <1>1, <2>3, Somewhere
      <3>2. k \in 0..Len(script) /\ t = "STDIN" /\ Located(k) /\ Logged(k)
        BY <1>1, <3>1 DEF Here
      <3>3. Located(k)'
        BY <1>1, <1>3, <2>1, <2>2, <3>2 DEF Located, Taken
      <3>4. Logged(k)'
        BY <1>1, <2>1, <3>2, LoggedKept
      <3>5. ASSUME Regular, req.begun PROVE Counted(k, "DATA")' /\ Delivered(k, "DATA")'
        <4>1. Counted(k, t)
          BY <3>1, <3>5 DEF Here
        <4>2. \A j \in Own("DATA") : j > k
          BY <3>2, <4>1 DEF Counted, Later
        <4>3. Counted(k, "DATA")'
          BY <1>1, <2>2, <3>2, <4>1 DEF Counted, Later
        <4>4. Joined(Carried("DATA"), k) = <<>>
          BY <3>2, <4>2, ReaderFacts, NothingCarried
        <4>5. \A e \in Ends("DATA") : e > k
          BY <4>2 DEF Ends
        <4>6. Past(k, "DATA")'
          BY <1>3, <2>1, <2>2, <4>4 DEF Past
        <4> QED
          BY <2>1, <2>2, <4>3, <4>5, <4>6 DEF Delivered
      <3> QED
        BY <1>1, <2>1, <3>2, <3>3, <3>4, <3>5, HereAgain
    <2> QED
      BY <1>1, <2>1, <2>3, PlacedFrom
  <1> QED
    BY <1>2, <1>3 DEF StartFilterData, HasSeenEOF

\* Records start after one another, at least a header apart.
LEMMA StartsApart ==
  ASSUME NEW rs \in Seq(Sent), NEW i \in 1..(Len(rs) + 1), NEW m \in 1..(Len(rs) + 1), i < m
  PROVE  /\ Offset(rs, i) \in Nat /\ Offset(rs, m) \in Nat
         /\ Offset(rs, i) + HeadLen <= Offset(rs, m)
  <1>1. rs \in Seq(Records)
    BY DEF Sent
  <1>2. Offset(rs, i) \in Nat /\ Offset(rs, m) \in Nat
    BY <1>1, OffsetFacts
  <1>3. i \in 1..Len(rs) /\ Offset(rs, i) + Size(rs[i]) <= Offset(rs, m)
    BY <1>1, OffsetOrder
  <1>4. rs[i] \in Records
    BY <1>1, <1>3
  <1>5. Size(rs[i]) \in Nat /\ Size(rs[i]) >= HeadLen /\ HeadLen \in Nat
    BY <1>4, SizeFacts, ReaderAssumption
  <1> QED
    BY <1>2, <1>3, <1>5

\* The reader is started again at a record, or it does not matter where.
LEMMA AcceptAgainPlaced ==
  ASSUME StreamInv, AcceptAgain
  PROVE  HeadersFound' /\ Placed'
  <1>1. /\ pc = "idle" /\ in.errno = "none" /\ rest # <<>>
        /\ script' = script \o Head(rest) /\ rest' = Tail(rest)
        /\ in' = NewReader(in.buffStop) /\ req' = [req EXCEPT !.begun = FALSE]
        /\ pc' = "fill" /\ got' = <<>> /\ replies' = <<>> /\ UNCHANGED headerLen
    BY DEF AcceptAgain, Idle, GetError
  <1>2. PICK p \in Nat : p = in.buffStop
    BY ReaderFacts
  <1>3. /\ in'.rdNext = p /\ in'.contentLen = 0 /\ in'.paddingLen = 0 /\ ~in'.isClosed
        /\ in'.errno = "none" /\ in'.base = p /\ in'.type = "NONE"
    BY <1>1, <1>2 DEF NewReader
  <1>4. headerLen' = 0 /\ ~req'.begun
    <2>1. headerLen = 0
      BY <1>1, ReaderFacts DEF StreamInv, Phases
    <2>2. req \in Requests
      BY ReaderFacts
    <2> QED
      BY <1>1, <2>1, <2>2 DEF Requests
  <1>5. /\ script' \in Seq(Sent)
    <2>1. rest \in Seq(Seq(Sent))
      BY DEF StreamInv, ReaderTypes
    <2> QED
      BY <1>1, <2>1, ReaderFacts, NextRequestSent
  <1>6. ASSUME PaddingFollowed' PROVE \E k, t : Here(k, t)'
    <2>1. PICK e \in 1..(Len(script') + 1) : Start(e)' = p
      BY <1>3, <1>6 DEF PaddingFollowed, Aligned
    <2>2. PICK n \in Nat : n = Len(script')
      BY <1>5
    <2>3. PICK k \in 0..n : e = k + 1
      <3>1. e \in 1..(n + 1)
        BY <2>1, <2>2
      <3>2. e - 1 \in 0..n /\ e = (e - 1) + 1
        BY <3>1
      <3> QED
        BY <3>2
    <2>4. Located(k)'
      <3>1. Taken' = p
        BY <1>1, <1>3 DEF Taken
      <3>2. Start(k + 1)' = p
        BY <2>1, <2>3
      <3> QED
        BY <1>1, <1>2, <1>3, <1>4, <3>1, <3>2 DEF Located
    <2>5. ASSUME NEW j \in 1..k PROVE j \in 1..n /\ j \notin Seen'
      <3>1. j \in 1..n /\ j \in 1..(n + 1) /\ k + 1 \in 1..(n + 1) /\ j < k + 1
        BY <2>2, <2>3, <2>5
      <3>2. PICK ss : ss = script'
        OBVIOUS
      <3>3. Start(j)' = Offset(ss, j) /\ Start(k + 1)' = Offset(ss, k + 1)
        BY <3>2 DEF Start
      <3>4. ss \in Seq(Sent) /\ Len(ss) = n
        BY <1>5, <2>2, <3>2
      <3>5. /\ Offset(ss, j) \in Nat /\ Offset(ss, k + 1) \in Nat
            /\ Offset(ss, j) + HeadLen <= Offset(ss, k + 1)
        BY <3>1, <3>4, StartsApart
      <3>6. Offset(ss, k + 1) = p
        BY <2>1, <2>3, <3>3
      <3>7. Offset(ss, j) + HeadLen <= p
        BY <3>5, <3>6
      <3>8. ~(Start(j)' >= p)
        BY <1>2, <3>3, <3>5, <3>7, ReaderAssumption
      <3> QED
        BY <1>3, <3>1, <3>8 DEF Seen
    <2>6. Joined(Due', k) = <<>>
      <3>n. PICK m \in Nat : m = k
        BY <2>3
      <3>f. PICK fs : fs = Due'
        OBVIOUS
      <3>1. fs = Due' /\ m = k
        BY <3>n, <3>f
      <3>2. \A j \in 1..m : fs[j] = <<>>
        <4>1. \A j \in 1..k : j \in DOMAIN script'
          BY <1>5, <2>2, <2>5
        <4> QED
          BY <2>5, <3>1, <4>1 DEF Due
      <3>3. \A j \in 1..m : fs[j] \in Seq(Answers)
        <4>1. <<>> \in Seq(Answers)
          OBVIOUS
        <4> QED
          BY <3>2, <4>1
      <3>4. Joined(fs, 0) = <<>>
        BY <3>1, <3>3, JoinedFacts
      <3>5. Joined(fs, m) = Joined(fs, 0)
        <4>1. 0 \in 0..m /\ \A j \in (0 + 1)..m : fs[j] = <<>>
          BY <3>1, <3>2
        <4> QED
          BY <3>1, <3>3, <4>1, JoinedEmpty
      <3> QED
        BY <3>1, <3>4, <3>5
    <2>7. Logged(k)'
      <3>1. ASSUME NEW j \in Seen', j <= k PROVE FALSE
        <4>1. j \in 1..n
          BY <1>5, <2>2 DEF Seen
        <4>2. j \in 1..k
          BY <2>3, <3>1, <4>1
        <4> QED
          BY <2>5, <3>1, <4>2
      <3> QED
        BY <1>1, <1>4, <2>6, <3>1 DEF Logged
    <2>8. k \in 0..Len(script')
      BY <2>2
    <2>9. Here(k, "NONE")'
      BY <1>3, <1>4, <2>4, <2>7, <2>8 DEF Here
    <2> QED
      BY <2>9
  <1>7. Placed'
    BY <1>6 DEF Placed
  <1>8. HeadersFound'
    BY <1>3 DEF HeadersFound
  <1> QED
    BY <1>7, <1>8

\* The first reader is started at the first record.
LEMMA InitPlaced ==
  ASSUME ReaderInit, StreamInv
  PROVE  HeadersFound /\ Placed
  <1>1. /\ in = NewReader(0) /\ pc = "fill" /\ headerLen = 0 /\ ~req.begun
        /\ got = <<>> /\ replies = <<>>
    BY DEF ReaderInit
  <1>2. /\ in.rdNext = 0 /\ in.contentLen = 0 /\ in.paddingLen = 0 /\ ~in.isClosed
        /\ in.errno = "none" /\ in.base = 0 /\ in.type = "NONE"
    BY <1>1 DEF NewReader
  <1>3. script \in Seq(Sent) /\ Len(script) \in Nat /\ Start(1) = 0
    BY ReaderFacts, ScriptFacts
  <1>4. 0 + 1 = 1
    OBVIOUS
  <1>5. Located(0)
    BY <1>1, <1>2, <1>3, <1>4 DEF Located, Taken
  <1>6. Joined(Due, 0) = <<>>
    BY <1>3, DueFacts
  <1>7. Logged(0)
    <2>1. \A j \in Seen : ~(j <= 0)
      <3>1. \A j \in Seen : j \in 1..Len(script)
        BY <1>3, ScriptFacts DEF Seen
      <3> QED
        BY <3>1
    <2> QED
      BY <1>1, <1>6, <2>1 DEF Logged
  <1>8. Here(0, "NONE")
    <2>1. 0 \in 0..Len(script)
      BY <1>3
    <2> QED
      BY <1>1, <1>2, <1>5, <1>7, <2>1 DEF Here
  <1> QED
    BY <1>2, <1>8 DEF HeadersFound, Placed

\* The reader's invariant holds at the start.
LEMMA InitReader ==
  ASSUME ReaderInit
  PROVE  ReaderInv
  BY InitStreams, InitPlaced DEF ReaderInv

\* No step of the reader, of the application or of Accept_r breaks it.
LEMMA NextReader ==
  ASSUME ReaderInv, [ReaderNext]_readerVars
  PROVE  ReaderInv'
  <1>1. StreamInv /\ HeadersFound /\ Placed
    BY DEF ReaderInv
  <1>2. HeadersFound' /\ Placed'
    <2>2. CASE OS_Read
      BY <1>1, <2>2, OS_ReadPlaced
    <2>3. CASE OS_ReadFails
      BY <1>1, <2>3, OS_ReadFailsPlaced
    <2>4. CASE Deliver
      BY <1>1, <2>4, DeliverPlaced
    <2>5. CASE NextRecord
      BY <1>1, <2>5, NextRecordPlaced
    <2>6. CASE GetChar
      <3>1. 1 \in 1..MaxRead
        BY ReaderAssumption
      <3> QED
        BY <1>1, <2>6, <3>1, GetStrPlaced DEF GetChar
    <2>7. CASE GetLine(MaxRead + 1)
      <3>1. PICK m \in 2..((MaxRead + 1) - 1) : GetStr(m)
        BY <2>7 DEF GetLine
      <3>2. m \in 1..MaxRead
        BY <3>1, ReaderAssumption
      <3> QED
        BY <1>1, <3>1, <3>2, GetStrPlaced
    <2>8. CASE UnGetChar
      BY <1>1, <2>8, UnGetCharPlaced
    <2>9. CASE StartFilterData
      BY <1>1, <2>9, StartFilterDataPlaced
    <2>10. CASE AcceptAgain
      BY <1>1, <2>10, AcceptAgainPlaced
    <2>11. CASE UNCHANGED readerVars
      <3>1. UNCHANGED <<script, rest, in, req, pc, headerLen, nested, half, want, vec, got, replies>>
        BY <2>11 DEF readerVars
      <3>2. Seen' = Seen /\ (PaddingFollowed' <=> PaddingFollowed) /\ (Regular' <=> Regular)
        BY <3>1, FrameFacts
      <3>3. \A k, t : Here(k, t)' <=> Here(k, t)
        <4> SUFFICES ASSUME NEW k, NEW t PROVE Here(k, t)' <=> Here(k, t)
          OBVIOUS
        <4>1. /\ \A j : Start(j)' = Start(j)
              /\ Due' = Due
              /\ \A u : Own(u)' = Own(u) /\ Ends(u)' = Ends(u) /\ Carried(u)' = Carried(u)
                        /\ Content(u)' = Content(u)
          BY <3>1, FrameFacts
        <4>2. Located(k)' <=> Located(k)
          BY <3>1, <4>1 DEF Located, Taken
        <4>3. Logged(k)' <=> Logged(k)
          BY <3>1, <3>2, <4>1 DEF Logged
        <4>4. Counted(k, t)' <=> Counted(k, t)
          BY <3>1, <4>1 DEF Counted
        <4>5. (Inside(k, t)' <=> Inside(k, t)) /\ (Past(k, t)' <=> Past(k, t))
          BY <3>1, <4>1 DEF Inside, Past
        <4>6. Delivered(k, t)' <=> Delivered(k, t)
          BY <3>1, <4>1, <4>5 DEF Delivered
        <4> QED
          BY <3>1, <3>2, <4>2, <4>3, <4>4, <4>6 DEF Here
      <3>4. (HeadersFound' <=> HeadersFound) /\ (Placed' <=> Placed)
        BY <3>1, <3>2, <3>3 DEF HeadersFound, Placed
      <3> QED
        BY <1>1, <3>4
    <2> QED
      BY <2>2, <2>3, <2>4, <2>5, <2>6, <2>7, <2>8, <2>9, <2>10, <2>11
      DEF ReaderNext, ReaderStep, ApplicationReads
  <1> QED
    BY <1>1, <1>2, NextStreams DEF ReaderInv

---------------------------------------------------------------------------
(***************************************************************************)
(* What the invariant says of the properties of the reader.                *)
(***************************************************************************)

\* A reader that met none of the shapes it does not follow lost no padding.
LEMMA RegularPadding ==
  ASSUME script \in Seq(Sent), Regular
  PROVE  PaddingFollowed
  <1>1. ASSUME NEW k \in Seen, script[k].pad > 0
        PROVE  script[k].type # "BEGIN" /\ script[k].len > 0
    <2>1. k \in 1..Len(script)
      BY ScriptFacts DEF Seen
    <2>2. script[k].len \in Nat
      BY <2>1, ScriptFacts
    <2>3. ~Unfollowed(script[k])
      BY DEF Regular
    <2> QED
      BY <1>1, <2>2, <2>3 DEF Unfollowed
  <1> QED
    BY <1>1 DEF Regular, PaddingFollowed

\* Where the reader of an accepted request is.
LEMMA AcceptedHere ==
  ASSUME ReaderInv, Regular, in.errno = "none", req.begun, pc # "retry"
  PROVE  \E k : Here(k, in.type) /\ Counted(k, in.type) /\ Delivered(k, in.type)
  <1>1. PaddingFollowed
    BY ReaderFacts, RegularPadding DEF ReaderInv
  <1>2. PICK k, t : Here(k, t)
    BY <1>1 DEF ReaderInv, Placed
  <1>3. t = in.type /\ Counted(k, t) /\ Delivered(k, t)
    BY <1>2 DEF Here
  <1> QED
    BY <1>2, <1>3

\* An application that may read has an accepted request and a stream of it.
LEMMA IdleHere ==
  ASSUME ReaderInv, Regular, in.errno = "none", Idle
  PROVE  /\ in.type \in {"STDIN", "DATA"} /\ headerLen = 0
         /\ \E k : Here(k, in.type) /\ Counted(k, in.type) /\ Delivered(k, in.type)
  <1>1. pc = "idle" /\ Phases /\ StreamInv
    BY DEF Idle, ReaderInv, StreamInv
  <1>2. in.type \in {"STDIN", "DATA"} /\ req.begun
    BY <1>1 DEF Phases
  <1>3. headerLen = 0
    BY <1>1, ReaderFacts DEF Phases
  <1> QED
    BY <1>1, <1>2, <1>3, AcceptedHere

\* The pointers and the types.
LEMMA ReaderTypeOK ==
  ASSUME StreamInv
  PROVE  TypeOK
  <1>1. ReaderTypes /\ Pointers
    BY DEF StreamInv
  <1>2. \A i \in DOMAIN replies : replies[i] \in Answers
    BY <1>1 DEF ReaderTypes
  <1>3. in \in Streams /\ req \in Requests
    BY <1>1 DEF ReaderTypes
  <1> QED
    BY <1>1, <1>2, <1>3
    DEF TypeOK, ReaderTypes, Pointers, Ordered, Streams, Requests, StreamTypes, Errors, Answers

\* An application has taken at least the header of each record up to the one it
\* is at, and nothing after that record.
LEMMA TakenSoFar ==
  ASSUME StreamInv, Idle, headerLen = 0, NEW k, NEW t, Here(k, t), Delivered(k, t)
  PROVE  /\ k \in 0..Len(script)
         /\ \A j \in 1..k : Start(j) + HeadLen <= in.rdNext
         /\ \A j \in (k + 1)..Len(script) : ~(Start(j) + HeadLen <= in.rdNext)
  <1>1. /\ script \in Seq(Sent) /\ Len(script) \in Nat /\ HeadLen \in Nat /\ HeadLen # 0
        /\ in.rdNext \in Nat /\ in.stop \in Nat /\ in.contentLen \in Nat /\ in.paddingLen \in Nat
    BY ReaderFacts, ReaderAssumption
  <1>2. pc = "idle" /\ k \in 0..Len(script) /\ Located(k)
    BY DEF Idle, Here
  <1>3. in.stop + in.contentLen + in.paddingLen = Start(k + 1)
    <2>1. k + 1 \in 1..(Len(script) + 1)
      BY <1>1, <1>2
    <2>2. Start(k + 1) \in Nat
      BY <1>1, <2>1, ScriptFacts
    <2> QED
      BY <1>1, <1>2, <2>2 DEF Located, Taken
  <1>4. in.rdNext <= in.stop
    <2>1. CASE in.isClosed
      BY <1>1, <1>2, <2>1 DEF Located
    <2>2. CASE ~in.isClosed
      BY <1>2, <2>2 DEF StreamInv, Pointers, Reading
    <2> QED
      BY <2>1, <2>2
  <1>5. \A i, j \in 1..(Len(script) + 1) : i < j => Start(i) + HeadLen <= Start(j)
    BY <1>1, ScriptFacts
  <1>6. \A i \in 1..(Len(script) + 1) : Start(i) \in Nat
    BY <1>1, ScriptFacts
  <1>7. ASSUME NEW j \in 1..k PROVE Start(j) + HeadLen <= in.rdNext
    <2>1. /\ j \in 1..(Len(script) + 1) /\ k \in 1..(Len(script) + 1)
          /\ k + 1 \in 1..(Len(script) + 1) /\ j < k + 1 /\ (j = k \/ j < k)
      BY <1>1, <1>2, <1>7
    <2>2. Start(j) \in Nat /\ Start(k) \in Nat /\ Start(k + 1) \in Nat
      BY <1>6, <2>1
    <2>3. Start(j) + HeadLen <= Start(k + 1)
      BY <1>5, <2>1
    <2>4. CASE in.rdNext = Start(k + 1)
      BY <2>3, <2>4
    <2>5. CASE Start(k) + HeadLen <= in.rdNext
      <3>1. Start(j) <= Start(k)
        <4>1. CASE j = k
          BY <2>2, <4>1
        <4>2. CASE j < k
          BY <1>1, <1>5, <2>1, <2>2, <4>2
        <4> QED
          BY <2>1, <4>1, <4>2
      <3> QED
        BY <1>1, <2>2, <2>5, <3>1
    <2>6. in.rdNext = Start(k + 1) \/ Start(k) + HeadLen <= in.rdNext
      <3>1. CASE in.isClosed
        BY <1>1, <1>2, <1>3, <3>1 DEF Located
      <3>2. CASE ~in.isClosed /\ Inside(k, t)
        BY <3>2 DEF Inside
      <3>3. CASE ~in.isClosed /\ Past(k, t)
        BY <1>1, <1>2, <1>3, <3>3 DEF Past
      <3> QED
        BY <3>1, <3>2, <3>3 DEF Delivered
    <2> QED
      BY <2>4, <2>5, <2>6
  <1>8. ASSUME NEW j \in (k + 1)..Len(script) PROVE ~(Start(j) + HeadLen <= in.rdNext)
    <2>1. /\ j \in 1..(Len(script) + 1) /\ k + 1 \in 1..(Len(script) + 1)
          /\ (j = k + 1 \/ k + 1 < j)
      BY <1>1, <1>2, <1>8
    <2>2. Start(j) \in Nat /\ Start(k + 1) \in Nat
      BY <1>6, <2>1
    <2>3. Start(k + 1) <= Start(j)
      <3>1. CASE j = k + 1
        BY <2>2, <3>1
      <3>2. CASE k + 1 < j
        BY <1>1, <1>5, <2>1, <2>2, <3>2
      <3> QED
        BY <2>1, <3>1, <3>2
    <2> QED
      BY <1>1, <1>3, <1>4, <2>2, <2>3
  <1> QED
    BY <1>2, <1>7, <1>8

\* Everything that asked for an answer was answered.
LEMMA ReaderReplies ==
  ASSUME ReaderInv
  PROVE  RepliesMatch
  <1> SUFFICES ASSUME Idle, in.errno = "none", Regular
               PROVE  replies = FlattenSeq([k \in DOMAIN script |->
                                  IF k \in Seen /\ Start(k) + HeadLen <= in.rdNext
                                  THEN Expected(k) ELSE <<>>])
    BY DEF RepliesMatch
  <1>1. StreamInv /\ script \in Seq(Sent) /\ Len(script) \in Nat /\ DOMAIN script = 1..Len(script)
    BY ReaderFacts, ScriptFacts DEF ReaderInv
  <1>2. PICK k : Here(k, in.type) /\ Delivered(k, in.type) /\ headerLen = 0
    BY IdleHere
  <1>3. /\ k \in 0..Len(script)
        /\ \A j \in 1..k : Start(j) + HeadLen <= in.rdNext
        /\ \A j \in (k + 1)..Len(script) : ~(Start(j) + HeadLen <= in.rdNext)
    BY <1>1, <1>2, TakenSoFar
  <1>4. replies = Joined(Due, k)
    BY <1>2 DEF Here, Logged, Idle
  <1>5. PICK n \in Nat : n = Len(script)
    BY <1>1
  <1>6. PICK fs, gs : /\ gs = Due
                      /\ fs = [j \in DOMAIN script |->
                                IF j \in Seen /\ Start(j) + HeadLen <= in.rdNext
                                THEN Expected(j) ELSE <<>>]
    OBVIOUS
  <1>7. ASSUME NEW j \in 1..n
        PROVE  /\ gs[j] \in Seq(Answers) /\ gs[j] = IF j \in Seen THEN Expected(j) ELSE <<>>
               /\ fs[j] = IF j \in Seen /\ Start(j) + HeadLen <= in.rdNext
                          THEN Expected(j) ELSE <<>>
    BY <1>1, <1>5, <1>6, DueFacts
  <1>8. \A j \in 1..k : fs[j] = gs[j]
    <2>1. \A j \in 1..k : j \in 1..n
      BY <1>3, <1>5
    <2> QED
      BY <1>3, <1>7, <2>1
  <1>9. \A j \in (k + 1)..n : fs[j] = <<>>
    <2>1. \A j \in (k + 1)..n : j \in 1..n
      BY <1>3, <1>5
    <2> QED
      BY <1>3, <1>5, <1>7, <2>1
  <1>10. \A j \in 1..n : fs[j] \in Seq(Answers)
    <2>1. <<>> \in Seq(Answers)
      OBVIOUS
    <2> QED
      BY <1>7, <2>1
  <1>11. FlattenSeq(fs) = Joined(fs, n)
    <2>1. fs = [j \in 1..n |-> fs[j]]
      BY <1>1, <1>5, <1>6
    <2> QED
      BY <2>1 DEF Joined
  <1>12. k \in Nat /\ k \in 0..n
    BY <1>3, <1>5
  <1>13. Joined(fs, n) = Joined(fs, k)
    BY <1>9, <1>10, <1>12, JoinedEmpty
  <1>14. Joined(fs, k) = Joined(gs, k)
    BY <1>8, <1>12, JoinedSame
  <1> QED
    BY <1>4, <1>6, <1>11, <1>13, <1>14

\* A sequence comes first in what is appended to it.
LEMMA PrefixAppended ==
  ASSUME NEW g \in Seq(Nat), NEW u \in Seq(Nat)
  PROVE  IsPrefix(g, g \o u)
  <1>1. g \o u \in Seq(Nat) /\ Len(g \o u) = Len(g) + Len(u) /\ Len(g) \in Nat /\ Len(u) \in Nat
    BY ConcatProperties
  <1>2. SubSeq(g \o u, 1, Len(g)) = g
    BY SubSeqOfConcat1
  <1>3. SubSeq(g, 1, Len(g)) = g
    BY SubSeqFull
  <1> QED
    BY <1>1, <1>2, <1>3 DEF IsPrefix

\* What was delivered is the beginning of what the stream carries.
LEMMA DeliveredFirst ==
  ASSUME StreamInv, NEW k, NEW t, Here(k, t), Delivered(k, t)
  PROVE  \E u \in Seq(Nat) : Content(t) = got \o u
  <1>1. /\ script \in Seq(Sent) /\ Len(script) \in Nat /\ k \in 0..Len(script)
        /\ Len(script) \in 0..Len(script)
    BY ReaderFacts DEF Here
  <1>2. Content(t) = Joined(Carried(t), Len(script))
    BY <1>1, CarriedFacts
  <1>3. PICK u \in Seq(Nat) : Content(t) = Joined(Carried(t), k) \o u
    <2>1. \A i \in 1..Len(script) : Carried(t)[i] \in Seq(Nat)
      BY <1>1, CarriedFacts
    <2>2. \E u \in Seq(Nat) : Joined(Carried(t), Len(script)) = Joined(Carried(t), k) \o u
      <3>1. PICK n, m, fs : /\ n \in Nat /\ m \in Nat
                             /\ n = Len(script) /\ m = k /\ fs = Carried(t)
        BY <1>1
      <3>2. n \in Nat /\ m \in 0..n /\ \A i \in 1..n : fs[i] \in Seq(Nat)
        BY <1>1, <2>1, <3>1
      <3>3. \E u \in Seq(Nat) : Joined(fs, n) = Joined(fs, m) \o u
        BY <3>2, JoinedGrows
      <3> QED
        BY <3>1, <3>3
    <2> QED
      BY <1>2, <2>2
  <1>4. CASE got = Joined(Carried(t), k)
    BY <1>3, <1>4
  <1>5. CASE ~in.isClosed /\ Inside(k, t) /\ \A e \in Ends(t) : e > k
    <2>1. /\ k \in Own(t) /\ headerLen = 0 /\ in.paddingLen = script[k].pad
          /\ Start(k) + HeadLen <= in.rdNext
          /\ got = Joined(Carried(t), k - 1) \o Units(Start(k) + HeadLen, in.rdNext)
      BY <1>5 DEF Inside
    <2>2. k \in 1..Len(script)
      BY <1>1, <2>1, CarriedFacts
    <2>3. PICK a \in Nat : a = Start(k) + HeadLen
      BY <2>2, RecordStart
    <2>4. PICK n \in Nat : n = script[k].len
      BY <2>2, RecordStart
    <2>5. PICK r \in Nat : r = in.rdNext
      BY ReaderFacts
    <2>6. a <= r /\ r <= a + n
      <3>1. PICK z \in Nat, p \in Nat, c \in Nat, x \in Nat :
              z = Start(k + 1) /\ p = script[k].pad /\ c = in.contentLen /\ x = Taken
        BY <2>2, RecordStart, ReaderFacts DEF Taken
      <3>2. z = a + n + p
        BY <2>2, <2>3, <2>4, <3>1, RecordStart
      <3>3. x + c + p = z
        BY <2>1, <3>1 DEF Here, Located
      <3>4. r <= x
        BY <1>5, <2>5, <3>1 DEF StreamInv, Pointers, Taken, Reading
      <3>5. a <= r
        BY <2>1, <2>3, <2>5
      <3>6. z \in Nat /\ p \in Nat /\ c \in Nat /\ x \in Nat /\ a \in Nat /\ r \in Nat /\ n \in Nat
        BY <3>1, <2>3, <2>4, <2>5
      <3> HIDE <3>1, <2>3, <2>4, <2>5
      <3> QED
        BY <3>2, <3>3, <3>4, <3>5, <3>6
    <2>7. Carried(t)[k] = Units(a, a + n)
      BY <1>1, <1>5, <2>1, <2>3, <2>4, CarriedFacts
    <2>8. PICK j \in Seq(Nat) : j = Joined(Carried(t), k - 1)
      BY <1>1, <2>2, NextCarried
    <2>9. Joined(Carried(t), k) = j \o Units(a, a + n)
      BY <1>1, <2>2, <2>7, <2>8, NextCarried
    <2>10. (j \o Units(a, r)) \o Units(r, a + n) = j \o Units(a, a + n)
      <3>1. PICK b \in Nat : b = a + n
        BY <2>3, <2>4
      <3>2. j \in Seq(Nat) /\ a \in Nat /\ r \in Nat /\ b \in Nat /\ a <= r /\ r <= b
        BY <2>3, <2>5, <2>6, <2>8, <3>1
      <3>3. (j \o Units(a, r)) \o Units(r, b) = j \o Units(a, b)
        BY <3>2, UnitsAdded
      <3> QED
        BY <3>1, <3>3
    <2>11. got = j \o Units(a, r)
      BY <2>1, <2>3, <2>5, <2>8
    <2>12. PICK w \in Seq(Nat) : w = Units(r, a + n)
      BY <2>6, UnitsFacts
    <2>13. Content(t) = (got \o w) \o u
      BY <1>3, <2>9, <2>10, <2>11, <2>12
    <2>14. got \in Seq(Nat)
      BY ReaderFacts
    <2>15. (got \o w) \o u = got \o (w \o u) /\ w \o u \in Seq(Nat)
      BY <2>14
    <2> QED
      BY <2>13, <2>15
  <1> QED
    BY <1>4, <1>5 DEF Delivered, Past

\* What the client of a stream took is its content, from the start.
LEMMA ReaderOwnContent ==
  ASSUME ReaderInv
  PROVE  OwnContent
  <1> SUFFICES ASSUME req.begun, in.errno = "none", Regular
               PROVE  IsPrefix(got, Content(in.type))
    BY DEF OwnContent
  <1>1. StreamInv /\ Phases /\ got \in Seq(Nat) /\ script \in Seq(Sent)
    BY ReaderFacts DEF ReaderInv, StreamInv
  <1>2. \E u \in Seq(Nat) : Content(in.type) = got \o u
    <2>1. CASE pc = "retry"
      <3>1. got = <<>>
        BY <1>1, <2>1 DEF Phases
      <3>2. PICK c \in Seq(Nat) : c = Content(in.type)
        <4>1. Len(script) \in Nat /\ Len(script) \in 0..Len(script)
          BY <1>1
        <4>2. \A i \in 1..Len(script) : Carried(in.type)[i] \in Seq(Nat)
          BY <1>1, CarriedFacts
        <4>3. Joined(Carried(in.type), Len(script)) \in Seq(Nat)
          BY <4>1, <4>2, JoinedUnits
        <4> QED
          BY <1>1, <4>3, CarriedFacts
      <3>3. <<>> \o c = c
        OBVIOUS
      <3> QED
        BY <3>1, <3>2, <3>3
    <2>2. CASE pc # "retry"
      BY <1>1, <2>2, AcceptedHere, DeliveredFirst
    <2> QED
      BY <2>1, <2>2
  <1> QED
    BY <1>1, <1>2, PrefixAppended

\* A stream that ended without an error was delivered whole.
LEMMA ReaderEofHonest ==
  ASSUME ReaderInv
  PROVE  EofHonest
  <1> SUFFICES ASSUME Idle, in.isClosed, in.errno = "none", Regular
               PROVE  got = Content(in.type) /\ Ends(in.type) # {}
    BY DEF EofHonest
  <1>1. StreamInv /\ script \in Seq(Sent) /\ Len(script) \in Nat
    BY ReaderFacts DEF ReaderInv
  <1>2. PICK k : Here(k, in.type) /\ Delivered(k, in.type)
    BY IdleHere
  <1>3. k \in Ends(in.type) /\ got = Joined(Carried(in.type), k) /\ k \in 0..Len(script)
    BY <1>2 DEF Delivered, Here
  <1>4. \E e \in Ends(in.type) : e <= k + 1
    BY <1>1, <1>3
  <1> QED
    BY <1>1, <1>3, <1>4, AllCarried

\* What may be given back is the unit before rdNext.
LEMMA ReaderUnget ==
  ASSUME StreamInv
  PROVE  UngetSound
  <1> SUFFICES ASSUME Idle, ~in.isClosed, got # <<>>, in.rdNext # in.stopUnget
               PROVE  got[Len(got)] = in.rdNext - 1
    BY DEF UngetSound
  <1>1. got \in Seq(Nat) /\ in.rdNext \in Nat /\ in.stopUnget \in Nat /\ Len(got) \in Nat
    BY ReaderFacts
  <1>2. Windowed(in, got)
    BY DEF StreamInv, Window, Idle
  <1>3. PICK c \in 0..Len(got) : /\ in.rdNext = in.stopUnget + c
                                 /\ \A i \in 1..c : got[Len(got) - c + i] = in.stopUnget + i - 1
    BY <1>2 DEF Windowed
  <1>4. c \in 1..c /\ (Len(got) - c) + c = Len(got) /\ in.stopUnget + c - 1 = in.rdNext - 1
    BY <1>1, <1>3
  <1> QED
    BY <1>3, <1>4

\* Every parameter sent is in the vector, which has room for its closing NULL.
LEMMA ReaderVector ==
  ASSUME ReaderInv
  PROVE  EnvironmentComplete
  <1>1. StreamInv /\ vec.size < vec.length
    BY ReaderFacts DEF ReaderInv, Vectors
  <1>2. ASSUME Idle, in.errno = "none", Regular
        PROVE  vec.size = 1 + Len(Content("PARAMS")) \div 2
    <2>1. PICK k : Counted(k, in.type) /\ in.type \in {"STDIN", "DATA"}
      BY <1>2, IdleHere
    <2> QED
      BY <2>1 DEF Counted
  <1> QED
    BY <1>1, <1>2 DEF EnvironmentComplete

\* Where the reader is, in every state.
LEMMA ReaderInvariant == ReaderSpec => []ReaderInv
  <1>1. ReaderInit => ReaderInv
    BY InitReader
  <1>2. ReaderInv /\ [ReaderNext]_readerVars => ReaderInv'
    BY NextReader
  <1> QED
    BY <1>1, <1>2, PTL DEF ReaderSpec

\* The records of a connection are found one after the other, however the reads cut
\* them, and those for the library are answered once and in order.
THEOREM ReaderFollows == ReaderSpec => []RecordsFollowed
  <1>1. ReaderInv => RecordsFollowed
    <2> SUFFICES ASSUME ReaderInv PROVE RecordsFollowed
      OBVIOUS
    <2>1. StreamInv /\ HeadersFound
      BY DEF ReaderInv
    <2>2. InSync
      BY <2>1, ReaderFacts, RegularPadding DEF InSync, HeadersFound
    <2>3. TypeOK
      BY <2>1, ReaderTypeOK
    <2>4. RepliesMatch
      BY ReaderReplies
    <2> QED
      BY <2>2, <2>3, <2>4 DEF RecordsFollowed
  <1> QED
    BY <1>1, ReaderInvariant, PTL

\* The application reads the content of its stream: from the start, nothing else, to
\* the end and not to an end that was not sent, through every giving back.
THEOREM ReaderDelivers == ReaderSpec => []ContentDelivered
  <1>1. ReaderInv => ContentDelivered
    <2> SUFFICES ASSUME ReaderInv PROVE ContentDelivered
      OBVIOUS
    <2>1. StreamInv
      BY DEF ReaderInv
    <2>2. UngetSound
      BY <2>1, ReaderUnget
    <2> QED
      BY <2>2, ReaderOwnContent, ReaderEofHonest DEF ContentDelivered
  <1> QED
    BY <1>1, ReaderInvariant, PTL

\* An accepted request has every parameter that was sent, in a vector that can be closed.
THEOREM ReaderEnvironment == ReaderSpec => []EnvironmentComplete
  <1>1. ReaderInv => EnvironmentComplete
    BY ReaderVector
  <1> QED
    BY <1>1, ReaderInvariant, PTL

=============================================================================
