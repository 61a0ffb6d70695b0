---------------------------- MODULE FcgiPrintf ----------------------------
(***************************************************************************)
(* FCGX_VFPrintF (fcgiapp.c): the scan of a format on its fast and its     *)
(* slow path, the buffer a conversion is given, the arguments it reads and *)
(* what the stream gets, which may fail after a part of a piece.           *)
(*                                                                         *)
(* A format is a sequence of runs of text and conversions.  Characters are *)
(* abstracted to how many there are: the value of an argument is the       *)
(* number of digits (of characters, for %s) it prints as.  A conversion    *)
(* carries the values meant for it, so a format determines its arguments.  *)
(***************************************************************************)
EXTENDS Integers, Sequences, SequencesExt

CONSTANT Formats  \* formats, see Text and Conversion

PRINTF_BUFFLEN == 100
MaxFlags == 5
MaxField == 999999

VARIABLES
  format,    \* the format
  f,         \* the item of it that is reached
  arg,       \* arguments read so far
  path,      \* "scan", "perform", "slow", "put", "returned" or "overrun"
  fast,      \* fastPath
  spec,      \* op, sizeModifier, minWidth and precision as they were scanned
  buffLen,   \* of the buffer in use
  aux,       \* auxBuffLen
  piece,     \* what the conversion printed
  out,       \* what the stream got
  streamCount,
  result

printfVars == <<format, f, arg, path, fast, spec, buffLen, aux, piece, out,
                streamCount, result>>

---------------------------------------------------------------------------
\* Formats and the arguments meant for them.

Text(n) == [kind |-> "text", n |-> n]
NoField == [k |-> "none", v |-> 0]
Digits(v) == [k |-> "digits", v |-> v]
Star(v) == [k |-> "star", v |-> v]
Dot == [k |-> "dot", v |-> 0]
Conversion(flags, width, prec, mod, op, v) ==
  [kind |-> "conversion", flags |-> flags, width |-> width, prec |-> prec,
   mod |-> mod, op |-> op, v |-> v]

OwnArgs(c) ==
  IF c.kind = "text" THEN <<>>
  ELSE (IF c.width.k = "star" THEN <<c.width.v>> ELSE <<>>)
       \o (IF c.prec.k = "star" THEN <<c.prec.v>> ELSE <<>>)
       \o (IF c.op \in {"%", "end"} THEN <<>> ELSE <<c.v>>)
ArgsUpTo(fmt, i) ==
  LET upTo[j \in 0..Len(fmt)] ==
        IF j = 0 THEN <<>> ELSE upTo[j - 1] \o OwnArgs(fmt[j])
  IN  upTo[i]
Args(fmt) == ArgsUpTo(fmt, Len(fmt))

\* No integer, pointer or size has more digits.
MaxDigits == 20

\* The formats there are: a width or precision in digits is no negative number, a
\* character prints as one, a pointer as MaxDigits at most.
Fields == [k : {"none", "dot"}, v : {0}] \cup [k : {"digits"}, v : Nat]
          \cup [k : {"star"}, v : Int]
Texts == [kind : {"text"}, n : Nat]
AnyConversion ==
  [kind : {"conversion"}, flags : Nat, width : Fields, prec : Fields,
   mod : STRING, op : STRING, v : Nat]
Conversible(c) == (c.op = "c" => c.v = 1) /\ (c.op = "p" => c.v <= MaxDigits)

ASSUME FormatAssumption ==
  \A fmt \in Formats :
    /\ fmt \in Seq(Texts \cup AnyConversion)
    /\ \A i \in DOMAIN fmt : fmt[i].kind = "conversion" => Conversible(fmt[i])

Abs(n) == IF n < 0 THEN -n ELSE n
Larger(m, n) == IF m > n THEN m ELSE n
Smaller(m, n) == IF m < n THEN m ELSE n

\* sprintf: how many characters a value of v prints as; precision is -1 when
\* there is none.  No integer has more than MaxDigits digits, whatever is read as
\* one.
Unpadded(op, precision, v) ==
  LET p == IF precision = -1 THEN 6 ELSE precision
      fraction == IF p = 0 THEN 0 ELSE p + 1
  IN  CASE op \in {"d", "u"} -> Larger(precision, Smaller(v, MaxDigits))
        [] op = "s" -> IF precision = -1 THEN v ELSE Smaller(precision, v)
        [] op = "f" -> v + fraction
        [] op = "e" -> 1 + fraction + 4
        [] OTHER    -> v
Printed(op, minWidth, precision, v) ==
  Larger(Abs(minWidth), Unpadded(op, precision, v))

\* What the arguments meant for a conversion come to; a negative precision
\* counts as zero.
Meant(c) ==
  IF c.kind = "text" THEN c.n
  ELSE IF c.op = "%" THEN 1
  ELSE IF c.op = "n" THEN 0
  ELSE Printed(c.op, c.width.v,
               IF c.prec.k = "none" THEN -1 ELSE Larger(c.prec.v, 0), c.v)
MeantUpTo(fmt, i) ==
  LET upTo[j \in 0..Len(fmt)] == IF j = 0 THEN 0 ELSE upTo[j - 1] + Meant(fmt[j])
  IN  upTo[i]

---------------------------------------------------------------------------
\* The scan of a conversion.

\* "ll" scans as the size L, a single "l" as the conversion l with whatever
\* size was there before, "hh" as the conversion h.
Operation(c) == CASE c.mod = "l" -> "l" [] c.mod = "hh" -> "h" [] OTHER -> c.op
SizeModifier(c) ==
  CASE c.mod = "ll" -> "L" [] c.mod = "hh" -> "h" [] OTHER -> c.mod
IsPlain(c) == c.flags = 0 /\ c.width.k = "none" /\ c.prec.k = "none"

\* A conversion the fast path cannot read is none it knows.
FastScan(c) ==
  IF IsPlain(c)
  THEN [op |-> Operation(c), size |-> SizeModifier(c), width |-> 0, prec |-> -1]
  ELSE [op |-> "field", size |-> "none", width |-> 0, prec |-> -1]

FieldOK(field, v) == field.k \in {"digits", "star"} => Abs(v) <= MaxField

\* The buffer sprintf may need, more than which it must not.
Exponent(v) == ((v - 1) * 33219) \div 10000 + 1  \* of a number of v digits
Needed(op, precision, v) ==
  LET p == IF precision = -1 THEN 6 ELSE precision
  IN  CASE op \in {"d", "u", "c", "p"} -> Larger(precision, 46)
        [] op = "s" -> IF precision = -1 THEN v ELSE Smaller(precision, v)
        [] op = "f" -> p + 3 + Exponent(v) \div 3
        [] op = "e" -> p + 8
BuffReqd(s, v) == Larger(Needed(s.op, s.prec, v) + 10, s.width)

\* A buffer that is large enough is used again.  Mutants: one that is too small
\* is, too; one is allocated for every conversion.
AuxKept(n) == IF n > PRINTF_BUFFLEN /\ aux = 0 THEN n ELSE aux
AuxAlways(n) == IF n > aux THEN n ELSE aux
AuxFor(n) == IF n > PRINTF_BUFFLEN /\ n > aux THEN n ELSE aux
BuffLenFor(n) == IF n > PRINTF_BUFFLEN THEN AuxFor(n) ELSE PRINTF_BUFFLEN

\* Mutant of Sizes: a short is refused.
NoShort(op) == IF op \in {"f", "e", "d", "u"} THEN {"none", "L"} ELSE {"none"}

\* The conversions the switch performs, with the sizes it knows for them; the
\* size l it also knows is set by no scan.
Sizes(op) ==
  CASE op \in {"d", "u"} -> {"none", "h", "L"}
    [] op = "n"          -> {"none", "h"}
    [] op \in {"f", "e"} -> {"none", "L"}
    [] op \in {"c", "s", "p", "%"} -> {"none"}
    [] OTHER -> {}
Known == {"d", "u", "c", "s", "p", "n", "f", "e", "%", "end"}

---------------------------------------------------------------------------
\* The scan, its buffers and what was printed have their types; an auxiliary
\* buffer is only there when the one on the stack is too small.
PrintfTypeOK ==
  /\ f \in 1..(Len(format) + 1)
  /\ arg \in Nat
  /\ path \in {"scan", "perform", "slow", "put", "returned", "overrun"}
  /\ fast \in BOOLEAN /\ buffLen \in Nat /\ aux \in Nat
  /\ aux = 0 \/ aux > PRINTF_BUFFLEN
  /\ piece.n \in Nat /\ streamCount \in Nat
  /\ result \in {-1, -2} \cup Nat

NoPiece == [n |-> 0, count |-> 0]
NoSpec == [op |-> "none", size |-> "none", width |-> 0, prec |-> -1]

PrintfInit ==
  /\ format \in Formats /\ f = 1 /\ arg = 0 /\ path = "scan" /\ fast = TRUE
  /\ spec = NoSpec /\ buffLen = PRINTF_BUFFLEN /\ aux = 0
  /\ piece = NoPiece /\ out = <<>> /\ streamCount = 0 /\ result = -2

Item == format[f]
Value(i) == LET a == Args(format)
            IN  IF i \in DOMAIN a THEN a[i] ELSE 0  \* not an argument

\* Returned, with -1 on the way of ErrorReturn; the auxiliary buffer is freed.
ReturnWith(value) ==
  /\ path' = "returned" /\ result' = value /\ aux' = 0
  /\ UNCHANGED <<format, f, fast, spec, buffLen, piece>>
ErrorReturn == ReturnWith(-1) /\ UNCHANGED <<arg, out, streamCount>>

NormalReturn ==
  /\ path = "scan" /\ f > Len(format)
  /\ ReturnWith(streamCount) /\ UNCHANGED <<arg, out, streamCount>>

\* FCGX_PutStr of n characters: all of them, or an error after some.
Puts(p) ==
  \/ /\ out' = Append(out, p) /\ streamCount' = streamCount + p.n
     /\ f' = f + 1 /\ path' = "scan"
     /\ UNCHANGED <<format, arg, fast, spec, buffLen, aux, piece, result>>
  \/ /\ p.n > 0
     /\ \E k \in {0, p.n \div 2} : out' = Append(out, [p EXCEPT !.n = k])
     /\ ReturnWith(-1) /\ UNCHANGED <<arg, streamCount>>

PutText ==
  /\ path = "scan" /\ f <= Len(format) /\ Item.kind = "text"
  /\ Puts([NoPiece EXCEPT !.n = Item.n])

FastPath ==
  /\ path = "scan" /\ f <= Len(format) /\ Item.kind = "conversion"
  /\ path' = "perform" /\ fast' = TRUE
  /\ spec' = LET s == FastScan(Item)
             IN  IF s.op = "l" THEN [s EXCEPT !.size = spec.size] ELSE s
  /\ buffLen' = PRINTF_BUFFLEN
  /\ UNCHANGED <<format, f, arg, aux, piece, out, streamCount, result>>

---------------------------------------------------------------------------
\* The slow path.  Arguments are read in the order width, precision and, for
\* %s and %f, the value.

StarWidth == Item.width.k = "star"
StarPrec == Item.prec.k = "star"
FirstValue == arg + (IF StarWidth THEN 1 ELSE 0) + (IF StarPrec THEN 1 ELSE 0) + 1

ScannedWidth == IF StarWidth THEN Value(arg + 1) ELSE Item.width.v
ScannedPrec ==
  CASE Item.prec.k = "none" -> -1
    [] StarPrec -> Larger(Value(FirstValue - 1), 0)
    [] OTHER    -> Item.prec.v
Scanned ==
  [op |-> Operation(Item), width |-> ScannedWidth, prec |-> ScannedPrec,
   size |-> IF Item.mod = "l" THEN spec.size ELSE SizeModifier(Item)]

\* Mutant of ReadsNow: every value is read, and then again to be printed.
ReadsAlways(s) == TRUE
ReadsNow(s) == s.op \in {"s", "f"}

\* The conversions whose text has a bound.
Bounded(s) ==
  /\ s.op \in {"d", "u", "c", "p", "s", "f", "e"}
  /\ s.op = "f" => s.size \in {"none", "L"}
Readable ==
  /\ Item.flags <= MaxFlags /\ FieldOK(Item.width, ScannedWidth)
  /\ FieldOK(Item.prec, ScannedPrec) /\ Bounded(Scanned)

SlowPath ==
  /\ path = "slow"
  /\ \/ ~Readable /\ ErrorReturn
     \/ /\ Readable
        /\ LET s == Scanned
               n == BuffReqd(s, Value(FirstValue))
           IN  /\ spec' = s
               /\ buffLen' = BuffLenFor(n) /\ aux' = AuxFor(n)
               /\ arg' = IF ReadsNow(s) THEN FirstValue ELSE FirstValue - 1
        /\ path' = "perform" /\ fast' = FALSE
        /\ UNCHANGED <<format, f, piece, out, streamCount, result>>

---------------------------------------------------------------------------
\* The switch, on either path.

Performed == spec.op \in Known /\ ~(fast /\ spec.op = "f")
SizeOK == spec.size \in Sizes(spec.op)
AlreadyRead == ~fast /\ spec.op \in {"s", "f"}

TakeSlowPath ==
  /\ path = "perform" /\ ~Performed
  /\ path' = "slow"
  /\ UNCHANGED <<format, f, arg, fast, spec, buffLen, aux, piece, out,
                 streamCount, result>>

Refuse == path = "perform" /\ Performed /\ ~SizeOK /\ ErrorReturn

\* %s on the fast path prints from its argument.
PerformOp ==
  /\ path = "perform" /\ Performed /\ SizeOK
  /\ LET a == IF AlreadyRead THEN arg ELSE arg + 1
         n == Printed(spec.op, spec.width, spec.prec, Value(a))
     IN  CASE spec.op = "%" -> piece' = [NoPiece EXCEPT !.n = 1] /\ arg' = arg
           [] spec.op = "n" -> piece' = [NoPiece EXCEPT !.count = streamCount]
                               /\ arg' = a
           [] OTHER         -> piece' = [NoPiece EXCEPT !.n = n] /\ arg' = a
  /\ buffLen' = IF fast /\ spec.op = "s" THEN piece'.n + 1 ELSE buffLen
  /\ path' = "put"
  /\ UNCHANGED <<format, f, fast, spec, aux, out, streamCount, result>>

\* A text as long as its buffer has left it: the assertion fails, and without it
\* anything may happen.
Overrun ==
  /\ path = "put" /\ piece.n >= buffLen /\ path' = "overrun"
  /\ UNCHANGED <<format, f, arg, fast, spec, buffLen, aux, piece, out,
                 streamCount, result>>
PutPiece == path = "put" /\ piece.n < buffLen /\ Puts(piece)

PrintfNext ==
  \/ PutText \/ FastPath \/ TakeSlowPath \/ SlowPath \/ Refuse \/ PerformOp
  \/ PutPiece \/ Overrun \/ NormalReturn

---------------------------------------------------------------------------
\* What the stream has got is what the conversions up to here print for the
\* arguments meant for them, and %n was told the characters before it; only the
\* last piece before an error may be a part (FCGX_VFPrintF, fcgiapp.c:404: the
\* two paths read the same arguments, fcgiapp.c:605 and :758).
OutputAsMeant ==
  /\ \A i \in DOMAIN out :
       \/ /\ out[i].n = Meant(format[i])
          /\ out[i].count = IF format[i].kind = "conversion" /\ format[i].op = "n"
                            THEN MeantUpTo(format, i - 1) ELSE 0
       \/ result = -1 /\ i = Len(out) /\ out[i].n < Meant(format[i])
  /\ result >= 0 => Len(out) = Len(format) /\ result = MeantUpTo(format, Len(format))

\* A conversion that is not PRINTF_BUFFLEN wide or wider fits the buffer chosen
\* for it before it was printed (fcgiapp.c:493 and the assertion at :856), also
\* in a buffer left from an earlier conversion (:654).
BufferFits ==
  path = "put" /\ Abs(spec.width) < PRINTF_BUFFLEN => piece.n < buffLen

\* The conversions of ISO C that are printed.
Supported(c) ==
  \/ c.kind = "text"
  \/ /\ c.flags <= MaxFlags /\ Abs(c.width.v) <= MaxField /\ c.prec.v <= MaxField
     /\ \/ c.op \in {"d", "u"} /\ c.mod \in {"none", "h", "ll", "L"}
        \/ c.op \in {"f", "e"} /\ c.mod \in {"none", "L", "ll"}
        \/ c.op \in {"c", "s", "p"} /\ c.mod = "none"
        \/ c.op = "n" /\ c.mod \in {"none", "h"} /\ IsPlain(c)
        \/ c.op = "%" /\ c.mod = "none" /\ IsPlain(c)

\* -1 is returned for a write that failed or for a conversion that is not
\* printed, and never a count for a format with such a conversion, whichever
\* path its scan took (fcgiapp.c:445-853).
RefusedForCause ==
  /\ result = -1 => \/ out # <<>> /\ Last(out).n < Meant(format[Len(out)])
                    \/ ~Supported(Item)
  /\ result >= 0 => \A i \in DOMAIN format : Supported(format[i])

\* What a format prints is what it says, in a buffer it fits in, or the call fails
\* for a cause.
PrintfSound == PrintfTypeOK /\ OutputAsMeant /\ BufferFits /\ RefusedForCause
=============================================================================
