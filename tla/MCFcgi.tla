------------------------------ MODULE MCFcgi ------------------------------
(* The FastCGI library: a behaviour is one of an input stream, one of a    *)
(* formatted print, one of a C++ stream buffer or one of the requests a    *)
(* process answers.                                                        *)
EXTENDS MCFcgiReader, FcgiPrintf, FcgiStreambuf, FcgiRequest

\* One conversion of every shape: widths and precisions that are absent, in
\* range, out of range, or an argument.
Widths == {NoField, Digits(80), Digits(MaxField + 1), Star(-90), Star(7),
           Star(MaxField + 1)}
Precisions == {NoField, Dot, Digits(60), Digits(MaxField + 1), Star(-3), Star(2),
               Star(120)}
Modifiers == {"none", "h", "hh", "l", "ll", "L"}
Conversions ==
  {Conversion(flags, w, p, mod, op, v) :
     flags \in {0, MaxFlags + 1}, w \in Widths, p \in Precisions,
     mod \in Modifiers, op \in {"d", "s", "f"}, v \in {1, 20}}
  \cup {Conversion(0, w, p, mod, op, 1) :
     w \in Widths, p \in Precisions, mod \in Modifiers,
     op \in (Known \cup {"other"}) \ {"d", "s", "f"}}

\* And three items in a row, with texts longer than a buffer, and wide ones.
Bare(op, v) == Conversion(0, NoField, NoField, "none", op, v)
Items == {Text(3), Bare("d", 4), Bare("s", 200), Bare("n", 0), Bare("%", 0),
          Conversion(0, Star(90), NoField, "none", "d", 4),
          Conversion(0, Digits(100), NoField, "none", "d", 4),
          Conversion(1, NoField, NoField, "none", "s", 200),
          Conversion(0, NoField, Dot, "none", "s", 110),
          Conversion(0, NoField, NoField, "l", "d", 2),
          Conversion(0, NoField, Star(2), "none", "f", 309)}
MCFormats == {<<Text(3)>>} \cup {<<c>> : c \in Conversions}
              \cup {<<a, b, c>> : a, b, c \in Items}

VARIABLE part

libraryVars == <<readerVars, printfVars, streambufVars, vars, part>>

\* What the parts a behaviour is not about stay in.
ReaderStill == script = Cut /\ rest = <<>>
PrintfStill == format = <<Text(3)>>
StreambufStill == dir = "in" /\ bufsize = 0
RequestStill == ~fastCGI.is

LibraryInit ==
  /\ ReaderInit /\ PrintfInit /\ StreambufInit /\ Init
  /\ part \in {"reader", "printf", "streambuf", "request"}
  /\ part # "reader" => ReaderStill
  /\ part # "printf" => PrintfStill
  /\ part # "streambuf" => StreambufStill
  /\ part # "request" => RequestStill
LibraryNext ==
  \/ /\ part = "reader" /\ ReaderNext
     /\ UNCHANGED <<printfVars, streambufVars, vars, part>>
  \/ /\ part = "printf" /\ PrintfNext
     /\ UNCHANGED <<readerVars, streambufVars, vars, part>>
  \/ /\ part = "streambuf" /\ StreambufNext
     /\ UNCHANGED <<readerVars, printfVars, vars, part>>
  \/ /\ part = "request" /\ Next
     /\ UNCHANGED <<readerVars, printfVars, streambufVars, part>>
LibrarySpec == LibraryInit /\ [][LibraryNext]_libraryVars
============================================================================
