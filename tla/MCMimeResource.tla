-------------------------- MODULE MCMimeResource --------------------------
(***************************************************************************)
(* Finite instances of MimeResource for TLC.                               *)
(***************************************************************************)
EXTENDS MimeResource

\* Every form of the Range header: resuming, a slice, a suffix, an empty and an
\* inverted slice, offsets beyond the file and beyond `long`.
SomeRangeHeaders ==
  {<<"from", 0>>, <<"from", 1>>, <<"from", 3>>, <<"from", 9>>,
   <<"slice", 0, 1>>, <<"slice", 1, 2>>, <<"slice", 2, 1>>,
   <<"last", 1>>, <<"last", 2>>, <<"garbled">>, <<"foreign">>}
===========================================================================
