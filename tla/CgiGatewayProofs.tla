------------------------- MODULE CgiGatewayProofs -------------------------
(***************************************************************************)
(* Theorems about CgiGateway, for any set of requests and programs, any    *)
(* number of workers, any headers, bodies, outputs and failures.           *)
(*                                                                         *)
(* Each property needs a part of its own: that requests which set their    *)
(* variables at the same time have met (Fresh), that a running program     *)
(* holds the write end of its own pipe (Holds), and that a pipe carries    *)
(* the body once and one output at most (Carried).                         *)
(***************************************************************************)
EXTENDS CgiGateway, FiniteSetTheorems, TLAPS

Units == Outputs \cup {"body"}

\* The variables r sets.
Sets(r) ==
  Mandatory \cup Sends[r]
    \cup (IF Kind[r] = "fastcgi" THEN {"CONTENT_LENGTH"} ELSE {})

Fresh ==
  /\ \A r, q \in Requests : pc[r] = "env" /\ pc[q] = "env" => q \in met[r]
  /\ \A r \in Requests :
       pc[r] = "env" => \A n \in Sets(r) : Contains(todo[r], n) \/ env[n] \in met[r]
  /\ \A r \in Requests :
       program[r] # "none" => \A n \in Sets(r) : childEnv[r][n] \in met[r]

\* What is open, and who holds the pipe, in each place.
HoldsBy(r) ==
  /\ pc[r] = "env" => "write" \in handles[r]
  /\ pc[r] = "read" => "write" \notin handles[r]
  /\ pc[r] \in {"new", "env"} => program[r] = "none"
  /\ pc[r] \in {"write", "close", "read"} => program[r] # "none"
  /\ program[r] = "running" => r \in inherited[r]
  /\ resp[r] # "none" => pc[r] = "done"
  /\ resp[r] \in {"page", "errorPage"} => handles[r] = {}

Holds == \A r \in Requests : HoldsBy(r)

Passed(r) == data[r] \o pipe[r]

CarriedBy(r) ==
  /\ ~wrote[r] => \A i \in 1..Len(Passed(r)) : Passed(r)[i] = "body"
  /\ \A i, j \in 1..Len(Passed(r)) :
       Passed(r)[i] # "body" /\ Passed(r)[j] # "body" => i = j
  /\ Written(r) <= Body[r]

Carried == \A r \in Requests : CarriedBy(r)

Typed ==
  /\ TypeOK
  /\ pipe \in [Requests -> Seq(Units)] /\ data \in [Requests -> Seq(Units)]

IInv == Typed /\ Fresh /\ Holds /\ Carried /\ AnswerComplete

---------------------------------------------------------------------------
(***************************************************************************)
(* Sequences of variables and of units.                                    *)
(***************************************************************************)

\* A sequence after another has the elements of both.
LEMMA ConcatContains ==
  ASSUME NEW S, NEW s \in Seq(S), NEW t \in Seq(S)
  PROVE  /\ s \o t \in Seq(S)
         /\ \A x : Contains(s, x) \/ Contains(t, x) => Contains(s \o t, x)
  <1>1. /\ s \o t \in Seq(S) /\ Len(s \o t) = Len(s) + Len(t)
        /\ Len(s) \in Nat /\ Len(t) \in Nat
        /\ \A i \in 1..Len(s) : (s \o t)[i] = s[i]
        /\ \A i \in 1..Len(t) : (s \o t)[Len(s) + i] = t[i]
    OBVIOUS
  <1>2. ASSUME NEW x, Contains(s, x) PROVE Contains(s \o t, x)
    BY <1>1, <1>2 DEF Contains
  <1>3. ASSUME NEW x, Contains(t, x) PROVE Contains(s \o t, x)
    <2>1. PICK i \in 1..Len(t) : t[i] = x
      BY <1>3 DEF Contains
    <2>2. Len(s) + i \in 1..Len(s \o t) /\ (s \o t)[Len(s) + i] = x
      BY <1>1, <2>1
    <2> QED
      BY <2>2 DEF Contains
  <1> QED
    BY <1>1, <1>2, <1>3

\* What is left of a sequence has all but its head.
LEMMA TailContains ==
  ASSUME NEW S, NEW s \in Seq(S), s # <<>>
  PROVE  /\ Tail(s) \in Seq(S) /\ Head(s) \in S
         /\ \A x : Contains(s, x) /\ x # Head(s) => Contains(Tail(s), x)
  <1>1. /\ Len(s) \in Nat \ {0} /\ Len(Tail(s)) = Len(s) - 1 /\ Head(s) = s[1]
        /\ Tail(s) \in Seq(S) /\ Head(s) \in S
        /\ \A i \in 1..Len(Tail(s)) : Tail(s)[i] = s[i + 1]
    OBVIOUS
  <1>2. ASSUME NEW x, Contains(s, x), x # Head(s) PROVE Contains(Tail(s), x)
    <2>1. PICK i \in 1..Len(s) : s[i] = x
      BY <1>2 DEF Contains
    <2>2. i # 1
      BY <1>1, <1>2, <2>1
    <2>3. i - 1 \in 1..Len(Tail(s)) /\ Tail(s)[i - 1] = x
      BY <1>1, <2>1, <2>2
    <2> QED
      BY <2>3 DEF Contains
  <1> QED
    BY <1>1, <1>2

\* A request that begins has all of its variables to set.
LEMMA AssignmentsSet ==
  ASSUME NEW r \in Requests
  PROVE  /\ Assignments(r) \in Seq(Names)
         /\ \A n \in Sets(r) : Contains(Assignments(r), n)
  <1> DEFINE Q(n) == IfSent(r, n)
  <1>0. /\ <<"REQUEST_METHOD">> \in Seq(Names) /\ <<"SCRIPT_NAME">> \in Seq(Names)
        /\ <<"CONTENT_LENGTH">> \in Seq(Names)
        /\ <<"REQUEST_METHOD", "SCRIPT_NAME">> \in Seq(Names)
    BY DEF Names, Mandatory, Optional
  <1>1. ASSUME NEW n \in Optional
        PROVE  Q(n) \in Seq(Names) /\ (n \in Sends[r] => Contains(Q(n), n))
    <2>1. n \in Names
      BY DEF Names
    <2>2. <<n>> \in Seq(Names) /\ <<>> \in Seq(Names) /\ Contains(<<n>>, n)
      BY <2>1 DEF Contains
    <2> QED
      BY <2>2 DEF IfSent
  <1>2. /\ Contains(<<"REQUEST_METHOD">>, "REQUEST_METHOD")
        /\ Contains(<<"SCRIPT_NAME">>, "SCRIPT_NAME")
        /\ Contains(<<"CONTENT_LENGTH">>, "CONTENT_LENGTH")
        /\ Contains(<<"REQUEST_METHOD", "SCRIPT_NAME">>, "REQUEST_METHOD")
        /\ Contains(<<"REQUEST_METHOD", "SCRIPT_NAME">>, "SCRIPT_NAME")
    BY DEF Contains
  <1>3. /\ "HTTP_COOKIE" \in Optional /\ "QUERY_STRING" \in Optional
        /\ "CONTENT_LENGTH" \in Optional /\ Sends[r] \subseteq Optional
    BY RequestsAssumption DEF Optional
  <1> DEFINE c == Q("HTTP_COOKIE")
             l == Q("CONTENT_LENGTH")
             q == Q("QUERY_STRING")
  <1>4. /\ c \in Seq(Names) /\ l \in Seq(Names) /\ q \in Seq(Names)
        /\ "HTTP_COOKIE" \in Sends[r] => Contains(c, "HTTP_COOKIE")
        /\ "CONTENT_LENGTH" \in Sends[r] => Contains(l, "CONTENT_LENGTH")
        /\ "QUERY_STRING" \in Sends[r] => Contains(q, "QUERY_STRING")
    BY <1>1, <1>3
  <1> HIDE DEF c, l, q
  <1>5. CASE Kind[r] = "cgi"
    <2> DEFINE s1 == <<"REQUEST_METHOD", "SCRIPT_NAME">> \o c
               s2 == s1 \o l
               s3 == s2 \o q
    <2>1. /\ s1 \in Seq(Names)
          /\ \A x : Contains(<<"REQUEST_METHOD", "SCRIPT_NAME">>, x) \/ Contains(c, x)
                      => Contains(s1, x)
      BY <1>0, <1>4, ConcatContains
    <2> HIDE DEF s1
    <2>2. /\ s2 \in Seq(Names)
          /\ \A x : Contains(s1, x) \/ Contains(l, x) => Contains(s2, x)
      BY <2>1, <1>4, ConcatContains
    <2> HIDE DEF s2
    <2>3. /\ s3 \in Seq(Names)
          /\ \A x : Contains(s2, x) \/ Contains(q, x) => Contains(s3, x)
      BY <2>2, <1>4, ConcatContains
    <2> HIDE DEF s3
    <2>4. \A n \in Sets(r) : Contains(s3, n)
      BY <1>2, <1>3, <1>4, <1>5, <2>1, <2>2, <2>3 DEF Sets, Mandatory, Optional
    <2>5. Assignments(r) = s3
      BY <1>5 DEF Assignments, s1, s2, s3, c, l, q
    <2> QED
      BY <2>3, <2>4, <2>5
  <1>6. CASE Kind[r] = "fastcgi"
    <2> DEFINE s1 == <<"REQUEST_METHOD">> \o c
               s2 == s1 \o <<"SCRIPT_NAME">>
               s3 == s2 \o q
               s4 == s3 \o <<"CONTENT_LENGTH">>
    <2>1. /\ s1 \in Seq(Names)
          /\ \A x : Contains(<<"REQUEST_METHOD">>, x) \/ Contains(c, x) => Contains(s1, x)
      BY <1>0, <1>4, ConcatContains
    <2> HIDE DEF s1
    <2>2. /\ s2 \in Seq(Names)
          /\ \A x : Contains(s1, x) \/ Contains(<<"SCRIPT_NAME">>, x) => Contains(s2, x)
      BY <2>1, <1>0, ConcatContains
    <2> HIDE DEF s2
    <2>3. /\ s3 \in Seq(Names)
          /\ \A x : Contains(s2, x) \/ Contains(q, x) => Contains(s3, x)
      BY <2>2, <1>4, ConcatContains
    <2> HIDE DEF s3
    <2>4. /\ s4 \in Seq(Names)
          /\ \A x : Contains(s3, x) \/ Contains(<<"CONTENT_LENGTH">>, x) => Contains(s4, x)
      BY <2>3, <1>0, ConcatContains
    <2> HIDE DEF s4
    <2>5. \A n \in Sets(r) : Contains(s4, n)
      BY <1>2, <1>3, <1>4, <2>1, <2>2, <2>3, <2>4 DEF Sets, Mandatory, Optional
    <2>6. Assignments(r) = s4
      BY <1>6 DEF Assignments, s1, s2, s3, s4, c, l, q
    <2> QED
      BY <2>4, <2>5, <2>6
  <1> QED
    BY <1>5, <1>6, RequestsAssumption

\* The numbers from 1 to n are n.
LEMMA Counting ==
  ASSUME NEW n \in Nat
  PROVE  IsFiniteSet(1..n) /\ Cardinality(1..n) = n
  <1>1. IsFiniteSet(1..n) /\ Cardinality(1..n) = IF 1 > n THEN 0 ELSE n - 1 + 1
    BY FS_Interval
  <1> QED
    BY <1>1

\* How much of a sequence is body.
LEMMA BodiesFacts ==
  ASSUME NEW s \in Seq(Units)
  PROVE  /\ IsFiniteSet(Bodies(s)) /\ Cardinality(Bodies(s)) \in Nat
         /\ Cardinality(Bodies(s)) <= Len(s) /\ Len(s) \in Nat
  <1>1. Len(s) \in Nat
    OBVIOUS
  <1>2. IsFiniteSet(1..Len(s)) /\ Cardinality(1..Len(s)) = Len(s)
    BY <1>1, Counting
  <1>3. Bodies(s) \in SUBSET (1..Len(s))
    BY DEF Bodies
  <1> QED
    BY <1>1, <1>2, <1>3, FS_Subset, FS_CardinalityType

\* One unit that is no body makes a difference of one.
LEMMA AlmostBody ==
  ASSUME NEW s \in Seq(Units),
         \A i, j \in 1..Len(s) : s[i] # "body" /\ s[j] # "body" => i = j
  PROVE  Len(s) <= Cardinality(Bodies(s)) + 1
  <1>1. Len(s) \in Nat
    OBVIOUS
  <1>2. IsFiniteSet(1..Len(s)) /\ Cardinality(1..Len(s)) = Len(s)
    BY <1>1, Counting
  <1>3. CASE \A i \in 1..Len(s) : s[i] = "body"
    <2>1. Bodies(s) = 1..Len(s)
      BY <1>3 DEF Bodies
    <2> QED
      BY <2>1, <1>1, <1>2
  <1>4. ASSUME NEW j \in 1..Len(s), s[j] # "body"
        PROVE  Len(s) <= Cardinality(Bodies(s)) + 1
    <2>1. Bodies(s) = (1..Len(s)) \ {j}
      BY <1>4 DEF Bodies
    <2>2. Cardinality((1..Len(s)) \ {j}) = Cardinality(1..Len(s)) - 1
      BY <1>2, <1>4, FS_RemoveElement
    <2> QED
      BY <2>1, <2>2, <1>1, <1>2
  <1> QED
    BY <1>3, <1>4

\* All of it is body.
LEMMA AllBody ==
  ASSUME NEW s \in Seq(Units), \A i \in 1..Len(s) : s[i] = "body"
  PROVE  Cardinality(Bodies(s)) = Len(s)
  <1>1. Bodies(s) = 1..Len(s) /\ Len(s) \in Nat
    BY DEF Bodies
  <1> QED
    BY <1>1, Counting

\* A unit is written into the pipe.
LEMMA WriteFacts ==
  ASSUME NEW d \in Seq(Units), NEW p \in Seq(Units), NEW x \in Units
  PROVE  LET s == d \o p
             t == d \o Append(p, x)
         IN  /\ s \in Seq(Units) /\ t \in Seq(Units) /\ Append(p, x) \in Seq(Units)
             /\ Len(p) \in Nat /\ Len(Append(p, x)) = Len(p) + 1
             /\ Len(s) \in Nat /\ Len(t) = Len(s) + 1
             /\ \A i \in 1..Len(s) : t[i] = s[i]
             /\ t[Len(s) + 1] = x
             /\ Cardinality(Bodies(t))
                  = Cardinality(Bodies(s)) + (IF x = "body" THEN 1 ELSE 0)
  <1> DEFINE s == d \o p
             t == d \o Append(p, x)
  <1>1. /\ s \in Seq(Units) /\ t \in Seq(Units) /\ Append(p, x) \in Seq(Units)
        /\ Len(p) \in Nat /\ Len(Append(p, x)) = Len(p) + 1
        /\ Len(s) \in Nat /\ Len(t) = Len(s) + 1
    OBVIOUS
  <1>2. /\ \A i \in 1..Len(s) : t[i] = s[i]
        /\ t[Len(s) + 1] = x
    OBVIOUS
  <1> HIDE DEF s, t
  <1>3. Bodies(t) = Bodies(s) \cup (IF x = "body" THEN {Len(s) + 1} ELSE {})
    BY <1>1, <1>2 DEF Bodies
  <1>4. Len(s) + 1 \notin Bodies(s)
    BY <1>1 DEF Bodies
  <1>5. Cardinality(Bodies(t)) = Cardinality(Bodies(s)) + (IF x = "body" THEN 1 ELSE 0)
    <2>1. CASE x = "body"
      BY <2>1, <1>1, <1>3, <1>4, BodiesFacts, FS_AddElement
    <2>2. CASE x # "body"
      BY <2>2, <1>1, <1>3, BodiesFacts
    <2> QED
      BY <2>1, <2>2
  <1> QED
    BY <1>1, <1>2, <1>5 DEF s, t

\* What was read stays before what is in the pipe.
LEMMA ReadFacts ==
  ASSUME NEW d \in Seq(Units), NEW p \in Seq(Units)
  PROVE  /\ d \o p \in Seq(Units) /\ (d \o p) \o <<>> = d \o p
         /\ <<>> \in Seq(Units) /\ Len(<<>>) = 0
         /\ Len(d \o p) = Len(d) + Len(p) /\ Len(d) \in Nat /\ Len(p) \in Nat
         /\ \A i \in 1..Len(d) : (d \o p)[i] = d[i]
  OBVIOUS

\* The program reads a unit of its own input.
LEMMA InputFacts ==
  ASSUME NEW d \in Seq(Units), NEW p \in Seq(Units), p # <<>>,
         \A i \in 1..Len(d \o p) : (d \o p)[i] = "body"
  PROVE  /\ Tail(p) \in Seq(Units) /\ d \o Tail(p) \in Seq(Units)
         /\ Len(p) \in Nat \ {0} /\ Len(Tail(p)) = Len(p) - 1
         /\ Len(d \o p) \in Nat \ {0} /\ Len(d \o Tail(p)) = Len(d \o p) - 1
         /\ \A i \in 1..Len(d \o Tail(p)) : (d \o Tail(p))[i] = "body"
  <1>1. /\ Len(p) \in Nat \ {0} /\ Len(Tail(p)) = Len(p) - 1 /\ Len(d) \in Nat
        /\ Tail(p) \in Seq(Units) /\ d \o Tail(p) \in Seq(Units)
        /\ Len(d \o p) = Len(d) + Len(p) /\ Len(d \o Tail(p)) = Len(d) + Len(Tail(p))
    OBVIOUS
  <1>2. /\ \A i \in 1..Len(d) : (d \o p)[i] = d[i] /\ (d \o Tail(p))[i] = d[i]
        /\ \A i \in 1..Len(p) : (d \o p)[Len(d) + i] = p[i]
        /\ \A i \in 1..Len(Tail(p)) : (d \o Tail(p))[Len(d) + i] = p[i + 1]
    OBVIOUS
  <1>3. ASSUME NEW i \in 1..Len(p) PROVE p[i] = "body"
    <2>1. Len(d) + i \in 1..Len(d \o p)
      BY <1>1
    <2>2. (d \o p)[Len(d) + i] = "body"
      BY <2>1
    <2> QED
      BY <2>2, <1>2
  <1>4. \A i \in 1..Len(d) : d[i] = "body"
    BY <1>1, <1>2
  <1>5. ASSUME NEW i \in 1..Len(d \o Tail(p)) PROVE (d \o Tail(p))[i] = "body"
    <2>1. CASE i <= Len(d)
      BY <2>1, <1>1, <1>2, <1>4
    <2>2. CASE i > Len(d)
      <3>1. i - Len(d) \in 1..Len(Tail(p))
        BY <2>2, <1>1
      <3>2. (d \o Tail(p))[Len(d) + (i - Len(d))] = p[(i - Len(d)) + 1]
        BY <1>2, <3>1
      <3>3. Len(d) + (i - Len(d)) = i /\ (i - Len(d)) + 1 \in 1..Len(p)
        BY <3>1, <1>1
      <3> QED
        BY <3>2, <3>3, <1>3
    <2> QED
      BY <2>1, <2>2, <1>1
  <1> QED
    BY <1>1, <1>5
---------------------------------------------------------------------------
(***************************************************************************)
(* Each part of the invariant is kept by every step.                       *)
(***************************************************************************)

\* At the start no request is handled.
LEMMA InitIInv == Init => IInv
  <1> SUFFICES ASSUME Init PROVE IInv
    OBVIOUS
  <1>1. /\ <<>> \in Seq(Names) /\ <<>> \in Seq(Units) /\ Len(<<>>) = 0
        /\ <<>> \in Seq(Outputs \cup {"body"}) /\ <<>> \o <<>> = <<>>
    OBVIOUS
  <1>2. /\ pipe = [r \in Requests |-> <<>>] /\ data = [r \in Requests |-> <<>>]
        /\ stdin = [r \in Requests |-> 0] /\ wrote = [r \in Requests |-> FALSE]
    BY DEF Init
  <1>3. \A r \in Requests : /\ Passed(r) = <<>> /\ Len(Passed(r)) = 0
                            /\ data[r] \o pipe[r] = <<>> /\ pipe[r] = <<>>
    BY <1>1, <1>2 DEF Passed
  <1>4. \A r \in Requests : Body[r] \in Nat
    BY RequestsAssumption
  <1>5. pipe \in [Requests -> Seq(Units)] /\ data \in [Requests -> Seq(Units)]
    BY <1>1, <1>2
  <1>6. TypeOK
    <2>1. /\ todo \in [Requests -> Seq(Names)]
          /\ stdin \in [Requests -> Nat] /\ wrote \in [Requests -> BOOLEAN]
      BY <1>1, <1>2 DEF Init
    <2>2. \A r \in Requests :
            /\ pipe[r] \in Seq(Outputs \cup {"body"}) /\ data[r] \in Seq(Outputs \cup {"body"})
            /\ Len(pipe[r]) <= PipeSize
            /\ stdin[r] + Len(data[r] \o pipe[r]) <= Body[r] + 1
      BY <1>1, <1>2, <1>3, <1>4, RequestsAssumption
    <2>3. /\ pc \in [Requests -> {"new", "env", "write", "close", "read", "done"}]
          /\ env \in [Names -> Requests \cup {None}]
          /\ handles \in [Requests -> SUBSET {"read", "write", "process"}]
          /\ resp \in [Requests -> Answers]
          /\ program \in [Requests -> {"none", "running", "exited"}]
          /\ childEnv \in [Requests -> [Names -> Requests \cup {None}]]
          /\ inherited \in [Requests -> SUBSET Requests]
          /\ met \in [Requests -> SUBSET Requests]
          /\ aborted \in BOOLEAN
      BY DEF Init, Answers
    <2> QED
      BY <2>1, <2>2, <2>3 DEF TypeOK
  <1>7. Fresh
    BY DEF Init, Fresh
  <1>8. Holds
    BY DEF Init, Holds, HoldsBy
  <1>9. Carried
    <2>1. Bodies(<<>>) = {}
      BY <1>1 DEF Bodies
    <2>2. Cardinality(Bodies(<<>>)) = 0
      BY <2>1, FS_EmptySet
    <2>3. \A r \in Requests : Written(r) <= Body[r]
      BY <1>2, <1>3, <1>4, <2>2 DEF Written
    <2> QED
      BY <1>3, <2>3 DEF Carried, CarriedBy
  <1>10. AnswerComplete
    BY DEF Init, AnswerComplete
  <1> QED
    BY <1>5, <1>6, <1>7, <1>8, <1>9, <1>10 DEF IInv, Typed

\* What is in a pipe and what was read from it are units of one program and one
\* body.
LEMMA CarriedStep ==
  ASSUME IInv, Next
  PROVE  /\ Carried'
         /\ pipe' \in [Requests -> Seq(Units)] /\ data' \in [Requests -> Seq(Units)]
         /\ stdin' \in [Requests -> Nat]
         /\ \A r \in Requests : Len(pipe'[r]) <= PipeSize
  <1>0. /\ pipe \in [Requests -> Seq(Units)] /\ data \in [Requests -> Seq(Units)]
        /\ stdin \in [Requests -> Nat] /\ wrote \in [Requests -> BOOLEAN]
        /\ Body \in [Requests -> Nat] /\ PipeSize \in Nat
        /\ \A r \in Requests : Len(pipe[r]) <= PipeSize
        /\ \A r \in Requests : CarriedBy(r)
    BY RequestsAssumption DEF IInv, Typed, TypeOK, Carried
  <1> DEFINE Kept == /\ Carried'
                     /\ pipe' \in [Requests -> Seq(Units)]
                     /\ data' \in [Requests -> Seq(Units)]
                     /\ stdin' \in [Requests -> Nat]
                     /\ \A r \in Requests : Len(pipe'[r]) <= PipeSize
  <1>1. CASE UNCHANGED <<pipe, data, stdin, wrote>>
    BY <1>0, <1>1 DEF Carried, CarriedBy, Passed, Written
  \* It is enough to look at the request that takes the step.
  <1>2. ASSUME NEW r \in Requests,
               pipe' \in [Requests -> Seq(Units)], data' \in [Requests -> Seq(Units)],
               stdin' \in [Requests -> Nat], Len(pipe'[r]) <= PipeSize,
               \A q \in Requests \ {r} :
                 /\ pipe'[q] = pipe[q] /\ data'[q] = data[q]
                 /\ stdin'[q] = stdin[q] /\ wrote'[q] = wrote[q],
               CarriedBy(r)'
        PROVE  Kept
    <2>1. ASSUME NEW q \in Requests \ {r} PROVE CarriedBy(q)'
      <3>1. Passed(q)' = Passed(q) /\ Written(q)' = Written(q) /\ wrote'[q] = wrote[q]
        BY <1>2 DEF Passed, Written
      <3> QED
        BY <1>0, <3>1 DEF CarriedBy
    <2>2. Carried'
      BY <1>2, <2>1 DEF Carried
    <2> QED
      BY <1>0, <1>2, <2>2
  <1>3. ASSUME NEW r \in Requests, WriteBody(r)
        PROVE  Kept
    <2>1. CASE UNCHANGED pipe
      BY <1>1, <1>3, <2>1 DEF WriteBody, programVars
    <2>2. CASE ~UNCHANGED pipe
      <3>1. /\ Written(r) < Body[r] /\ Len(pipe[r]) < PipeSize
            /\ pipe' = [pipe EXCEPT ![r] = Append(pipe[r], "body")]
            /\ UNCHANGED <<data, stdin, wrote>>
        BY <1>3, <2>2 DEF WriteBody, programVars
      <3> DEFINE s == data[r] \o pipe[r]
                 t == data[r] \o Append(pipe[r], "body")
      <3>2. /\ s \in Seq(Units) /\ t \in Seq(Units)
            /\ Append(pipe[r], "body") \in Seq(Units)
            /\ Len(pipe[r]) \in Nat /\ Len(Append(pipe[r], "body")) = Len(pipe[r]) + 1
            /\ Len(s) \in Nat /\ Len(t) = Len(s) + 1
            /\ \A i \in 1..Len(s) : t[i] = s[i]
            /\ t[Len(s) + 1] = "body"
            /\ Cardinality(Bodies(t)) = Cardinality(Bodies(s)) + 1
        <4>1. "body" \in Units
          BY DEF Units
        <4> QED
          BY <1>0, <4>1, WriteFacts
      <3>3. Passed(r) = s /\ Passed(r)' = t /\ pipe'[r] = Append(pipe[r], "body")
        BY <1>0, <3>1 DEF Passed
      <3>4. Cardinality(Bodies(s)) \in Nat
        BY <3>2, BodiesFacts
      <3>5. Written(r) = stdin[r] + Cardinality(Bodies(s))
            /\ Written(r)' = stdin[r] + Cardinality(Bodies(t))
        BY <3>1, <3>3 DEF Written, Passed
      <3> HIDE DEF s, t
      <3>6. Written(r)' <= Body[r]
        BY <1>0, <3>1, <3>2, <3>4, <3>5
      <3>7. /\ ~wrote'[r] => \A i \in 1..Len(t) : t[i] = "body"
            /\ \A i, j \in 1..Len(t) : t[i] # "body" /\ t[j] # "body" => i = j
        <4>1. /\ ~wrote[r] => \A i \in 1..Len(s) : s[i] = "body"
              /\ \A i, j \in 1..Len(s) : s[i] # "body" /\ s[j] # "body" => i = j
          BY <1>0, <3>3 DEF CarriedBy
        <4>2. \A i \in 1..Len(t) : i \in 1..Len(s) \/ t[i] = "body"
          BY <3>2
        <4> QED
          BY <3>1, <3>2, <4>1, <4>2
      <3>8. pipe' \in [Requests -> Seq(Units)] /\ Len(pipe'[r]) <= PipeSize
        BY <1>0, <3>1, <3>2, <3>3
      <3> QED
        <4>1. CarriedBy(r)'
          BY <3>3, <3>6, <3>7 DEF CarriedBy
        <4> QED
          BY <1>0, <1>2, <3>1, <3>8, <4>1
    <2> QED
      BY <2>1, <2>2
  <1>4. ASSUME NEW r \in Requests, ReadPipe(r)
        PROVE  Kept
    <2>1. /\ data' = [data EXCEPT ![r] = data[r] \o pipe[r]]
          /\ pipe' = [pipe EXCEPT ![r] = <<>>] /\ UNCHANGED <<stdin, wrote>>
      BY <1>4 DEF ReadPipe, programVars
    <2>2. /\ data[r] \o pipe[r] \in Seq(Units) /\ <<>> \in Seq(Units) /\ Len(<<>>) = 0
          /\ (data[r] \o pipe[r]) \o <<>> = data[r] \o pipe[r]
      BY <1>0, ReadFacts
    <2>3. pipe'[r] = <<>> /\ data'[r] = data[r] \o pipe[r]
      BY <1>0, <2>1
    <2>4. Passed(r)' = Passed(r)
      BY <2>2, <2>3 DEF Passed
    <2>5. Written(r)' = Written(r)
      BY <2>1, <2>4 DEF Written, Passed
    <2>6. pipe' \in [Requests -> Seq(Units)] /\ data' \in [Requests -> Seq(Units)]
      BY <1>0, <2>1, <2>2
    <2>7. Len(pipe'[r]) <= PipeSize
      BY <1>0, <2>2, <2>3
    <2> QED
      <3>1. CarriedBy(r)'
        BY <1>0, <2>1, <2>4, <2>5 DEF CarriedBy
      <3> QED
        BY <1>0, <1>2, <2>1, <2>6, <2>7, <3>1
  <1>5. ASSUME NEW r \in Requests, ReadInput(r)
        PROVE  Kept
    <2>1. /\ ~wrote[r] /\ pipe[r] # <<>>
          /\ pipe' = [pipe EXCEPT ![r] = Tail(pipe[r])]
          /\ stdin' = [stdin EXCEPT ![r] = stdin[r] + 1] /\ UNCHANGED <<data, wrote>>
      BY <1>5 DEF ReadInput
    <2> DEFINE s == data[r] \o pipe[r]
               t == data[r] \o Tail(pipe[r])
    <2>2. \A i \in 1..Len(s) : s[i] = "body"
      BY <1>0, <2>1 DEF CarriedBy, Passed
    <2>3. /\ Tail(pipe[r]) \in Seq(Units) /\ t \in Seq(Units)
          /\ Len(pipe[r]) \in Nat \ {0} /\ Len(Tail(pipe[r])) = Len(pipe[r]) - 1
          /\ Len(s) \in Nat \ {0} /\ Len(t) = Len(s) - 1
          /\ \A i \in 1..Len(t) : t[i] = "body"
      BY <1>0, <2>1, <2>2, InputFacts
    <2>4. s \in Seq(Units)
      BY <1>0, ReadFacts
    <2>5. Passed(r)' = t /\ pipe'[r] = Tail(pipe[r]) /\ stdin'[r] = stdin[r] + 1
      BY <1>0, <2>1 DEF Passed
    <2>6. Written(r) = stdin[r] + Cardinality(Bodies(s))
          /\ Written(r)' = stdin'[r] + Cardinality(Bodies(t))
      BY <2>1, <2>5 DEF Written, Passed
    <2> HIDE DEF s, t
    <2>7. Cardinality(Bodies(s)) = Len(s) /\ Cardinality(Bodies(t)) = Len(t)
      BY <2>2, <2>3, <2>4, AllBody
    <2>8. Written(r)' = Written(r)
      BY <1>0, <2>3, <2>5, <2>6, <2>7
    <2>9. pipe' \in [Requests -> Seq(Units)] /\ stdin' \in [Requests -> Nat]
          /\ Len(pipe'[r]) <= PipeSize
      BY <1>0, <2>1, <2>3, <2>5
    <2> QED
      <3>1. CarriedBy(r)'
        BY <1>0, <2>3, <2>5, <2>8 DEF CarriedBy
      <3> QED
        BY <1>0, <1>2, <2>1, <2>9, <3>1
  <1>6. ASSUME NEW r \in Requests, WriteOutput(r)
        PROVE  Kept
    <2>1. wrote' = [wrote EXCEPT ![r] = TRUE] /\ ~wrote[r] /\ UNCHANGED <<data, stdin>>
      BY <1>6 DEF WriteOutput
    <2>2. CASE UNCHANGED pipe
      <3>1. Passed(r)' = Passed(r) /\ Written(r)' = Written(r) /\ wrote'[r]
        BY <1>0, <2>1, <2>2 DEF Passed, Written
      <3> QED
        <4>1. CarriedBy(r)'
          BY <1>0, <3>1 DEF CarriedBy
        <4> QED
          BY <1>0, <1>2, <2>1, <2>2, <4>1
    <2>3. ASSUME NEW o \in Outputs, pipe' = [pipe EXCEPT ![r] = Append(pipe[r], o)],
                 Len(pipe[r]) < PipeSize
          PROVE  Kept
      <3> DEFINE s == data[r] \o pipe[r]
                 t == data[r] \o Append(pipe[r], o)
      <3>1. o \in Units /\ o # "body"
        BY RequestsAssumption DEF Units
      <3>2. /\ s \in Seq(Units) /\ t \in Seq(Units) /\ Append(pipe[r], o) \in Seq(Units)
            /\ Len(pipe[r]) \in Nat /\ Len(Append(pipe[r], o)) = Len(pipe[r]) + 1
            /\ Len(s) \in Nat /\ Len(t) = Len(s) + 1
            /\ \A i \in 1..Len(s) : t[i] = s[i]
            /\ Cardinality(Bodies(t)) = Cardinality(Bodies(s)) + 0
        BY <1>0, <3>1, WriteFacts
      <3>3. Passed(r) = s /\ Passed(r)' = t /\ pipe'[r] = Append(pipe[r], o)
        BY <1>0, <2>1, <2>3 DEF Passed
      <3>4. Cardinality(Bodies(s)) \in Nat
        BY <3>2, BodiesFacts
      <3>5. Written(r) = stdin[r] + Cardinality(Bodies(s))
            /\ Written(r)' = stdin[r] + Cardinality(Bodies(t))
        BY <2>1, <3>3 DEF Written, Passed
      <3> HIDE DEF s, t
      <3>6. Written(r)' <= Body[r]
        BY <1>0, <3>2, <3>4, <3>5 DEF CarriedBy
      <3>7. \A i \in 1..Len(s) : s[i] = "body"
        BY <1>0, <2>1, <3>3 DEF CarriedBy
      <3>8. \A i, j \in 1..Len(t) : t[i] # "body" /\ t[j] # "body" => i = j
        <4>1. \A i \in 1..Len(t) : t[i] # "body" => i = Len(s) + 1
          BY <3>2, <3>7
        <4> QED
          BY <4>1
      <3>9. pipe' \in [Requests -> Seq(Units)] /\ Len(pipe'[r]) <= PipeSize
        BY <1>0, <2>3, <3>2, <3>3
      <3>10. wrote'[r]
        BY <1>0, <2>1
      <3> QED
        <4>1. CarriedBy(r)'
          BY <3>3, <3>6, <3>8, <3>10 DEF CarriedBy
        <4> QED
          BY <1>0, <1>2, <2>1, <2>3, <3>9, <4>1
    <2> QED
      BY <1>6, <2>2, <2>3 DEF WriteOutput
  <1>7. ASSUME NEW r \in Requests,
               \/ Begin(r) \/ SetVariable(r) \/ CreateProcess(r) \/ CloseWrite(r)
               \/ FinishReading(r) \/ Exit(r)
        PROVE  Kept
    BY <1>1, <1>7 DEF Begin, SetVariable, CreateProcess, CloseWrite, FinishReading,
                      Exit, programVars
  <1> QED
    BY <1>3, <1>4, <1>5, <1>6, <1>7 DEF Next, Handler, Program

\* Every variable keeps its type; a pipe and what was read from it hold no more
\* than the body and an output.
LEMMA TypedStep == IInv /\ Next => Typed'
  <1> SUFFICES ASSUME IInv, Next PROVE Typed'
    OBVIOUS
  <1>1. /\ Carried' /\ stdin' \in [Requests -> Nat]
        /\ pipe' \in [Requests -> Seq(Units)] /\ data' \in [Requests -> Seq(Units)]
        /\ \A r \in Requests : Len(pipe'[r]) <= PipeSize
    BY CarriedStep
  <1>2. ASSUME NEW r \in Requests
        PROVE  /\ pipe'[r] \in Seq(Outputs \cup {"body"})
               /\ data'[r] \in Seq(Outputs \cup {"body"})
               /\ stdin'[r] + Len(data'[r] \o pipe'[r]) <= Body[r] + 1
    <2> DEFINE s == data'[r] \o pipe'[r]
    <2>1. /\ pipe'[r] \in Seq(Units) /\ data'[r] \in Seq(Units)
          /\ s \in Seq(Units) /\ Len(s) \in Nat
      BY <1>1, ReadFacts
    <2>2. /\ \A i, j \in 1..Len(s) : s[i] # "body" /\ s[j] # "body" => i = j
          /\ stdin'[r] + Cardinality(Bodies(s)) <= Body[r]
      BY <1>1 DEF Carried, CarriedBy, Passed, Written
    <2> HIDE DEF s
    <2>3. Len(s) <= Cardinality(Bodies(s)) + 1 /\ Cardinality(Bodies(s)) \in Nat
      BY <2>1, <2>2, AlmostBody, BodiesFacts
    <2>4. stdin'[r] \in Nat /\ Body[r] \in Nat
      BY <1>1, RequestsAssumption
    <2>5. stdin'[r] + Len(s) <= Body[r] + 1
      BY <2>1, <2>2, <2>3, <2>4
    <2> QED
      BY <2>1, <2>5 DEF s, Units
  <1>3. TypeOK
    BY DEF IInv, Typed
  <1>4. todo' \in [Requests -> Seq(Names)] /\ env' \in [Names -> Requests \cup {None}]
    <2>1. todo \in [Requests -> Seq(Names)] /\ env \in [Names -> Requests \cup {None}]
      BY <1>3 DEF TypeOK
    <2>2. ASSUME NEW r \in Requests, SetVariable(r)
          PROVE  todo' \in [Requests -> Seq(Names)] /\ env' \in [Names -> Requests \cup {None}]
      <3>1. Tail(todo[r]) \in Seq(Names) /\ Head(todo[r]) \in Names
        BY <2>1, <2>2, TailContains DEF SetVariable
      <3> QED
        BY <2>1, <2>2, <3>1 DEF SetVariable
    <2>3. ASSUME NEW r \in Requests, Begin(r) PROVE todo' \in [Requests -> Seq(Names)]
      BY <2>1, <2>3, AssignmentsSet DEF Begin
    <2> QED
      BY <2>1, <2>2, <2>3
      DEF Next, Handler, Program, Begin, CreateProcess, WriteBody, CloseWrite, ReadPipe,
          FinishReading, ReadInput, WriteOutput, Exit, programVars
  <1> DEFINE Same ==
        /\ pc' \in [Requests -> {"new", "env", "write", "close", "read", "done"}]
        /\ handles' \in [Requests -> SUBSET {"read", "write", "process"}]
        /\ resp' \in [Requests -> Answers]
        /\ aborted' \in BOOLEAN
  <1>5. Same
    <2>1. /\ pc \in [Requests -> {"new", "env", "write", "close", "read", "done"}]
          /\ handles \in [Requests -> SUBSET {"read", "write", "process"}]
          /\ resp \in [Requests -> Answers]
          /\ aborted \in BOOLEAN
      BY <1>3 DEF TypeOK
    <2>2. ASSUME NEW r \in Requests, Begin(r) PROVE Same
      <3>1. CASE UNCHANGED <<pc, resp, handles>> /\ aborted' = TRUE
        BY <2>1, <3>1
      <3>2. CASE pc' = [pc EXCEPT ![r] = "done"] /\ UNCHANGED <<handles, aborted>>
        <4>1. resp' \in [Requests -> Answers]
          BY <2>1, <2>2, <3>2 DEF Begin, Answers
        <4> QED
          BY <2>1, <3>2, <4>1
      <3>3. CASE /\ pc' = [pc EXCEPT ![r] = "env"]
                 /\ handles' = [handles EXCEPT ![r] = {"read", "write"}]
                 /\ UNCHANGED <<resp, aborted>>
        BY <2>1, <3>3
      <3> QED
        BY <2>2, <3>1, <3>2, <3>3 DEF Begin
    <2>3. ASSUME NEW r \in Requests, CreateProcess(r) PROVE Same
      BY <2>1, <2>3 DEF CreateProcess, Answers
    <2>4. ASSUME NEW r \in Requests, WriteBody(r) PROVE Same
      BY <2>1, <2>4 DEF WriteBody, Answers
    <2>5. ASSUME NEW r \in Requests, CloseWrite(r) PROVE Same
      BY <2>1, <2>5 DEF CloseWrite, AfterStart
    <2>6. ASSUME NEW r \in Requests, FinishReading(r) PROVE Same
      <3>1. AfterAnswer(handles[r]) \subseteq handles[r]
        BY DEF AfterAnswer
      <3>2. Parsed(r) \in Answers
        BY DEF Parsed, Answers
      <3> QED
        BY <2>1, <2>6, <3>1, <3>2 DEF FinishReading
    <2> QED
      BY <2>1, <2>2, <2>3, <2>4, <2>5, <2>6
      DEF Next, Handler, Program, SetVariable, ReadPipe, ReadInput, WriteOutput, Exit
  <1> DEFINE Started ==
        /\ program' \in [Requests -> {"none", "running", "exited"}]
        /\ childEnv' \in [Requests -> [Names -> Requests \cup {None}]]
        /\ inherited' \in [Requests -> SUBSET Requests]
        /\ met' \in [Requests -> SUBSET Requests]
        /\ wrote' \in [Requests -> BOOLEAN]
  <1>6. Started
    <2>1. /\ program \in [Requests -> {"none", "running", "exited"}]
          /\ env \in [Names -> Requests \cup {None}]
          /\ childEnv \in [Requests -> [Names -> Requests \cup {None}]]
          /\ inherited \in [Requests -> SUBSET Requests]
          /\ met \in [Requests -> SUBSET Requests]
          /\ wrote \in [Requests -> BOOLEAN]
      BY <1>3 DEF TypeOK
    <2>2. ASSUME NEW r \in Requests, Begin(r) PROVE Started
      <3>1. Active \in SUBSET Requests
        BY DEF Active
      <3> QED
        BY <2>1, <2>2, <3>1 DEF Begin, programVars
    <2>3. ASSUME NEW r \in Requests, CreateProcess(r) PROVE Started
      <3>1. UNCHANGED <<met, wrote>>
        BY <2>3 DEF CreateProcess
      <3>2. CASE UNCHANGED <<inherited, program, childEnv>>
        BY <2>1, <3>1, <3>2
      <3>3. CASE ~UNCHANGED <<inherited, program, childEnv>>
        <4>1. /\ program' = [program EXCEPT ![r] = "running"]
              /\ childEnv' = [childEnv EXCEPT ![r] = env]
              /\ inherited' = [q \in Requests |->
                                 IF "write" \in handles[q] THEN inherited[q] \cup {r}
                                 ELSE inherited[q]]
          BY <2>3, <3>3 DEF CreateProcess
        <4>2. inherited' \in [Requests -> SUBSET Requests]
          BY <2>1, <4>1
        <4>3. /\ program' \in [Requests -> {"none", "running", "exited"}]
              /\ childEnv' \in [Requests -> [Names -> Requests \cup {None}]]
          BY <2>1, <4>1
        <4> QED
          BY <2>1, <3>1, <4>2, <4>3
      <3> QED
        BY <3>2, <3>3
    <2>4. ASSUME NEW r \in Requests, Exit(r) PROVE Started
      <3>1. inherited' \in [Requests -> SUBSET Requests]
        BY <2>1, <2>4 DEF Exit
      <3>2. /\ program' \in [Requests -> {"none", "running", "exited"}]
            /\ childEnv' = childEnv /\ met' = met /\ wrote' = wrote
        BY <2>1, <2>4 DEF Exit
      <3> QED
        BY <2>1, <3>1, <3>2
    <2>5. ASSUME NEW r \in Requests, WriteOutput(r) PROVE Started
      <3>1. /\ wrote' \in [Requests -> BOOLEAN] /\ program' = program
            /\ childEnv' = childEnv /\ inherited' = inherited /\ met' = met
        BY <2>1, <2>5 DEF WriteOutput
      <3> QED
        BY <2>1, <3>1
    <2> QED
      BY <2>1, <2>2, <2>3, <2>4, <2>5
      DEF Next, Handler, Program, SetVariable, WriteBody, CloseWrite, ReadPipe,
          FinishReading, ReadInput, programVars
  <1> QED
    BY <1>1, <1>2, <1>4, <1>5, <1>6 DEF Typed, TypeOK

\* A variable that is set is set to a request in "env", which all requests in "env"
\* have met.
LEMMA FreshStep == IInv /\ Next => Fresh'
  <1> SUFFICES ASSUME IInv, Next PROVE Fresh'
    OBVIOUS
  <1>0. /\ met \in [Requests -> SUBSET Requests] /\ Fresh
        /\ todo \in [Requests -> Seq(Names)]
        /\ env \in [Names -> Requests \cup {None}]
        /\ pc \in [Requests -> {"new", "env", "write", "close", "read", "done"}]
        /\ program \in [Requests -> {"none", "running", "exited"}]
        /\ childEnv \in [Requests -> [Names -> Requests \cup {None}]]
        /\ \A r \in Requests : Sets(r) \subseteq Names
    BY RequestsAssumption DEF IInv, Typed, TypeOK, Sets, Names, Mandatory, Optional
  <1>1. ASSUME met' = met, todo' = todo, env' = env, childEnv' = childEnv,
               \A r \in Requests : pc'[r] = "env" => pc[r] = "env",
               \A r \in Requests : program'[r] # "none" => program[r] # "none"
        PROVE  Fresh'
    <2>1. \A r, q \in Requests : pc'[r] = "env" /\ pc'[q] = "env" => q \in met'[r]
      BY <1>0, <1>1 DEF Fresh
    <2>2. ASSUME NEW r \in Requests, pc'[r] = "env", NEW n \in Sets(r)
          PROVE  Contains(todo'[r], n) \/ env'[n] \in met'[r]
      <3>1. Contains(todo[r], n) \/ env[n] \in met[r]
        BY <1>0, <1>1, <2>2 DEF Fresh
      <3>2. todo' = todo /\ env' = env /\ met' = met
        BY <1>1
      <3> QED
        BY <3>1, <3>2
    <2>3. \A r \in Requests :
            program'[r] # "none" => \A n \in Sets(r) : childEnv'[r][n] \in met'[r]
      BY <1>0, <1>1 DEF Fresh
    <2> QED
      BY <2>1, <2>2, <2>3 DEF Fresh, Sets
  <1>2. ASSUME NEW r \in Requests, Begin(r) PROVE Fresh'
    <2>1. CASE UNCHANGED <<handles, todo, met>> /\ pc' = [pc EXCEPT ![r] = "done"]
      <3>1. UNCHANGED <<env, childEnv, program>>
        BY <1>2 DEF Begin, programVars
      <3>2. \A q \in Requests : pc'[q] = "env" => pc[q] = "env"
        BY <1>0, <2>1
      <3> QED
        BY <1>1, <2>1, <3>1, <3>2
    <2>2. CASE pc' = [pc EXCEPT ![r] = "env"]
      <3>1. /\ pc[r] = "new" /\ UNCHANGED <<env, program, childEnv>>
            /\ pc' # [pc EXCEPT ![r] = "done"] /\ pc' # pc
        BY <1>0, <1>2, <2>2 DEF Begin, programVars
      <3>2. /\ todo' = [todo EXCEPT ![r] = Assignments(r)]
            /\ met' = [q \in Requests |->
                         IF q = r THEN Active \cup {r}
                         ELSE IF pc[q] = "env" THEN met[q] \cup {r} ELSE met[q]]
        BY <1>2, <3>1 DEF Begin
      <3>3. \A n \in Sets(r) : Contains(todo'[r], n)
        BY <1>0, <3>2, AssignmentsSet
      <3>4. \A q \in Requests \ {r} :
              /\ pc'[q] = pc[q] /\ todo'[q] = todo[q] /\ met[q] \subseteq met'[q]
              /\ pc[q] = "env" => r \in met'[q] /\ q \in met'[r]
        BY <1>0, <2>2, <3>2 DEF Active
      <3>5. r \in met'[r] /\ pc'[r] = "env"
        BY <1>0, <2>2, <3>2
      <3>6. program[r] = "none"
        BY <3>1 DEF IInv, Holds, HoldsBy
      <3> QED
        BY <1>0, <2>2, <3>1, <3>2, <3>3, <3>4, <3>5, <3>6 DEF Fresh
    <2>3. CASE UNCHANGED <<pc, resp, handles, todo, met>>
      <3>1. UNCHANGED <<env, childEnv, program>>
        BY <1>2 DEF Begin, programVars
      <3> QED
        BY <1>1, <2>3, <3>1
    <2> QED
      BY <1>2, <2>1, <2>2, <2>3 DEF Begin
  <1>3. ASSUME NEW r \in Requests, SetVariable(r), ~aborted' PROVE Fresh'
    <2>1. /\ env' = [env EXCEPT ![Head(todo[r])] = r] /\ pc[r] = "env"
          /\ todo' = [todo EXCEPT ![r] = Tail(todo[r])] /\ todo[r] # <<>>
          /\ UNCHANGED <<pc, met, program, childEnv>>
      BY <1>3 DEF SetVariable, programVars
    <2>2. \A n : Contains(todo[r], n) /\ n # Head(todo[r]) => Contains(todo'[r], n)
      BY <1>0, <2>1, TailContains
    <2>3. \A q \in Requests \ {r} : todo'[q] = todo[q]
      BY <1>0, <2>1
    <2>4. \A q \in Requests, n \in Names : Contains(todo[q], n) => Contains(todo'[q], n) \/ env'[n] = r
      BY <1>0, <2>1, <2>2, <2>3
    <2>5. \A n \in Names : env'[n] = env[n] \/ env'[n] = r
      BY <1>0, <2>1
    <2>6. \A q \in Requests : pc[q] = "env" => r \in met[q]
      BY <1>0, <2>1 DEF Fresh
    <2> QED
      BY <1>0, <2>1, <2>4, <2>5, <2>6 DEF Fresh
  <1>4. ASSUME NEW r \in Requests, CreateProcess(r) PROVE Fresh'
    <2>1. CASE UNCHANGED <<program, childEnv>>
      BY <1>0, <1>1, <1>4, <2>1 DEF CreateProcess
    <2>2. CASE ~UNCHANGED <<program, childEnv>>
      <3>1. /\ todo[r] = <<>> /\ pc[r] = "env" /\ childEnv' = [childEnv EXCEPT ![r] = env]
            /\ program' = [program EXCEPT ![r] = "running"]
            /\ UNCHANGED <<met, todo, env>>
            /\ \A q \in Requests : pc'[q] = "env" => pc[q] = "env"
        BY <1>0, <1>4, <2>2 DEF CreateProcess
      <3>2. \A n : ~Contains(todo[r], n)
        BY <3>1 DEF Contains
      <3>3. \A n \in Sets(r) : env[n] \in met[r]
        BY <1>0, <3>1, <3>2 DEF Fresh
      <3>4. /\ childEnv'[r] = env
            /\ \A q \in Requests \ {r} : childEnv'[q] = childEnv[q] /\ program'[q] = program[q]
        BY <1>0, <3>1
      <3> QED
        BY <1>0, <3>1, <3>3, <3>4 DEF Fresh
    <2> QED
      BY <2>1, <2>2
  <1>5. ASSUME NEW r \in Requests,
               \/ WriteBody(r) \/ CloseWrite(r) \/ ReadPipe(r) \/ FinishReading(r)
               \/ ReadInput(r) \/ WriteOutput(r) \/ Exit(r)
        PROVE  Fresh'
    BY <1>0, <1>1, <1>5
    DEF WriteBody, CloseWrite, ReadPipe, FinishReading, ReadInput, WriteOutput, Exit,
        programVars
  <1>6. ASSUME NEW r \in Requests, SetVariable(r), aborted' PROVE Fresh'
    BY <1>1, <1>6 DEF SetVariable, programVars
  <1> QED
    BY <1>2, <1>3, <1>4, <1>5, <1>6 DEF Next, Handler, Program

\* Handles are opened, inherited and closed as the handler goes on.
LEMMA HoldsStep == IInv /\ Next => Holds'
  <1> SUFFICES ASSUME IInv, Next, NEW q \in Requests PROVE HoldsBy(q)'
    BY DEF Holds
  <1>0. /\ handles \in [Requests -> SUBSET {"read", "write", "process"}]
        /\ inherited \in [Requests -> SUBSET Requests]
        /\ resp \in [Requests -> Answers]
        /\ pc \in [Requests -> {"new", "env", "write", "close", "read", "done"}]
        /\ program \in [Requests -> {"none", "running", "exited"}]
        /\ HoldsBy(q)
    BY DEF IInv, Typed, TypeOK, Holds
  <1>1. ASSUME NEW r \in Requests, Begin(r) PROVE HoldsBy(q)'
    BY <1>0, <1>1 DEF HoldsBy, Begin, programVars
  <1>2. ASSUME NEW r \in Requests, CreateProcess(r) PROVE HoldsBy(q)'
    BY <1>0, <1>2 DEF HoldsBy, CreateProcess
  <1>3. ASSUME NEW r \in Requests, WriteBody(r) PROVE HoldsBy(q)'
    BY <1>0, <1>3 DEF HoldsBy, WriteBody, programVars
  <1>4. ASSUME NEW r \in Requests, CloseWrite(r) PROVE HoldsBy(q)'
    BY <1>0, <1>4 DEF HoldsBy, CloseWrite, AfterStart, programVars
  <1>5. ASSUME NEW r \in Requests, FinishReading(r) PROVE HoldsBy(q)'
    <2>1. CASE UNCHANGED <<pc, resp, handles>>
      BY <1>0, <1>5, <2>1 DEF HoldsBy, FinishReading, programVars
    <2>2. CASE ~UNCHANGED <<pc, resp, handles>>
      <3>1. /\ pc[r] = "read" /\ pc' = [pc EXCEPT ![r] = "done"]
            /\ resp' = [resp EXCEPT ![r] = Parsed(r)]
            /\ handles' = [handles EXCEPT ![r] = handles[r] \ {"process", "read"}]
            /\ UNCHANGED <<program, inherited>>
        BY <1>5, <2>2 DEF FinishReading, programVars, AfterAnswer
      <3> QED
        BY <1>0, <3>1 DEF HoldsBy
    <2> QED
      BY <2>1, <2>2
  <1>6. ASSUME NEW r \in Requests, Exit(r) PROVE HoldsBy(q)'
    BY <1>0, <1>6 DEF HoldsBy, Exit
  <1>7. ASSUME NEW r \in Requests,
               SetVariable(r) \/ ReadPipe(r) \/ ReadInput(r) \/ WriteOutput(r)
        PROVE  HoldsBy(q)'
    BY <1>0, <1>7 DEF HoldsBy, SetVariable, ReadPipe, ReadInput, WriteOutput, programVars
  <1> QED
    BY <1>1, <1>2, <1>3, <1>4, <1>5, <1>6, <1>7 DEF Next, Handler, Program

\* The end of a pipe is only reported when its program has exited, and nothing
\* comes into it after that.
LEMMA AnswerCompleteStep == IInv /\ Next => AnswerComplete'
  <1> SUFFICES ASSUME IInv, Next, NEW q \in Requests, resp'[q] \in {"page", "errorPage"}
               PROVE  program'[q] = "exited" /\ pipe'[q] = <<>> /\ inherited'[q] = {}
    BY DEF AnswerComplete
  <1>0. /\ handles \in [Requests -> SUBSET {"read", "write", "process"}]
        /\ inherited \in [Requests -> SUBSET Requests]
        /\ resp \in [Requests -> Answers]
        /\ pc \in [Requests -> {"new", "env", "write", "close", "read", "done"}]
        /\ program \in [Requests -> {"none", "running", "exited"}]
        /\ pipe \in [Requests -> Seq(Units)]
        /\ HoldsBy(q)
    BY DEF IInv, Typed, TypeOK, Holds
  <1>1. CASE resp[q] \in {"page", "errorPage"}
    <2>1. /\ program[q] = "exited" /\ pipe[q] = <<>> /\ inherited[q] = {}
          /\ pc[q] = "done" /\ handles[q] = {}
      BY <1>0, <1>1 DEF IInv, AnswerComplete, HoldsBy
    <2>2. ASSUME NEW r \in Requests, CreateProcess(r)
          PROVE  program'[q] = "exited" /\ inherited'[q] = {}
      <3>1. r # q
        BY <2>1, <2>2 DEF CreateProcess
      <3>2. inherited'[q] = {}
        BY <1>0, <2>1, <2>2 DEF CreateProcess
      <3> QED
        BY <1>0, <2>1, <2>2, <3>1, <3>2 DEF CreateProcess
    <2>3. program'[q] = "exited" /\ inherited'[q] = {}
      BY <1>0, <2>1, <2>2
      DEF Next, Handler, Program, Begin, SetVariable, WriteBody, CloseWrite,
          ReadPipe, FinishReading, ReadInput, WriteOutput, Exit, programVars
    <2>4. pipe'[q] = <<>>
      BY <1>0, <2>1
      DEF Next, Handler, Program, Begin, SetVariable, CreateProcess, WriteBody, CloseWrite,
          ReadPipe, FinishReading, ReadInput, WriteOutput, Exit, programVars
    <2> QED
      BY <2>3, <2>4
  <1>2. CASE resp[q] \notin {"page", "errorPage"}
    <2>1. FinishReading(q)
      BY <1>0, <1>2
      DEF Next, Handler, Program, Begin, SetVariable, CreateProcess, WriteBody, CloseWrite,
          ReadPipe, FinishReading, ReadInput, WriteOutput, Exit, programVars
    <2>2. pc[q] = "read" /\ pipe[q] = <<>> /\ inherited[q] = {}
          /\ UNCHANGED <<program, pipe, inherited>>
      BY <2>1 DEF FinishReading, AtEnd, WriterLeft, programVars
    <2> QED
      BY <1>0, <2>2 DEF HoldsBy
  <1> QED
    BY <1>1, <1>2

\* Before its program is started a request only ends the server for a text that has
\* no conversion, and afterwards only for the end of an answer without a header, or
\* with a Status that is no number; such a program wrote no page.
LEMMA AbortStep == IInv /\ AbortHasCause /\ Next => AbortHasCause'
  <1> SUFFICES ASSUME IInv, AbortHasCause, Next, aborted' PROVE AbortHasCause'
    BY DEF AbortHasCause
  <1>1. ~aborted
    BY DEF Next, Handler, Program, Begin, SetVariable, CreateProcess, WriteBody, CloseWrite,
           ReadPipe, FinishReading, ReadInput, WriteOutput, Exit
  <1>2. PICK r \in Requests : Begin(r) \/ SetVariable(r) \/ FinishReading(r)
    BY <1>1 DEF Next, Handler, Program, CreateProcess, WriteBody, CloseWrite, ReadPipe,
           ReadInput, WriteOutput, Exit
  <1>3. CASE Begin(r) \/ SetVariable(r)
    <2>1. Unconvertible(r) /\ UNCHANGED <<pc, todo>>
      BY <1>1, <1>3 DEF Begin, SetVariable, Unconvertible
    <2>2. Unconvertible(r)'
      BY <2>1 DEF Unconvertible
    <2> QED
      BY <2>2 DEF AbortHasCause
  <1>4. CASE FinishReading(r)
    <2>1. /\ pc[r] = "read" /\ pipe[r] = <<>> /\ inherited[r] = {} /\ Throws(r)
          /\ UNCHANGED <<program, data>>
      BY <1>1, <1>4 DEF FinishReading, AtEnd, WriterLeft, programVars
    <2>2. program[r] = "exited"
      BY <2>1 DEF IInv, Typed, TypeOK, Holds, HoldsBy
    <2>3. data[r] \in Seq(Units)
      BY DEF IInv, Typed
    <2>4. ASSUME NEW i \in DOMAIN data[r], data[r][i] = "page" PROVE FALSE
      <3>1. HasHeaders(data[r])
        BY <2>4 DEF HasHeaders
      <3>2. Contains(data[r], "badStatus")
        BY <2>1, <3>1 DEF Throws
      <3>3. PICK j \in 1..Len(data[r]) : data[r][j] = "badStatus"
        BY <3>2 DEF Contains
      <3>4. Passed(r) = data[r]
        BY <2>1, <2>3 DEF Passed
      <3>5. i \in 1..Len(data[r])
        BY <2>3, <2>4
      <3> QED
        BY <2>4, <3>3, <3>4, <3>5 DEF IInv, Carried, CarriedBy
    <2> QED
      BY <2>1, <2>2, <2>4 DEF AbortHasCause
  <1> QED
    BY <1>2, <1>3, <1>4

---------------------------------------------------------------------------
(***************************************************************************)
(* The theorems.                                                           *)
(***************************************************************************)

\* A state in which nothing changes keeps what holds.
LEMMA StutterStep ==
  ASSUME IInv, AbortHasCause, UNCHANGED vars
  PROVE  IInv' /\ AbortHasCause'
  <1>1. /\ pc' = pc /\ todo' = todo /\ env' = env /\ handles' = handles /\ pipe' = pipe
        /\ data' = data /\ resp' = resp /\ inherited' = inherited /\ met' = met
        /\ program' = program /\ childEnv' = childEnv /\ stdin' = stdin
        /\ wrote' = wrote /\ aborted' = aborted
    BY DEF vars, programVars
  <1>2. Typed' = Typed /\ Fresh' = Fresh
    BY <1>1 DEF Typed, TypeOK, Fresh
  <1>3. Holds' = Holds /\ Carried' = Carried
    BY <1>1 DEF Holds, HoldsBy, Carried, CarriedBy, Passed, Written
  <1>4. AnswerComplete' = AnswerComplete /\ AbortHasCause' = AbortHasCause
    BY <1>1 DEF AnswerComplete, AbortHasCause, Unconvertible
  <1> QED
    BY <1>2, <1>3, <1>4 DEF IInv

\* The invariant holds whatever programs do and in whatever order workers go on.
THEOREM GatewayInvariant == Spec => [](IInv /\ AbortHasCause)
  <1>1. Init => IInv /\ AbortHasCause
    BY InitIInv DEF Init, AbortHasCause
  <1>2. IInv /\ AbortHasCause /\ [Next]_vars => (IInv /\ AbortHasCause)'
    <2> SUFFICES ASSUME IInv, AbortHasCause, [Next]_vars
                 PROVE  (IInv /\ AbortHasCause)'
      OBVIOUS
    <2>1. CASE Next
      BY <2>1, CarriedStep, TypedStep, FreshStep, HoldsStep, AnswerCompleteStep, AbortStep
      DEF IInv
    <2>2. CASE UNCHANGED vars
      BY <2>2, StutterStep
    <2> QED
      BY <2>1, <2>2
  <1> QED
    BY <1>1, <1>2, PTL DEF Spec

\* Every variable a request sets reaches its program with the value of a request
\* that was handled at the same time.
THEOREM EnvironmentCorrectness == Spec => []EnvironmentFresh
  <1>1. IInv => EnvironmentFresh
    BY DEF IInv, Fresh, EnvironmentFresh, Sets
  <1> QED
    BY <1>1, GatewayInvariant, PTL

\* No handle is left open by a request whose program answered.
THEOREM HandlesCorrectness == Spec => []HandlesReleased
  <1>1. IInv => HandlesReleased
    BY DEF IInv, Holds, HoldsBy, HandlesReleased
  <1> QED
    BY <1>1, GatewayInvariant, PTL

\* An answer is made of the complete output of a program that has exited, and the
\* server only ends for a program that wrote no page, or for a text of a request
\* that has no conversion before the program of that request is started.
THEOREM AnswerCorrectness == Spec => []AnswerSound
  <1>1. IInv /\ AbortHasCause => AnswerSound
    BY DEF IInv, Typed, AnswerSound
  <1> QED
    BY <1>1, GatewayInvariant, PTL
===========================================================================
