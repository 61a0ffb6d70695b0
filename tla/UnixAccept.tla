----------------------------- MODULE UnixAccept -----------------------------
(***************************************************************************)
(* OS_Accept of os_unix.c in several processes that share a listening      *)
(* socket and the file lock on it, with the signals that interrupt the     *)
(* lock and the accept and ask a process to shut down.                     *)
(*                                                                         *)
(* pc follows one call: "lock" waits for the lock, "check" tests           *)
(* shutdownPending, "accept" waits in accept, "accepted" and "failed" have *)
(* its result, "release" is past the inner loop, "poll" waits for the      *)
(* first data of a UNIX connection, "serve" is back in the application     *)
(* with a connection, "exit" without one.                                  *)
(***************************************************************************)
EXTENDS Integers, Sequences, SequencesExt, FiniteSets

CONSTANTS
  Processes,
  MaxConnections, \* connections of web servers are 1..MaxConnections
  MaxSignals,     \* signals sent
  MaxErrors,      \* errors of accept
  Locking,        \* USE_LOCKING is defined
  Nobody

ASSUME AcceptAssumption ==
  /\ MaxConnections \in Nat /\ MaxSignals \in Nat /\ MaxErrors \in Nat
  /\ Locking \in BOOLEAN /\ Nobody \notin Processes

Connections == 1..MaxConnections
None == 0

\* A UNIX connection that sends or never does, an Internet one from an address
\* that is approved or is not.
Kinds == {"unix", "silent", "inet", "foreign"}

VARIABLES
  kind,     \* of each connection
  arrived,  \* connections that have been made
  queue,    \* connections not accepted, in order
  holder,   \* of the lock
  pc,
  socket,   \* the local variable of OS_Accept, None for -1
  failIntr, \* FCGI_FAIL_ACCEPT_ON_INTR of the program they all run
  pending,  \* shutdownPending
  window,   \* processes asked to shut down just before they waited in accept
  closed,   \* connections closed by OS_Accept
  signals, errors

acceptVars == <<kind, arrived, queue, holder, pc, socket, failIntr, pending,
                window, closed, signals, errors>>

AcceptInit ==
  /\ kind \in [Connections -> Kinds]
  /\ arrived = 0 /\ queue = <<>> /\ holder = Nobody
  /\ pc = [p \in Processes |-> "app"]
  /\ socket = [p \in Processes |-> None]
  /\ failIntr \in BOOLEAN
  /\ pending = [p \in Processes |-> FALSE]
  /\ window = {} /\ closed = {} /\ signals = 0 /\ errors = 0

Goes(p, place) == pc' = [pc EXCEPT ![p] = place]

\* A web server connects.
Connect ==
  /\ arrived < MaxConnections
  /\ arrived' = arrived + 1
  /\ queue' = Append(queue, arrived + 1)
  /\ UNCHANGED <<kind, holder, pc, socket, failIntr, pending, window, closed,
                 signals, errors>>

---------------------------------------------------------------------------
\* One process.

Call(p) ==
  /\ pc[p] \in {"app", "serve"}
  /\ Goes(p, "lock")
  /\ socket' = [socket EXCEPT ![p] = None]
  /\ UNCHANGED <<kind, arrived, queue, holder, failIntr, pending, window, closed,
                 signals, errors>>

MayLock == Locking => holder = Nobody

AcquireLock(p) ==
  /\ pc[p] = "lock" /\ MayLock
  /\ holder' = IF Locking THEN p ELSE holder
  /\ Goes(p, "check")
  /\ UNCHANGED <<kind, arrived, queue, socket, failIntr, pending, window, closed,
                 signals, errors>>

\* Mutant of AtShutdown: no socket is a socket, too.
AtShutdownAccepted(p) == "accepted"

AtShutdown(p) == IF socket[p] = None THEN "failed" ELSE "accepted"

\* Mutant of Stops: the flag is only looked at after a signal.
StopsNever(p) == FALSE

Stops(p) == pending[p]

\* The test before accept; the socket of an earlier turn counts as accepted.
Check(p) ==
  /\ pc[p] = "check"
  /\ Goes(p, IF Stops(p) THEN AtShutdown(p) ELSE "accept")
  /\ UNCHANGED <<kind, arrived, queue, holder, socket, failIntr, pending, window,
                 closed, signals, errors>>

Accept(p) ==
  /\ pc[p] = "accept" /\ queue # <<>>
  /\ socket' = [socket EXCEPT ![p] = Head(queue)]
  /\ queue' = Tail(queue)
  /\ Goes(p, "accepted")
  /\ UNCHANGED <<kind, arrived, holder, failIntr, pending, window, closed,
                 signals, errors>>

\* accept returns an error that warrants a retry, or another.
AcceptFails(p) ==
  /\ pc[p] = "accept" /\ errors < MaxErrors
  /\ errors' = errors + 1
  /\ socket' = [socket EXCEPT ![p] = None]
  /\ \E reasonable \in BOOLEAN :
       Goes(p, IF reasonable /\ ~pending[p] THEN "check" ELSE "failed")
  /\ UNCHANGED <<kind, arrived, queue, holder, failIntr, pending, window, closed,
                 signals>>

\* Mutant of Freed: the lock is kept when accept fails.
FreedNot(p) == holder' = holder

Freed(p) == holder' = IF Locking THEN Nobody ELSE holder

Fail(p) ==
  /\ pc[p] = "failed"
  /\ Freed(p)
  /\ Goes(p, "exit")
  /\ UNCHANGED <<kind, arrived, queue, socket, failIntr, pending, window, closed,
                 signals, errors>>

IsUnix(p) == kind[socket[p]] \in {"unix", "silent"}

\* ClientAddrOK.
Decide(p) ==
  /\ pc[p] = "accepted"
  /\ IF kind[socket[p]] = "foreign"
     THEN /\ closed' = closed \cup {socket[p]}
          /\ socket' = [socket EXCEPT ![p] = None]
          /\ Goes(p, "check")
     ELSE Goes(p, "release") /\ UNCHANGED <<closed, socket>>
  /\ UNCHANGED <<kind, arrived, queue, holder, failIntr, pending, window,
                 signals, errors>>

ReleaseLock(p) ==
  /\ pc[p] = "release"
  /\ holder' = IF Locking THEN Nobody ELSE holder
  /\ Goes(p, "poll")
  /\ UNCHANGED <<kind, arrived, queue, socket, failIntr, pending, window, closed,
                 signals, errors>>

\* Mutant of IsKeeper: a connection that sends nothing is kept.
KeepAll(p) == TRUE

\* is_af_unix_keeper; no data comes from a descriptor that was closed.
IsKeeper(p) == kind[socket[p]] = "unix" /\ socket[p] \notin closed

\* Mutant of AfterSilence: the wait for data starts again.
PollsAgain == "poll"

AfterSilence == "lock"

Poll(p) ==
  /\ pc[p] = "poll"
  /\ IF ~IsUnix(p) \/ IsKeeper(p)
     THEN Goes(p, "serve") /\ UNCHANGED closed
     ELSE closed' = closed \cup {socket[p]} /\ Goes(p, AfterSilence)
  /\ UNCHANGED <<kind, arrived, queue, holder, socket, failIntr, pending, window,
                 signals, errors>>

---------------------------------------------------------------------------
\* Signals.

\* Whether an interrupted call gives up.
Interrupted(p, now) == failIntr \/ now

Blocked(p) == (pc[p] = "lock" /\ ~MayLock) \/ (pc[p] = "accept" /\ queue = <<>>)

\* A signal interrupts a process that waits in the lock or in accept ...
Interrupt(p, usr1) ==
  /\ signals < MaxSignals /\ Blocked(p)
  /\ signals' = signals + 1
  /\ pending' = [pending EXCEPT ![p] = @ \/ usr1]
  /\ IF pc[p] = "lock"
     THEN Goes(p, IF Interrupted(p, pending'[p]) THEN "exit" ELSE "lock")
     ELSE Goes(p, IF Interrupted(p, pending'[p]) THEN "failed" ELSE "check")
  /\ socket' = [socket EXCEPT ![p] = IF pc[p] = "accept" THEN None ELSE @]
  /\ UNCHANGED <<kind, arrived, queue, holder, failIntr, window, closed, errors>>

\* ... and only sets the flag everywhere else, also before the accept it is
\* about to call: "There's a window here" (line 1195).
ShutdownPending(p) ==
  /\ signals < MaxSignals /\ pc[p] # "exit" /\ ~pending[p]
  /\ ~Blocked(p) \/ pc[p] = "accept"
  /\ signals' = signals + 1
  /\ pending' = [pending EXCEPT ![p] = TRUE]
  /\ window' = IF pc[p] = "accept" THEN window \cup {p} ELSE window
  /\ UNCHANGED <<kind, arrived, queue, holder, pc, socket, failIntr, closed, errors>>

ProcessStep(p) ==
  \/ AcquireLock(p) \/ Check(p) \/ Accept(p) \/ Fail(p) \/ Decide(p)
  \/ ReleaseLock(p) \/ Poll(p)

AcceptNext ==
  \/ Connect
  \/ \E p \in Processes : \/ Call(p) \/ ProcessStep(p) \/ AcceptFails(p)
                          \/ ShutdownPending(p)
                          \/ \E usr1 \in BOOLEAN : Interrupt(p, usr1)

\* A process that can take a step takes it, and the application comes back for
\* the next request.
AcceptFairness == \A p \in Processes : /\ WF_acceptVars(ProcessStep(p))
                                       /\ WF_acceptVars(Call(p))

---------------------------------------------------------------------------
\* Properties.

AcceptTypeOK ==
  /\ holder \in Processes \cup {Nobody} /\ closed \subseteq Connections
  /\ socket \in [Processes -> Connections \cup {None}]
  /\ \A p \in Processes :
       /\ pc[p] \in {"app", "lock", "check", "accept", "accepted", "failed",
                     "release", "poll", "serve", "exit"}
       /\ pc[p] \in {"accepted", "release", "poll", "serve"} => socket[p] # None

Inside(p) == pc[p] \in {"check", "accept", "accepted", "failed", "release"}

\* One process at a time waits in accept, and none leaves OS_Accept, waits for
\* data or exits with the lock: a signal, an error and a refused client give it
\* back like a connection does.
LockDiscipline == Locking => \A p \in Processes : Inside(p) <=> holder = p

\* A connection that a web server makes is served by one process, unless it is
\* refused or says nothing; and nobody serves one of those.
Owned(c) == {p \in Processes : socket[p] = c /\ pc[p] \in {"accepted", "release",
                                                           "poll", "serve"}}
Delivery ==
  \A c \in 1..arrived :
    /\ c \in closed => kind[c] \in {"silent", "foreign"}
    /\ Cardinality(Owned(c)) <= 1
    /\ \A p \in Owned(c) : pc[p] = "serve" => kind[c] \in {"unix", "inet"}
    /\ Contains(queue, c) => Owned(c) = {} /\ c \notin closed

\* Who accepts, and who has what was accepted.
AcceptSound == AcceptTypeOK /\ LockDiscipline /\ Delivery

\* A process that is asked to shut down returns from OS_Accept, or from the
\* next, with two exceptions, in it or in the process that holds the lock it
\* waits for: a silent UNIX connection, whose descriptor is taken for accepted
\* and closed again and again, and an accept that nothing wakes, its own only
\* if the signal came in the window.
Waiting(p) == pc[p] = "accept" /\ queue = <<>>
Spinning == \E q \in Processes : pending[q] /\ socket[q] \in closed
ShutdownReturns ==
  \A p \in Processes :
    \/ pending[p] ~> (pc[p] = "exit" \/ Spinning)
    \/ <>[](IF pc[p] = "lock" THEN \E q \in Processes : Waiting(q)
                              ELSE Waiting(p) /\ p \in window)

\* A connection is accepted as long as a process is left that asks, and none is
\* caught in the first of those exceptions.
Taken ==
  \A c \in Connections :
    Contains(queue, c) ~> (~Contains(queue, c) \/
      (\A p \in Processes : pc[p] = "exit" \/ pending[p]) \/
      Spinning)
=============================================================================
