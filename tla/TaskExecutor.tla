--------------------------- MODULE TaskExecutor ---------------------------
(***************************************************************************)
(* What a caller of class threadpool is promised, with no mutex, no        *)
(* condition variable and no threads: tasks are numbered in the order in   *)
(* which enqueue() accepted them, every task leaves the queue at most once *)
(* and in that order, and it leaves it either to be executed or to be      *)
(* handed back / thrown away by an explicit dequeue() or cancel_all().     *)
(* Once the executor is closed no task leaves the queue any more.          *)
(***************************************************************************)
EXTENDS Integers

VARIABLES
  submitted,   \* how many tasks enqueue() has accepted so far
  taken,       \* how many of them have left the queue
  active,      \* the tasks being executed now
  opened       \* neither destroyed nor misused

executorVars == <<submitted, taken, active, opened>>

Init ==
  /\ submitted = 0
  /\ taken = 0
  /\ active = {}
  /\ opened = TRUE

\* enqueue() accepts one more task.
Submit ==
  /\ opened
  /\ submitted' = submitted + 1
  /\ UNCHANGED <<taken, active, opened>>

\* The oldest waiting task starts.
Start ==
  /\ opened
  /\ taken < submitted
  /\ taken' = taken + 1
  /\ active' = active \cup {taken + 1}
  /\ UNCHANGED <<submitted, opened>>

\* The oldest waiting tasks leave the queue without being executed.
Discard ==
  /\ opened
  /\ taken < submitted
  /\ taken' \in (taken + 1)..submitted
  /\ UNCHANGED <<submitted, active, opened>>

\* An executing task returns.
Complete ==
  /\ \E t \in active : active' = active \ {t}
  /\ UNCHANGED <<submitted, taken, opened>>

\* The destructor begins, or dequeue() is called on an empty queue.
Close ==
  /\ opened
  /\ opened' = FALSE
  /\ UNCHANGED <<submitted, taken, active>>

Next == Submit \/ Start \/ Discard \/ Complete \/ Close

Safety == Init /\ [][Next]_executorVars

\* A task that waits does not wait for ever, unless the executor is closed.
Spec == Safety /\ WF_executorVars(Start \/ Discard)
===========================================================================
