--------------------------- MODULE MCThreadPool ---------------------------
(***************************************************************************)
(* Finite instances of ThreadPool for TLC.                                 *)
(***************************************************************************)
EXTENDS ThreadPool, TLC

CONSTANTS w1, w2, w3, w4, c1, c2

TwoWorkers   == {w1, w2}
ThreeWorkers == {w1, w2, w3}
FourWorkers  == {w1, w2, w3, w4}
OneCaller    == {c1}
TwoCallers   == {c1, c2}

ServerOperations   == {"enqueue"}
CancelOperations   == {"enqueue", "cancel_all"}
AllOperations      == {"enqueue", "dequeue", "cancel_all", "destroy"}

\* Threads are interchangeable; used only in runs without liveness.
ThreadSymmetry == Permutations(FourWorkers) \cup Permutations(TwoCallers)
===========================================================================
