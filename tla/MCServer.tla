----------------------------- MODULE MCServer -----------------------------
(***************************************************************************)
(* Finite instances of Server for TLC.                                     *)
(***************************************************************************)
EXTENDS Server, TLC

CONSTANTS w1, w2

OneWorker  == {w1}
TwoWorkers == {w1, w2}

WellFormed == {"keep", "close"}
KeptAlive == {"keep", "throwing"}

FirstConnection == {1}

\* Threads are interchangeable; used only in runs without liveness.
ThreadSymmetry == Permutations(TwoWorkers)
===========================================================================
