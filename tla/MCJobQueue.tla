----------------------------- MODULE MCJobQueue -----------------------------
(***************************************************************************)
(* Instances of JobQueue for TLC.                                          *)
(***************************************************************************)
EXTENDS JobQueue, TLC

CONSTANTS j1, j2, w1, w2, key

\* Two submissions under one key, either of which may make the row; the first
\* allows three attempts and has a deadline.
TwoMaxAttempts == j1 :> 3 @@ j2 :> 1
TwoPriority == j1 :> 0 @@ j2 :> 1
TwoDeadline == j1 :> 2 @@ j2 :> None
TwoKey == j1 :> key @@ j2 :> key

WorkerSymmetry == Permutations({w1, w2})
=============================================================================
