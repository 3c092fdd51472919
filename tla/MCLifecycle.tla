---------------------------- MODULE MCLifecycle ----------------------------
(* Instances of Lifecycle for TLC. *)
EXTENDS Lifecycle, TLC

CONSTANTS main, a, b, c

\* The initial thread is special, and so are the threads that may be cancelled.
\* The others are all in Blocking, or none of them is.
Symmetry ==
  Permutations(Cancels \ {InitialThread}) \cup Permutations(Threads \ (Cancels \cup {InitialThread}))
=============================================================================
