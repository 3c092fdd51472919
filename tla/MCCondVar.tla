----------------------------- MODULE MCCondVar -----------------------------
(* Instances of CondVar for TLC. *)
EXTENDS CondVar, TLC

CONSTANTS t1, t2, t3

\* Threads differ only in whether they may be cancelled.
Symmetry == Permutations(Cancels) \cup Permutations(Threads \ Cancels)
=============================================================================
