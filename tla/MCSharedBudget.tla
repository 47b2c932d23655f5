-------------------------- MODULE MCSharedBudget --------------------------
(* A batch with two processes, two calls to a window, a rotation on every *)
(* second append.  The processes are alike.                               *)
EXTENDS SharedBudget, TLC

CONSTANTS p1, p2

MCProcs == {p1, p2}
Alike == Permutations(MCProcs)
=============================================================================
