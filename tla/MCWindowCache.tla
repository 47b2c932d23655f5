--------------------------- MODULE MCWindowCache ---------------------------
(* Two processes on one window and one death.  The processes are alike. *)
EXTENDS WindowCache, TLC

CONSTANTS p1, p2

MCProcs == {p1, p2}
Alike == Permutations(MCProcs)
=============================================================================
