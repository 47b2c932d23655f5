------------------------------ MODULE MCTwoPhase ------------------------------
(* Three invocations on one window: an auto run, a quick one that writes the *)
(* same files, and one in deep mode, which writes them a third time or reads *)
(* the cache that somebody has named to it.                                  *)
EXTENDS TwoPhase

CONSTANTS r1, r2, r3

MCRuns == {r1, r2, r3}
MCModesOf(r) ==
  CASE r = r1 -> {"auto"} [] r = r2 -> {"quick"} [] r = r3 -> {"deep", "follow"}
===============================================================================
