--------------------------- MODULE MCUpdateStream ---------------------------
(* The smallest queue the code makes (two workers, four places) and periods
   one window longer than what queue, thread and caller hold together. *)
EXTENDS UpdateStream
=============================================================================
