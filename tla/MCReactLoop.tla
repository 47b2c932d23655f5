---------------------------- MODULE MCReactLoop ----------------------------
(* An instance of ReactLoop for TLC: five rounds (one more than the        *)
(* pipeline of fallbacks needs), one retry, and one tool besides the four  *)
(* the loop treats by name.                                                *)
EXTENDS ReactLoop

MCOtherTools == {"query_as_info"}
=============================================================================
