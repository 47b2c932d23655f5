----------------------------- MODULE MCWorkflow -----------------------------
(* The full agent with a checkpoint store, the same with the LLM report
   required and the cost gate off, the baseline arm of an ablation campaign and
   one arm for each ablatable stage; two calls of run_workflow, so that a crash,
   a failure or a banked result lies behind the second. *)
EXTENDS Workflow

Full == [ablate |-> {}, skip |-> TRUE, campaign |-> FALSE,
         requireLLM |-> FALSE, store |-> FALSE]

MCDeployments ==
  {[Full EXCEPT !.store = TRUE],
   [Full EXCEPT !.store = TRUE, !.skip = FALSE, !.requireLLM = TRUE],
   [Full EXCEPT !.campaign = TRUE]}
  \cup {[Full EXCEPT !.ablate = {s}] : s \in Stage}
=============================================================================
