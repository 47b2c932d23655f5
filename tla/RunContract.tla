---------------------------- MODULE RunContract ----------------------------
(***************************************************************************)
(* What a caller of run_workflow may rely on, whatever the stages do: a    *)
(* run publishes at most one report, a run that reports completion has     *)
(* published it, and a completed run whose result was banked in the        *)
(* checkpoint store is never started again but answered from the store.    *)
(***************************************************************************)
EXTENDS Naturals

VARIABLES
  phase,      \* "idle", "running" or "done"
  outcome,    \* "none", "complete", "partial", "error" or "cached"
  published,  \* reports published by the current run
  banked      \* a completed run is in the durable store

vars == <<phase, outcome, published, banked>>

Init == /\ phase = "idle"
        /\ outcome = "none"
        /\ published = 0
        /\ banked = FALSE

Begin == /\ phase \in {"idle", "done"}
         /\ ~banked
         /\ phase' = "running"
         /\ outcome' = "none"
         /\ published' = 0
         /\ UNCHANGED banked

\* The report becomes visible while the run is under way.
Publish == /\ phase = "running"
           /\ published = 0
           /\ published' = 1
           /\ UNCHANGED <<phase, outcome, banked>>

\* The run ends, perhaps in the step that publishes; only a run with a report
\* may call itself complete, and only a complete run is banked.
Conclude == /\ phase = "running"
            /\ phase' = "done"
            /\ outcome' \in {"complete", "partial", "error"}
            /\ published' \in {published, 1}
            /\ outcome' = "complete" => published' = 1
            /\ banked' => banked \/ outcome' = "complete"
            /\ banked => banked'
            /\ banked' \in BOOLEAN

\* An earlier completed run answers the call.
Recall == /\ phase \in {"idle", "done"}
          /\ banked
          /\ phase' = "done"
          /\ outcome' = "cached"
          /\ published' = 0
          /\ UNCHANGED banked

\* The process dies; only the store survives.
Crash == /\ phase' = "idle"
         /\ outcome' = "none"
         /\ published' = 0
         /\ UNCHANGED banked

Next == Begin \/ Publish \/ Conclude \/ Recall \/ Crash

Spec == Init /\ [][Next]_vars
=============================================================================
