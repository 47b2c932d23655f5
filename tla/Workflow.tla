------------------------------ MODULE Workflow ------------------------------
(***************************************************************************)
(* The analysis engine of workflow_engine.py: run_workflow and             *)
(* WorkflowEngine.execute with its state handlers.  A run walks a fixed    *)
(* pipeline of stages; before each stage the loop looks at the clock, and  *)
(* a run that is over its time budget jumps to the report stage and, still *)
(* being over budget, leaves the loop and calls the report handler once    *)
(* outside it.  An exception that a handler does not absorb ends the run   *)
(* in ERROR.  A checkpoint store may be attached: it survives crashes and  *)
(* is consulted when run_workflow is called again.                         *)
(*                                                                         *)
(* Payloads are abstracted to what the control flow and the properties     *)
(* tell apart.  A handler is one action: the loop awaits it, nothing else  *)
(* touches the context meanwhile, and the clock may pass the limit at any  *)
(* moment in between.                                                      *)
(***************************************************************************)
EXTENDS Naturals, Sequences

CONSTANTS
  Deployments,  \* the configurations considered
  MaxAttempts,  \* bound: calls of run_workflow
  MaxLog        \* bound: length of the transition log

\* WorkflowState
Pipeline == <<"INITIAL", "INITIAL", "PARSING_INPUT", "TRAFFIC_SCREENING",
              "TRAFFIC_ANALYSIS", "ROUTING_ANALYSIS", "JOINT_EVIDENCE",
              "REASONING", "VALIDATION", "DATA_ENRICHMENT",
              "REPORT_GENERATION", "COMPLETE">>
State == {"INITIAL", "PARSING_INPUT", "TRAFFIC_SCREENING", "TRAFFIC_ANALYSIS",
          "ROUTING_ANALYSIS", "JOINT_EVIDENCE", "REASONING", "VALIDATION",
          "DATA_ENRICHMENT", "REPORT_GENERATION", "COMPLETE", "ERROR"}

\* WorkflowEvent
Event == {"START", "INPUT_PARSED", "SCREENING_COMPLETE", "SCREENING_SKIP",
          "TRAFFIC_DONE", "ROUTING_DONE", "JOINT_EVIDENCE_COMPLETE",
          "REASONING_COMPLETE", "VALIDATION_PASSED", "VALIDATION_FAILED",
          "REPORT_GENERATED", "ERROR_OCCURRED", "DATA_COLLECTED"}

\* ABLATION_STAGES of agents/ablation_switches.py
Stage == {"joint_evidence", "paddle", "hypothesis", "reasoning",
          "evidence_board", "enrichment"}

Config == [ablate : SUBSET Stage, \* stages switched off in the environment
           skip : BOOLEAN,        \* WORKFLOW_SKIP_WHEN_NO_ANOMALIES
           campaign : BOOLEAN,    \* BGP_TRACER_ABLATION_CAMPAIGN
           requireLLM : BOOLEAN,  \* REPORT_REQUIRE_LLM
           store : BOOLEAN]       \* a checkpoint store is attached

ASSUME WorkflowAssumption ==
  /\ Deployments \subseteq Config
  /\ MaxAttempts \in Nat /\ MaxLog \in Nat

Traffic == {"none", "normal", "anomalous"}
\* "counted": the routing result carries the flat anomaly flags and counts;
\* "uncounted": it has events, but nested or without evidence, so only the
\* code that looks at the event lists sees them.
Routing == {"none", "failed", "normal", "counted", "uncounted"}

Context == [traffic : Traffic, routing : Routing,
            needsRouting : BOOLEAN,  \* needs_routing_analysis
            anomalies : BOOLEAN,     \* anomalies_detected
            tierOk : BOOLEAN,        \* joint tier and score reach the minimum
            html : {"none", "llm", "fallback", "empty"}]

Final == {"COMPLETE", "ERROR"}

VARIABLES
  conf,      \* the configuration of the deployment
  proc,      \* "idle", "loop", "salvage", "exit", "done"
  attempt,   \* calls of run_workflow so far
  state,     \* context.current_state
  late,      \* the run has used up its time budget
  timedOut,  \* the loop has noticed
  log,       \* context.transitions
  ctx,       \* the rest of the context
  ran,       \* history: stages whose computation produced a result
  audit,     \* context.stage_execution: "unset", "ran" or "off"
  reports,   \* history: report handlers that returned in this run
  errors,    \* context.errors: the states in which an error was recorded
  succeeded, \* metrics["successful_runs"] of this run's engine
  failed,    \* metrics["failed_runs"]
  ckpt,      \* the durable store
  result     \* what run_workflow did: "none" yet, returned its "context", a
             \* "cached" one, or "raised" an exception

vars == <<conf, proc, attempt, state, late, timedOut, log, ctx, ran, audit,
          reports, errors, succeeded, failed, ckpt, result>>

FreshContext == [traffic |-> "none", routing |-> "none",
                 needsRouting |-> FALSE, anomalies |-> FALSE,
                 tierOk |-> FALSE, html |-> "none"]

Init ==
  /\ conf \in Deployments
  /\ proc = "idle" /\ attempt = 0
  /\ state = "INITIAL" /\ late = FALSE /\ timedOut = FALSE
  /\ log = <<>> /\ ctx = FreshContext
  /\ ran = {} /\ audit = [s \in Stage |-> "unset"]
  /\ reports = 0 /\ errors = <<>> /\ succeeded = 0 /\ failed = 0
  /\ ckpt = [steps |-> {}, failure |-> FALSE, complete |-> FALSE]
  /\ result = "none"
-----------------------------------------------------------------------------

\* get_next_state.  An event without an entry leaves the state as it is.
GetNextState(current, event, needsRouting) ==
  CASE current = "INITIAL" /\ event = "START" -> "PARSING_INPUT"
    [] current = "PARSING_INPUT" /\ event = "INPUT_PARSED" -> "TRAFFIC_SCREENING"
    [] current = "TRAFFIC_SCREENING" /\ event = "SCREENING_COMPLETE" -> "TRAFFIC_ANALYSIS"
    [] current = "TRAFFIC_SCREENING" /\ event = "SCREENING_SKIP" -> "JOINT_EVIDENCE"
    [] current = "TRAFFIC_ANALYSIS" /\ event = "TRAFFIC_DONE" ->
         IF needsRouting THEN "ROUTING_ANALYSIS" ELSE "JOINT_EVIDENCE"
    [] current = "ROUTING_ANALYSIS" /\ event = "ROUTING_DONE" -> "JOINT_EVIDENCE"
    [] current = "JOINT_EVIDENCE" /\ event = "JOINT_EVIDENCE_COMPLETE" -> "REASONING"
    [] current = "REASONING" /\ event = "REASONING_COMPLETE" -> "VALIDATION"
    [] current = "VALIDATION" /\ event = "VALIDATION_PASSED" -> "DATA_ENRICHMENT"
    [] current = "VALIDATION" /\ event = "VALIDATION_FAILED" -> "ERROR"
    [] current = "DATA_ENRICHMENT" /\ event = "DATA_COLLECTED" -> "REPORT_GENERATION"
    [] current = "REPORT_GENERATION" /\ event = "REPORT_GENERATED" -> "COMPLETE"
    [] OTHER -> current
-----------------------------------------------------------------------------
\* A mutated form: the success counter is incremented before the outcome of the
\* stage is known.
FailCountedBoth(stage) ==
  /\ state' = "ERROR"
  /\ errors' = Append(errors, stage)
  /\ failed' = failed + 1
  /\ succeeded' = succeeded + 1
  /\ proc' = "done"
  /\ ckpt' = ckpt
  /\ result' = "context"

\* A handler raised, or a checkpoint save did: execute records the error under
\* the current state's name and ends in ERROR.  Saving the failed context may
\* raise in turn, which then leaves run_workflow.
Fail(stage) ==
  /\ state' = "ERROR"
  /\ errors' = Append(errors, stage)
  /\ failed' = failed + 1
  /\ proc' = "done"
  /\ \/ /\ ckpt' = IF conf.store THEN [ckpt EXCEPT !.failure = TRUE] ELSE ckpt
        /\ result' = "context"
     \/ /\ conf.store
        /\ ckpt' = ckpt
        /\ result' = "raised"
  /\ UNCHANGED succeeded

\* The tail of the loop body: the event selects the next state, the transition
\* is recorded and the context saved under the finished stage's name.
Advance(event) ==
  LET next == GetNextState(state, event, ctx'.needsRouting)
  IN  /\ Len(log) < MaxLog
      /\ log' = Append(log, [from |-> state, to |-> next, event |-> event])
      /\ \/ /\ state' = next
            /\ ckpt' = IF conf.store
                         THEN [ckpt EXCEPT !.steps = @ \cup {state}] ELSE ckpt
            /\ UNCHANGED <<proc, errors, failed, succeeded, result>>
         \/ conf.store /\ Fail(next)
      /\ UNCHANGED <<conf, attempt, late, timedOut>>

\* The loop runs the handler of s.
Handling(s) == proc = "loop" /\ state = s /\ ~late

Initial ==
  /\ Handling("INITIAL")
  /\ UNCHANGED <<ctx, ran, audit, reports>>
  /\ Advance("START")

ParseInput ==
  /\ Handling("PARSING_INPUT")
  /\ UNCHANGED <<ctx, ran, audit, reports>>
  /\ Advance("INPUT_PARSED")

\* Both analysis modes and the error path ask for routing.
Screen ==
  /\ Handling("TRAFFIC_SCREENING")
  /\ ctx' = [ctx EXCEPT !.needsRouting = TRUE]
  /\ UNCHANGED <<ran, audit, reports>>
  /\ Advance("SCREENING_COMPLETE")

\* A failed traffic agent leaves no result and does not stop the run.
AnalyseTraffic ==
  /\ Handling("TRAFFIC_ANALYSIS")
  /\ \E t \in Traffic :
       ctx' = [ctx EXCEPT !.traffic = t, !.anomalies = @ \/ t = "anomalous"]
  /\ UNCHANGED <<ran, audit, reports>>
  /\ Advance("TRAFFIC_DONE")

AnalyseRouting ==
  /\ Handling("ROUTING_ANALYSIS")
  /\ \E r \in Routing \ {"none"} :
       ctx' = IF ctx.needsRouting
                THEN [ctx EXCEPT !.routing = r, !.anomalies = @ \/ r = "counted"]
                ELSE [ctx EXCEPT !.routing = "normal"]
  /\ UNCHANGED <<ran, audit, reports>>
  /\ Advance("ROUTING_DONE")

\* A mutated form: every stage that is reached is recorded as executed.
MarkReached(did) == "ran"

\* What record_stage_execution writes for a stage.
Mark(did) == IF did THEN "ran" ELSE "off"

When(stage, did) == IF did THEN {stage} ELSE {}

\* Events the joint analysis finds: the lists behind an "uncounted" routing
\* result are always seen, flags may come without a list.
MayFindEvents(found) ==
  /\ found => ctx.traffic = "anomalous" \/ ctx.routing \in {"counted", "uncounted"}
  /\ ctx.routing = "uncounted" => found

\* handle_joint_evidence, the path on which nothing escapes its blocks: both
\* stages honour their switch.  PADDLE may find nothing (recorded) or fail
\* with an AttributeError (not recorded).
JointEvidence ==
  /\ Handling("JOINT_EVIDENCE")
  /\ \E found, tierOk \in BOOLEAN, paddle \in {"ok", "skipped", "failed"} :
       LET joint == found /\ "joint_evidence" \notin conf.ablate
           attributed == paddle = "ok" /\ "paddle" \notin conf.ablate
           silent == paddle = "failed" /\ "paddle" \notin conf.ablate
       IN  /\ MayFindEvents(found)
           /\ ctx' = [ctx EXCEPT !.tierOk = joint /\ tierOk]
           /\ ran' = ran \cup When("joint_evidence", joint)
                          \cup When("paddle", attributed)
           /\ audit' = [audit EXCEPT
                !["joint_evidence"] = Mark(joint),
                !["paddle"] = IF silent THEN @ ELSE Mark(attributed)]
  /\ UNCHANGED reports
  /\ Advance("JOINT_EVIDENCE_COMPLETE")

\* The same handler when an ImportError or AttributeError leaves the first
\* block: PADDLE runs in a second block that does not consult its switch and
\* records nothing.  The joint analysis may have run before the exception; it
\* is recorded only if the exception is an ImportError of PADDLE itself.
JointEvidenceBroken ==
  /\ Handling("JOINT_EVIDENCE")
  /\ \E joint, tierOk, attributed, recorded \in BOOLEAN :
       /\ joint => "joint_evidence" \notin conf.ablate /\ MayFindEvents(TRUE)
       /\ recorded => "paddle" \notin conf.ablate
       /\ ctx' = [ctx EXCEPT !.tierOk = joint /\ tierOk]
       /\ ran' = ran \cup When("joint_evidence", joint)
                      \cup When("paddle", attributed)
       /\ audit' = IF recorded
                     THEN [audit EXCEPT !["joint_evidence"] = Mark(joint)]
                     ELSE audit
  /\ UNCHANGED reports
  /\ Advance("JOINT_EVIDENCE_COMPLETE")

\* A mutated form: an ablation run uses the cost gate like any other.
SkipAlsoUnderAblation == conf.skip /\ ~ctx.anomalies /\ ~ctx.tierOk

\* should_skip_reasoning
ShouldSkip ==
  /\ conf.skip
  /\ ~ctx.anomalies
  /\ conf.ablate = {} /\ ~conf.campaign
  /\ ~ctx.tierOk

SkipReasoning ==
  /\ Handling("REASONING")
  /\ ShouldSkip
  /\ audit' = [audit EXCEPT !["reasoning"] = "off"]
  /\ UNCHANGED <<ctx, ran, reports>>
  /\ Advance("REASONING_COMPLETE")

Reason ==
  /\ Handling("REASONING")
  /\ ~ShouldSkip
  /\ LET did == {"reasoning", "hypothesis"} \ conf.ablate
     IN  /\ ran' = ran \cup did
         /\ audit' = [audit EXCEPT !["reasoning"] = Mark("reasoning" \in did),
                                   !["hypothesis"] = Mark("hypothesis" \in did)]
  /\ UNCHANGED <<ctx, reports>>
  /\ Advance("REASONING_COMPLETE")

\* Inconclusive evidence passes too.
Validate ==
  /\ Handling("VALIDATION")
  /\ UNCHANGED <<ctx, ran, audit, reports>>
  /\ Advance("VALIDATION_PASSED")

Enrich ==
  /\ Handling("DATA_ENRICHMENT")
  /\ LET did == "enrichment" \notin conf.ablate
     IN  /\ ran' = ran \cup When("enrichment", did)
         /\ audit' = [audit EXCEPT !["enrichment"] = Mark(did)]
  /\ UNCHANGED <<ctx, reports>>
  /\ Advance("DATA_COLLECTED")

\* The HTML run_legacy_report returns.  The report agent gives up its own
\* deterministic rendering under REPORT_REQUIRE_LLM; run_legacy_report renders
\* one whenever the agent has failed, and looks at the setting only after that
\* rendering failed too (it then raises, see Raise).
ReportHtml == {"llm", "fallback"} \cup (IF conf.requireLLM THEN {} ELSE {"empty"})

\* handle_report_generation returns.
WriteReport ==
  /\ \E html \in ReportHtml : ctx' = [ctx EXCEPT !.html = html]
  /\ LET did == "evidence_board" \notin conf.ablate
     IN  /\ ran' = ran \cup When("evidence_board", did)
         /\ audit' = [audit EXCEPT !["evidence_board"] = Mark(did)]
  /\ reports' = reports + 1

Report ==
  /\ Handling("REPORT_GENERATION")
  /\ WriteReport
  /\ Advance("REPORT_GENERATED")

\* The computations a handler may have finished, and recorded, when it raises.
WorkOf(s) ==
  CASE s = "JOINT_EVIDENCE" -> {"joint_evidence", "paddle"}
    [] s = "REASONING" -> {"reasoning", "hypothesis"}
    [] s = "DATA_ENRICHMENT" -> {"enrichment"}
    [] s = "REPORT_GENERATION" -> {"evidence_board"}
    [] OTHER -> {}

\* Of an ablated stage only PADDLE may be among them, in its second block,
\* which records nothing; a stage that found nothing to do is recorded too.
PartialWork(did, recorded) ==
  /\ did \subseteq WorkOf(state) \ (conf.ablate \ {"paddle"})
  /\ recorded \cap did \cap conf.ablate = {}
  /\ recorded \ did \subseteq conf.ablate \cup {"joint_evidence", "paddle"}
  /\ "hypothesis" \in did => "reasoning" \in did \cup conf.ablate
  /\ "hypothesis" \in recorded => "reasoning" \in recorded
  /\ ran' = ran \cup did
  /\ audit' = [s \in Stage |-> IF s \in recorded THEN Mark(s \in did) ELSE audit[s]]

\* An exception leaves the handler, in the loop or in the salvage.  Only
\* handle_initial cannot raise.
Raise ==
  /\ \/ proc = "loop" /\ ~late /\ state \notin Final \cup {"INITIAL"}
     \/ proc = "salvage"
  /\ \E did, recorded \in SUBSET WorkOf(state) : PartialWork(did, recorded)
  /\ Fail(state)
  /\ UNCHANGED <<conf, attempt, late, timedOut, log, ctx, reports>>
-----------------------------------------------------------------------------
\* A mutated form: the report stage is retried instead of leaving the loop.
TimeUpNoBreak ==
  /\ proc = "loop" /\ late /\ state \notin Final
  /\ timedOut' = ~timedOut
  /\ state' = "REPORT_GENERATION"
  /\ UNCHANGED <<conf, proc, attempt, late, log, ctx, ran, audit, reports,
                 errors, succeeded, failed, ckpt, result>>

\* The check at the head of the loop.
TimeUp ==
  /\ proc = "loop" /\ late /\ state \notin Final
  /\ timedOut' = TRUE
  /\ state' = "REPORT_GENERATION"
  /\ proc' = IF state = "REPORT_GENERATION" THEN "salvage" ELSE proc
  /\ UNCHANGED <<conf, attempt, late, log, ctx, ran, audit, reports,
                 errors, succeeded, failed, ckpt, result>>

\* The report handler called once outside the loop: it returns, or fails with
\* an AttributeError, which is swallowed.  No transition is recorded.
Salvage ==
  /\ proc = "salvage"
  /\ proc' = "exit"
  /\ \/ WriteReport
     \/ /\ \E did, recorded \in SUBSET WorkOf(state) : PartialWork(did, recorded)
        /\ UNCHANGED <<ctx, reports>>
  /\ UNCHANGED <<conf, attempt, state, late, timedOut, log,
                 errors, succeeded, failed, ckpt, result>>

Ended == \/ proc = "loop" /\ state \in Final
         \/ proc = "exit"

\* A mutated form: whatever ended without an exception is banked.
FinishBanksAll ==
  /\ Ended
  /\ succeeded' = succeeded + 1
  /\ proc' = "done"
  /\ ckpt' = IF conf.store THEN [ckpt EXCEPT !.complete = TRUE] ELSE ckpt
  /\ result' = "context"
  /\ UNCHANGED <<conf, attempt, state, late, timedOut, log, ctx, ran, audit,
                 reports, errors, failed>>

\* The end of execute without an exception.  Only a COMPLETE context is banked;
\* the exception of a failed save replaces the result.
Finish ==
  /\ Ended
  /\ succeeded' = succeeded + 1
  /\ proc' = "done"
  /\ \/ /\ ckpt' = IF conf.store /\ state = "COMPLETE"
                     THEN [ckpt EXCEPT !.complete = TRUE] ELSE ckpt
        /\ result' = "context"
     \/ /\ conf.store /\ state = "COMPLETE"
        /\ ckpt' = ckpt
        /\ result' = "raised"
  /\ UNCHANGED <<conf, attempt, state, late, timedOut, log, ctx, ran, audit,
                 reports, errors, failed>>

\* A new engine and a new context.
Fresh ==
  /\ state' = "INITIAL" /\ late' = FALSE /\ timedOut' = FALSE
  /\ ctx' = FreshContext
  /\ ran' = {} /\ audit' = [s \in Stage |-> "unset"]
  /\ reports' = 0 /\ errors' = <<>>

StartEntry == [from |-> "INITIAL", to |-> "INITIAL", event |-> "START"]

\* run_workflow: a banked complete context is returned as it is; otherwise a
\* new run starts from INITIAL, whatever else the store holds.
Start ==
  /\ proc \in {"idle", "done"}
  /\ attempt < MaxAttempts
  /\ attempt' = attempt + 1
  /\ Fresh /\ succeeded' = 0 /\ failed' = 0
  /\ IF conf.store /\ ckpt.complete
       THEN log' = <<>> /\ proc' = "done" /\ result' = "cached"
       ELSE log' = <<StartEntry>> /\ proc' = "loop" /\ result' = "none"
  /\ UNCHANGED <<conf, ckpt>>

\* The process dies at any await; the store survives.
Crash ==
  /\ proc # "idle"
  /\ proc' = "idle" /\ log' = <<>> /\ result' = "none"
  /\ Fresh /\ succeeded' = 0 /\ failed' = 0
  /\ UNCHANGED <<conf, attempt, ckpt>>

\* The clock passes the limit.
Tick ==
  /\ proc = "loop" /\ ~late
  /\ late' = TRUE
  /\ UNCHANGED <<conf, proc, attempt, state, timedOut, log, ctx, ran, audit,
                 reports, errors, succeeded, failed, ckpt, result>>

Handler == \/ Initial \/ ParseInput \/ Screen \/ AnalyseTraffic \/ AnalyseRouting
           \/ JointEvidence \/ JointEvidenceBroken
           \/ SkipReasoning \/ Reason \/ Validate \/ Enrich \/ Report

\* What the engine does by itself once a run is under way.
Engine == Handler \/ Raise \/ TimeUp \/ Salvage \/ Finish

Next == Engine \/ Start \/ Crash \/ Tick

\* Every awaited handler returns or raises, so the loop keeps moving; nothing
\* is assumed of the clock, the crashes or the callers.
Spec == Init /\ [][Next]_vars /\ WF_vars(Engine)
-----------------------------------------------------------------------------
Transition == [from : State, to : State, event : Event]
Store == [steps : SUBSET State, failure : BOOLEAN, complete : BOOLEAN]

TypeOK ==
  /\ conf \in Deployments
  /\ proc \in {"idle", "loop", "salvage", "exit", "done"}
  /\ attempt \in 0..MaxAttempts
  /\ state \in State
  /\ late \in BOOLEAN /\ timedOut \in BOOLEAN
  /\ log \in Seq(Transition)
  /\ ctx \in Context
  /\ ran \subseteq Stage
  /\ audit \in [Stage -> {"unset", "ran", "off"}]
  /\ reports \in 0..1
  /\ errors \in Seq(State)
  /\ succeeded \in 0..1 /\ failed \in 0..1
  /\ ckpt \in Store
  /\ result \in {"none", "context", "cached", "raised"}

\* The recorded transitions are a prefix of the one pipeline, without a gap, a
\* repetition or a detour, also when a timeout, an exception or a failed save
\* cuts the run short: the report of a run that is COMPLETE has every stage
\* behind it, and a run that lost stages to the timeout never is COMPLETE.
LogFollowsPipeline ==
  /\ \A i \in 1..Len(log) : /\ i < Len(Pipeline)
                            /\ log[i].from = Pipeline[i]
                            /\ log[i].to = Pipeline[i + 1]
  /\ state = "COMPLETE" => ~timedOut /\ Len(log) = Len(Pipeline) - 1

\* A run is counted once, as a success or as a failure, and the count, the
\* final state and the recorded errors agree, whichever way it ended: normally,
\* by an exception, through the salvage after a timeout, or with a checkpoint
\* save that raised.
OneVerdictPerRun ==
  proc = "done" /\ result # "cached" =>
    /\ succeeded + failed = 1
    /\ failed = 1 <=> state = "ERROR"
    /\ Len(errors) = failed

\* In an ablation campaign a complete run has executed exactly the stages its
\* arm leaves on, as far as the data cannot excuse them: the cost gate in
\* front of the reasoning stage never takes a second stage out of an arm.
AblationSingleVariable ==
  state = "COMPLETE" /\ (conf.ablate # {} \/ conf.campaign) =>
    \A s \in {"reasoning", "hypothesis", "enrichment", "evidence_board"} :
      s \in ran <=> s \notin conf.ablate

\* The run's own account of its stages, which the evaluation of the arms
\* trusts, claims no execution that did not happen and denies none that did.
AuditIsTruthful ==
  \A s \in Stage : /\ audit[s] = "ran" => s \in ran
                   /\ audit[s] = "off" => s \notin ran

\* "A stage that is switched off must be off *everywhere*" (WorkflowEngine).
\* The code does not keep it: see OnlyPaddleEscapes in WorkflowProofs.
OffEverywhere == \A s \in conf.ablate : s \notin ran

\* A run that has been started ends, whatever the handlers do and however
\* often the clock runs out, unless the process dies.
RunTerminates == proc = "loop" ~> proc \in {"done", "idle"}

Outcome == IF proc # "done" THEN "none"
           ELSE IF result = "cached" THEN "cached"
           ELSE IF result = "raised" \/ state = "ERROR" THEN "error"
           ELSE IF state = "COMPLETE" THEN "complete"
           ELSE "partial"

Contract == INSTANCE RunContract WITH
  phase <- IF proc \in {"idle", "done"} THEN proc ELSE "running",
  outcome <- Outcome, published <- reports, banked <- ckpt.complete

\* The engine implements the contract of run_workflow: one report per run at
\* most, none but a completed run is complete or banked, and what is banked is
\* returned instead of being computed again, across crashes.
RefinesContract == Contract!Spec

=============================================================================
