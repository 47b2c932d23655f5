--------------------------- MODULE WorkflowProofs ---------------------------
(***************************************************************************)
(* Proofs about the workflow engine, for every set of deployments and      *)
(* every number of calls.                                                  *)
(*                                                                         *)
(* The inductive invariant has two layers.  ControlInv ties the program    *)
(* counter, the clock flags, the transition log and the counters of a run  *)
(* together; StageInv, which rests on it, relates the stages that ran to   *)
(* the audit record and to the arm under test.                             *)
(***************************************************************************)
EXTENDS Workflow, TLAPS

Running == proc \in {"loop", "salvage", "exit"}

\* Nothing is counted, recorded or returned while the run is under way.
Quiet ==
  Running => /\ succeeded = 0 /\ failed = 0 /\ errors = <<>>
             /\ result = "none" /\ state # "ERROR"

\* Until the timeout is noticed, the length of the log says where the loop is.
Paced ==
  proc = "loop" /\ ~timedOut =>
    /\ Len(log) \in 1..11
    /\ state = Pipeline[Len(log) + 1]
    /\ Len(log) >= 4 => ctx.needsRouting

\* After it was noticed only the report is left.
Overdue ==
  /\ proc = "loop" /\ timedOut => late /\ state = "REPORT_GENERATION"
  /\ proc \in {"salvage", "exit"} => timedOut /\ state = "REPORT_GENERATION"
  /\ timedOut => state \in {"REPORT_GENERATION", "ERROR"}

Published ==
  /\ Running /\ state # "COMPLETE" /\ proc # "exit" => reports = 0
  /\ state = "COMPLETE" => reports = 1

\* A run is only under way when no completed run is banked.
Banked == ckpt.complete => conf.store /\ ~Running

ControlInv ==
  /\ TypeOK
  /\ Quiet /\ Paced /\ Overdue /\ Published /\ Banked
  /\ LogFollowsPipeline
  /\ OneVerdictPerRun
-----------------------------------------------------------------------------
\* What Fail leaves behind when nothing had been counted before.
Failed ==
  /\ state' = "ERROR" /\ proc' = "done"
  /\ errors' \in Seq(State) /\ Len(errors') = 1
  /\ failed' = 1 /\ succeeded' = 0
  /\ result' \in {"context", "raised"}
  /\ ckpt' \in Store
  /\ ckpt'.complete = ckpt.complete

\* The control effect of a handler: one step along the pipeline is recorded,
\* and the run is either in the next state or has failed.
Stepped ==
  /\ proc = "loop" /\ ~late /\ ~timedOut /\ Len(log) \in 1..10
  /\ UNCHANGED <<conf, attempt, late, timedOut>>
  /\ \E e \in Event :
       log' = Append(log, [from |-> Pipeline[Len(log) + 1],
                           to |-> Pipeline[Len(log) + 2], event |-> e])
  /\ \/ /\ state' = Pipeline[Len(log) + 2]
        /\ ckpt' \in Store
        /\ ckpt'.complete = ckpt.complete
        /\ UNCHANGED <<proc, errors, failed, succeeded, result>>
     \/ Failed

\* The pipeline, position by position.
LEMMA PipelineEntries ==
  /\ Len(Pipeline) = 12
  /\ Pipeline[1] = "INITIAL" /\ Pipeline[2] = "INITIAL"
  /\ Pipeline[3] = "PARSING_INPUT" /\ Pipeline[4] = "TRAFFIC_SCREENING"
  /\ Pipeline[5] = "TRAFFIC_ANALYSIS" /\ Pipeline[6] = "ROUTING_ANALYSIS"
  /\ Pipeline[7] = "JOINT_EVIDENCE" /\ Pipeline[8] = "REASONING"
  /\ Pipeline[9] = "VALIDATION" /\ Pipeline[10] = "DATA_ENRICHMENT"
  /\ Pipeline[11] = "REPORT_GENERATION" /\ Pipeline[12] = "COMPLETE"
BY DEF Pipeline

\* The position of a state in the pipeline is its only one.
LEMMA PipelinePosition ==
  ASSUME NEW n \in 1..11
  PROVE  /\ Pipeline[n + 1] \in State \ {"ERROR"}
         /\ Pipeline[n + 1] = "INITIAL" <=> n = 1
         /\ Pipeline[n + 1] = "PARSING_INPUT" <=> n = 2
         /\ Pipeline[n + 1] = "TRAFFIC_SCREENING" <=> n = 3
         /\ Pipeline[n + 1] = "TRAFFIC_ANALYSIS" <=> n = 4
         /\ Pipeline[n + 1] = "ROUTING_ANALYSIS" <=> n = 5
         /\ Pipeline[n + 1] = "JOINT_EVIDENCE" <=> n = 6
         /\ Pipeline[n + 1] = "REASONING" <=> n = 7
         /\ Pipeline[n + 1] = "VALIDATION" <=> n = 8
         /\ Pipeline[n + 1] = "DATA_ENRICHMENT" <=> n = 9
         /\ Pipeline[n + 1] = "REPORT_GENERATION" <=> n = 10
         /\ Pipeline[n + 1] = "COMPLETE" <=> n = 11
<1>1. \/ n = 1 \/ n = 2 \/ n = 3 \/ n = 4 \/ n = 5 \/ n = 6
      \/ n = 7 \/ n = 8 \/ n = 9 \/ n = 10 \/ n = 11
  OBVIOUS
<1>2. QED
  BY <1>1, PipelineEntries DEF State

\* What follows a position of the pipeline is a state, and not ERROR.
LEMMA PipelineSuccessor ==
  ASSUME NEW n \in 1..10
  PROVE  Pipeline[n + 2] \in State \ {"ERROR"}
<1>1. n = 1 \/ n = 2 \/ n = 3 \/ n = 4 \/ n = 5 \/ n = 6 \/ n = 7 \/ n = 8 \/ n = 9 \/ n = 10
  OBVIOUS
<1>2. QED
  BY <1>1, PipelineEntries DEF State

\* Fail, from a run under way.
LEMMA FailFails ==
  ASSUME TypeOK, Quiet, Running, NEW stage \in State, Fail(stage)
  PROVE  Failed
<1>1. errors' = <<stage>>
  BY DEF Quiet, Fail
<1>2. errors' \in Seq(State) /\ Len(errors') = 1
  BY <1>1
<1>3. ckpt \in Store /\ [ckpt EXCEPT !.failure = TRUE] \in Store
  BY DEF TypeOK, Store
<1>4. [ckpt EXCEPT !.failure = TRUE].complete = ckpt.complete
  BY <1>3 DEF Store
<1>5. ckpt' = ckpt \/ ckpt' = [ckpt EXCEPT !.failure = TRUE]
  BY DEF Fail
<1>6. ckpt' \in Store /\ ckpt'.complete = ckpt.complete
  BY <1>3, <1>4, <1>5
<1>7. failed' = 1 /\ succeeded' = 0
  BY DEF Fail, Quiet
<1>8. state' = "ERROR" /\ proc' = "done" /\ result' \in {"context", "raised"}
  BY DEF Fail
<1>9. QED
  BY <1>2, <1>6, <1>7, <1>8 DEF Failed

\* Advance along a known entry of the transition table.
LEMMA AdvanceSteps ==
  ASSUME ControlInv, proc = "loop", ~late, NEW event \in Event,
         Len(log) \in 1..10,
         GetNextState(state, event, ctx'.needsRouting) = Pipeline[Len(log) + 2],
         Advance(event)
  PROVE  Stepped
<1> DEFINE next == Pipeline[Len(log) + 2]
<1>1. ~timedOut /\ state = Pipeline[Len(log) + 1]
  BY DEF ControlInv, Overdue, Paced
<1>2. next \in State
  BY PipelineSuccessor
<1>3. log' = Append(log, [from |-> Pipeline[Len(log) + 1], to |-> next, event |-> event])
  BY <1>1 DEF Advance
<1>4. CASE conf.store /\ Fail(next)
  <2>1. Failed
    BY <1>2, <1>4, FailFails DEF ControlInv, Running
  <2>2. QED
    BY <1>1, <1>3, <2>1 DEF Advance, Stepped
<1>5. CASE /\ state' = next
           /\ ckpt' = IF conf.store THEN [ckpt EXCEPT !.steps = @ \cup {state}] ELSE ckpt
           /\ UNCHANGED <<proc, errors, failed, succeeded, result>>
  <2>1. ckpt \in Store /\ state \in State
    BY DEF ControlInv, TypeOK
  <2>2. ckpt' \in Store /\ ckpt'.complete = ckpt.complete
    BY <1>5, <2>1 DEF Store
  <2>3. QED
    BY <1>1, <1>3, <1>5, <2>2 DEF Advance, Stepped
<1>6. QED
  BY <1>4, <1>5 DEF Advance

\* The log after a step is again a prefix of the pipeline.
LEMMA LogStep ==
  ASSUME TypeOK, LogFollowsPipeline, Stepped
  PROVE  /\ log' \in Seq(Transition)
         /\ Len(log') = Len(log) + 1
         /\ \A i \in 1..Len(log') : /\ i < Len(Pipeline)
                                   /\ log'[i].from = Pipeline[i]
                                   /\ log'[i].to = Pipeline[i + 1]
<1>0. PICK n \in 1..10 : Len(log) = n
  BY DEF Stepped
<1>1. PICK e \in Event :
        log' = Append(log, [from |-> Pipeline[Len(log) + 1],
                            to |-> Pipeline[Len(log) + 2], event |-> e])
  BY DEF Stepped
<1> DEFINE entry == [from |-> Pipeline[n + 1], to |-> Pipeline[n + 2], event |-> e]
<1>2. log \in Seq(Transition)
  BY DEF TypeOK
<1>3. Pipeline[n + 1] \in State /\ Pipeline[n + 2] \in State
  BY PipelinePosition, PipelineSuccessor
<1>4. entry \in Transition
  BY <1>3 DEF Transition
<1>5. log' = Append(log, entry)
  BY <1>0, <1>1
<1> HIDE DEF entry
<1>6. log' \in Seq(Transition) /\ Len(log') = n + 1
  BY <1>0, <1>2, <1>4, <1>5
<1>7. ASSUME NEW i \in 1..Len(log')
      PROVE  i < Len(Pipeline) /\ log'[i].from = Pipeline[i] /\ log'[i].to = Pipeline[i + 1]
  <2>1. i < Len(Pipeline)
    BY <1>6, PipelineEntries
  <2>2. CASE i = n + 1
    <3>1. log'[i] = entry
      BY <1>0, <1>2, <1>4, <1>5, <2>2
    <3>2. entry.from = Pipeline[n + 1] /\ entry.to = Pipeline[n + 2]
      BY DEF entry
    <3>3. i + 1 = n + 2
      BY <2>2
    <3>4. QED
      BY <2>1, <2>2, <3>1, <3>2, <3>3
  <2>3. CASE i \in 1..n
    <3>1. log'[i] = log[i]
      BY <1>0, <1>2, <1>4, <1>5, <2>3
    <3>2. QED
      BY <1>0, <2>1, <2>3, <3>1 DEF LogFollowsPipeline
  <2>4. QED
    BY <1>6, <2>2, <2>3
<1>8. QED
  BY <1>0, <1>6, <1>7

\* A handler's step keeps the control invariant.
LEMMA SteppedControl ==
  ASSUME ControlInv, Stepped,
         ctx' \in Context, ran' \subseteq Stage,
         audit' \in [Stage -> {"unset", "ran", "off"}],
         Len(log) >= 3 => ctx'.needsRouting,
         reports' = IF Len(log) = 10 THEN 1 ELSE reports
  PROVE  ControlInv'
<1>0. PICK n \in 1..10 : Len(log) = n
  BY DEF Stepped
<1>1. proc = "loop" /\ ~late /\ ~timedOut
  BY DEF Stepped
<1>2. /\ log' \in Seq(Transition) /\ Len(log') = n + 1
      /\ \A i \in 1..Len(log') : /\ i < Len(Pipeline)
                                /\ log'[i].from = Pipeline[i]
                                /\ log'[i].to = Pipeline[i + 1]
  BY <1>0, LogStep DEF ControlInv
<1>3. /\ Pipeline[n + 2] \in State \ {"ERROR"}
      /\ Pipeline[n + 2] = "COMPLETE" <=> n = 10
  <2>1. n = 1 \/ n = 2 \/ n = 3 \/ n = 4 \/ n = 5 \/ n = 6 \/ n = 7 \/ n = 8 \/ n = 9 \/ n = 10
    OBVIOUS
  <2>2. QED
    BY <2>1, PipelineEntries, PipelineSuccessor
<1>4. state # "COMPLETE" /\ reports = 0 /\ ~ckpt.complete
  <2>1. state = Pipeline[n + 1]
    BY <1>0, <1>1 DEF ControlInv, Paced
  <2>2. state # "COMPLETE"
    BY <2>1, PipelinePosition
  <2>3. QED
    BY <1>1, <2>2 DEF ControlInv, Published, Banked, Running
<1>5. /\ succeeded = 0 /\ failed = 0 /\ errors = <<>> /\ result = "none"
  BY <1>1 DEF ControlInv, Quiet, Running
<1>6. UNCHANGED <<conf, attempt, late, timedOut>>
  BY DEF Stepped
<1>7. CASE Failed
  <2>1. TypeOK'
    BY <1>2, <1>4, <1>6, <1>7 DEF ControlInv, TypeOK, Failed, State
  <2>2. ~Running'
    BY <1>7 DEF Failed, Running
  <2>3. Quiet' /\ Paced' /\ Overdue' /\ Published' /\ Banked'
    BY <1>1, <1>4, <1>6, <1>7, <2>2 DEF Failed, Quiet, Paced, Overdue, Published, Banked, Running
  <2>4. LogFollowsPipeline'
    BY <1>2, <1>7 DEF LogFollowsPipeline, Failed
  <2>5. OneVerdictPerRun'
    BY <1>7 DEF OneVerdictPerRun, Failed
  <2>6. QED
    BY <2>1, <2>3, <2>4, <2>5 DEF ControlInv
<1>8. CASE /\ state' = Pipeline[n + 2]
           /\ ckpt' \in Store /\ ckpt'.complete = ckpt.complete
           /\ UNCHANGED <<proc, errors, failed, succeeded, result>>
  <2>1. TypeOK'
    BY <1>0, <1>2, <1>3, <1>4, <1>6, <1>8 DEF ControlInv, TypeOK
  <2>2. Quiet' /\ Overdue' /\ Banked'
    BY <1>1, <1>3, <1>4, <1>5, <1>6, <1>8 DEF Quiet, Overdue, Banked, Running
  <2>3. Published'
    BY <1>0, <1>1, <1>3, <1>4, <1>8 DEF Published, Running
  <2>4. Paced'
    <3>1. Len(log') \in 1..11 /\ Len(log') + 1 = n + 2
      BY <1>2
    <3>2. state' = Pipeline[Len(log') + 1]
      BY <1>8, <3>1
    <3>3. Len(log') >= 4 => ctx'.needsRouting
      BY <1>0, <1>2
    <3>4. QED
      BY <3>1, <3>2, <3>3 DEF Paced
  <2>5. LogFollowsPipeline'
    <3>1. state' = "COMPLETE" => Len(log') = 11 /\ ~timedOut'
      BY <1>1, <1>2, <1>3, <1>6, <1>8
    <3>2. QED
      BY <1>2, <3>1, PipelineEntries DEF LogFollowsPipeline
  <2>6. OneVerdictPerRun'
    BY <1>1, <1>8 DEF OneVerdictPerRun
  <2>7. QED
    BY <2>1, <2>2, <2>3, <2>4, <2>5, <2>6 DEF ControlInv
<1>9. QED
  BY <1>0, <1>7, <1>8 DEF Stepped

\* In the loop, before the timeout, the state and the log's length determine
\* each other.
LEMMA LoopPosition ==
  ASSUME ControlInv, proc = "loop", ~late
  PROVE  /\ Len(log) \in 1..11 /\ ~timedOut
         /\ Len(log) >= 4 => ctx.needsRouting
         /\ state = "INITIAL" <=> Len(log) = 1
         /\ state = "PARSING_INPUT" <=> Len(log) = 2
         /\ state = "TRAFFIC_SCREENING" <=> Len(log) = 3
         /\ state = "TRAFFIC_ANALYSIS" <=> Len(log) = 4
         /\ state = "ROUTING_ANALYSIS" <=> Len(log) = 5
         /\ state = "JOINT_EVIDENCE" <=> Len(log) = 6
         /\ state = "REASONING" <=> Len(log) = 7
         /\ state = "VALIDATION" <=> Len(log) = 8
         /\ state = "DATA_ENRICHMENT" <=> Len(log) = 9
         /\ state = "REPORT_GENERATION" <=> Len(log) = 10
<1>1. ~timedOut
  BY DEF ControlInv, Overdue
<1>2. /\ Len(log) \in 1..11 /\ state = Pipeline[Len(log) + 1]
      /\ Len(log) >= 4 => ctx.needsRouting
  BY <1>1 DEF ControlInv, Paced
<1>3. PICK n \in 1..11 : Len(log) = n
  BY <1>2
<1>4. state = Pipeline[n + 1]
  BY <1>2, <1>3
<1>5. QED
  BY <1>1, <1>2, <1>3, <1>4, PipelinePosition

\* What a handler does to the variables of the control layer.
HandlerEffect ==
  /\ Stepped
  /\ ctx' \in Context
  /\ Len(log) >= 3 => ctx'.needsRouting
  /\ reports' = IF Len(log) = 10 THEN 1 ELSE reports

\* A handler whose event leads to the next entry of the pipeline.
LEMMA EventLeadsOn ==
  ASSUME ControlInv, NEW event \in Event, NEW n \in 1..10,
         proc = "loop", ~late, Len(log) = n,
         GetNextState(state, event, ctx'.needsRouting) = Pipeline[n + 2],
         Advance(event)
  PROVE  Stepped
BY AdvanceSteps

\* What every handler does to the control state, whatever its data: it advances
\* along the pipeline or fails.
LEMMA HandlerEffects ==
  ASSUME ControlInv, Handler
  PROVE  HandlerEffect
<1>0. TypeOK /\ ctx \in Context /\ reports \in 0..1 /\ proc = "loop" /\ ~late
  BY DEF ControlInv, TypeOK, Handler, Handling, Initial, ParseInput, Screen,
         AnalyseTraffic, AnalyseRouting, JointEvidence, JointEvidenceBroken,
         SkipReasoning, Reason, Validate, Enrich, Report
<1>1. CASE Initial
  <2>1. state = "INITIAL" /\ Len(log) = 1
    BY <1>0, <1>1, LoopPosition DEF Initial, Handling
  <2>2. ctx' \in Context /\ (Len(log) >= 3 => ctx'.needsRouting)
    BY <1>0, <1>1, <2>1 DEF Initial
  <2>3. GetNextState(state, "START", ctx'.needsRouting) = Pipeline[1 + 2]
    BY <2>1, <2>2, PipelineEntries DEF GetNextState
  <2>4. Stepped
    <3>1. Advance("START")
      BY <1>1 DEF Initial
    <3>2. QED
      BY <1>0, <2>1, <2>3, <3>1, EventLeadsOn DEF Event
  <2>5. reports' = reports
    BY <1>1 DEF Initial
  <2>6. QED
    BY <2>1, <2>2, <2>4, <2>5 DEF HandlerEffect
<1>2. CASE ParseInput
  <2>1. state = "PARSING_INPUT" /\ Len(log) = 2
    BY <1>0, <1>2, LoopPosition DEF ParseInput, Handling
  <2>2. ctx' \in Context /\ (Len(log) >= 3 => ctx'.needsRouting)
    BY <1>0, <1>2, <2>1 DEF ParseInput
  <2>3. GetNextState(state, "INPUT_PARSED", ctx'.needsRouting) = Pipeline[2 + 2]
    BY <2>1, <2>2, PipelineEntries DEF GetNextState
  <2>4. Stepped
    <3>1. Advance("INPUT_PARSED")
      BY <1>2 DEF ParseInput
    <3>2. QED
      BY <1>0, <2>1, <2>3, <3>1, EventLeadsOn DEF Event
  <2>5. reports' = reports
    BY <1>2 DEF ParseInput
  <2>6. QED
    BY <2>1, <2>2, <2>4, <2>5 DEF HandlerEffect
<1>3. CASE Screen
  <2>1. state = "TRAFFIC_SCREENING" /\ Len(log) = 3
    BY <1>0, <1>3, LoopPosition DEF Screen, Handling
  <2>2. ctx' \in Context /\ (Len(log) >= 3 => ctx'.needsRouting)
    BY <1>3, <1>0 DEF Screen, Context
  <2>3. GetNextState(state, "SCREENING_COMPLETE", ctx'.needsRouting) = Pipeline[3 + 2]
    BY <2>1, <2>2, PipelineEntries DEF GetNextState
  <2>4. Stepped
    <3>1. Advance("SCREENING_COMPLETE")
      BY <1>3 DEF Screen
    <3>2. QED
      BY <1>0, <2>1, <2>3, <3>1, EventLeadsOn DEF Event
  <2>5. reports' = reports
    BY <1>3 DEF Screen
  <2>6. QED
    BY <2>1, <2>2, <2>4, <2>5 DEF HandlerEffect
<1>4. CASE AnalyseTraffic
  <2>1. state = "TRAFFIC_ANALYSIS" /\ Len(log) = 4
    BY <1>0, <1>4, LoopPosition DEF AnalyseTraffic, Handling
  <2>2. ctx' \in Context /\ (Len(log) >= 3 => ctx'.needsRouting)
    <3>1. PICK t \in Traffic :
            ctx' = [ctx EXCEPT !.traffic = t, !.anomalies = @ \/ t = "anomalous"]
      BY <1>4 DEF AnalyseTraffic
    <3>2. (ctx.anomalies \/ t = "anomalous") \in BOOLEAN
      OBVIOUS
    <3>3. ctx' \in Context /\ ctx'.needsRouting = ctx.needsRouting
      BY <1>0, <3>1, <3>2 DEF Context
    <3>4. QED
      BY <1>0, <2>1, <3>3, LoopPosition
  <2>3. GetNextState(state, "TRAFFIC_DONE", ctx'.needsRouting) = Pipeline[4 + 2]
    BY <2>1, <2>2, PipelineEntries DEF GetNextState
  <2>4. Stepped
    <3>1. Advance("TRAFFIC_DONE")
      BY <1>4 DEF AnalyseTraffic
    <3>2. QED
      BY <1>0, <2>1, <2>3, <3>1, EventLeadsOn DEF Event
  <2>5. reports' = reports
    BY <1>4 DEF AnalyseTraffic
  <2>6. QED
    BY <2>1, <2>2, <2>4, <2>5 DEF HandlerEffect
<1>5. CASE AnalyseRouting
  <2>1. state = "ROUTING_ANALYSIS" /\ Len(log) = 5
    BY <1>0, <1>5, LoopPosition DEF AnalyseRouting, Handling
  <2>2. ctx' \in Context /\ (Len(log) >= 3 => ctx'.needsRouting)
    <3>1. PICK r \in Routing \ {"none"} :
            ctx' = IF ctx.needsRouting
                     THEN [ctx EXCEPT !.routing = r, !.anomalies = @ \/ r = "counted"]
                     ELSE [ctx EXCEPT !.routing = "normal"]
      BY <1>5 DEF AnalyseRouting
    <3>2. (ctx.anomalies \/ r = "counted") \in BOOLEAN
      OBVIOUS
    <3>3. ctx' \in Context /\ ctx'.needsRouting = ctx.needsRouting
      BY <1>0, <3>1, <3>2 DEF Context, Routing
    <3>4. QED
      BY <1>0, <2>1, <3>3, LoopPosition
  <2>3. GetNextState(state, "ROUTING_DONE", ctx'.needsRouting) = Pipeline[5 + 2]
    BY <2>1, <2>2, PipelineEntries DEF GetNextState
  <2>4. Stepped
    <3>1. Advance("ROUTING_DONE")
      BY <1>5 DEF AnalyseRouting
    <3>2. QED
      BY <1>0, <2>1, <2>3, <3>1, EventLeadsOn DEF Event
  <2>5. reports' = reports
    BY <1>5 DEF AnalyseRouting
  <2>6. QED
    BY <2>1, <2>2, <2>4, <2>5 DEF HandlerEffect
<1>6. CASE JointEvidence
  <2>1. state = "JOINT_EVIDENCE" /\ Len(log) = 6
    BY <1>0, <1>6, LoopPosition DEF JointEvidence, Handling
  <2>2. ctx' \in Context /\ (Len(log) >= 3 => ctx'.needsRouting)
    <3>1. PICK b \in BOOLEAN : ctx' = [ctx EXCEPT !.tierOk = b]
      BY <1>6 DEF JointEvidence
    <3>2. ctx' \in Context /\ ctx'.needsRouting = ctx.needsRouting
      BY <1>0, <3>1 DEF Context
    <3>3. QED
      BY <1>0, <2>1, <3>2, LoopPosition
  <2>3. GetNextState(state, "JOINT_EVIDENCE_COMPLETE", ctx'.needsRouting) = Pipeline[6 + 2]
    BY <2>1, <2>2, PipelineEntries DEF GetNextState
  <2>4. Stepped
    <3>1. Advance("JOINT_EVIDENCE_COMPLETE")
      BY <1>6 DEF JointEvidence
    <3>2. QED
      BY <1>0, <2>1, <2>3, <3>1, EventLeadsOn DEF Event
  <2>5. reports' = reports
    BY <1>6 DEF JointEvidence
  <2>6. QED
    BY <2>1, <2>2, <2>4, <2>5 DEF HandlerEffect
<1>7. CASE JointEvidenceBroken
  <2>1. state = "JOINT_EVIDENCE" /\ Len(log) = 6
    BY <1>0, <1>7, LoopPosition DEF JointEvidenceBroken, Handling
  <2>2. ctx' \in Context /\ (Len(log) >= 3 => ctx'.needsRouting)
    <3>1. PICK b \in BOOLEAN : ctx' = [ctx EXCEPT !.tierOk = b]
      BY <1>7 DEF JointEvidenceBroken
    <3>2. ctx' \in Context /\ ctx'.needsRouting = ctx.needsRouting
      BY <1>0, <3>1 DEF Context
    <3>3. QED
      BY <1>0, <2>1, <3>2, LoopPosition
  <2>3. GetNextState(state, "JOINT_EVIDENCE_COMPLETE", ctx'.needsRouting) = Pipeline[6 + 2]
    BY <2>1, <2>2, PipelineEntries DEF GetNextState
  <2>4. Stepped
    <3>1. Advance("JOINT_EVIDENCE_COMPLETE")
      BY <1>7 DEF JointEvidenceBroken
    <3>2. QED
      BY <1>0, <2>1, <2>3, <3>1, EventLeadsOn DEF Event
  <2>5. reports' = reports
    BY <1>7 DEF JointEvidenceBroken
  <2>6. QED
    BY <2>1, <2>2, <2>4, <2>5 DEF HandlerEffect
<1>8. CASE SkipReasoning
  <2>1. state = "REASONING" /\ Len(log) = 7
    BY <1>0, <1>8, LoopPosition DEF SkipReasoning, Handling
  <2>2. ctx' \in Context /\ (Len(log) >= 3 => ctx'.needsRouting)
    BY <1>0, <1>8, <2>1, LoopPosition DEF SkipReasoning
  <2>3. GetNextState(state, "REASONING_COMPLETE", ctx'.needsRouting) = Pipeline[7 + 2]
    BY <2>1, <2>2, PipelineEntries DEF GetNextState
  <2>4. Stepped
    <3>1. Advance("REASONING_COMPLETE")
      BY <1>8 DEF SkipReasoning
    <3>2. QED
      BY <1>0, <2>1, <2>3, <3>1, EventLeadsOn DEF Event
  <2>5. reports' = reports
    BY <1>8 DEF SkipReasoning
  <2>6. QED
    BY <2>1, <2>2, <2>4, <2>5 DEF HandlerEffect
<1>9. CASE Reason
  <2>1. state = "REASONING" /\ Len(log) = 7
    BY <1>0, <1>9, LoopPosition DEF Reason, Handling
  <2>2. ctx' \in Context /\ (Len(log) >= 3 => ctx'.needsRouting)
    BY <1>0, <1>9, <2>1, LoopPosition DEF Reason
  <2>3. GetNextState(state, "REASONING_COMPLETE", ctx'.needsRouting) = Pipeline[7 + 2]
    BY <2>1, <2>2, PipelineEntries DEF GetNextState
  <2>4. Stepped
    <3>1. Advance("REASONING_COMPLETE")
      BY <1>9 DEF Reason
    <3>2. QED
      BY <1>0, <2>1, <2>3, <3>1, EventLeadsOn DEF Event
  <2>5. reports' = reports
    BY <1>9 DEF Reason
  <2>6. QED
    BY <2>1, <2>2, <2>4, <2>5 DEF HandlerEffect
<1>10. CASE Validate
  <2>1. state = "VALIDATION" /\ Len(log) = 8
    BY <1>0, <1>10, LoopPosition DEF Validate, Handling
  <2>2. ctx' \in Context /\ (Len(log) >= 3 => ctx'.needsRouting)
    BY <1>0, <1>10, <2>1, LoopPosition DEF Validate
  <2>3. GetNextState(state, "VALIDATION_PASSED", ctx'.needsRouting) = Pipeline[8 + 2]
    BY <2>1, <2>2, PipelineEntries DEF GetNextState
  <2>4. Stepped
    <3>1. Advance("VALIDATION_PASSED")
      BY <1>10 DEF Validate
    <3>2. QED
      BY <1>0, <2>1, <2>3, <3>1, EventLeadsOn DEF Event
  <2>5. reports' = reports
    BY <1>10 DEF Validate
  <2>6. QED
    BY <2>1, <2>2, <2>4, <2>5 DEF HandlerEffect
<1>11. CASE Enrich
  <2>1. state = "DATA_ENRICHMENT" /\ Len(log) = 9
    BY <1>0, <1>11, LoopPosition DEF Enrich, Handling
  <2>2. ctx' \in Context /\ (Len(log) >= 3 => ctx'.needsRouting)
    BY <1>0, <1>11, <2>1, LoopPosition DEF Enrich
  <2>3. GetNextState(state, "DATA_COLLECTED", ctx'.needsRouting) = Pipeline[9 + 2]
    BY <2>1, <2>2, PipelineEntries DEF GetNextState
  <2>4. Stepped
    <3>1. Advance("DATA_COLLECTED")
      BY <1>11 DEF Enrich
    <3>2. QED
      BY <1>0, <2>1, <2>3, <3>1, EventLeadsOn DEF Event
  <2>5. reports' = reports
    BY <1>11 DEF Enrich
  <2>6. QED
    BY <2>1, <2>2, <2>4, <2>5 DEF HandlerEffect
<1>12. CASE Report
  <2>1. state = "REPORT_GENERATION" /\ Len(log) = 10
    BY <1>0, <1>12, LoopPosition DEF Report, Handling
  <2>2. ctx' \in Context /\ (Len(log) >= 3 => ctx'.needsRouting)
    <3>1. PICK h \in {"llm", "fallback", "empty"} : ctx' = [ctx EXCEPT !.html = h]
      BY <1>12 DEF Report, WriteReport, ReportHtml
    <3>2. ctx' \in Context /\ ctx'.needsRouting = ctx.needsRouting
      BY <1>0, <3>1 DEF Context
    <3>3. QED
      BY <1>0, <2>1, <3>2, LoopPosition
  <2>3. GetNextState(state, "REPORT_GENERATED", ctx'.needsRouting) = Pipeline[10 + 2]
    BY <2>1, <2>2, PipelineEntries DEF GetNextState
  <2>4. Stepped
    <3>1. Advance("REPORT_GENERATED")
      BY <1>12 DEF Report
    <3>2. QED
      BY <1>0, <2>1, <2>3, <3>1, EventLeadsOn DEF Event
  <2>5. reports' = 1
    <3>1. reports = 0
      BY <1>0, <2>1 DEF ControlInv, Published, Running
    <3>2. QED
      BY <1>12, <3>1 DEF Report, WriteReport
  <2>6. QED
    BY <2>1, <2>2, <2>4, <2>5 DEF HandlerEffect
<1>13. QED
  BY <1>1, <1>2, <1>3, <1>4, <1>5, <1>6, <1>7, <1>8, <1>9, <1>10, <1>11, <1>12 DEF Handler

Audit == [Stage -> {"unset", "ran", "off"}]

\* Executions and records stay within the six stages.
LEMMA HandlerStageTypes ==
  ASSUME TypeOK, Handler
  PROVE  ran' \subseteq Stage /\ audit' \in Audit
<1>0. ran \subseteq Stage /\ audit \in Audit
  BY DEF TypeOK, Audit
<1>1. CASE Initial \/ ParseInput \/ Screen \/ AnalyseTraffic \/ AnalyseRouting \/ Validate
  BY <1>0, <1>1 DEF Initial, ParseInput, Screen, AnalyseTraffic, AnalyseRouting, Validate
<1>2. CASE JointEvidence
  <2>1. PICK joint, attributed, silent \in BOOLEAN :
          /\ ran' = ran \cup When("joint_evidence", joint) \cup When("paddle", attributed)
          /\ audit' = [audit EXCEPT
               !["joint_evidence"] = Mark(joint),
               !["paddle"] = IF silent THEN @ ELSE Mark(attributed)]
    BY <1>2 DEF JointEvidence
  <2>2. QED
    BY <1>0, <2>1 DEF Audit, When, Mark, Stage
<1>3. CASE JointEvidenceBroken
  <2>1. PICK joint, attributed, recorded \in BOOLEAN :
          /\ ran' = ran \cup When("joint_evidence", joint) \cup When("paddle", attributed)
          /\ audit' = IF recorded
                        THEN [audit EXCEPT !["joint_evidence"] = Mark(joint)]
                        ELSE audit
    BY <1>3 DEF JointEvidenceBroken
  <2>2. QED
    BY <1>0, <2>1 DEF Audit, When, Mark, Stage
<1>4. CASE SkipReasoning
  BY <1>0, <1>4 DEF SkipReasoning, Audit
<1>5. CASE Reason
  BY <1>0, <1>5 DEF Reason, Audit, Mark, Stage
<1>6. CASE Enrich
  BY <1>0, <1>6 DEF Enrich, Audit, Mark, When, Stage
<1>7. CASE Report
  BY <1>0, <1>7 DEF Report, WriteReport, Audit, Mark, When, Stage
<1>8. QED
  BY <1>1, <1>2, <1>3, <1>4, <1>5, <1>6, <1>7 DEF Handler

\* An interrupted handler keeps the types of the two stage records.
LEMMA PartialWorkTypes ==
  ASSUME TypeOK, NEW did, NEW recorded, PartialWork(did, recorded)
  PROVE  ran' \subseteq Stage /\ audit' \in Audit
<1>1. WorkOf(state) \subseteq Stage
  BY DEF WorkOf, Stage
<1>2. QED
  BY <1>1 DEF TypeOK, Audit, PartialWork, Mark

\* A report handler that returns counts one report and keeps the types.
LEMMA WriteReportEffect ==
  ASSUME TypeOK, WriteReport
  PROVE  /\ ctx' \in Context
         /\ ran' \subseteq Stage /\ audit' \in Audit
         /\ reports' = reports + 1
<1>1. PICK h \in {"llm", "fallback", "empty"} : ctx' = [ctx EXCEPT !.html = h]
  BY DEF WriteReport, ReportHtml
<1>2. ctx' \in Context
  BY <1>1 DEF TypeOK, Context
<1>3. QED
  BY <1>2 DEF TypeOK, WriteReport, Audit, Mark, When, Stage

\* The engine starts in the control invariant.
THEOREM InitControl == Init => ControlInv
<1> SUFFICES ASSUME Init PROVE ControlInv
  OBVIOUS
<1>1. TypeOK
  <2>1. FreshContext \in Context
    BY DEF FreshContext, Context, Traffic, Routing
  <2>2. [steps |-> {}, failure |-> FALSE, complete |-> FALSE] \in Store
    BY DEF Store
  <2>3. <<>> \in Seq(Transition) /\ <<>> \in Seq(State)
    OBVIOUS
  <2>4. state \in State /\ attempt \in 0..MaxAttempts
    BY WorkflowAssumption DEF Init, State
  <2>5. audit \in Audit
    BY DEF Init, Audit
  <2>6. log \in Seq(Transition) /\ errors \in Seq(State)
    BY <2>3 DEF Init
  <2>7. ctx \in Context /\ ckpt \in Store
    BY <2>1, <2>2 DEF Init
  <2>8. reports \in 0..1 /\ succeeded \in 0..1 /\ failed \in 0..1
    BY DEF Init
  <2>9. /\ conf \in Deployments /\ proc \in {"idle", "loop", "salvage", "exit", "done"}
        /\ late \in BOOLEAN /\ timedOut \in BOOLEAN /\ ran \subseteq Stage
        /\ result \in {"none", "context", "cached", "raised"}
    BY DEF Init
  <2>10. QED
    BY <2>4, <2>5, <2>6, <2>7, <2>8, <2>9 DEF TypeOK, Audit
<1>2. QED
  BY <1>1 DEF Init, ControlInv, Quiet, Paced, Overdue, Published, Banked,
              Running, LogFollowsPipeline, OneVerdictPerRun

\* An exception keeps the control invariant.
LEMMA RaiseControl ==
  ASSUME ControlInv, Raise
  PROVE  ControlInv'
<1>1. Running /\ state \in State
  BY DEF Raise, Running, ControlInv, TypeOK
<1>2. Failed
  BY <1>1, FailFails DEF Raise, ControlInv
<1>3. ran' \subseteq Stage /\ audit' \in Audit
  BY PartialWorkTypes DEF Raise, ControlInv
<1>4. UNCHANGED <<conf, attempt, late, timedOut, log, ctx, reports>>
  BY DEF Raise
<1>5. TypeOK'
  BY <1>2, <1>3, <1>4 DEF ControlInv, TypeOK, Failed, State, Audit
<1>6. Quiet' /\ Paced' /\ Overdue' /\ Published' /\ Banked'
  BY <1>1, <1>2, <1>4 DEF ControlInv, Failed, Quiet, Paced, Overdue, Published, Banked, Running
<1>7. LogFollowsPipeline' /\ OneVerdictPerRun'
  BY <1>2, <1>4 DEF ControlInv, Failed, LogFollowsPipeline, OneVerdictPerRun
<1>8. QED
  BY <1>5, <1>6, <1>7 DEF ControlInv

\* The jump of a timeout keeps the control invariant.
LEMMA TimeUpControl ==
  ASSUME ControlInv, TimeUp
  PROVE  ControlInv'
<1>1. TypeOK'
  BY DEF ControlInv, TypeOK, TimeUp, State
<1>2. reports = 0
  BY DEF ControlInv, TimeUp, Published, Running, Final
<1>3. Quiet' /\ Paced' /\ Overdue' /\ Published' /\ Banked'
  BY <1>2 DEF ControlInv, TimeUp, Quiet, Paced, Overdue, Published, Banked, Running, Final
<1>4. LogFollowsPipeline' /\ OneVerdictPerRun'
  BY DEF ControlInv, TimeUp, LogFollowsPipeline, OneVerdictPerRun
<1>5. QED
  BY <1>1, <1>3, <1>4 DEF ControlInv

\* The report call outside the loop keeps the control invariant.
LEMMA SalvageControl ==
  ASSUME ControlInv, Salvage
  PROVE  ControlInv'
<1>1. reports = 0 /\ state = "REPORT_GENERATION" /\ timedOut /\ proc = "salvage"
  BY DEF ControlInv, Salvage, Overdue, Published, Running
<1>2. ctx' \in Context /\ ran' \subseteq Stage /\ audit' \in Audit /\ reports' \in 0..1
  <2>1. CASE WriteReport
    BY <1>1, <2>1, WriteReportEffect DEF ControlInv
  <2>2. CASE /\ \E did, recorded \in SUBSET WorkOf(state) : PartialWork(did, recorded)
             /\ UNCHANGED <<ctx, reports>>
    BY <1>1, <2>2, PartialWorkTypes DEF ControlInv, TypeOK
  <2>3. QED
    BY <2>1, <2>2 DEF Salvage
<1>3. /\ proc' = "exit"
      /\ UNCHANGED <<conf, attempt, state, late, timedOut, log,
                     errors, succeeded, failed, ckpt, result>>
  BY DEF Salvage
<1>4. TypeOK'
  BY <1>2, <1>3 DEF ControlInv, TypeOK, Audit
<1>5. Quiet' /\ Paced' /\ Overdue' /\ Published' /\ Banked'
  BY <1>1, <1>3 DEF ControlInv, Quiet, Paced, Overdue, Published, Banked, Running
<1>6. LogFollowsPipeline' /\ OneVerdictPerRun'
  BY <1>1, <1>3 DEF ControlInv, LogFollowsPipeline, OneVerdictPerRun
<1>7. QED
  BY <1>4, <1>5, <1>6 DEF ControlInv

\* The end of execute keeps the control invariant.
LEMMA FinishControl ==
  ASSUME ControlInv, Finish
  PROVE  ControlInv'
<1>1. Running /\ state # "ERROR" /\ succeeded = 0 /\ failed = 0 /\ errors = <<>>
  BY DEF ControlInv, Finish, Ended, Running, Quiet, Final
<1>2. /\ succeeded' = 1 /\ proc' = "done" /\ result' \in {"context", "raised"}
      /\ UNCHANGED <<conf, attempt, state, late, timedOut, log, ctx, ran, audit,
                     reports, errors, failed>>
  BY <1>1 DEF Finish
<1>3. ckpt' \in Store /\ (ckpt'.complete => conf.store)
  <2>1. ckpt \in Store /\ ~ckpt.complete
    BY <1>1 DEF ControlInv, TypeOK, Banked
  <2>2. QED
    BY <2>1 DEF Finish, Store
<1>4. TypeOK'
  BY <1>2, <1>3 DEF ControlInv, TypeOK
<1>5. Quiet' /\ Paced' /\ Overdue' /\ Published' /\ Banked'
  BY <1>1, <1>2, <1>3 DEF ControlInv, Quiet, Paced, Overdue, Published, Banked, Running
<1>6. LogFollowsPipeline'
  BY <1>2 DEF ControlInv, LogFollowsPipeline
<1>7. OneVerdictPerRun'
  BY <1>1, <1>2 DEF OneVerdictPerRun
<1>8. QED
  BY <1>4, <1>5, <1>6, <1>7 DEF ControlInv

\* A new context and a new engine are well typed.
LEMMA FreshTypes ==
  ASSUME Fresh
  PROVE  /\ state' \in State /\ late' \in BOOLEAN /\ timedOut' \in BOOLEAN
         /\ ctx' \in Context /\ ran' \subseteq Stage
         /\ audit' \in Audit
         /\ reports' \in 0..1 /\ errors' \in Seq(State)
<1>1. FreshContext \in Context
  BY DEF FreshContext, Context, Traffic, Routing
<1>2. state' \in State
  BY DEF Fresh, State
<1>3. audit' \in Audit
  BY DEF Fresh, Audit
<1>4. errors' \in Seq(State)
  BY DEF Fresh
<1>5. ctx' \in Context
  BY <1>1 DEF Fresh
<1>6. late' \in BOOLEAN /\ timedOut' \in BOOLEAN /\ ran' \subseteq Stage
  BY DEF Fresh
<1>7. reports' \in 0..1
  BY DEF Fresh
<1>8. QED
  BY <1>2, <1>3, <1>4, <1>5, <1>6, <1>7

\* A call of run_workflow keeps the control invariant.
LEMMA StartControl ==
  ASSUME ControlInv, Start
  PROVE  ControlInv'
<1>1. Fresh /\ succeeded' = 0 /\ failed' = 0 /\ UNCHANGED <<conf, ckpt>>
  BY DEF Start
<1>2. attempt' \in 0..MaxAttempts
  BY WorkflowAssumption DEF ControlInv, TypeOK, Start
<1>3. CASE log' = <<>> /\ proc' = "done" /\ result' = "cached"
  <2>1. log' \in Seq(Transition)
    BY <1>3
  <2>2. TypeOK'
    BY <1>1, <1>2, <1>3, <2>1, FreshTypes DEF ControlInv, TypeOK, Audit
  <2>3. QED
    BY <1>1, <1>3, <2>2
       DEF ControlInv, Quiet, Paced, Overdue, Published, Banked, Running, Fresh,
           LogFollowsPipeline, OneVerdictPerRun
<1>4. CASE /\ log' = <<StartEntry>> /\ proc' = "loop" /\ result' = "none"
           /\ ~(conf.store /\ ckpt.complete)
  <2>1. StartEntry \in Transition
    BY DEF StartEntry, Transition, State, Event
  <2>2. log' \in Seq(Transition) /\ Len(log') = 1 /\ log'[1] = StartEntry
    BY <1>4, <2>1
  <2>3. TypeOK'
    BY <1>1, <1>2, <1>4, <2>2, FreshTypes DEF ControlInv, TypeOK, Audit
  <2>4. Quiet' /\ Overdue' /\ Published' /\ OneVerdictPerRun'
    BY <1>1, <1>4 DEF Quiet, Overdue, Published, OneVerdictPerRun, Running, Fresh
  <2>5. Banked'
    BY <1>1, <1>4 DEF ControlInv, Banked
  <2>6. Paced'
    BY <1>1, <2>2, PipelineEntries DEF Paced, Fresh
  <2>7. LogFollowsPipeline'
    <3>1. StartEntry.from = Pipeline[1] /\ StartEntry.to = Pipeline[2]
      BY PipelineEntries DEF StartEntry
    <3>2. state' # "COMPLETE"
      BY <1>1 DEF Fresh
    <3>3. ASSUME NEW i \in 1..Len(log')
          PROVE  i < Len(Pipeline) /\ log'[i].from = Pipeline[i] /\ log'[i].to = Pipeline[i + 1]
      <4>1. i = 1
        BY <2>2
      <4>2. QED
        BY <2>2, <3>1, <4>1, PipelineEntries
    <3>4. QED
      BY <3>2, <3>3 DEF LogFollowsPipeline
  <2>8. QED
    BY <2>3, <2>4, <2>5, <2>6, <2>7 DEF ControlInv
<1>5. QED
  BY <1>3, <1>4 DEF Start

\* The death of the process keeps the control invariant.
LEMMA CrashControl ==
  ASSUME ControlInv, Crash
  PROVE  ControlInv'
<1>1. /\ Fresh /\ succeeded' = 0 /\ failed' = 0 /\ UNCHANGED <<conf, attempt, ckpt>>
      /\ proc' = "idle" /\ log' = <<>> /\ result' = "none"
  BY DEF Crash
<1>2. log' \in Seq(Transition)
  BY <1>1
<1>3. TypeOK'
  BY <1>1, <1>2, FreshTypes DEF ControlInv, TypeOK, Audit
<1>4. QED
  BY <1>1, <1>3
     DEF ControlInv, Quiet, Paced, Overdue, Published, Banked, Running, Fresh,
         LogFollowsPipeline, OneVerdictPerRun

\* The passing of the time limit keeps the control invariant.
LEMMA TickControl ==
  ASSUME ControlInv, Tick
  PROVE  ControlInv'
<1>1. TypeOK'
  BY DEF ControlInv, TypeOK, Tick
<1>2. Quiet' /\ Paced' /\ Overdue' /\ Published' /\ Banked'
  BY DEF ControlInv, Tick, Quiet, Paced, Overdue, Published, Banked, Running
<1>3. LogFollowsPipeline' /\ OneVerdictPerRun'
  BY DEF ControlInv, Tick, LogFollowsPipeline, OneVerdictPerRun
<1>4. QED
  BY <1>1, <1>2, <1>3 DEF ControlInv

\* The control invariant is inductive.
THEOREM NextControl == ControlInv /\ [Next]_vars => ControlInv'
<1> SUFFICES ASSUME ControlInv, [Next]_vars PROVE ControlInv'
  OBVIOUS
<1>1. CASE Handler
  <2>1. HandlerEffect /\ ran' \subseteq Stage /\ audit' \in Audit
    BY <1>1, HandlerEffects, HandlerStageTypes DEF ControlInv
  <2>2. QED
    BY <2>1, SteppedControl DEF HandlerEffect, Audit
<1>2. CASE Raise
  BY <1>2, RaiseControl
<1>3. CASE TimeUp
  BY <1>3, TimeUpControl
<1>4. CASE Salvage
  BY <1>4, SalvageControl
<1>5. CASE Finish
  BY <1>5, FinishControl
<1>6. CASE Start
  BY <1>6, StartControl
<1>7. CASE Crash
  BY <1>7, CrashControl
<1>8. CASE Tick
  BY <1>8, TickControl
<1>9. CASE UNCHANGED vars
  <2>1. TypeOK'
    BY <1>9 DEF ControlInv, TypeOK, vars
  <2>2. Quiet' /\ Paced' /\ Overdue' /\ Published' /\ Banked'
    BY <1>9 DEF ControlInv, vars, Quiet, Paced, Overdue, Published, Banked, Running
  <2>3. LogFollowsPipeline' /\ OneVerdictPerRun'
    BY <1>9 DEF ControlInv, vars, LogFollowsPipeline, OneVerdictPerRun
  <2>4. QED
    BY <2>1, <2>2, <2>3 DEF ControlInv
<1>10. QED
  BY <1>1, <1>2, <1>3, <1>4, <1>5, <1>6, <1>7, <1>8, <1>9 DEF Next, Engine

\* The control invariant holds in every behaviour of the engine.
THEOREM ControlCorrect == Spec => []ControlInv
<1>1. Init => ControlInv
  BY InitControl
<1>2. ControlInv /\ [Next]_vars => ControlInv'
  BY NextControl
<1>3. QED
  BY <1>1, <1>2, PTL DEF Spec

\* Every variable of the engine keeps its type.
THEOREM TypeCorrect == Spec => []TypeOK
BY ControlCorrect, PTL DEF ControlInv

\* The transition log is a prefix of the pipeline, and only a run that walked
\* all of it in time is COMPLETE (execute and get_next_state).
THEOREM LogCorrect == Spec => []LogFollowsPipeline
BY ControlCorrect, PTL DEF ControlInv

\* Each run is counted exactly once and the counts agree with the final state
\* and the recorded errors (the except and finally blocks of execute).
THEOREM VerdictCorrect == Spec => []OneVerdictPerRun
BY ControlCorrect, PTL DEF ControlInv
-----------------------------------------------------------------------------
(* Which stages ran, what the audit says of them, and the arm under test.  *)

Arm == conf.ablate # {} \/ conf.campaign
Core == {"reasoning", "hypothesis", "enrichment", "evidence_board"}

\* The stages whose handler comes at or after state s.
Pending(s) ==
  CASE s = "REASONING" -> Core
    [] s \in {"VALIDATION", "DATA_ENRICHMENT"} -> {"enrichment", "evidence_board"}
    [] s = "REPORT_GENERATION" -> {"evidence_board"}
    [] s \in Final -> {}
    [] OTHER -> Stage

UntouchedAt(s) == \A p \in Pending(s) : audit[p] = "unset" /\ p \notin ran
CoveredAt(s) == Arm => \A p \in Core \ Pending(s) : p \in ran <=> p \notin conf.ablate

\* A stage is not touched before its handler runs.
Untouched == proc \in {"loop", "salvage"} => UntouchedAt(state)

\* Under test, every stage behind the loop ran if and only if the arm has it.
Covered == proc = "loop" /\ ~timedOut => CoveredAt(state)

\* PADDLE is the only stage that may run although it is ablated.
Obeyed == \A p \in Stage \ {"paddle"} : p \in ran => p \notin conf.ablate

StageInv ==
  AuditIsTruthful /\ Untouched /\ Covered /\ Obeyed /\ AblationSingleVariable

\* What a handler that leads to state s does to the stages.
StagesFor(s) ==
  /\ AuditIsTruthful' /\ Obeyed'
  /\ \A p \in Pending(s) : audit'[p] = "unset" /\ p \notin ran'
  /\ Arm => \A p \in Core \ Pending(s) : p \in ran' <=> p \notin conf.ablate

\* The stages still to come, by the state of the loop.
LEMMA PendingOf ==
  /\ Pending("INITIAL") = Stage /\ Pending("PARSING_INPUT") = Stage
  /\ Pending("TRAFFIC_SCREENING") = Stage /\ Pending("TRAFFIC_ANALYSIS") = Stage
  /\ Pending("ROUTING_ANALYSIS") = Stage /\ Pending("JOINT_EVIDENCE") = Stage
  /\ Pending("REASONING") = Core
  /\ Pending("VALIDATION") = {"enrichment", "evidence_board"}
  /\ Pending("DATA_ENRICHMENT") = {"enrichment", "evidence_board"}
  /\ Pending("REPORT_GENERATION") = {"evidence_board"}
  /\ Pending("COMPLETE") = {}
BY DEF Pending, Final

\* What every handler does to the stage records: its own stages, as the
\* configuration leaves them on, and nothing else.
LEMMA HandlerStages ==
  ASSUME ControlInv, StageInv, Handler
  PROVE  StagesFor(Pipeline[Len(log) + 2])
<1>0. /\ proc = "loop" /\ ~late /\ ~timedOut /\ audit \in Audit
      /\ UNCHANGED conf
  BY HandlerEffects DEF HandlerEffect, Stepped, ControlInv, TypeOK, Audit
<1>00. UntouchedAt(state) /\ CoveredAt(state) /\ AuditIsTruthful /\ Obeyed
  BY <1>0 DEF StageInv, Untouched, Covered
<1>1. CASE Initial
  <2>1. state = "INITIAL" /\ Len(log) = 1
    BY <1>0, <1>1, LoopPosition DEF Initial, Handling
  <2>2. Pipeline[Len(log) + 2] = "PARSING_INPUT" /\ Pending("PARSING_INPUT") = Pending(state)
    BY <2>1, PipelineEntries, PendingOf
  <2>3. ran' = ran /\ audit' = audit
    BY <1>1 DEF Initial
  <2>4. StagesFor("PARSING_INPUT")
    BY <1>0, <1>00, <2>2, <2>3
       DEF StagesFor, UntouchedAt, CoveredAt, AuditIsTruthful, Obeyed
  <2>5. QED
    BY <2>2, <2>4
<1>2. CASE ParseInput
  <2>1. state = "PARSING_INPUT" /\ Len(log) = 2
    BY <1>0, <1>2, LoopPosition DEF ParseInput, Handling
  <2>2. Pipeline[Len(log) + 2] = "TRAFFIC_SCREENING" /\ Pending("TRAFFIC_SCREENING") = Pending(state)
    BY <2>1, PipelineEntries, PendingOf
  <2>3. ran' = ran /\ audit' = audit
    BY <1>2 DEF ParseInput
  <2>4. StagesFor("TRAFFIC_SCREENING")
    BY <1>0, <1>00, <2>2, <2>3
       DEF StagesFor, UntouchedAt, CoveredAt, AuditIsTruthful, Obeyed
  <2>5. QED
    BY <2>2, <2>4
<1>3. CASE Screen
  <2>1. state = "TRAFFIC_SCREENING" /\ Len(log) = 3
    BY <1>0, <1>3, LoopPosition DEF Screen, Handling
  <2>2. Pipeline[Len(log) + 2] = "TRAFFIC_ANALYSIS" /\ Pending("TRAFFIC_ANALYSIS") = Pending(state)
    BY <2>1, PipelineEntries, PendingOf
  <2>3. ran' = ran /\ audit' = audit
    BY <1>3 DEF Screen
  <2>4. StagesFor("TRAFFIC_ANALYSIS")
    BY <1>0, <1>00, <2>2, <2>3
       DEF StagesFor, UntouchedAt, CoveredAt, AuditIsTruthful, Obeyed
  <2>5. QED
    BY <2>2, <2>4
<1>4. CASE AnalyseTraffic
  <2>1. state = "TRAFFIC_ANALYSIS" /\ Len(log) = 4
    BY <1>0, <1>4, LoopPosition DEF AnalyseTraffic, Handling
  <2>2. Pipeline[Len(log) + 2] = "ROUTING_ANALYSIS" /\ Pending("ROUTING_ANALYSIS") = Pending(state)
    BY <2>1, PipelineEntries, PendingOf
  <2>3. ran' = ran /\ audit' = audit
    BY <1>4 DEF AnalyseTraffic
  <2>4. StagesFor("ROUTING_ANALYSIS")
    BY <1>0, <1>00, <2>2, <2>3
       DEF StagesFor, UntouchedAt, CoveredAt, AuditIsTruthful, Obeyed
  <2>5. QED
    BY <2>2, <2>4
<1>5. CASE AnalyseRouting
  <2>1. state = "ROUTING_ANALYSIS" /\ Len(log) = 5
    BY <1>0, <1>5, LoopPosition DEF AnalyseRouting, Handling
  <2>2. Pipeline[Len(log) + 2] = "JOINT_EVIDENCE" /\ Pending("JOINT_EVIDENCE") = Pending(state)
    BY <2>1, PipelineEntries, PendingOf
  <2>3. ran' = ran /\ audit' = audit
    BY <1>5 DEF AnalyseRouting
  <2>4. StagesFor("JOINT_EVIDENCE")
    BY <1>0, <1>00, <2>2, <2>3
       DEF StagesFor, UntouchedAt, CoveredAt, AuditIsTruthful, Obeyed
  <2>5. QED
    BY <2>2, <2>4
<1>6. CASE Validate
  <2>1. state = "VALIDATION" /\ Len(log) = 8
    BY <1>0, <1>6, LoopPosition DEF Validate, Handling
  <2>2. Pipeline[Len(log) + 2] = "DATA_ENRICHMENT" /\ Pending("DATA_ENRICHMENT") = Pending(state)
    BY <2>1, PipelineEntries, PendingOf
  <2>3. ran' = ran /\ audit' = audit
    BY <1>6 DEF Validate
  <2>4. StagesFor("DATA_ENRICHMENT")
    BY <1>0, <1>00, <2>2, <2>3
       DEF StagesFor, UntouchedAt, CoveredAt, AuditIsTruthful, Obeyed
  <2>5. QED
    BY <2>2, <2>4
<1>7. CASE JointEvidence
  <2>1. state = "JOINT_EVIDENCE" /\ Len(log) = 6
    BY <1>0, <1>7, LoopPosition DEF JointEvidence, Handling
  <2>2. Pipeline[Len(log) + 2] = "REASONING"
    BY <2>1, PipelineEntries
  <2>3. PICK joint, attributed, silent \in BOOLEAN :
          /\ joint => "joint_evidence" \notin conf.ablate
          /\ silent => ~attributed
          /\ ran' = ran \cup When("joint_evidence", joint) \cup When("paddle", attributed)
          /\ audit' = [audit EXCEPT
               !["joint_evidence"] = Mark(joint),
               !["paddle"] = IF silent THEN @ ELSE Mark(attributed)]
    BY <1>7 DEF JointEvidence
  <2>4. \A p \in Pending("JOINT_EVIDENCE") : audit[p] = "unset" /\ p \notin ran
    BY <1>00, <2>1 DEF UntouchedAt
  <2>5. AuditIsTruthful'
    BY <1>0, <1>00, <2>3, <2>4, PendingOf DEF AuditIsTruthful, Audit, Mark, When, Stage, Core
  <2>6. Obeyed'
    BY <1>0, <1>00, <2>3 DEF Obeyed, When, Stage
  <2>7. \A p \in Pending("REASONING") : audit'[p] = "unset" /\ p \notin ran'
    BY <1>0, <2>3, <2>4, PendingOf DEF Audit, When, Stage, Core
  <2>8. Arm => \A p \in Core \ Pending("REASONING") : p \in ran' <=> p \notin conf.ablate
    BY <1>00, <2>1, <2>3, <2>4, PendingOf DEF CoveredAt, When, Core, Stage, ShouldSkip, Arm
  <2>9. StagesFor("REASONING")
    BY <2>5, <2>6, <2>7, <2>8 DEF StagesFor
  <2>10. QED
    BY <2>2, <2>9
<1>8. CASE JointEvidenceBroken
  <2>1. state = "JOINT_EVIDENCE" /\ Len(log) = 6
    BY <1>0, <1>8, LoopPosition DEF JointEvidenceBroken, Handling
  <2>2. Pipeline[Len(log) + 2] = "REASONING"
    BY <2>1, PipelineEntries
  <2>3. PICK joint, attributed, recorded \in BOOLEAN :
          /\ joint => "joint_evidence" \notin conf.ablate
          /\ ran' = ran \cup When("joint_evidence", joint) \cup When("paddle", attributed)
          /\ audit' = IF recorded
                        THEN [audit EXCEPT !["joint_evidence"] = Mark(joint)]
                        ELSE audit
    BY <1>8 DEF JointEvidenceBroken
  <2>4. \A p \in Pending("JOINT_EVIDENCE") : audit[p] = "unset" /\ p \notin ran
    BY <1>00, <2>1 DEF UntouchedAt
  <2>5. AuditIsTruthful'
    BY <1>0, <1>00, <2>3, <2>4, PendingOf DEF AuditIsTruthful, Audit, Mark, When, Stage, Core
  <2>6. Obeyed'
    BY <1>0, <1>00, <2>3 DEF Obeyed, When, Stage
  <2>7. \A p \in Pending("REASONING") : audit'[p] = "unset" /\ p \notin ran'
    BY <1>0, <2>3, <2>4, PendingOf DEF Audit, When, Stage, Core
  <2>8. Arm => \A p \in Core \ Pending("REASONING") : p \in ran' <=> p \notin conf.ablate
    BY <1>00, <2>1, <2>3, <2>4, PendingOf DEF CoveredAt, When, Core, Stage, ShouldSkip, Arm
  <2>9. StagesFor("REASONING")
    BY <2>5, <2>6, <2>7, <2>8 DEF StagesFor
  <2>10. QED
    BY <2>2, <2>9
<1>9. CASE SkipReasoning
  <2>1. state = "REASONING" /\ Len(log) = 7
    BY <1>0, <1>9, LoopPosition DEF SkipReasoning, Handling
  <2>2. Pipeline[Len(log) + 2] = "VALIDATION"
    BY <2>1, PipelineEntries
  <2>3. /\ ~Arm /\ ran' = ran
        /\ audit' = [audit EXCEPT !["reasoning"] = "off"]
    BY <1>9 DEF SkipReasoning, ShouldSkip, Arm
  <2>4. \A p \in Pending("REASONING") : audit[p] = "unset" /\ p \notin ran
    BY <1>00, <2>1 DEF UntouchedAt
  <2>5. AuditIsTruthful'
    BY <1>0, <1>00, <2>3, <2>4, PendingOf DEF AuditIsTruthful, Audit, Mark, When, Stage, Core
  <2>6. Obeyed'
    BY <1>0, <1>00, <2>3 DEF Obeyed, When, Stage
  <2>7. \A p \in Pending("VALIDATION") : audit'[p] = "unset" /\ p \notin ran'
    BY <1>0, <2>3, <2>4, PendingOf DEF Audit, When, Stage, Core
  <2>8. Arm => \A p \in Core \ Pending("VALIDATION") : p \in ran' <=> p \notin conf.ablate
    BY <1>00, <2>1, <2>3, <2>4, PendingOf DEF CoveredAt, When, Core, Stage, ShouldSkip, Arm
  <2>9. StagesFor("VALIDATION")
    BY <2>5, <2>6, <2>7, <2>8 DEF StagesFor
  <2>10. QED
    BY <2>2, <2>9
<1>10. CASE Reason
  <2>1. state = "REASONING" /\ Len(log) = 7
    BY <1>0, <1>10, LoopPosition DEF Reason, Handling
  <2>2. Pipeline[Len(log) + 2] = "VALIDATION"
    BY <2>1, PipelineEntries
  <2>3. /\ ran' = ran \cup ({"reasoning", "hypothesis"} \ conf.ablate)
        /\ audit' = [audit EXCEPT
             !["reasoning"] = Mark("reasoning" \in {"reasoning", "hypothesis"} \ conf.ablate),
             !["hypothesis"] = Mark("hypothesis" \in {"reasoning", "hypothesis"} \ conf.ablate)]
    BY <1>10 DEF Reason
  <2>4. \A p \in Pending("REASONING") : audit[p] = "unset" /\ p \notin ran
    BY <1>00, <2>1 DEF UntouchedAt
  <2>5. AuditIsTruthful'
    BY <1>0, <1>00, <2>3, <2>4, PendingOf DEF AuditIsTruthful, Audit, Mark, When, Stage, Core
  <2>6. Obeyed'
    BY <1>0, <1>00, <2>3 DEF Obeyed, When, Stage
  <2>7. \A p \in Pending("VALIDATION") : audit'[p] = "unset" /\ p \notin ran'
    BY <1>0, <2>3, <2>4, PendingOf DEF Audit, When, Stage, Core
  <2>8. Arm => \A p \in Core \ Pending("VALIDATION") : p \in ran' <=> p \notin conf.ablate
    BY <1>00, <2>1, <2>3, <2>4, PendingOf DEF CoveredAt, When, Core, Stage, ShouldSkip, Arm
  <2>9. StagesFor("VALIDATION")
    BY <2>5, <2>6, <2>7, <2>8 DEF StagesFor
  <2>10. QED
    BY <2>2, <2>9
<1>11. CASE Enrich
  <2>1. state = "DATA_ENRICHMENT" /\ Len(log) = 9
    BY <1>0, <1>11, LoopPosition DEF Enrich, Handling
  <2>2. Pipeline[Len(log) + 2] = "REPORT_GENERATION"
    BY <2>1, PipelineEntries
  <2>3. /\ ran' = ran \cup When("enrichment", "enrichment" \notin conf.ablate)
        /\ audit' = [audit EXCEPT !["enrichment"] = Mark("enrichment" \notin conf.ablate)]
    BY <1>11 DEF Enrich
  <2>4. \A p \in Pending("DATA_ENRICHMENT") : audit[p] = "unset" /\ p \notin ran
    BY <1>00, <2>1 DEF UntouchedAt
  <2>5. AuditIsTruthful'
    BY <1>0, <1>00, <2>3, <2>4, PendingOf DEF AuditIsTruthful, Audit, Mark, When, Stage, Core
  <2>6. Obeyed'
    BY <1>0, <1>00, <2>3 DEF Obeyed, When, Stage
  <2>7. \A p \in Pending("REPORT_GENERATION") : audit'[p] = "unset" /\ p \notin ran'
    BY <1>0, <2>3, <2>4, PendingOf DEF Audit, When, Stage, Core
  <2>8. Arm => \A p \in Core \ Pending("REPORT_GENERATION") : p \in ran' <=> p \notin conf.ablate
    BY <1>00, <2>1, <2>3, <2>4, PendingOf DEF CoveredAt, When, Core, Stage, ShouldSkip, Arm
  <2>9. StagesFor("REPORT_GENERATION")
    BY <2>5, <2>6, <2>7, <2>8 DEF StagesFor
  <2>10. QED
    BY <2>2, <2>9
<1>12. CASE Report
  <2>1. state = "REPORT_GENERATION" /\ Len(log) = 10
    BY <1>0, <1>12, LoopPosition DEF Report, Handling
  <2>2. Pipeline[Len(log) + 2] = "COMPLETE"
    BY <2>1, PipelineEntries
  <2>3. /\ ran' = ran \cup When("evidence_board", "evidence_board" \notin conf.ablate)
        /\ audit' = [audit EXCEPT !["evidence_board"] = Mark("evidence_board" \notin conf.ablate)]
    BY <1>12 DEF Report, WriteReport
  <2>4. \A p \in Pending("REPORT_GENERATION") : audit[p] = "unset" /\ p \notin ran
    BY <1>00, <2>1 DEF UntouchedAt
  <2>5. AuditIsTruthful'
    BY <1>0, <1>00, <2>3, <2>4, PendingOf DEF AuditIsTruthful, Audit, Mark, When, Stage, Core
  <2>6. Obeyed'
    BY <1>0, <1>00, <2>3 DEF Obeyed, When, Stage
  <2>7. \A p \in Pending("COMPLETE") : audit'[p] = "unset" /\ p \notin ran'
    BY <1>0, <2>3, <2>4, PendingOf DEF Audit, When, Stage, Core
  <2>8. Arm => \A p \in Core \ Pending("COMPLETE") : p \in ran' <=> p \notin conf.ablate
    BY <1>00, <2>1, <2>3, <2>4, PendingOf DEF CoveredAt, When, Core, Stage, ShouldSkip, Arm
  <2>9. StagesFor("COMPLETE")
    BY <2>5, <2>6, <2>7, <2>8 DEF StagesFor
  <2>10. QED
    BY <2>2, <2>9
<1>13. QED
  BY <1>1, <1>2, <1>3, <1>4, <1>5, <1>6, <1>7, <1>8, <1>9, <1>10, <1>11, <1>12 DEF Handler

\* A step along the pipeline carries the stage invariant with it.
LEMMA SteppedStages ==
  ASSUME ControlInv, StageInv, Handler
  PROVE  StageInv'
<1>1. PICK n \in 1..10 : Len(log) = n
  BY HandlerEffects DEF HandlerEffect, Stepped
<1>2. StagesFor(Pipeline[n + 2]) /\ Stepped
  BY <1>1, HandlerStages, HandlerEffects DEF HandlerEffect
<1>3. conf' = conf
  BY <1>2 DEF Stepped
<1>4. CASE Failed
  BY <1>2, <1>4 DEF StageInv, StagesFor, Failed, Untouched, Covered, AblationSingleVariable
<1>5. CASE state' = Pipeline[n + 2]
  <2>1. UntouchedAt(state)' /\ CoveredAt(state)'
    BY <1>2, <1>3, <1>5 DEF StagesFor, UntouchedAt, CoveredAt, Arm
  <2>2. AblationSingleVariable'
    <3>1. CASE state' = "COMPLETE"
      BY <2>1, <3>1, PendingOf DEF CoveredAt, AblationSingleVariable, Arm, Core
    <3>2. CASE state' # "COMPLETE"
      BY <3>2 DEF AblationSingleVariable
    <3>3. QED
      BY <3>1, <3>2
  <2>3. QED
    BY <1>2, <2>1, <2>2 DEF StageInv, StagesFor, Untouched, Covered
<1>6. QED
  BY <1>1, <1>2, <1>4, <1>5 DEF Stepped

\* An interrupted handler leaves a truthful audit, too.
LEMMA PartialWorkStages ==
  ASSUME TypeOK, StageInv, proc \in {"loop", "salvage"}, conf' = conf,
         NEW did, NEW recorded \in SUBSET WorkOf(state), PartialWork(did, recorded)
  PROVE  AuditIsTruthful' /\ Obeyed'
<1>1. WorkOf(state) \subseteq Pending(state) /\ WorkOf(state) \subseteq Stage
  BY DEF WorkOf, Pending, Stage, Core, Final
<1>2. UntouchedAt(state) /\ AuditIsTruthful /\ Obeyed
  BY DEF StageInv, Untouched
<1>3. AuditIsTruthful'
  BY <1>1, <1>2 DEF PartialWork, Mark, AuditIsTruthful, UntouchedAt
<1>4. Obeyed'
  BY <1>1, <1>2 DEF PartialWork, Obeyed
<1>5. QED
  BY <1>3, <1>4

\* The report handler accounts for the evidence board stage truthfully.
LEMMA WriteReportStages ==
  ASSUME TypeOK, StageInv, proc = "salvage", state = "REPORT_GENERATION",
         conf' = conf, WriteReport
  PROVE  AuditIsTruthful' /\ Obeyed'
<1>1. audit["evidence_board"] = "unset" /\ "evidence_board" \notin ran
  BY PendingOf DEF StageInv, Untouched, UntouchedAt
<1>2. audit \in Audit /\ AuditIsTruthful /\ Obeyed
  BY DEF TypeOK, StageInv, Audit
<1>3. AuditIsTruthful'
  BY <1>1, <1>2 DEF WriteReport, AuditIsTruthful, Mark, When, Audit, Stage
<1>4. Obeyed'
  BY <1>2 DEF WriteReport, Obeyed, When
<1>5. QED
  BY <1>3, <1>4

\* With the control invariant, the stage invariant is inductive.
THEOREM NextStages == ControlInv /\ StageInv /\ [Next]_vars => StageInv'
<1> SUFFICES ASSUME ControlInv, StageInv, [Next]_vars PROVE StageInv'
  OBVIOUS
<1>0. TypeOK
  BY DEF ControlInv
<1>1. CASE Handler
  BY <1>1, SteppedStages
<1>2. CASE Raise
  <2>1. proc \in {"loop", "salvage"} /\ conf' = conf
    BY <1>2 DEF Raise
  <2>2. AuditIsTruthful' /\ Obeyed'
    BY <1>0, <1>2, <2>1, PartialWorkStages DEF Raise
  <2>3. state' = "ERROR" /\ proc' = "done"
    BY <1>2 DEF Raise, Fail
  <2>4. QED
    BY <2>2, <2>3 DEF StageInv, Untouched, Covered, AblationSingleVariable
<1>3. CASE TimeUp
  <2>1. /\ UNCHANGED <<conf, ran, audit>> /\ timedOut' = TRUE
        /\ state' = "REPORT_GENERATION" /\ proc = "loop" /\ state \notin Final
    BY <1>3 DEF TimeUp
  <2>2. Pending("REPORT_GENERATION") \subseteq Pending(state)
    BY <2>1 DEF Pending, Core, Stage, Final
  <2>3. Untouched'
    BY <2>1, <2>2 DEF StageInv, Untouched, UntouchedAt
  <2>4. AuditIsTruthful' /\ Obeyed' /\ Covered' /\ AblationSingleVariable'
    BY <2>1 DEF StageInv, AuditIsTruthful, Obeyed, Covered, AblationSingleVariable
  <2>5. QED
    BY <2>3, <2>4 DEF StageInv
<1>4. CASE Salvage
  <2>1. /\ proc = "salvage" /\ proc' = "exit" /\ UNCHANGED <<conf, state>>
        /\ state = "REPORT_GENERATION"
    BY <1>4 DEF Salvage, ControlInv, Overdue
  <2>2. AuditIsTruthful' /\ Obeyed'
    BY <1>0, <1>4, <2>1, PartialWorkStages, WriteReportStages DEF Salvage
  <2>3. QED
    BY <2>1, <2>2 DEF StageInv, Untouched, Covered, AblationSingleVariable
<1>5. CASE Finish
  BY <1>5 DEF Finish, StageInv, AuditIsTruthful, Obeyed, Untouched, Covered, AblationSingleVariable
<1>6. CASE Start \/ Crash
  <2>1. /\ Fresh /\ conf' = conf
    BY <1>6 DEF Start, Crash
  <2>2. ran' = {} /\ (\A s \in Stage : audit'[s] = "unset") /\ state' = "INITIAL"
    BY <2>1 DEF Fresh
  <2>3. AuditIsTruthful' /\ Obeyed' /\ AblationSingleVariable'
    BY <2>2 DEF AuditIsTruthful, Obeyed, AblationSingleVariable
  <2>4. Untouched' /\ Covered'
    BY <2>2, PendingOf DEF Untouched, Covered, UntouchedAt, CoveredAt, Core, Stage
  <2>5. QED
    BY <2>3, <2>4 DEF StageInv
<1>7. CASE Tick
  BY <1>7 DEF Tick, StageInv, AuditIsTruthful, Obeyed, Untouched, Covered,
              AblationSingleVariable, UntouchedAt, CoveredAt, Arm
<1>8. CASE UNCHANGED vars
  BY <1>8 DEF vars, StageInv, AuditIsTruthful, Obeyed, Untouched, Covered,
              AblationSingleVariable, UntouchedAt, CoveredAt, Arm
<1>9. QED
  BY <1>1, <1>2, <1>3, <1>4, <1>5, <1>6, <1>7, <1>8 DEF Next, Engine

\* The stage invariant holds in every behaviour of the engine.
THEOREM StagesCorrect == Spec => []StageInv
<1>1. Init => StageInv
  BY DEF Init, StageInv, AuditIsTruthful, Obeyed, Untouched, Covered, AblationSingleVariable
<1>2. ControlInv /\ StageInv /\ [Next]_vars => StageInv'
  BY NextStages
<1>3. QED
  BY <1>1, <1>2, ControlCorrect, PTL DEF Spec

\* No arm of an ablation campaign loses a second stage: a complete run under
\* test ran exactly the stages its arm leaves on (should_skip_reasoning).
THEOREM AblationCorrect == Spec => []AblationSingleVariable
BY StagesCorrect, PTL DEF StageInv

\* The audit record agrees with what ran (record_stage_execution).
THEOREM AuditCorrect == Spec => []AuditIsTruthful
BY StagesCorrect, PTL DEF StageInv

\* PADDLE is the only stage that can run while it is switched off.
THEOREM OnlyPaddleEscapes == Spec => []Obeyed
BY StagesCorrect, PTL DEF StageInv

-----------------------------------------------------------------------------
(* The engine implements RunContract.                                      *)

Phase == IF proc \in {"idle", "done"} THEN proc ELSE "running"

\* A failed handler or save is a Conclude step of the contract.
LEMMA FailureConcludes ==
  ASSUME ControlInv, ControlInv', Running, Failed, reports' \in {reports, 1}
  PROVE  Contract!Conclude
<1>1. Outcome' = "error"
  BY DEF Failed, Outcome
<1>2. ckpt.complete \in BOOLEAN /\ ~ckpt.complete /\ ckpt'.complete = ckpt.complete
  BY DEF ControlInv, TypeOK, Banked, Store, Failed
<1>3. Phase = "running" /\ Phase' = "done"
  BY DEF Running, Phase, Failed
<1>4. QED
  BY <1>1, <1>2, <1>3 DEF Contract!Conclude, Phase

\* A handler is a Publish or a Conclude step of the contract, or no step at all.
LEMMA HandlerContract ==
  ASSUME ControlInv, ControlInv', Handler
  PROVE  [Contract!Next]_(Contract!vars)
<1>1. HandlerEffect /\ Running
  BY HandlerEffects DEF HandlerEffect, Stepped, Running
<1>2. reports = 0 /\ reports' \in {0, 1}
  <2>1. PICK n \in 1..10 : Len(log) = n
    BY <1>1 DEF HandlerEffect, Stepped
  <2>2. state = Pipeline[n + 1]
    BY <1>1, <2>1 DEF HandlerEffect, Stepped, ControlInv, Paced
  <2>3. state # "COMPLETE"
    BY <2>2, PipelinePosition
  <2>4. reports = 0
    BY <1>1, <2>3 DEF HandlerEffect, Stepped, ControlInv, Published, Running
  <2>5. QED
    BY <1>1, <2>4 DEF HandlerEffect
<1>3. CASE Failed
  BY <1>1, <1>2, <1>3, FailureConcludes DEF Contract!Next
<1>4. CASE proc' = proc /\ ckpt'.complete = ckpt.complete
  <2>1. proc = "loop"
    BY <1>1 DEF HandlerEffect, Stepped
  <2>2. Phase = "running" /\ Phase' = "running" /\ Outcome = "none" /\ Outcome' = "none"
    BY <1>4, <2>1 DEF Phase, Outcome
  <2>3. CASE reports' = 0
    BY <1>2, <1>4, <2>2, <2>3 DEF Contract!vars, Phase
  <2>4. CASE reports' = 1
    <3>1. Contract!Publish
      BY <1>2, <1>4, <2>2, <2>4 DEF Contract!Publish, Phase
    <3>2. QED
      BY <3>1 DEF Contract!Next
  <2>5. QED
    BY <1>2, <2>3, <2>4
<1>5. QED
  BY <1>1, <1>3, <1>4 DEF HandlerEffect, Stepped

\* The end of execute is a Conclude step of the contract.
LEMMA FinishContract ==
  ASSUME ControlInv, ControlInv', Finish
  PROVE  Contract!Conclude
<1>1. Running /\ state # "ERROR" /\ proc' = "done" /\ state' = state /\ reports' = reports
  BY DEF ControlInv, Finish, Ended, Running, Quiet, Final
<1>2. state = "COMPLETE" => reports = 1
  BY DEF ControlInv, Published
<1>3. ckpt \in Store /\ ckpt.complete = FALSE
  BY <1>1 DEF ControlInv, TypeOK, Store, Banked
<1>4. Phase = "running" /\ Phase' = "done"
  BY <1>1 DEF Running, Phase
<1>5. result' \in {"context", "raised"}
  BY DEF Finish
<1>6. /\ Outcome' \in {"complete", "partial", "error"}
      /\ Outcome' = "complete" => state = "COMPLETE"
      /\ result' = "context" /\ state = "COMPLETE" => Outcome' = "complete"
  BY <1>1, <1>5 DEF Outcome
<1>7. /\ ckpt'.complete \in BOOLEAN
      /\ ckpt'.complete => result' = "context" /\ state = "COMPLETE"
  BY <1>3 DEF Finish, Store
<1>8. QED
  BY <1>1, <1>2, <1>3, <1>4, <1>6, <1>7 DEF Contract!Conclude, Phase

\* A call of run_workflow is a Begin or a Recall step of the contract.
LEMMA StartContract ==
  ASSUME ControlInv, ControlInv', Start
  PROVE  Contract!Begin \/ Contract!Recall
<1>1. /\ proc \in {"idle", "done"} /\ reports' = 0 /\ ckpt' = ckpt
      /\ Phase \in {"idle", "done"}
  BY DEF Start, Fresh, Phase
<1>2. CASE conf.store /\ ckpt.complete
  <2>1. proc' = "done" /\ result' = "cached"
    BY <1>2 DEF Start
  <2>2. Phase' = "done" /\ Outcome' = "cached"
    BY <2>1 DEF Phase, Outcome
  <2>3. QED
    BY <1>1, <1>2, <2>2 DEF Contract!Recall, Phase
<1>3. CASE ~(conf.store /\ ckpt.complete)
  <2>1. proc' = "loop"
    BY <1>3 DEF Start
  <2>2. Phase' = "running" /\ Outcome' = "none"
    BY <2>1 DEF Phase, Outcome
  <2>3. ~ckpt.complete
    BY <1>3 DEF ControlInv, Banked
  <2>4. QED
    BY <1>1, <2>2, <2>3 DEF Contract!Begin, Phase
<1>4. QED
  BY <1>2, <1>3

\* The initial states map to initial states of the contract.
THEOREM ContractInit == Init => Contract!Init
BY DEF Init, Contract!Init, Outcome

\* Every step of the engine maps to a step of the contract or a stutter.
THEOREM ContractNext ==
  ControlInv /\ ControlInv' /\ [Next]_vars => [Contract!Next]_(Contract!vars)
<1> SUFFICES ASSUME ControlInv, ControlInv', [Next]_vars
             PROVE  [Contract!Next]_(Contract!vars)
  OBVIOUS
<1>1. CASE Handler
  BY <1>1, HandlerContract
<1>2. CASE Raise
  <2>1. Running /\ state \in State /\ Fail(state) /\ reports' = reports
    BY <1>2 DEF Raise, Running, ControlInv, TypeOK
  <2>2. Failed
    BY <2>1, FailFails DEF ControlInv
  <2>3. QED
    BY <2>1, <2>2, FailureConcludes DEF Contract!Next
<1>3. CASE TimeUp
  <2>1. proc = "loop" /\ proc' \in {"loop", "salvage"} /\ reports' = reports /\ ckpt' = ckpt
    BY <1>3 DEF TimeUp
  <2>2. Phase = "running" /\ Phase' = "running" /\ Outcome = "none" /\ Outcome' = "none"
    BY <2>1 DEF Phase, Outcome
  <2>3. QED
    BY <2>1, <2>2 DEF Contract!vars, Phase
<1>4. CASE Salvage
  <2>1. proc = "salvage" /\ proc' = "exit" /\ ckpt' = ckpt
    BY <1>4 DEF Salvage
  <2>2. Phase = "running" /\ Phase' = "running" /\ Outcome = "none" /\ Outcome' = "none"
    BY <2>1 DEF Phase, Outcome
  <2>3. reports = 0 /\ state = "REPORT_GENERATION"
    BY <2>1 DEF ControlInv, Overdue, Published, Running
  <2>4. reports' = 0 \/ reports' = 1
    BY <1>4, <2>3 DEF Salvage, WriteReport
  <2>5. CASE reports' = 0
    BY <2>1, <2>2, <2>3, <2>5 DEF Contract!vars, Phase
  <2>6. CASE reports' = 1
    <3>1. Contract!Publish
      BY <2>1, <2>2, <2>3, <2>6 DEF Contract!Publish, Phase
    <3>2. QED
      BY <3>1 DEF Contract!Next
  <2>7. QED
    BY <2>4, <2>5, <2>6
<1>5. CASE Finish
  BY <1>5, FinishContract DEF Contract!Next
<1>6. CASE Start
  BY <1>6, StartContract DEF Contract!Next
<1>7. CASE Crash
  <2>1. proc' = "idle" /\ reports' = 0 /\ ckpt' = ckpt
    BY <1>7 DEF Crash, Fresh
  <2>2. Phase' = "idle" /\ Outcome' = "none"
    BY <2>1 DEF Phase, Outcome
  <2>3. Contract!Crash
    BY <2>1, <2>2 DEF Contract!Crash, Phase
  <2>4. QED
    BY <2>3 DEF Contract!Next
<1>8. CASE Tick
  <2>1. UNCHANGED <<proc, reports, ckpt, state, result>>
    BY <1>8 DEF Tick
  <2>2. QED
    BY <2>1 DEF Contract!vars, Outcome
<1>9. CASE UNCHANGED vars
  BY <1>9 DEF vars, Contract!vars, Outcome
<1>10. QED
  BY <1>1, <1>2, <1>3, <1>4, <1>5, <1>6, <1>7, <1>8, <1>9 DEF Next, Engine

\* run_workflow keeps RunContract: whatever the handlers, the clock, the store
\* and the crashes do, a run publishes at most one report, completes only with
\* one, and a banked result is returned instead of being computed again.
THEOREM ContractKept == Spec => RefinesContract
<1>1. Init => Contract!Init
  BY ContractInit
<1>2. ControlInv /\ ControlInv' /\ [Next]_vars => [Contract!Next]_(Contract!vars)
  BY ContractNext
<1>3. QED
  BY <1>1, <1>2, ControlCorrect, PTL DEF Spec, Contract!Spec, RefinesContract
=============================================================================
