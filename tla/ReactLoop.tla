----------------------------- MODULE ReactLoop -----------------------------
(***************************************************************************)
(* One run of the Think-Action-Observe agent (agents/react_agent.py,       *)
(* ReactAgent.run) inside the flow of the chief agent that starts it       *)
(* (chief_agent.py, react_analysis_flow).                                  *)
(*                                                                         *)
(* The model's answers are free: an answer, the name of any tool, a name   *)
(* that is no tool, or nothing that parses as an action.  A tool returns a *)
(* dictionary, is stopped by an AttributeError (which execute_tool turns   *)
(* into a result it does not keep), or raises anything else (which the     *)
(* retry loop sees).  Dictionaries are records, and the places that look   *)
(* a value up do it with the path the code uses (Get).                     *)
(***************************************************************************)
EXTENDS Naturals, FiniteSets

CONSTANTS MaxRounds,    \* ReactAgent.max_rounds (REACT_MAX_ROUNDS)
          MaxRetries,   \* ReactAgent.max_retries
          OtherTools,   \* the tools of AVAILABLE_TOOLS no rule of the loop names
          NoAction      \* an answer of the model from which no action parses

ASSUME RoundsAssumption == MaxRounds \in Nat \ {0}
ASSUME RetriesAssumption == MaxRetries \in Nat
ASSUME NamesAssumption ==
    /\ OtherTools \cap {"analyze_traffic", "analyze_routing", "check_correlation",
                        "generate_report", "answer", "unknown_tool"} = {}
    /\ NoAction \notin OtherTools \cup
         {"analyze_traffic", "analyze_routing", "check_correlation",
          "generate_report", "answer", "unknown_tool"}

Traffic == "analyze_traffic"
Routing == "analyze_routing"
Joint   == "check_correlation"
Report  == "generate_report"

Analyses == {Traffic, Routing}
Tools    == Analyses \cup {Joint, Report} \cup OtherTools

(* What the model may ask for: an action by name, or nothing.              *)
Actions   == Tools \cup {"unknown_tool", NoAction}

VARIABLES
    pc,        \* the step the run is about to take
    round,     \* ReactAgent._round
    retry,     \* retry_count of the round
    action,    \* action_name
    used,      \* tools_used
    ev,        \* _evidence: tool -> the dictionary it returned last
    got,       \* _traffic_result and _routing_result
    enriched,  \* "no", or what run_supervisor_enrichment did: "skipped", "ran"
    result,    \* the ReactResult, or the empty dictionary
    reply,     \* what react_analysis_flow returns
    covers,    \* history: the evidence the last report call could read
    calm       \* history: the model only ever refused and no tool failed

reactVars == <<pc, round, retry, action, used, ev, got, enriched, result, reply, covers, calm>>

-----------------------------------------------------------------------------
(* Dictionaries *)

EmptyDict == [k \in {} |-> {}]

Get(d, k, default) == IF k \in DOMAIN d THEN d[k] ELSE default

With(d, k, v) == [x \in DOMAIN d \cup {k} |-> IF x = k THEN v ELSE d[x]]

Failed == [success |-> FALSE]

(* A live traffic result is keyed by AS under "results"; a live routing    *)
(* result keeps the detector's dictionary under "result", and is a success *)
(* even when the detector was not.                                         *)
TrafficResult(found) == [success |-> TRUE,
                         results |-> [target |-> [anomalies |-> found]]]
RoutingResult(found) == [success |-> TRUE,
                         result  |-> [origin_hijacked |-> found]]
ReportResult(valid)  == [success |-> TRUE, report_path |-> valid]

Events == {{}, {"event"}}

(* The joint stage looks the anomalies up directly under "results".        *)
JointResult(evidence) ==
    LET traffic == Get(Get(evidence, Traffic, EmptyDict), "results", EmptyDict)
        routing == Get(Get(evidence, Routing, EmptyDict), "result", EmptyDict)
    IN  [success |-> TRUE,
         both_present |-> /\ Get(traffic, "anomalies", {}) # {}
                          /\ Get(routing, "origin_hijacked", {}) # {}]

ResultsOf(t) ==
    IF t = Traffic THEN {TrafficResult(f) : f \in Events} \cup {Failed}
    ELSE IF t = Routing THEN {RoutingResult(f) : f \in Events}
    ELSE IF t = Joint THEN {JointResult(ev)}
    ELSE IF t = Report THEN {ReportResult(v) : v \in BOOLEAN} \cup {Failed}
    ELSE {[success |-> TRUE], Failed}

Completed(evidence) ==
    \E t \in Analyses : Get(Get(evidence, t, EmptyDict), "success", FALSE)

BothAnalysed(g) == Analyses \subseteq DOMAIN g

-----------------------------------------------------------------------------
(* The parts of a round *)

(* Mutant: the report comes first in the pipeline. *)
PickFallbackReportFirst ==
    IF Report \notin DOMAIN ev THEN Report
    ELSE IF Traffic \notin DOMAIN ev THEN Traffic
    ELSE IF Routing \notin DOMAIN ev THEN Routing
    ELSE Joint

(* What replaces an empty action: the first tool of the pipeline whose     *)
(* result is not in the evidence.                                          *)
PickFallback ==
    IF Traffic \notin DOMAIN ev THEN Traffic
    ELSE IF Routing \notin DOMAIN ev THEN Routing
    ELSE IF Joint \notin DOMAIN ev THEN Joint
    ELSE Report

(* run_supervisor_enrichment asks the two results for their anomalies at   *)
(* the top level and is skipped when it finds none.                        *)
Enrichment(g) ==
    IF \/ Get(Get(g, Routing, EmptyDict), "origin_hijacked", {}) # {}
       \/ Get(Get(g, Traffic, EmptyDict), "anomalies", {}) # {}
    THEN "ran" ELSE "skipped"

Enrich(g) == enriched' = IF enriched = "no" /\ BothAnalysed(g)
                         THEN Enrichment(g) ELSE enriched

(* The report is put off, without a trace in the evidence or in tools_used,*)
(* until one of the two analyses has succeeded.                            *)
Deferred(t) == t = Report /\ ~Completed(ev)

(* Mutant: tools_used is extended only when the tool was stopped by an     *)
(* AttributeError.                                                         *)
CallUncounted(t, r) ==
    \/ /\ t \notin Tools \/ Deferred(t)
       /\ r = Failed
       /\ UNCHANGED <<used, ev, covers>>
    \/ /\ t \in Tools /\ ~Deferred(t)
       /\ covers' = IF t = Report THEN DOMAIN ev ELSE covers
       /\ \/ r \in ResultsOf(t) /\ ev' = With(ev, t, r) /\ UNCHANGED used
          \/ r = Failed /\ used' = used \cup {t} /\ UNCHANGED ev

(* One call of execute_tool that returns r: kept is FALSE for a result     *)
(* made from an AttributeError, a deferred report and an unknown tool.     *)
Call(t, r) ==
    \/ /\ t \notin Tools \/ Deferred(t)
       /\ r = Failed
       /\ UNCHANGED <<used, ev, covers>>
    \/ /\ t \in Tools /\ ~Deferred(t)
       /\ used' = used \cup {t}
       /\ covers' = IF t = Report THEN DOMAIN ev ELSE covers
       /\ \/ r \in ResultsOf(t) /\ ev' = With(ev, t, r)
          \/ r = Failed /\ UNCHANGED ev

(* The call raises something other than an AttributeError.                 *)
CallRaises(t) ==
    /\ t \in Tools /\ ~Deferred(t)
    /\ used' = used \cup {t}
    /\ covers' = IF t = Report THEN DOMAIN ev ELSE covers
    /\ UNCHANGED ev

NextRound ==
    IF round < MaxRounds
    THEN pc' = "think" /\ round' = round + 1
    ELSE pc' = "exhausted" /\ UNCHANGED round

Finish(success, path) ==
    /\ pc' = "done"
    /\ result' = [success |-> success, report_path |-> path]

-----------------------------------------------------------------------------
ReactInit ==
    /\ pc = "think" /\ round = 1 /\ retry = 0
    /\ action = NoAction
    /\ used = {} /\ ev = EmptyDict /\ got = EmptyDict
    /\ enriched = "no"
    /\ result = EmptyDict /\ reply = "none"
    /\ covers = {} /\ calm = TRUE

(* llm_think and parse_response at the start of a round. *)
ThinkAnswer ==
    /\ pc = "think"
    /\ pc' = "answer"
    /\ calm' = FALSE
    /\ UNCHANGED <<round, retry, action, used, ev, got, enriched, result, reply, covers>>

ThinkAction(a) ==
    /\ pc = "think"
    /\ action' = IF a = NoAction THEN PickFallback ELSE a
    /\ pc' = "act"
    /\ retry' = 0
    /\ calm' = (calm /\ a = NoAction)
    /\ UNCHANGED <<round, used, ev, got, enriched, result, reply, covers>>

(* The model cannot be reached: llm_think raises, and so does run. *)
ThinkRaises ==
    /\ pc \in {"think", "rethink"}
    /\ pc' = "raised"
    /\ calm' = FALSE
    /\ UNCHANGED <<round, retry, action, used, ev, got, enriched, result, reply, covers>>

(* Mutant: a written report does not end the run. *)
ActReturnsGoesOn(r) ==
    /\ pc = "act"
    /\ Call(action, r)
    /\ got' = IF action \in Analyses THEN With(got, action, r) ELSE got
    /\ Enrich(got')
    /\ calm' = (calm /\ (r.success \/ Deferred(action)))
    /\ NextRound
    /\ UNCHANGED <<retry, action, result, reply>>

(* execute_tool returns: the results are kept for the supervisor, and a    *)
(* successful report ends the run.                                         *)
ActReturns(r) ==
    /\ pc = "act"
    /\ Call(action, r)
    /\ got' = IF action \in Analyses THEN With(got, action, r) ELSE got
    /\ Enrich(got')
    /\ calm' = (calm /\ (r.success \/ Deferred(action)))
    /\ IF action = Report /\ r.success
       THEN /\ Finish(r.report_path, r.report_path)
            /\ UNCHANGED round
       ELSE NextRound /\ UNCHANGED result
    /\ UNCHANGED <<retry, action, reply>>

(* Mutant: a call that raised is tried again without being counted. *)
ActRaisesUncounted ==
    /\ pc = "act"
    /\ CallRaises(action)
    /\ IF retry < MaxRetries
       THEN pc' = "rethink" /\ UNCHANGED <<retry, round>>
       ELSE NextRound /\ UNCHANGED retry
    /\ calm' = FALSE
    /\ UNCHANGED <<action, got, enriched, result, reply>>

ActRaises ==
    /\ pc = "act"
    /\ CallRaises(action)
    /\ IF retry < MaxRetries
       THEN pc' = "rethink" /\ retry' = retry + 1 /\ UNCHANGED round
       ELSE NextRound /\ UNCHANGED retry
    /\ calm' = FALSE
    /\ UNCHANGED <<action, got, enriched, result, reply>>

(* The model is asked again after a call that raised: only another named   *)
(* action keeps the round going.                                           *)
RethinkAction(a) ==
    /\ pc = "rethink"
    /\ a # NoAction
    /\ action' = a
    /\ pc' = "act"
    /\ UNCHANGED <<round, retry, used, ev, got, enriched, result, reply, covers, calm>>

RethinkEndsRound ==
    /\ pc = "rethink"
    /\ NextRound
    /\ UNCHANGED <<retry, action, used, ev, got, enriched, result, reply, covers, calm>>

(* The last call for a report, after an answer or when the rounds are used *)
(* up, made only if no report was attempted and something was collected.   *)
LastReport(success) ==
    IF Report \notin used /\ DOMAIN ev # {}
    THEN \/ \E r \in ResultsOf(Report) : Call(Report, r) /\ Finish(success, FALSE)
         \/ CallRaises(Report) /\ pc' = "raised" /\ UNCHANGED result
    ELSE Finish(success, FALSE) /\ UNCHANGED <<used, ev, covers>>

(* Mutant: an answer ends the run as it is. *)
AnswerUnreported ==
    /\ pc = "answer"
    /\ Enrich(got)
    /\ Finish(TRUE, FALSE)
    /\ UNCHANGED <<round, retry, action, used, ev, covers, got, reply, calm>>

Answer ==
    /\ pc = "answer"
    /\ Enrich(got)
    /\ LastReport(TRUE)
    /\ UNCHANGED <<round, retry, action, got, reply, calm>>

Exhausted ==
    /\ pc = "exhausted"
    /\ LastReport(FALSE)
    /\ UNCHANGED <<round, retry, action, got, enriched, reply, calm>>

-----------------------------------------------------------------------------
(* The chief agent around the run *)

(* The functions react_analysis_flow calls by a bare name, and the names   *)
(* its module binds: extract_react_token_count is only a method there.     *)
BareCalls   == {"valid_llm_html_report", "extract_react_token_count"}
ModuleNames == {"valid_llm_html_report", "unwrap_result", "per_asn_results"}

(* The reply is one dictionary display: a NameError in it is caught with   *)
(* every other exception, and the run is analysed again without the agent. *)
ChiefReplies ==
    /\ pc = "done"
    /\ IF BareCalls \subseteq ModuleNames
       THEN reply' = "react" /\ pc' = "end"
       ELSE pc' = "legacy" /\ UNCHANGED reply
    /\ UNCHANGED <<round, retry, action, used, ev, got, enriched, result, covers, calm>>

ChiefCatches ==
    /\ pc = "raised"
    /\ pc' = "legacy"
    /\ UNCHANGED <<round, retry, action, used, ev, got, enriched, result, reply, covers, calm>>

(* legacy_direct_analysis: no anomaly, a full direct analysis, or a        *)
(* reasoning stage that failed and raises to the caller.                   *)
Legacy ==
    /\ pc = "legacy"
    /\ reply' \in {"no_anomaly", "direct", "error"}
    /\ pc' = "end"
    /\ UNCHANGED <<round, retry, action, used, ev, got, enriched, result, covers, calm>>

Terminated == pc = "end" /\ UNCHANGED reactVars

ReactNext ==
    \/ ThinkAnswer
    \/ \E a \in Actions : ThinkAction(a)
    \/ ThinkRaises
    \/ \E r \in ResultsOf(action) \cup {Failed} : ActReturns(r)
    \/ ActRaises
    \/ \E a \in Actions : RethinkAction(a)
    \/ RethinkEndsRound
    \/ Answer
    \/ Exhausted
    \/ ChiefReplies
    \/ ChiefCatches
    \/ Legacy
    \/ Terminated

ReactSpec == ReactInit /\ [][ReactNext]_reactVars

(* Every step is a call the flow awaits: it returns or raises (each call   *)
(* of the model and of a tool has a time limit of its own).                *)
FairReactSpec == ReactSpec /\ WF_reactVars(ReactNext)

-----------------------------------------------------------------------------
(* Properties *)

Results ==
    {TrafficResult(f) : f \in Events} \cup {RoutingResult(f) : f \in Events}
      \cup {[success |-> TRUE, both_present |-> b] : b \in BOOLEAN}
      \cup {ReportResult(v) : v \in BOOLEAN} \cup {[success |-> TRUE], Failed}

(* The variables of ReactAgent.run and of the chief's flow have the values *)
(* the code gives them; in particular the evidence and the results kept    *)
(* for the supervisor are those of tools that were called.                 *)
ReactTypeOK ==
    /\ pc \in {"think", "act", "rethink", "answer", "exhausted", "done",
               "raised", "legacy", "end"}
    /\ round \in 1..MaxRounds
    /\ retry \in 0..MaxRetries
    /\ action \in Actions
    /\ used \subseteq Tools
    /\ DOMAIN ev \subseteq used
    /\ \A t \in DOMAIN ev : ev[t] \in Results
    /\ DOMAIN got \subseteq Analyses \cap used
    /\ enriched \in {"no", "skipped", "ran"}
    /\ reply \in {"none", "react", "no_anomaly", "direct", "error"}
    /\ covers \subseteq Tools
    /\ calm \in BOOLEAN

Over == pc \in {"done", "legacy", "end"} /\ result # EmptyDict

(* A report that was written is the last thing a run does: nothing is      *)
(* collected after it, so it could read all the evidence the run hands on. *)
ReportIsLast ==
    Report \in DOMAIN ev /\ ev[Report].success =>
        /\ pc \notin {"think", "act", "rethink", "answer", "exhausted"}
        /\ DOMAIN ev \ {Report} \subseteq covers

(* A run never ends, with an answer or with its rounds used up, on         *)
(* evidence of a completed analysis without having tried to report it.     *)
CompletedIsReported == Over /\ Completed(ev) => Report \in used

(* A model that only refuses is led through the whole pipeline: while no   *)
(* tool fails, the report is attempted by the fourth round.                *)
RefusalsReachReport == calm /\ (round > 4 \/ Over) => Report \in used

(* Every run comes to a reply of the chief agent.                          *)
RunEnds == <>(pc = "end")
=============================================================================
