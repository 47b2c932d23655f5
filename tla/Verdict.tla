------------------------------ MODULE Verdict ------------------------------
(***************************************************************************)
(* How a run commits to a verdict and a cause                              *)
(* (detectors/evidence_chain_builder.py and its two calls in               *)
(* workflow_engine.py).  The chain is built when the routing stage checks  *)
(* the two detectors against each other, before any agent has an opinion,  *)
(* and again once the reasoning agent has judged.  Each build arbitrates   *)
(* the five-class verdict between the rule of the detectors and the        *)
(* proposal of the agent, derives the cause, and leaves the arbitration    *)
(* and the rejected classes on the blackboard.                             *)
(*                                                                         *)
(* The inputs are what the two detectors reported; they do not change      *)
(* between the builds.  Texts, strengths and the confidence of the chain   *)
(* are left out.                                                           *)
(***************************************************************************)
EXTENDS Integers, FiniteSets

CONSTANTS
    Counts,       \* numbers of traffic anomalies a detector may report
    Drops,        \* peak-to-trough drops of the traffic, in per cent
    Churn,        \* withdrawals and announcements in the event window
    Confidences   \* confidences the agent may state, in per cent

ASSUME VerdictAssumption ==
    /\ Counts \subseteq Nat /\ 0 \in Counts
    /\ Drops \subseteq Nat /\ 0 \in Drops
    /\ Churn \subseteq [withdrawals : Nat, announcements : Nat]
    /\ Confidences \subseteq 0 .. 100

VARIABLES
    traffic,      \* what the traffic detector reported
    routing,      \* what the routing detectors reported
    correlated,   \* causal_analysis.has_association
    judgement,    \* what the reasoning agent proposed, or NoJudgement
    chain,        \* context.evidence_chain: its verdict and its cause
    arbitration,  \* verdict.arbitration on the blackboard
    alternatives, \* the rejected verdict classes on the blackboard
    stage         \* how far the run is

inputs == <<traffic, routing, correlated>>
vars == <<traffic, routing, correlated, judgement, chain, arbitration,
          alternatives, stage>>

NoJudgement == [type |-> "none", confidence |-> 0]
NoChain == [verdict |-> "none", cause |-> "none"]
NoArbitration == [rule |-> "none", proposed |-> "none", committed |-> "none",
                  overrode |-> FALSE, changed |-> FALSE]

----------------------------------------------------------------------------
(* The inputs.                                                             *)

\* "unlabelled" has neither data_available nor success: the early error of the
\* traffic tool, or a precomputed result; "unobserved" is a window of fewer than
\* ten data points, which the detector searches for anomalies all the same.
TrafficResults ==
    {t \in [kind : {"none", "unlabelled", "unobserved", "observed"},
            anomalies : Counts, windowed : Counts, drop : Drops] :
        /\ t.windowed =< t.anomalies
        /\ t.kind = "none" => t.anomalies = 0 /\ t.drop = 0}

\* A hijack record names a foreign origin, or only the victim itself or a
\* forged path ("own"), or the analysed network as the actor.  Leak records
\* may be without evidence ("bare": counted as no leak), counted, counted in
\* a truncated scan without evidence, or evidenced for the victim.
RoutingResults ==
    {r \in [kind : {"none", "failed", "analysed"},
            hijack : {"none", "own", "foreign", "actor"},
            leak : {"none", "bare", "counted", "truncated", "evidenced"},
            outage : BOOLEAN, churn : Churn] :
        r.kind # "analysed" =>
            r.hijack = "none" /\ r.leak = "none" /\ ~r.outage
                /\ r.churn.withdrawals = 0}

IncidentTypes == {"origin_hijack", "route_leak", "outage", "traffic_only",
                  "no_anomaly", "unknown"}

Judgements == [type : IncidentTypes, confidence : Confidences]

----------------------------------------------------------------------------
(* The verdict axis.                                                       *)

VerdictClasses == {"correlated_observations", "cooccurring_anomalies",
                   "traffic_only_anomaly", "routing_only_anomaly",
                   "verified_normal"}

AGENT_VERDICT_CONFIDENCE_FLOOR == 60

HasRoutingAnomaly(r) ==
    r.hijack \in {"own", "foreign"} \/ r.leak # "none" \/ r.outage

\* data_available defaults to true when the key is absent.
MissingTraffic(t) == t.kind \in {"none", "unobserved"}
MissingRouting(r) == r.kind \in {"none", "failed"}

RuleVerdict(trafficAnomaly, routingAnomaly, correlation) ==
    IF trafficAnomaly /\ routingAnomaly
    THEN IF correlation THEN "correlated_observations"
         ELSE "cooccurring_anomalies"
    ELSE IF trafficAnomaly THEN "traffic_only_anomaly"
    ELSE IF routingAnomaly THEN "routing_only_anomaly"
    ELSE "verified_normal"

RuleOnlyVerdict(t, r, c) ==
    IF MissingTraffic(t) THEN "inconclusive_missing_traffic"
    ELSE IF MissingRouting(r) THEN "inconclusive_missing_routing"
    ELSE RuleVerdict(t.anomalies > 0, HasRoutingAnomaly(r), c)

\* The class each incident type of the classifier stands for.
VerdictAlias == [origin_hijack |-> "correlated_observations",
                 route_leak    |-> "routing_only_anomaly",
                 outage        |-> "traffic_only_anomaly",
                 traffic_only  |-> "traffic_only_anomaly",
                 no_anomaly    |-> "verified_normal"]

AgentVerdictProposal(j) ==
    IF j.type \in DOMAIN VerdictAlias
       /\ j.confidence >= AGENT_VERDICT_CONFIDENCE_FLOOR
    THEN VerdictAlias[j.type] ELSE "none"

DetermineVerdict(t, r, c, j) ==
    IF \/ MissingTraffic(t)
       \/ MissingRouting(r)
       \/ AgentVerdictProposal(j) = "none"
    THEN RuleOnlyVerdict(t, r, c)
    ELSE AgentVerdictProposal(j)

RecordArbitration(rule, j, committed) ==
    LET proposal == AgentVerdictProposal(j)
    IN  [rule |-> rule, proposed |-> proposal, committed |-> committed,
         overrode |-> proposal # "none" /\ proposal # rule,
         changed |-> committed # rule]

EnumerateRejectedVerdicts(t, r, chosen) ==
    IF MissingTraffic(t) \/ MissingRouting(r) THEN {}
    ELSE [alternative : VerdictClasses \ {chosen}, competes_with : {chosen}]

\* The rule's verdict, recorded as rejected when the agent overrode it.
OverruledAlternative(a) ==
    IF a.overrode
    THEN {[alternative |-> a.rule, competes_with |-> a.proposed]} ELSE {}

----------------------------------------------------------------------------
(* The cause axis.                                                         *)

TRAFFIC_DROP_THRESHOLD_PCT == 50
OUTAGE_PERIOD_ANOMALY_MIN == 2

\* data_available defaults to success here, so "unlabelled" is not observed.
TrafficAvailable(t) == t.kind = "observed"
TrafficSignal(t) == t.anomalies > 0
TrafficCollapsed(t) ==
    TrafficSignal(t) /\ t.drop >= TRAFFIC_DROP_THRESHOLD_PCT

HardPhysicalSignature(t) ==
    /\ TrafficAvailable(t)
    /\ TrafficCollapsed(t)
    /\ t.windowed >= OUTAGE_PERIOD_ANOMALY_MIN

CountCrossOriginRecords(r) == IF r.hijack = "foreign" THEN 1 ELSE 0

\* The withdrawal ratio is at least one in a hundred, and the withdrawals
\* reach the given number.
WithdrawnAtLeast(r, n) ==
    /\ r.churn.announcements > 0
    /\ r.churn.withdrawals * 100 >= r.churn.announcements
    /\ r.churn.withdrawals >= n
VictimWithdrew(r) == WithdrawnAtLeast(r, 100)
VictimWithdrewHard(r) == WithdrawnAtLeast(r, 1000)

LeakCount(r) == IF r.leak \in {"counted", "truncated", "evidenced"} THEN 1 ELSE 0
LeakEvidence(r) == r.leak \in {"counted", "evidenced"}

\* The traffic fell below half: the outage window tells an outage from a hijack.
CauseOfCollapse(t, r) ==
    IF \/ t.windowed >= OUTAGE_PERIOD_ANOMALY_MIN
       \/ VictimWithdrewHard(r) /\ (r.outage \/ t.windowed > 0)
    THEN "outage" ELSE "origin_hijack_victim"

\* No traffic was observed: the routing detectors alone, and the verdict.
CauseUnobserved(r, verdict) ==
    IF r.outage /\ (VictimWithdrewHard(r) \/ LeakCount(r) = 0) THEN "outage"
    ELSE IF LeakCount(r) > 0 THEN "route_leak"
    ELSE IF verdict = "traffic_only_anomaly" THEN "traffic_anomaly_only"
    ELSE "no_clear_anomaly"

CauseFromEvidence(t, r, verdict) ==
    IF r.hijack # "none" /\ ~VictimWithdrew(r) THEN "origin_hijack_victim"
    ELSE IF TrafficCollapsed(t) THEN CauseOfCollapse(t, r)
    ELSE IF LeakEvidence(r) /\ ~VictimWithdrew(r) THEN "route_leak"
    ELSE IF TrafficSignal(t) THEN
        IF r.outage /\ VictimWithdrewHard(r) THEN "outage"
        ELSE "origin_hijack_victim"
    ELSE IF TrafficAvailable(t) THEN
        IF VictimWithdrewHard(r) THEN "outage" ELSE "no_clear_anomaly"
    ELSE CauseUnobserved(r, verdict)

NormalizeCause == [origin_hijack |-> "origin_hijack_victim",
                   route_leak    |-> "route_leak",
                   outage        |-> "outage",
                   traffic_only  |-> "traffic_anomaly_only",
                   no_anomaly    |-> "no_clear_anomaly",
                   unknown       |-> "none",
                   none          |-> "none"]

\* Mutant: the confidence gate the tests keep out.
MutAgentProposalIsConfident(r, j) ==
    /\ NormalizeCause[j.type] = "origin_hijack_victim"
    /\ j.confidence >= AGENT_VERDICT_CONFIDENCE_FLOOR

\* Mutant: the tie is broken only by a confident agent.
MutAgentMayBreakTie(t, r, j) ==
    /\ ~TrafficAvailable(t)
    /\ NormalizeCause[j.type] \in {"outage", "route_leak"}
    /\ j.confidence >= AGENT_VERDICT_CONFIDENCE_FLOOR

AgentProposalIsCorroborated(r, j) ==
    /\ NormalizeCause[j.type] = "origin_hijack_victim"
    /\ CountCrossOriginRecords(r) > 0

AgentMayBreakAnUnobservableTie(t, r, j) ==
    /\ ~TrafficAvailable(t)
    /\ \/ NormalizeCause[j.type] \in {"outage", "route_leak"}
       \/ /\ NormalizeCause[j.type] = "origin_hijack_victim"
          /\ CountCrossOriginRecords(r) > 0

DetermineCause(t, r, j, verdict) ==
    IF HardPhysicalSignature(t) THEN "outage"
    ELSE IF \/ AgentProposalIsCorroborated(r, j)
            \/ AgentMayBreakAnUnobservableTie(t, r, j)
    THEN NormalizeCause[j.type]
    ELSE CauseFromEvidence(t, r, verdict)

----------------------------------------------------------------------------
(* The two builds of a run.                                                *)

\* Mutant: the rejected classes are enumerated against the rule's verdict.
MutRejectedAgainstRule(j) ==
    LET rule == RuleOnlyVerdict(traffic, routing, correlated)
        verdict == DetermineVerdict(traffic, routing, correlated, j)
    IN  /\ chain' = [verdict |-> verdict,
                     cause |-> DetermineCause(traffic, routing, j, verdict)]
        /\ arbitration' = RecordArbitration(rule, j, verdict)
        /\ alternatives' = alternatives
                \cup EnumerateRejectedVerdicts(traffic, routing, rule)

\* build_evidence_chain: the chain replaces the one before, the rejected
\* classes are appended to the board, the arbitration overwrites the last.
BuildEvidenceChain(j) ==
    LET rule == RuleOnlyVerdict(traffic, routing, correlated)
        verdict == DetermineVerdict(traffic, routing, correlated, j)
        record == RecordArbitration(rule, j, verdict)
    IN  /\ chain' = [verdict |-> verdict,
                     cause |-> DetermineCause(traffic, routing, j, verdict)]
        /\ arbitration' = record
        /\ alternatives' = alternatives
                \cup EnumerateRejectedVerdicts(traffic, routing, verdict)
                \cup OverruledAlternative(record)

\* An extractor meets a field of another type: AttributeError, no chain.
BuildFails == UNCHANGED <<chain, arbitration, alternatives>>

Init ==
    /\ traffic \in TrafficResults
    /\ routing \in RoutingResults
    /\ correlated \in BOOLEAN
    /\ judgement = NoJudgement
    /\ chain = NoChain
    /\ arbitration = NoArbitration
    /\ alternatives = {}
    /\ stage = "validate"

CrossValidate ==
    /\ stage = "validate"
    /\ stage' = "reasoning"
    /\ BuildEvidenceChain(judgement) \/ BuildFails
    /\ UNCHANGED <<inputs, judgement>>

\* The reasoning agent judges, or its classification did not come from the
\* language model and is no proposal.
Reason ==
    /\ stage = "reasoning"
    /\ stage' = "done"
    /\ judgement' \in Judgements \cup {NoJudgement}
    /\ BuildEvidenceChain(judgement') \/ BuildFails
    /\ UNCHANGED inputs

\* Reasoning skipped: the chain of the routing stage is the one reported.
SkipReasoning ==
    /\ stage = "reasoning"
    /\ stage' = "done"
    /\ UNCHANGED <<inputs, judgement, chain, arbitration, alternatives>>

Next == CrossValidate \/ Reason \/ SkipReasoning

Spec == Init /\ [][Next]_vars

----------------------------------------------------------------------------
(* Properties.                                                             *)

Verdicts == VerdictClasses \cup {"none", "inconclusive_missing_traffic",
                                 "inconclusive_missing_routing"}
Causes == {"none", "outage", "route_leak", "origin_hijack_victim",
           "traffic_anomaly_only", "no_clear_anomaly"}

\* The shape of the state of a run between its two builds.
TypeOK ==
    /\ traffic \in TrafficResults
    /\ routing \in RoutingResults
    /\ correlated \in BOOLEAN
    /\ judgement \in Judgements \cup {NoJudgement}
    /\ chain \in [verdict : Verdicts, cause : Causes]
    /\ arbitration \in [rule : Verdicts, proposed : Verdicts,
                        committed : Verdicts, overrode : BOOLEAN,
                        changed : BOOLEAN]
    /\ alternatives \subseteq [alternative : Verdicts, competes_with : Verdicts]
    /\ stage \in {"validate", "reasoning", "done"}

\* The rebuild moves the cause only when a record of the routing collector
\* backs the agent's hijack, or when the traffic was not observed at all; and
\* never away from a collapse that spans the window (determine_cause: the
\* proposal is gated on corroboration, the physical signature is a veto).
CauseMovesOnlyOnRecord ==
    [][ (chain # NoChain /\ chain'.cause # chain.cause) =>
            /\ ~HardPhysicalSignature(traffic)
            /\ \/ ~TrafficAvailable(traffic)
               \/ /\ routing.hijack = "foreign"
                  /\ chain'.cause = "origin_hijack_victim" ]_vars

\* "The cause-axis arbitration must not be decided by the agent's confidence"
\* (tests/test_cause_arbitration.py): the cause of a judgement is the cause of
\* the same judgement at any other confidence.  The confidence does decide the
\* verdict and the verdict is an argument of the cause, so this needs the two
\* axes to read the same availability, which they do except for a result that
\* states neither data_available nor success.
ConfidenceIsNoVote ==
    traffic.kind # "unlabelled" =>
        \A c \in Confidences :
            LET other == [judgement EXCEPT !.confidence = c]
                Cause(j) == DetermineCause(traffic, routing, j,
                                DetermineVerdict(traffic, routing, correlated, j))
            IN  Cause(judgement) = Cause(other)

\* After every build each of the five classes is the verdict of the chain or
\* is on the board as rejected in its favour; when an input is missing the
\* chain says so and commits to none of the five (build_evidence_chain,
\* record_rejected_verdicts: the second build answers for its own verdict).
EveryClassAnswered ==
    chain # NoChain =>
        IF MissingTraffic(traffic) \/ MissingRouting(routing)
        THEN chain.verdict \notin VerdictClasses
        ELSE \A class \in VerdictClasses \ {chain.verdict} :
                 [alternative |-> class, competes_with |-> chain.verdict]
                     \in alternatives

\* The arbitration on the board is the one of the chain the run reports, and a
\* verdict that differs from the rule's is the eligible proposal of the agent
\* (record_arbitration, the audit trail of "the agent can change the answer").
ChangeIsTheAgents ==
    /\ arbitration.committed = chain.verdict
    /\ arbitration.changed =>
           /\ arbitration.overrode
           /\ chain.verdict = AgentVerdictProposal(judgement)
           /\ judgement.confidence >= AGENT_VERDICT_CONFIDENCE_FLOOR

============================================================================
