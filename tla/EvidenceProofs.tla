--------------------------- MODULE EvidenceProofs ---------------------------
(***************************************************************************)
(* Proofs about how evidence is collected and judged, for every value of   *)
(* the constants: first the arbitration of Verdict, then a run of the      *)
(* ReAct agent of ReactLoop.                                               *)
(***************************************************************************)
EXTENDS Verdict, ReactLoop, TLAPS

----------------------------------------------------------------------------
(* Lemmas about the operators of the two axes.                             *)

\* The rule commits to one of the five classes, or says which input is missing.
LEMMA RuleIsVerdict ==
    ASSUME NEW t, NEW r, NEW c \in BOOLEAN
    PROVE  /\ RuleOnlyVerdict(t, r, c) \in Verdicts \ {"none"}
           /\ MissingTraffic(t) \/ MissingRouting(r)
                  <=> RuleOnlyVerdict(t, r, c) \notin VerdictClasses
BY DEF RuleOnlyVerdict, RuleVerdict, Verdicts, VerdictClasses

\* A proposal is one of the five classes, made by a judgement at the floor.
LEMMA ProposalIsClass ==
    ASSUME NEW j \in Judgements \cup {NoJudgement}
    PROVE  /\ AgentVerdictProposal(j) \in VerdictClasses \cup {"none"}
           /\ AgentVerdictProposal(j) # "none" =>
                  j.confidence >= AGENT_VERDICT_CONFIDENCE_FLOOR
<1>1. CASE /\ j.type \in DOMAIN VerdictAlias
           /\ j.confidence >= AGENT_VERDICT_CONFIDENCE_FLOOR
    <2>1. VerdictAlias[j.type] \in VerdictClasses
        BY <1>1 DEF VerdictAlias, VerdictClasses
    <2> QED  BY <1>1, <2>1 DEF AgentVerdictProposal
<1>2. CASE ~(/\ j.type \in DOMAIN VerdictAlias
             /\ j.confidence >= AGENT_VERDICT_CONFIDENCE_FLOOR)
    BY <1>2 DEF AgentVerdictProposal
<1> QED  BY <1>1, <1>2

LEMMA VerdictIsVerdict ==
    ASSUME NEW t, NEW r, NEW c \in BOOLEAN,
           NEW j \in Judgements \cup {NoJudgement}
    PROVE  /\ DetermineVerdict(t, r, c, j) \in Verdicts \ {"none"}
           /\ MissingTraffic(t) \/ MissingRouting(r)
                  <=> DetermineVerdict(t, r, c, j) \notin VerdictClasses
BY RuleIsVerdict, ProposalIsClass
   DEF DetermineVerdict, Verdicts, VerdictClasses

\* The cause of a judgement is one of the causes.
LEMMA CauseIsCause ==
    ASSUME NEW t, NEW r, NEW j \in Judgements \cup {NoJudgement}, NEW v
    PROVE  DetermineCause(t, r, j, v) \in Causes
<1>1. CauseFromEvidence(t, r, v) \in Causes
    BY DEF CauseFromEvidence, CauseOfCollapse, CauseUnobserved, Causes
<1>2. NormalizeCause[j.type] \in Causes
    BY DEF NormalizeCause, Judgements, NoJudgement, IncidentTypes, Causes
<1> QED  BY <1>1, <1>2 DEF DetermineCause, Causes

\* When the traffic was observed the verdict does not reach the cause.
LEMMA ObservedCauseIgnoresVerdict ==
    ASSUME NEW t, TrafficAvailable(t), NEW r, NEW j, NEW v, NEW w
    PROVE  DetermineCause(t, r, j, v) = DetermineCause(t, r, j, w)
BY DEF DetermineCause, CauseFromEvidence

\* A judgement that no record backs leaves the cause of observed traffic alone.
LEMMA UnbackedJudgementMovesNothing ==
    ASSUME NEW t, TrafficAvailable(t), NEW r, NEW j, NEW k, NEW v,
           ~AgentProposalIsCorroborated(r, j),
           ~AgentProposalIsCorroborated(r, k)
    PROVE  DetermineCause(t, r, j, v) = DetermineCause(t, r, k, v)
BY DEF DetermineCause, AgentMayBreakAnUnobservableTie

----------------------------------------------------------------------------
(* The inductive invariant: every part of the state a build writes is the  *)
(* one the build of the current judgement computes, or the one of the      *)
(* build before any judgement.                                             *)

\* The chain of a run that is still to judge is the chain of no judgement.
FirstChain ==
    /\ stage \in {"validate", "reasoning"} => judgement = NoJudgement
    /\ stage = "validate" => chain = NoChain
    /\ stage = "reasoning" /\ chain # NoChain =>
           chain.cause = DetermineCause(traffic, routing, NoJudgement, chain.verdict)

\* An arbitration that changed the outcome took the proposal it records.
ChangeHasProposal ==
    arbitration.changed =>
        /\ judgement # NoJudgement
        /\ arbitration.overrode
        /\ chain.verdict = AgentVerdictProposal(judgement)
        /\ AgentVerdictProposal(judgement) # "none"

IInv ==
    /\ TypeOK
    /\ FirstChain
    /\ EveryClassAnswered
    /\ arbitration.committed = chain.verdict
    /\ ChangeHasProposal

LEMMA InitIInv == Init => IInv
<1> SUFFICES ASSUME Init PROVE IInv  OBVIOUS
<1>1. TypeOK
    BY DEF Init, TypeOK, NoChain, NoArbitration, Verdicts, Causes
<1> QED
    BY <1>1 DEF Init, IInv, FirstChain, EveryClassAnswered, ChangeHasProposal,
               NoChain, NoArbitration

\* What one build leaves behind, from any state and for any judgement.
LEMMA BuildStep ==
    ASSUME IInv, NEW j \in Judgements \cup {NoJudgement},
           judgement' = j, UNCHANGED inputs, BuildEvidenceChain(j)
    PROVE  /\ chain' \in [verdict : Verdicts \ {"none"}, cause : Causes]
           /\ chain'.cause = DetermineCause(traffic, routing, j, chain'.verdict)
           /\ arbitration' \in [rule : Verdicts, proposed : Verdicts,
                                committed : Verdicts, overrode : BOOLEAN,
                                changed : BOOLEAN]
           /\ alternatives' \subseteq
                  [alternative : Verdicts, competes_with : Verdicts]
           /\ EveryClassAnswered'
           /\ arbitration'.committed = chain'.verdict
           /\ ChangeHasProposal'
<1> DEFINE rule == RuleOnlyVerdict(traffic, routing, correlated)
           verdict == DetermineVerdict(traffic, routing, correlated, j)
           proposal == AgentVerdictProposal(j)
           record == RecordArbitration(rule, j, verdict)
<1>t. correlated \in BOOLEAN
      /\ alternatives \subseteq [alternative : Verdicts, competes_with : Verdicts]
    BY DEF IInv, TypeOK
<1>1. rule \in Verdicts /\ proposal \in Verdicts
    BY <1>t, RuleIsVerdict, ProposalIsClass DEF Verdicts
<1>2. /\ verdict \in Verdicts \ {"none"}
      /\ MissingTraffic(traffic) \/ MissingRouting(routing)
             <=> verdict \notin VerdictClasses
    BY <1>t, VerdictIsVerdict
<1>3. /\ chain' = [verdict |-> verdict,
                   cause |-> DetermineCause(traffic, routing, j, verdict)]
      /\ arbitration' = record
      /\ alternatives' = alternatives
            \cup EnumerateRejectedVerdicts(traffic, routing, verdict)
            \cup OverruledAlternative(record)
    BY DEF BuildEvidenceChain
<1>4. record = [rule |-> rule, proposed |-> proposal, committed |-> verdict,
                overrode |-> proposal # "none" /\ proposal # rule,
                changed |-> verdict # rule]
    BY DEF RecordArbitration
<1>5. DetermineCause(traffic, routing, j, verdict) \in Causes
    BY CauseIsCause
<1> HIDE DEF rule, verdict, proposal, record
<1>6. alternatives' \subseteq [alternative : Verdicts, competes_with : Verdicts]
    <2>1. EnumerateRejectedVerdicts(traffic, routing, verdict) \subseteq
              [alternative : Verdicts, competes_with : Verdicts]
        BY <1>2 DEF EnumerateRejectedVerdicts, Verdicts
    <2>2. OverruledAlternative(record) \subseteq
              [alternative : Verdicts, competes_with : Verdicts]
        BY <1>1, <1>4 DEF OverruledAlternative
    <2> QED  BY <1>3, <1>t, <2>1, <2>2
<1>7. EveryClassAnswered'
    <2>1. CASE MissingTraffic(traffic) \/ MissingRouting(routing)
        BY <2>1, <1>2, <1>3
           DEF EveryClassAnswered, inputs, MissingTraffic, MissingRouting
    <2>2. CASE ~(MissingTraffic(traffic) \/ MissingRouting(routing))
        <3>1. ASSUME NEW class \in VerdictClasses \ {verdict}
              PROVE  [alternative |-> class, competes_with |-> verdict]
                         \in alternatives'
            BY <2>2, <3>1, <1>3 DEF EnumerateRejectedVerdicts
        <3>2. chain'.verdict = verdict
            BY <1>3
        <3> QED
            BY <2>2, <3>1, <3>2
               DEF EveryClassAnswered, inputs, MissingTraffic, MissingRouting
    <2> QED  BY <2>1, <2>2
<1>8. ChangeHasProposal'
    <2> SUFFICES ASSUME verdict # rule
                 PROVE  /\ judgement' # NoJudgement
                        /\ arbitration'.overrode
                        /\ chain'.verdict = AgentVerdictProposal(judgement')
                        /\ AgentVerdictProposal(judgement') # "none"
        BY <1>3, <1>4 DEF ChangeHasProposal
    <2>1. proposal # "none" /\ verdict = proposal
        BY DEF verdict, rule, proposal, DetermineVerdict
    <2>2. j # NoJudgement
        BY <2>1 DEF proposal, AgentVerdictProposal, NoJudgement, VerdictAlias
    <2> QED  BY <2>1, <2>2, <1>3, <1>4 DEF proposal
<1> QED  BY <1>1, <1>2, <1>3, <1>4, <1>5, <1>6, <1>7, <1>8

LEMMA NextIInv == IInv /\ [Next]_vars => IInv'
<1> SUFFICES ASSUME IInv, [Next]_vars PROVE IInv'  OBVIOUS
<1> USE DEF IInv
<1>1. CASE CrossValidate
    <2>0. /\ judgement = NoJudgement /\ judgement' = NoJudgement
          /\ stage' = "reasoning" /\ UNCHANGED inputs /\ chain = NoChain
        BY <1>1 DEF CrossValidate, FirstChain
    <2>1. CASE BuildEvidenceChain(judgement)
        <3>1. BuildEvidenceChain(NoJudgement)
            BY <2>1, <2>0
        <3>2. /\ chain' \in [verdict : Verdicts \ {"none"}, cause : Causes]
              /\ chain'.cause =
                     DetermineCause(traffic, routing, NoJudgement, chain'.verdict)
              /\ arbitration' \in [rule : Verdicts, proposed : Verdicts,
                                   committed : Verdicts, overrode : BOOLEAN,
                                   changed : BOOLEAN]
              /\ alternatives' \subseteq
                     [alternative : Verdicts, competes_with : Verdicts]
              /\ EveryClassAnswered'
              /\ arbitration'.committed = chain'.verdict
              /\ ChangeHasProposal'
            BY <2>0, <3>1, BuildStep, IInv
        <3>3. TypeOK'
            BY <2>0, <3>2 DEF TypeOK, inputs
        <3>4. FirstChain'
            BY <2>0, <3>2 DEF FirstChain, inputs
        <3> QED  BY <3>2, <3>3, <3>4
    <2>2. CASE BuildFails
        BY <2>0, <2>2
           DEF BuildFails, TypeOK, FirstChain, EveryClassAnswered,
               ChangeHasProposal, inputs, MissingTraffic, MissingRouting
    <2> QED  BY <1>1, <2>1, <2>2 DEF CrossValidate
<1>2. CASE Reason
    <2>0. /\ judgement' \in Judgements \cup {NoJudgement}
          /\ stage' = "done" /\ UNCHANGED inputs
          /\ judgement = NoJudgement
        BY <1>2 DEF Reason, FirstChain
    <2>1. CASE BuildEvidenceChain(judgement')
        <3>2. /\ chain' \in [verdict : Verdicts \ {"none"}, cause : Causes]
              /\ arbitration' \in [rule : Verdicts, proposed : Verdicts,
                                   committed : Verdicts, overrode : BOOLEAN,
                                   changed : BOOLEAN]
              /\ alternatives' \subseteq
                     [alternative : Verdicts, competes_with : Verdicts]
              /\ EveryClassAnswered'
              /\ arbitration'.committed = chain'.verdict
              /\ ChangeHasProposal'
            BY <2>0, <2>1, BuildStep, IInv
        <3>3. TypeOK'
            BY <2>0, <3>2 DEF TypeOK, inputs
        <3>4. FirstChain'
            BY <2>0 DEF FirstChain
        <3> QED  BY <3>2, <3>3, <3>4
    <2>2. CASE BuildFails
        <3>1. TypeOK' /\ FirstChain'
            BY <2>0, <2>2 DEF BuildFails, TypeOK, FirstChain, inputs
        <3>2. EveryClassAnswered'
            BY <2>0, <2>2 DEF BuildFails, EveryClassAnswered, inputs,
                              MissingTraffic, MissingRouting
        <3>3. ~arbitration.changed
            BY <2>0 DEF ChangeHasProposal
        <3> QED
            BY <3>1, <3>2, <3>3, <2>2 DEF BuildFails, ChangeHasProposal
    <2> QED  BY <1>2, <2>1, <2>2 DEF Reason
<1>3. CASE SkipReasoning
    BY <1>3 DEF SkipReasoning, TypeOK, FirstChain, EveryClassAnswered,
                ChangeHasProposal, inputs, MissingTraffic, MissingRouting
<1>4. CASE UNCHANGED vars
    BY <1>4 DEF vars, inputs, TypeOK, FirstChain, EveryClassAnswered,
                ChangeHasProposal, MissingTraffic, MissingRouting
<1> QED  BY <1>1, <1>2, <1>3, <1>4 DEF Next

LEMMA InvariantHolds == Spec => []IInv
<1>1. Init => IInv  BY InitIInv
<1>2. IInv /\ [Next]_vars => IInv'  BY NextIInv
<1> QED  BY <1>1, <1>2, PTL DEF Spec

----------------------------------------------------------------------------
(* The theorems.                                                           *)

\* The state of a run keeps its shape through both builds.
THEOREM TypeCorrect == Spec => []TypeOK
<1>1. IInv => TypeOK  BY DEF IInv
<1> QED  BY <1>1, InvariantHolds, PTL

\* Every build answers for all five classes, or for none when an input is
\* missing.
THEOREM ClassesAnswered == Spec => []EveryClassAnswered
<1>1. IInv => EveryClassAnswered  BY DEF IInv
<1> QED  BY <1>1, InvariantHolds, PTL

\* A verdict other than the rule's is the eligible proposal of the agent, and
\* the arbitration on the board is the one of the reported chain.
THEOREM OnlyTheAgentChanges == Spec => []ChangeIsTheAgents
<1>1. IInv => ChangeIsTheAgents
    <2> SUFFICES ASSUME IInv PROVE ChangeIsTheAgents  OBVIOUS
    <2>1. judgement \in Judgements \cup {NoJudgement}
        BY DEF IInv, TypeOK
    <2> QED
        BY <2>1, ProposalIsClass DEF IInv, ChangeHasProposal, ChangeIsTheAgents
<1> QED  BY <1>1, InvariantHolds, PTL

\* Whatever confidence the agent states, the cause is the same, as long as the
\* traffic result states whether it has data.
THEOREM ConfidenceIgnored == Spec => []ConfidenceIsNoVote
<1>1. IInv => ConfidenceIsNoVote
    <2> SUFFICES ASSUME IInv, traffic.kind # "unlabelled", NEW c \in Confidences
                 PROVE  LET other == [judgement EXCEPT !.confidence = c]
                            Cause(j) == DetermineCause(traffic, routing, j,
                                DetermineVerdict(traffic, routing, correlated, j))
                        IN  Cause(judgement) = Cause(other)
        BY DEF ConfidenceIsNoVote
    <2> DEFINE other == [judgement EXCEPT !.confidence = c]
               v == DetermineVerdict(traffic, routing, correlated, judgement)
               w == DetermineVerdict(traffic, routing, correlated, other)
    <2>1. other.type = judgement.type
        BY DEF IInv, TypeOK, Judgements, NoJudgement
    <2> HIDE DEF other
    <2>2. DetermineCause(traffic, routing, judgement, w)
              = DetermineCause(traffic, routing, other, w)
        BY <2>1 DEF DetermineCause, AgentProposalIsCorroborated,
                    AgentMayBreakAnUnobservableTie
    <2>3. CASE TrafficAvailable(traffic)
        BY <2>2, <2>3, ObservedCauseIgnoresVerdict DEF other
    <2>4. CASE ~TrafficAvailable(traffic)
        <3>1. MissingTraffic(traffic)
            BY <2>4 DEF IInv, TypeOK, TrafficResults, TrafficAvailable,
                        MissingTraffic
        <3>2. v = w
            BY <3>1 DEF DetermineVerdict
        <3> QED  BY <2>2, <3>2 DEF other
    <2> QED  BY <2>3, <2>4
<1> QED  BY <1>1, InvariantHolds, PTL

\* The second build moves the cause of observed traffic only to a hijack that
\* a record of a foreign origin backs, and never away from the veto.
THEOREM CauseMovesRightly == Spec => CauseMovesOnlyOnRecord
<1>1. IInv /\ [Next]_vars =>
          [ (chain # NoChain /\ chain'.cause # chain.cause) =>
                /\ ~HardPhysicalSignature(traffic)
                /\ \/ ~TrafficAvailable(traffic)
                   \/ /\ routing.hijack = "foreign"
                      /\ chain'.cause = "origin_hijack_victim" ]_vars
    <2> SUFFICES ASSUME IInv, Next, chain # NoChain,
                        chain'.cause # chain.cause
                 PROVE  /\ ~HardPhysicalSignature(traffic)
                        /\ \/ ~TrafficAvailable(traffic)
                           \/ /\ routing.hijack = "foreign"
                              /\ chain'.cause = "origin_hijack_victim"
        OBVIOUS
    <2>1. /\ Reason
          /\ BuildEvidenceChain(judgement')
        BY DEF Next, CrossValidate, Reason, SkipReasoning, BuildFails,
               IInv, FirstChain
    <2>2. chain.cause = DetermineCause(traffic, routing, NoJudgement, chain.verdict)
        BY <2>1 DEF Reason, IInv, FirstChain
    <2> DEFINE j == judgement'
    <2>3. chain'.cause = DetermineCause(traffic, routing, j, chain'.verdict)
        BY <2>1 DEF BuildEvidenceChain
    <2> HIDE DEF j
    <2>4. ~HardPhysicalSignature(traffic)
        BY <2>2, <2>3 DEF DetermineCause
    <2>5. ASSUME TrafficAvailable(traffic)
          PROVE  /\ routing.hijack = "foreign"
                 /\ chain'.cause = "origin_hijack_victim"
        <3>1. ~AgentProposalIsCorroborated(routing, NoJudgement)
            BY DEF AgentProposalIsCorroborated, NormalizeCause, NoJudgement
        <3>2. AgentProposalIsCorroborated(routing, j)
            <4> SUFFICES ASSUME ~AgentProposalIsCorroborated(routing, j)
                         PROVE  FALSE
                OBVIOUS
            <4>1. DetermineCause(traffic, routing, j, chain.verdict)
                      = DetermineCause(traffic, routing, NoJudgement, chain.verdict)
                BY <2>5, <3>1, UnbackedJudgementMovesNothing
            <4>2. DetermineCause(traffic, routing, j, chain'.verdict)
                      = DetermineCause(traffic, routing, j, chain.verdict)
                BY <2>5, ObservedCauseIgnoresVerdict
            <4> QED  BY <4>1, <4>2, <2>2, <2>3
        <3> QED
            BY <2>3, <2>4, <3>2
               DEF AgentProposalIsCorroborated, CountCrossOriginRecords,
                   DetermineCause
    <2> QED  BY <2>4, <2>5
<1> QED  BY <1>1, InvariantHolds, PTL DEF Spec, CauseMovesOnlyOnRecord

-----------------------------------------------------------------------------
(* ReactLoop: the invariant of a run.                                      *)

\* The run collects evidence, thinks, or is about to end; it has not ended.
Collecting == {"think", "act", "exhausted"}

\* The result is written by the step that ends the run.
NoResultYet == pc \notin {"done", "legacy", "end"} => result = EmptyDict

\* The fallbacks of k - 1 rounds have led this far into the pipeline.
Piped(k) ==
    /\ k > 1 => Traffic \in DOMAIN ev
    /\ k > 2 => Routing \in DOMAIN ev
    /\ k > 3 => Joint \in DOMAIN ev
    /\ k > 4 => Report \in used

\* What a model that only refuses has done: every result it collected is a
\* success, each round took it one stage further, and once it is past the
\* rounds the report has been tried.
CalmRun ==
    calm =>
        /\ pc \notin {"answer", "rethink"}
        /\ pc \in Collecting => \A t \in DOMAIN ev : ev[t].success
        /\ pc \in {"think", "act"} => Piped(round)
        /\ pc = "act" => action = PickFallback
        /\ pc = "exhausted" => Piped(MaxRounds + 1)
        /\ pc \notin Collecting => Report \in used

RunInv ==
    /\ ReactTypeOK
    /\ NoResultYet
    /\ ReportIsLast
    /\ CompletedIsReported
    /\ CalmRun

-----------------------------------------------------------------------------
(* ReactLoop: results and calls.                                           *)

\* What every result of a tool has in common.
LEMMA ResultHasSuccess ==
    ASSUME NEW r \in Results
    PROVE  r.success \in BOOLEAN /\ "success" \in DOMAIN r
<1>1. CASE r \in {[success |-> TRUE, both_present |-> b] : b \in BOOLEAN}
  <2>1. PICK b \in BOOLEAN : r = [success |-> TRUE, both_present |-> b]
    BY <1>1
  <2> QED
    BY <2>1
<1>2. CASE \E f \in Events : r = TrafficResult(f)
  BY <1>2 DEF TrafficResult
<1>3. CASE \E f \in Events : r = RoutingResult(f)
  BY <1>3 DEF RoutingResult
<1>4. CASE \E v \in BOOLEAN : r = ReportResult(v)
  BY <1>4 DEF ReportResult
<1>5. CASE r = [success |-> TRUE]
  BY <1>5
<1>6. CASE r = Failed
  BY <1>6 DEF Failed
<1> QED
  BY <1>1, <1>2, <1>3, <1>4, <1>5, <1>6 DEF Results

LEMMA FailedFails == Failed.success = FALSE /\ Failed \in Results
BY DEF Failed, Results

LEMMA ResultsOfTools ==
    ASSUME NEW t \in Tools
    PROVE  ResultsOf(t) \subseteq Results
<1>1. JointResult(ev) \in {[success |-> TRUE, both_present |-> b] : b \in BOOLEAN}
  BY DEF JointResult
<1> QED
  BY <1>1 DEF ResultsOf, Results

LEMMA PipelineNames ==
    /\ Traffic # Routing /\ Traffic # Joint /\ Traffic # Report
    /\ Routing # Joint /\ Routing # Report /\ Joint # Report
    /\ {Traffic, Routing, Joint, Report} \subseteq Tools
    /\ Tools \subseteq Actions
    /\ NoAction \notin Tools
BY NamesAssumption
   DEF Traffic, Routing, Joint, Report, Tools, Analyses, Actions

\* No evidence completes nothing, and a successful traffic result is enough.
LEMMA NothingCompleted ==
    ASSUME DOMAIN ev = {}
    PROVE  ~Completed(ev)
BY DEF Completed, Get, EmptyDict

LEMMA TrafficCompletes ==
    ASSUME Traffic \in DOMAIN ev, ev[Traffic] \in Results, ev[Traffic].success
    PROVE  Completed(ev)
<1>1. Get(ev, Traffic, EmptyDict) = ev[Traffic]
  BY DEF Get
<1>2. "success" \in DOMAIN ev[Traffic]
  BY ResultHasSuccess
<1>3. Get(ev[Traffic], "success", FALSE) = ev[Traffic].success
  BY <1>2 DEF Get
<1> QED
  BY <1>1, <1>3 DEF Completed, Analyses

\* What the evidence and the tools used become, whatever is called.
Kept(t) ==
    /\ used' \subseteq Tools /\ used \subseteq used'
    /\ DOMAIN ev' \subseteq used'
    /\ \A x \in DOMAIN ev' : ev'[x] \in Results
    /\ covers' \subseteq Tools
    /\ t \in Tools /\ ~Deferred(t) => t \in used'
    /\ \A x : x # t => /\ x \in DOMAIN ev' <=> x \in DOMAIN ev
                       /\ x \in DOMAIN ev => ev'[x] = ev[x]

LEMMA CallKeeps ==
    ASSUME ReactTypeOK, NEW t, NEW r \in ResultsOf(t) \cup {Failed},
           Call(t, r)
    PROVE  Kept(t)
<1>1. CASE UNCHANGED <<used, ev, covers>> /\ (t \notin Tools \/ Deferred(t))
  BY <1>1 DEF ReactTypeOK, Kept
<1>2. CASE /\ t \in Tools /\ ~Deferred(t) /\ used' = used \cup {t}
           /\ covers' = IF t = Report THEN DOMAIN ev ELSE covers
           /\ UNCHANGED ev
  BY <1>2 DEF ReactTypeOK, Kept
<1>3. CASE /\ t \in Tools /\ ~Deferred(t) /\ used' = used \cup {t}
           /\ covers' = IF t = Report THEN DOMAIN ev ELSE covers
           /\ ev' = With(ev, t, r)
  <2>1. r \in Results
    BY <1>3, ResultsOfTools, FailedFails
  <2>2. /\ DOMAIN ev' = DOMAIN ev \cup {t}
        /\ \A x \in DOMAIN ev' : ev'[x] = IF x = t THEN r ELSE ev[x]
    BY <1>3 DEF With
  <2> QED
    BY <1>3, <2>1, <2>2 DEF ReactTypeOK, Kept
<1> QED
  BY <1>1, <1>2, <1>3 DEF Call

\* A call that succeeds was made, and its result is kept.
LEMMA SuccessIsKept ==
    ASSUME NEW t, NEW r, Call(t, r), r.success
    PROVE  /\ t \in Tools /\ ~Deferred(t) /\ t \in used'
           /\ DOMAIN ev' = DOMAIN ev \cup {t} /\ ev'[t] = r
           /\ t = Report => covers' = DOMAIN ev
<1>1. r # Failed
  BY FailedFails
<1>2. t \in Tools /\ ~Deferred(t) /\ used' = used \cup {t} /\ ev' = With(ev, t, r)
      /\ covers' = IF t = Report THEN DOMAIN ev ELSE covers
  BY <1>1 DEF Call
<1> QED
  BY <1>2 DEF With

\* A call that returns no success leaves no success under its name.
LEMMA FailureIsKept ==
    ASSUME NEW t, NEW r, Call(t, r), ~r.success, t \in DOMAIN ev'
    PROVE  ~ev'[t].success \/ (t \in DOMAIN ev /\ ev'[t] = ev[t])
<1>1. CASE ev' = With(ev, t, r)
  BY <1>1 DEF With
<1>2. CASE ev' = ev
  BY <1>2
<1> QED
  BY <1>1, <1>2 DEF Call

LEMMA RaisingKeeps ==
    ASSUME ReactTypeOK, NEW t, CallRaises(t)
    PROVE  Kept(t) /\ ev' = ev /\ t \in used'
BY DEF CallRaises, ReactTypeOK, Kept

-----------------------------------------------------------------------------
(* ReactLoop: each step keeps the types.                                   *)

LEMMA FallbackIsTool ==
    PickFallback \in {Traffic, Routing, Joint, Report} /\ PickFallback \in Actions
BY PipelineNames DEF PickFallback

LEMMA NextRoundTyped ==
    ASSUME ReactTypeOK, NextRound
    PROVE  /\ pc' \in {"think", "exhausted"} /\ round' \in 1 .. MaxRounds
           /\ pc' = "think" => round < MaxRounds /\ round' = round + 1
           /\ pc' = "exhausted" => round = MaxRounds /\ round' = round
BY RoundsAssumption DEF ReactTypeOK, NextRound

\* The last call is made for a report nobody tried, with evidence at hand.
LEMMA LastReportKeeps ==
    ASSUME ReactTypeOK, NEW success, LastReport(success)
    PROVE  /\ Kept(Report)
           /\ pc' \in {"done", "raised"}
           /\ pc' = "raised" => UNCHANGED result /\ Report \in used'
           /\ \/ Report \in used' \/ DOMAIN ev' = {}
              \/ ~Completed(ev) /\ UNCHANGED ev
<1>1. CASE Report \notin used /\ DOMAIN ev # {}
  <2>1. ASSUME NEW r \in ResultsOf(Report), Call(Report, r), Finish(success, FALSE)
        PROVE  /\ Kept(Report) /\ pc' = "done"
               /\ Report \in used' \/ (~Completed(ev) /\ UNCHANGED ev)
    <3>1. Kept(Report)
      BY <2>1, CallKeeps
    <3>2. Report \in used' \/ (~Completed(ev) /\ UNCHANGED ev)
      BY <2>1, PipelineNames DEF Call, Deferred
    <3> QED
      BY <2>1, <3>1, <3>2 DEF Finish
  <2>2. CASE CallRaises(Report) /\ pc' = "raised" /\ UNCHANGED result
    BY <2>2, RaisingKeeps
  <2> QED
    BY <1>1, <2>1, <2>2 DEF LastReport
<1>2. CASE ~(Report \notin used /\ DOMAIN ev # {})
  <2>1. Finish(success, FALSE) /\ UNCHANGED <<used, ev, covers>>
    BY <1>2 DEF LastReport
  <2>2. ~Deferred(Report) => Report \in used'
    BY <1>2, <2>1, NothingCompleted DEF Deferred
  <2>3. Kept(Report)
    BY <2>1, <2>2 DEF Kept, ReactTypeOK
  <2> QED
    BY <1>2, <2>1, <2>3 DEF Finish
<1> QED
  BY <1>1, <1>2

LEMMA ReactTypeStep == ReactTypeOK /\ [ReactNext]_reactVars => ReactTypeOK'
<1> SUFFICES ASSUME ReactTypeOK, [ReactNext]_reactVars PROVE ReactTypeOK'
  OBVIOUS
<1>1. CASE ThinkAnswer
  BY <1>1 DEF ThinkAnswer, ReactTypeOK
<1>2. ASSUME NEW a \in Actions, ThinkAction(a) PROVE ReactTypeOK'
  BY <1>2, FallbackIsTool, RetriesAssumption DEF ThinkAction, ReactTypeOK
<1>3. CASE ThinkRaises
  BY <1>3 DEF ThinkRaises, ReactTypeOK
<1>4. ASSUME NEW r \in ResultsOf(action) \cup {Failed}, ActReturns(r)
      PROVE  ReactTypeOK'
  <2>1. Kept(action)
    BY <1>4, CallKeeps DEF ActReturns
  <2>2. pc' \in {"think", "exhausted", "done"} /\ round' \in 1 .. MaxRounds
    BY <1>4, NextRoundTyped DEF ActReturns, Finish, ReactTypeOK
  <2>3. DOMAIN got' \subseteq Analyses \cap used'
    <3>1. CASE action \in Analyses
      <4>1. action \in Tools /\ ~Deferred(action)
        BY <3>1, PipelineNames DEF Analyses, Deferred
      <4>2. DOMAIN got' = DOMAIN got \cup {action}
        BY <1>4, <3>1 DEF ActReturns, With
      <4> QED
        BY <2>1, <3>1, <4>1, <4>2 DEF Kept, ReactTypeOK
    <3>2. CASE action \notin Analyses
      BY <1>4, <2>1, <3>2 DEF ActReturns, Kept, ReactTypeOK
    <3> QED
      BY <3>1, <3>2
  <2>4. enriched' \in {"no", "skipped", "ran"} /\ calm' \in BOOLEAN
    <3>1. enriched' \in {"no", "skipped", "ran"}
      BY <1>4 DEF ActReturns, Enrich, Enrichment, ReactTypeOK
    <3>2. calm' \in BOOLEAN
      BY <1>4 DEF ActReturns
    <3> QED
      BY <3>1, <3>2
  <2> QED
    BY <1>4, <2>1, <2>2, <2>3, <2>4 DEF ActReturns, Kept, ReactTypeOK
<1>5. CASE ActRaises
  <2>1. Kept(action)
    BY <1>5, RaisingKeeps DEF ActRaises
  <2>2. /\ pc' \in {"think", "exhausted", "rethink"} /\ round' \in 1 .. MaxRounds
        /\ retry' \in 0 .. MaxRetries
    BY <1>5, NextRoundTyped, RetriesAssumption DEF ActRaises, ReactTypeOK
  <2> QED
    BY <1>5, <2>1, <2>2 DEF ActRaises, Kept, ReactTypeOK
<1>6. ASSUME NEW a \in Actions, RethinkAction(a) PROVE ReactTypeOK'
  BY <1>6 DEF RethinkAction, ReactTypeOK
<1>7. CASE RethinkEndsRound
  BY <1>7, NextRoundTyped DEF RethinkEndsRound, ReactTypeOK
<1>8. CASE Answer
  <2>1. Kept(Report) /\ pc' \in {"done", "raised"}
    BY <1>8, LastReportKeeps DEF Answer
  <2>2. enriched' \in {"no", "skipped", "ran"}
    BY <1>8 DEF Answer, Enrich, Enrichment, ReactTypeOK
  <2> QED
    BY <1>8, <2>1, <2>2 DEF Answer, Kept, ReactTypeOK
<1>9. CASE Exhausted
  <2>1. Kept(Report) /\ pc' \in {"done", "raised"}
    BY <1>9, LastReportKeeps DEF Exhausted
  <2> QED
    BY <1>9, <2>1 DEF Exhausted, Kept, ReactTypeOK
<1>10. CASE ChiefReplies
  BY <1>10 DEF ChiefReplies, ReactTypeOK
<1>11. CASE ChiefCatches
  BY <1>11 DEF ChiefCatches, ReactTypeOK
<1>12. CASE Legacy
  BY <1>12 DEF Legacy, ReactTypeOK
<1>13. CASE UNCHANGED reactVars
  BY <1>13 DEF reactVars, ReactTypeOK
<1> QED
  BY <1>1, <1>2, <1>3, <1>4, <1>5, <1>6, <1>7, <1>8, <1>9, <1>10, <1>11,
     <1>12, <1>13 DEF ReactNext, Terminated

-----------------------------------------------------------------------------
(* ReactLoop: each step keeps the rest of the invariant.                   *)

\* A written report stays the last: no step goes on after it, and the step
\* that writes it could read everything else.
LEMMA ReportIsLastStep ==
    ReactTypeOK /\ ReportIsLast /\ [ReactNext]_reactVars => ReportIsLast'
<1> SUFFICES ASSUME ReactTypeOK, ReportIsLast, [ReactNext]_reactVars
             PROVE  ReportIsLast'
  OBVIOUS
<1> DEFINE Live == {"think", "act", "rethink", "answer", "exhausted"}
<1> DEFINE Written == Report \in DOMAIN ev /\ ev[Report].success
<1>a. Written => pc \notin Live /\ DOMAIN ev \ {Report} \subseteq covers
  BY DEF ReportIsLast
<1>b. DOMAIN ev \subseteq used
  BY DEF ReactTypeOK
<1>1. CASE UNCHANGED <<ev, covers>> /\ (pc \notin Live => pc' \notin Live)
  BY <1>1 DEF ReportIsLast
<1>2. ASSUME NEW r \in ResultsOf(action) \cup {Failed}, ActReturns(r)
      PROVE  ReportIsLast'
  <2>1. Call(action, r) /\ Kept(action) /\ pc = "act" /\ ~Written
    BY <1>2, <1>a, CallKeeps DEF ActReturns
  <2>2. CASE action = Report /\ r.success
    <3>1. DOMAIN ev' = DOMAIN ev \cup {Report} /\ covers' = DOMAIN ev
      BY <2>1, <2>2, SuccessIsKept
    <3>2. pc' = "done"
      BY <1>2, <2>2 DEF ActReturns, Finish
    <3> QED
      BY <3>1, <3>2 DEF ReportIsLast
  <2>3. CASE action = Report /\ ~r.success
    BY <2>1, <2>3, FailureIsKept DEF ReportIsLast
  <2>4. CASE action # Report
    BY <2>1, <2>4 DEF Kept, ReportIsLast
  <2> QED
    BY <2>2, <2>3, <2>4
<1>3. CASE ActRaises
  BY <1>3, <1>a, RaisingKeeps DEF ActRaises, ReportIsLast
<1>4. ASSUME NEW success, LastReport(success), pc \in Live
      PROVE  ReportIsLast'
  <2>0. ~Written /\ pc' \in {"done", "raised"}
    BY <1>4, <1>a, LastReportKeeps
  <2>1. CASE Report \notin used /\ DOMAIN ev # {}
    <3>1. ASSUME NEW r \in ResultsOf(Report), Call(Report, r)
          PROVE  ReportIsLast'
      <4>1. CASE r.success
        BY <2>0, <3>1, <4>1, SuccessIsKept DEF ReportIsLast
      <4>2. CASE ~r.success
        BY <2>0, <3>1, <4>2, FailureIsKept DEF ReportIsLast
      <4> QED
        BY <4>1, <4>2
    <3>2. CASE CallRaises(Report)
      BY <2>0, <3>2 DEF CallRaises, ReportIsLast
    <3> QED
      BY <1>4, <2>1, <3>1, <3>2 DEF LastReport
  <2>2. CASE ~(Report \notin used /\ DOMAIN ev # {})
    <3>1. ev' = ev
      BY <1>4, <2>2 DEF LastReport
    <3> QED
      BY <2>0, <3>1 DEF ReportIsLast
  <2> QED
    BY <2>1, <2>2
<1>5. CASE Answer
  BY <1>5, <1>4 DEF Answer
<1>6. CASE Exhausted
  BY <1>6, <1>4 DEF Exhausted
<1>7. CASE ThinkAnswer
  BY <1>7, <1>1 DEF ThinkAnswer
<1>8. ASSUME NEW a \in Actions, ThinkAction(a) PROVE ReportIsLast'
  BY <1>8, <1>1 DEF ThinkAction
<1>9. CASE ThinkRaises
  BY <1>9, <1>1 DEF ThinkRaises
<1>10. ASSUME NEW a \in Actions, RethinkAction(a) PROVE ReportIsLast'
  BY <1>10, <1>1 DEF RethinkAction
<1>11. CASE RethinkEndsRound
  BY <1>11, <1>1 DEF RethinkEndsRound
<1>12. CASE ChiefReplies \/ ChiefCatches \/ Legacy
  BY <1>12, <1>1 DEF ChiefReplies, ChiefCatches, Legacy
<1>13. CASE UNCHANGED reactVars
  BY <1>13, <1>1 DEF reactVars
<1> QED
  BY <1>2, <1>3, <1>5, <1>6, <1>7, <1>8, <1>9, <1>10, <1>11, <1>12, <1>13
     DEF ReactNext, Terminated

\* The result is written by the steps that end the run, and they end it on
\* completed evidence only after the report was tried.
LEMMA EndingStep ==
    ReactTypeOK /\ NoResultYet /\ CompletedIsReported /\ [ReactNext]_reactVars
      => NoResultYet' /\ CompletedIsReported'
<1> SUFFICES ASSUME ReactTypeOK, NoResultYet, CompletedIsReported,
                    [ReactNext]_reactVars
             PROVE  NoResultYet' /\ CompletedIsReported'
  OBVIOUS
<1> DEFINE Ending == {"done", "legacy", "end"}
<1>1. ASSUME UNCHANGED <<ev, used, result>>,
             pc' \in Ending => pc \in Ending \/ result = EmptyDict,
             pc' \notin Ending => pc \notin Ending
      PROVE  NoResultYet' /\ CompletedIsReported'
  BY <1>1 DEF NoResultYet, CompletedIsReported, Over, Completed
<1>2. ASSUME NEW r \in ResultsOf(action) \cup {Failed}, ActReturns(r)
      PROVE  NoResultYet' /\ CompletedIsReported'
  <2>1. CASE action = Report /\ r.success
    <3>1. Report \in used' /\ pc' = "done"
      BY <1>2, <2>1, SuccessIsKept DEF ActReturns, Finish
    <3> QED
      BY <3>1 DEF NoResultYet, CompletedIsReported
  <2>2. CASE ~(action = Report /\ r.success)
    <3>1. pc' \in {"think", "exhausted"} /\ result' = result /\ pc = "act"
      BY <1>2, <2>2, NextRoundTyped DEF ActReturns
    <3> QED
      BY <3>1 DEF NoResultYet, CompletedIsReported, Over
  <2> QED
    BY <2>1, <2>2
<1>3. CASE ActRaises
  <2>1. pc' \in {"think", "exhausted", "rethink"} /\ result' = result /\ pc = "act"
    BY <1>3, NextRoundTyped DEF ActRaises
  <2> QED
    BY <2>1 DEF NoResultYet, CompletedIsReported, Over
<1>4. ASSUME NEW success, LastReport(success), pc \in {"answer", "exhausted"}
      PROVE  NoResultYet' /\ CompletedIsReported'
  <2>1. /\ pc' \in {"done", "raised"}
        /\ pc' = "raised" => UNCHANGED result
        /\ \/ Report \in used' \/ DOMAIN ev' = {}
           \/ ~Completed(ev) /\ UNCHANGED ev
    BY <1>4, LastReportKeeps
  <2>2. Completed(ev') => Report \in used'
    BY <2>1 DEF Completed, Get, EmptyDict
  <2>3. NoResultYet'
    BY <1>4, <2>1 DEF NoResultYet
  <2> QED
    BY <2>2, <2>3 DEF CompletedIsReported
<1>5. CASE Answer
  BY <1>5, <1>4 DEF Answer
<1>6. CASE Exhausted
  BY <1>6, <1>4 DEF Exhausted
<1>7. CASE ThinkAnswer
  BY <1>7, <1>1 DEF ThinkAnswer
<1>8. ASSUME NEW a \in Actions, ThinkAction(a)
      PROVE  NoResultYet' /\ CompletedIsReported'
  BY <1>8, <1>1 DEF ThinkAction
<1>9. CASE ThinkRaises
  BY <1>9, <1>1 DEF ThinkRaises
<1>10. ASSUME NEW a \in Actions, RethinkAction(a)
       PROVE  NoResultYet' /\ CompletedIsReported'
  BY <1>10, <1>1 DEF RethinkAction
<1>11. CASE RethinkEndsRound
  BY <1>11, <1>1, NextRoundTyped DEF RethinkEndsRound
<1>12. CASE ChiefReplies \/ Legacy
  BY <1>12, <1>1 DEF ChiefReplies, Legacy
<1>13. CASE ChiefCatches
  <2>1. result = EmptyDict
    BY <1>13 DEF ChiefCatches, NoResultYet
  <2> QED
    BY <1>13, <1>1, <2>1 DEF ChiefCatches
<1>14. CASE UNCHANGED reactVars
  BY <1>14, <1>1 DEF reactVars
<1> QED
  BY <1>2, <1>3, <1>5, <1>6, <1>7, <1>8, <1>9, <1>10, <1>11, <1>12, <1>13,
     <1>14 DEF ReactNext, Terminated

\* A refusing model is led one stage further in each round: the fallback is
\* never deferred, because the first success of the pipeline completes it.
LEMMA CalmStep == RunInv /\ [ReactNext]_reactVars => CalmRun'
<1> SUFFICES ASSUME RunInv, [ReactNext]_reactVars, calm' PROVE CalmRun'
  BY DEF CalmRun
<1>t. ReactTypeOK /\ CalmRun
  BY DEF RunInv
<1>1. CASE ThinkAnswer \/ ThinkRaises \/ ActRaises
  BY <1>1 DEF ThinkAnswer, ThinkRaises, ActRaises
<1>2. ASSUME NEW a \in Actions, ThinkAction(a) PROVE CalmRun'
  <2>1. calm /\ a = NoAction /\ pc = "think" /\ pc' = "act"
    BY <1>2 DEF ThinkAction
  <2>2. action' = PickFallback /\ UNCHANGED <<round, used, ev>>
    BY <1>2, <2>1 DEF ThinkAction
  <2>3. Piped(round) /\ \A t \in DOMAIN ev : ev[t].success
    BY <1>t, <2>1 DEF CalmRun, Collecting
  <2>4. Piped(round)' /\ action' = PickFallback'
    BY <2>2, <2>3 DEF Piped, PickFallback
  <2> QED
    BY <2>1, <2>2, <2>3, <2>4 DEF CalmRun, Collecting
<1>3. ASSUME NEW r \in ResultsOf(action) \cup {Failed}, ActReturns(r)
      PROVE  CalmRun'
  <2>1. calm /\ pc = "act" /\ Call(action, r) /\ (r.success \/ Deferred(action))
    BY <1>3 DEF ActReturns
  <2>2. /\ Piped(round) /\ action = PickFallback
        /\ \A t \in DOMAIN ev : ev[t].success
    BY <1>t, <2>1 DEF CalmRun, Collecting
  <2>3. ~Deferred(action)
    <3>1. action = Report => Traffic \in DOMAIN ev
      BY <2>2, PipelineNames DEF PickFallback
    <3>2. action = Report => Completed(ev)
      BY <3>1, <2>2, <1>t, TrafficCompletes DEF ReactTypeOK
    <3> QED
      BY <3>2 DEF Deferred
  <2>4. /\ r.success /\ action \in used' /\ DOMAIN ev' = DOMAIN ev \cup {action}
        /\ ev'[action] = r
    BY <2>1, <2>3, SuccessIsKept
  <2>5. Kept(action)
    BY <1>3, <1>t, CallKeeps DEF ActReturns
  <2>6. \A t \in DOMAIN ev' : ev'[t].success
    BY <2>2, <2>4, <2>5 DEF Kept
  <2>7. CASE action = Report
    BY <1>3, <2>4, <2>7 DEF ActReturns, Finish, CalmRun, Collecting
  <2>8. CASE action # Report
    <3>1. NextRound
      BY <1>3, <2>8 DEF ActReturns
    <3>2. round \in 1 .. MaxRounds /\ MaxRounds \in Nat
      BY <1>t, RoundsAssumption DEF ReactTypeOK
    <3>3. /\ Traffic \in DOMAIN ev'
          /\ round > 1 => Routing \in DOMAIN ev'
          /\ round > 2 => Joint \in DOMAIN ev'
          /\ round =< 3
      <4>1. CASE action = Traffic
        <5>1. Traffic \notin DOMAIN ev
          BY <2>2, <4>1, PipelineNames DEF PickFallback
        <5>2. round = 1
          BY <5>1, <2>2, <3>2 DEF Piped
        <5> QED
          BY <2>4, <4>1, <5>2
      <4>2. CASE action = Routing
        <5>1. Traffic \in DOMAIN ev /\ Routing \notin DOMAIN ev
          BY <2>2, <4>2, PipelineNames DEF PickFallback
        <5>2. round =< 2
          BY <5>1, <2>2, <3>2 DEF Piped
        <5> QED
          BY <2>4, <3>2, <4>2, <5>1, <5>2
      <4>3. CASE action = Joint
        <5>1. /\ Traffic \in DOMAIN ev /\ Routing \in DOMAIN ev
              /\ Joint \notin DOMAIN ev
          BY <2>2, <4>3, PipelineNames DEF PickFallback
        <5>2. round =< 3
          BY <5>1, <2>2, <3>2 DEF Piped
        <5> QED
          BY <2>4, <4>3, <5>1, <5>2
      <4> QED
        BY <2>2, <2>8, <4>1, <4>2, <4>3, FallbackIsTool
    <3>4. pc' = "think" => Piped(round)'
      <4> SUFFICES ASSUME pc' = "think" PROVE Piped(round)'
        OBVIOUS
      <4>1. round' = round + 1
        BY <3>1, <1>t, NextRoundTyped
      <4> QED
        BY <3>2, <3>3, <4>1 DEF Piped
    <3>5. pc' = "exhausted" => Piped(MaxRounds + 1)'
      <4> SUFFICES ASSUME pc' = "exhausted" PROVE Piped(MaxRounds + 1)'
        OBVIOUS
      <4>1. round = MaxRounds
        BY <3>1, <1>t, NextRoundTyped
      <4> QED
        BY <3>2, <3>3, <4>1 DEF Piped
    <3>6. pc' \in {"think", "exhausted"}
      BY <3>1, <1>t, NextRoundTyped
    <3> QED
      BY <2>6, <3>4, <3>5, <3>6 DEF CalmRun, Collecting
  <2> QED
    BY <2>7, <2>8
<1>4. ASSUME NEW a \in Actions, RethinkAction(a) PROVE CalmRun'
  BY <1>4, <1>t DEF RethinkAction, CalmRun
<1>5. CASE RethinkEndsRound \/ Answer
  BY <1>5, <1>t DEF RethinkEndsRound, Answer, CalmRun
<1>6. CASE Exhausted
  <2>1. calm /\ pc = "exhausted" /\ LastReport(FALSE)
    BY <1>6 DEF Exhausted
  <2>2. Traffic \in DOMAIN ev /\ ev[Traffic].success
    BY <1>t, <2>1, RoundsAssumption DEF CalmRun, Collecting, Piped
  <2>3. Completed(ev)
    BY <2>2, <1>t, TrafficCompletes DEF ReactTypeOK
  <2>4. Traffic \in DOMAIN ev'
    BY <2>1, <2>2, <1>t, LastReportKeeps, PipelineNames DEF Kept
  <2>5. Report \in used' /\ pc' \in {"done", "raised"}
    BY <2>1, <2>3, <2>4, <1>t, LastReportKeeps
  <2> QED
    BY <2>5 DEF CalmRun, Collecting
<1>7. CASE ChiefReplies \/ ChiefCatches \/ Legacy
  BY <1>7, <1>t DEF ChiefReplies, ChiefCatches, Legacy, CalmRun, Collecting
<1>8. CASE UNCHANGED reactVars
  <2>1. UNCHANGED <<pc, round, action, used, ev, calm>>
    BY <1>8 DEF reactVars
  <2> QED
    BY <2>1, <1>t DEF CalmRun, Collecting, Piped, PickFallback
<1> QED
  BY <1>1, <1>2, <1>3, <1>4, <1>5, <1>6, <1>7, <1>8 DEF ReactNext, Terminated

-----------------------------------------------------------------------------
(* ReactLoop: the theorems.                                                *)

LEMMA InitRunInv == ReactInit => RunInv
<1> SUFFICES ASSUME ReactInit PROVE RunInv
  OBVIOUS
<1>1. DOMAIN ev = {} /\ DOMAIN got = {}
  BY DEF ReactInit, EmptyDict
<1>2. ReactTypeOK
  BY <1>1, RoundsAssumption, RetriesAssumption DEF ReactInit, ReactTypeOK, Actions
<1> QED
  BY <1>1, <1>2
     DEF ReactInit, RunInv, NoResultYet, ReportIsLast, CompletedIsReported, Over,
         CalmRun, Collecting, Piped

LEMMA AlwaysRunInv == ReactSpec => []RunInv
<1>1. RunInv /\ [ReactNext]_reactVars => RunInv'
  BY ReactTypeStep, ReportIsLastStep, EndingStep, CalmStep DEF RunInv
<1> QED
  BY <1>1, InitRunInv, PTL DEF ReactSpec

\* The variables of a run keep their shape for any number of rounds, retries
\* and tools; the evidence and the results kept for the supervisor stay those
\* of tools that were called (ReactAgent.run).
THEOREM ReactTypeCorrect == ReactSpec => []ReactTypeOK
<1>1. RunInv => ReactTypeOK
  BY DEF RunInv
<1> QED
  BY <1>1, AlwaysRunInv, PTL

\* Nothing is collected after a written report, whatever the model asks for.
THEOREM ReportComesLast == ReactSpec => []ReportIsLast
<1>1. RunInv => ReportIsLast
  BY DEF RunInv
<1> QED
  BY <1>1, AlwaysRunInv, PTL

\* A run that ends on a completed analysis has tried to report it, however its
\* tools failed and however often they were retried.
THEOREM CompletedGetsReported == ReactSpec => []CompletedIsReported
<1>1. RunInv => CompletedIsReported
  BY DEF RunInv
<1> QED
  BY <1>1, AlwaysRunInv, PTL

\* Refusals alone lead through the pipeline to a report within four rounds, or
\* to the last call when fewer rounds are allowed.
THEOREM RefusalsGetReport == ReactSpec => []RefusalsReachReport
<1>1. RunInv => RefusalsReachReport
  <2> SUFFICES ASSUME RunInv, calm, round > 4 \/ Over PROVE Report \in used
    BY DEF RefusalsReachReport
  <2>1. ReactTypeOK /\ CalmRun
    BY DEF RunInv
  <2>2. CASE pc \notin Collecting
    BY <2>1, <2>2 DEF CalmRun
  <2>3. CASE pc \in Collecting
    <3>1. ~Over /\ round > 4
      BY <2>3 DEF Over, Collecting
    <3>2. round \in Nat /\ MaxRounds \in Nat /\ round =< MaxRounds
      BY <2>1, RoundsAssumption DEF ReactTypeOK
    <3>3. Piped(round) \/ Piped(MaxRounds + 1)
      BY <2>1, <2>3 DEF CalmRun, Collecting
    <3> QED
      BY <3>1, <3>2, <3>3 DEF Piped
  <2> QED
    BY <2>2, <2>3
<1> QED
  BY <1>1, AlwaysRunInv, PTL
=============================================================================
