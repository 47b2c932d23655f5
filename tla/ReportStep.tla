----------------------------- MODULE ReportStep -----------------------------
(***************************************************************************)
(* One step of the report agent (agents/report_agent.py, ReportAgent.step  *)
(* and generate_report_html) and the delivery of its page by the workflow  *)
(* engine (run_legacy_report).                                             *)
(*                                                                         *)
(* An attempt probes the network in a thread of its own and then asks the  *)
(* language model in a thread of the executor.  Two timers run: an inner   *)
(* one over the call, an outer watchdog over the whole attempt.  A call    *)
(* that is given up goes on in its thread.  Transient errors are retried   *)
(* after a pause; whatever else happens ends in a deterministic page, or   *)
(* in a failure when REPORT_REQUIRE_LLM forbids that page.                 *)
(*                                                                         *)
(* Time is counted in ticks; the page is abstracted to where it came from. *)
(***************************************************************************)
EXTENDS Integers

CONSTANTS
    Retries,       \* REPORT_LLM_RETRIES, the attempts of one step
    LLMTimeout,    \* REPORT_LLM_TIMEOUT_S
    Margin,        \* what the watchdog waits longer than that
    ProbeTimeout,  \* the limit of the probes
    ProbeMax,      \* the longest the probing thread may run
    Backoff        \* REPORT_LLM_RETRY_BACKOFF_S

ASSUME ReportAssumption ==
    /\ Retries \in Nat \ {0}
    /\ LLMTimeout \in Nat /\ Margin \in Nat
    /\ ProbeTimeout \in Nat /\ ProbeMax \in Nat /\ ProbeTimeout =< ProbeMax
    /\ Backoff \in Nat

VARIABLES
    disabled,   \* BGP_TRACER_DISABLE_LLM_REPORT
    require,    \* REPORT_REQUIRE_LLM
    probed,     \* the board holds findings of earlier probes
    pc,         \* where the step is
    attempt,    \* the attempt under way
    clock,      \* ticks since the attempt, or the pause after it, began
    asked,      \* the clock when the model was asked
    live,       \* calls given up whose threads still run
    elapsed,    \* ticks since the step began
    board,      \* section report of the blackboard
    result,     \* the TaskResult of the step
    delivered   \* the page run_legacy_report hands to the engine

config == <<disabled, require, probed>>
timing == <<attempt, clock, asked, live, elapsed>>
vars == <<config, pc, timing, board, result, delivered>>

Watchdog == LLMTimeout + Margin

\* The counters stop one above what the properties allow.
LongestAttempt == IF ProbeMax > Watchdog THEN ProbeMax ELSE Watchdog
LongestStep == Retries * LongestAttempt
                 + Backoff * ((Retries * (Retries - 1)) \div 2)
CountPast(n, bound) == IF n > bound THEN n ELSE n + 1

Init ==
    /\ disabled \in BOOLEAN /\ require \in BOOLEAN /\ probed \in BOOLEAN
    /\ pc = "start"
    /\ attempt = 0 /\ clock = 0 /\ asked = 0 /\ live = 0 /\ elapsed = 0
    /\ board = [html |-> "none", success |-> FALSE, usedFallback |-> "unset",
                reason |-> "none"]
    /\ result = "none"
    /\ delivered = "none"

----------------------------------------------------------------------------
(* How a step ends.                                                        *)

Return(r) == result' = r /\ pc' = "returned"

\* The deterministic page; some branches leave the reason unwritten.
WriteFallback(reason) ==
    /\ board' = [html |-> "fallback", success |-> TRUE, usedFallback |-> "yes",
                 reason |-> IF reason = "none" THEN board.reason ELSE reason]
    /\ Return("success")

\* report_fallback_disabled.
Refuse(reason) ==
    /\ board' = [board EXCEPT !.usedFallback = "no", !.reason = reason]
    /\ Return("failure")

\* except Exception: only an AttributeError of the renderer is caught.
ExceptionBranch ==
    \/ require /\ Refuse("llm_exception")
    \/ ~require /\ WriteFallback("none")
    \/ ~require /\ Return("failure") /\ UNCHANGED board
    \/ ~require /\ Return("raised") /\ UNCHANGED board

\* After the last time-out; a renderer that raises leads to the branch above.
TimeoutBranch ==
    \/ require /\ Refuse("llm_timeout")
    \/ ~require /\ WriteFallback("llm_timeout")
    \/ ~require /\ ExceptionBranch

\* A page that is no document; both branches disagree about the reason.
InvalidBranch ==
    \/ require /\ Refuse("llm_empty_or_invalid")
    \/ ~require /\ WriteFallback("llm_timeout")
    \/ ~require /\ ExceptionBranch

BudgetBranch ==
    \/ require /\ Refuse("budget_exhausted")
    \/ ~require /\ WriteFallback("budget_exhausted")
    \/ ~require /\ Return("raised") /\ UNCHANGED board

\* Mutant: the page is returned and not written to the board.
MutAcceptUnwritten == Return("success") /\ UNCHANGED board

\* The page of the model, with used_fallback left as it is.
AcceptPage ==
    /\ board' = [board EXCEPT !.html = "model", !.success = TRUE]
    /\ Return("success")

\* An error of the attempt: the transient ones, which a spent budget is when
\* its message holds a marker, are retried after a pause; the last one falls
\* to the branch of its kind.
Retry == pc' = "backoff" /\ clock' = 0 /\ UNCHANGED <<board, result>>

FallTo(kind) ==
    /\ \/ kind = "timeout" /\ TimeoutBranch
       \/ kind = "budget" /\ BudgetBranch
       \/ kind \in {"transient", "other"} /\ ExceptionBranch
    /\ UNCHANGED clock

\* Mutant: the last attempt allowed is followed by one more.
MutRaise(kind) ==
    \/ kind # "other" /\ attempt =< Retries /\ Retry
    \/ kind \in {"budget", "other"} /\ FallTo(kind)
    \/ attempt > Retries /\ FallTo(kind)

Raise(kind) ==
    \/ kind # "other" /\ attempt < Retries /\ Retry
    \/ kind \in {"budget", "other"} /\ FallTo(kind)
    \/ attempt >= Retries /\ FallTo(kind)

----------------------------------------------------------------------------
(* The step.                                                               *)

\* The switch is read first, whatever REPORT_REQUIRE_LLM says; a renderer
\* that raises is not caught here.
SkipModel ==
    /\ pc = "start" /\ disabled
    /\ \/ WriteFallback("none")
       \/ Return("raised") /\ UNCHANGED board
    /\ UNCHANGED <<config, timing, delivered>>

\* No ASN on the board: failure, and nothing is written.
NoAsn ==
    /\ pc = "start" /\ ~disabled
    /\ Return("failure")
    /\ UNCHANGED <<config, timing, board, delivered>>

PreparationRaises ==
    /\ pc = "start" /\ ~disabled
    /\ ExceptionBranch
    /\ UNCHANGED <<config, timing, delivered>>

\* Mutant: every attempt is the first one.
MutBeginAttempt ==
    /\ \/ pc = "start" /\ ~disabled
       \/ pc = "backoff" /\ clock = Backoff * attempt
    /\ attempt' = 1
    /\ clock' = 0 /\ asked' = 0
    /\ pc' \in IF probed THEN {"calling"} ELSE {"calling", "probing"}
    /\ UNCHANGED <<config, live, elapsed, board, result, delivered>>

\* Findings on the board replace the probes; there may be nothing to probe.
BeginAttempt ==
    /\ \/ pc = "start" /\ ~disabled
       \/ pc = "backoff" /\ clock = Backoff * attempt
    /\ attempt' = attempt + 1
    /\ clock' = 0 /\ asked' = 0
    /\ pc' \in IF probed THEN {"calling"} ELSE {"calling", "probing"}
    /\ UNCHANGED <<config, live, elapsed, board, result, delivered>>

\* The findings, or none after an AttributeError.
ProbesReturn ==
    /\ pc = "probing"
    /\ pc' = "calling"
    /\ asked' = clock
    /\ UNCHANGED <<config, attempt, clock, live, elapsed, board, result, delivered>>

ProbesRaise ==
    /\ pc = "probing"
    /\ \E kind \in {"timeout", "transient", "other"} : Raise(kind)
    /\ UNCHANGED <<config, attempt, asked, live, elapsed, delivered>>

\* The limit of the probes or the watchdog cancels the wait, and leaving the
\* pool waits for its thread with the event loop stopped.
ProbesTimeOut ==
    /\ pc = "probing" /\ clock \in {ProbeTimeout, Watchdog}
    /\ pc' = "blocked"
    /\ UNCHANGED <<config, timing, board, result, delivered>>

ProbesEndLate ==
    /\ pc = "blocked"
    /\ Raise("timeout")
    /\ UNCHANGED <<config, attempt, asked, live, elapsed, delivered>>

\* The answer after post-processing: a document (an unfinished one is closed
\* and taken), or something that is none, a time-out of the provider included.
ModelAnswers ==
    /\ pc = "calling"
    /\ AcceptPage \/ InvalidBranch
    /\ UNCHANGED <<config, timing, delivered>>

ModelRaises ==
    /\ pc = "calling"
    /\ \E kind \in {"transient", "budget", "other"} : Raise(kind)
    /\ UNCHANGED <<config, attempt, asked, live, elapsed, delivered>>

\* The inner timer: the call goes on unheard, the page is empty, no retry.
CallTimesOut ==
    /\ pc = "calling" /\ clock = asked + LLMTimeout
    /\ live' = CountPast(live, Retries)
    /\ InvalidBranch
    /\ UNCHANGED <<config, attempt, clock, asked, elapsed, delivered>>

\* The outer timer cancels the attempt while its call goes on.
WatchdogFires ==
    /\ pc = "calling" /\ clock = Watchdog
    /\ live' = CountPast(live, Retries)
    /\ Raise("timeout")
    /\ UNCHANGED <<config, attempt, asked, elapsed, delivered>>

\* A call that was given up ends, and nobody takes its answer.
AbandonedCallEnds ==
    /\ live > 0
    /\ live' = live - 1
    /\ UNCHANGED <<config, pc, attempt, clock, asked, elapsed, board, result, delivered>>

\* Time passes up to the next timer that is due.
Tick ==
    /\ \/ pc = "probing" /\ clock < ProbeTimeout /\ clock < Watchdog
       \/ pc = "blocked" /\ clock < ProbeMax
       \/ pc = "calling" /\ clock < Watchdog /\ clock < asked + LLMTimeout
       \/ pc = "backoff" /\ clock < Backoff * attempt
    /\ clock' = clock + 1
    /\ elapsed' = CountPast(elapsed, LongestStep)
    /\ UNCHANGED <<config, pc, attempt, asked, live, board, result, delivered>>

\* run_legacy_report: the page on the board after a success, otherwise the
\* deterministic renderer, which may raise.
Deliver ==
    /\ pc = "returned"
    /\ pc' = "delivered"
    /\ \/ result = "raised" /\ delivered' = "raised"
       \/ result = "success" /\ board.html # "none" /\ delivered' = board.html
       \/ /\ ~(result = "success" /\ board.html # "none") /\ result # "raised"
          /\ \/ delivered' = "fallback"
             \/ delivered' = IF require THEN "raised" ELSE "empty"
    /\ UNCHANGED <<config, timing, board, result>>

\* What the event loop and the clock do by themselves.
Clockwork ==
    \/ SkipModel \/ NoAsn \/ PreparationRaises \/ BeginAttempt
    \/ ProbesTimeOut \/ CallTimesOut \/ WatchdogFires \/ Tick \/ Deliver
    \/ pc = "blocked" /\ clock = ProbeMax /\ ProbesEndLate

\* What the network and the provider may do, and need not.
Outside ==
    \/ ProbesReturn \/ ProbesRaise \/ ProbesEndLate
    \/ ModelAnswers \/ ModelRaises \/ AbandonedCallEnds

Next == Clockwork \/ Outside

Spec == Init /\ [][Next]_vars /\ WF_vars(Clockwork)

----------------------------------------------------------------------------
(* Properties.                                                             *)

\* The shape of the state of a step.
TypeOK ==
    /\ config \in BOOLEAN \X BOOLEAN \X BOOLEAN
    /\ pc \in {"start", "probing", "blocked", "calling", "backoff",
               "returned", "delivered"}
    /\ attempt \in 0 .. Retries
    /\ clock \in Nat /\ asked \in Nat /\ live \in Nat /\ elapsed \in Nat
    /\ board \in [html : {"none", "model", "fallback"}, success : BOOLEAN,
                  usedFallback : {"unset", "yes", "no"},
                  reason : {"none", "llm_timeout", "llm_empty_or_invalid",
                            "budget_exhausted", "llm_exception"}]
    /\ result \in {"none", "success", "failure", "raised"}
    /\ delivered \in {"none", "model", "fallback", "empty", "raised"}

\* The result of the step and the board agree: a success has its page there, a
\* step without success leaves none behind, and the page is marked as a
\* fallback exactly when it is one (the writes of ReportAgent.step).
BoardMatchesResult ==
    pc \in {"returned", "delivered"} =>
        /\ result = "success" <=> board.html # "none"
        /\ board.success <=> board.html # "none"
        /\ board.usedFallback = "yes" <=> board.html = "fallback"

\* With REPORT_REQUIRE_LLM and the model not switched off, no path of the step
\* leaves a deterministic page (should_use_fallback before every renderer).
RequiredPageIsTheModels ==
    require /\ ~disabled => board.html # "fallback"

\* The step takes no longer than its attempts and pauses, although the probes
\* stop the event loop and the watchdog with it.  Sum of the pauses: Backoff
\* times 1 + 2 + ... + (Retries - 1).
TimeIsBounded == elapsed =< LongestStep /\ live =< Retries

\* However long the provider stays silent, the engine gets its answer
\* (the two timers and the bounded retries).
StepReturns == <>(pc = "delivered")
=============================================================================
