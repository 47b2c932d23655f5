---------------------------- MODULE ChiefProofs -----------------------------
(***************************************************************************)
(* Proofs about what the chief agent's runs hand out.                      *)
(*                                                                         *)
(* A step of the report agent (ReportStep), for any number of attempts and *)
(* any time limits: the invariant adds to the shape of the state that      *)
(* nothing is written before the step returns, which is why the board and  *)
(* the result cannot disagree after any number of retries; a second one    *)
(* says how much time may be spent at each place.                          *)
(*                                                                         *)
(* The two-phase runs on one window (TwoPhase), for any number of runs:    *)
(* who writes without being crossed is alone with the file under the       *)
(* temporary name, so the cache it is moved to holds what it measured.     *)
(***************************************************************************)
EXTENDS ReportStep, TwoPhase, TLAPS

-----------------------------------------------------------------------------
(* ReportStep: the invariant of a step.                                    *)

\* The board before the step returns.
Blank == [html |-> "none", success |-> FALSE, usedFallback |-> "unset",
          reason |-> "none"]

Boards == [html : {"none", "model", "fallback"}, success : BOOLEAN,
           usedFallback : {"unset", "yes", "no"},
           reason : {"none", "llm_timeout", "llm_empty_or_invalid",
                     "budget_exhausted", "llm_exception"}]

Running == {"start", "probing", "blocked", "calling", "backoff"}

\* Nothing is written and nothing is returned while the step runs.
BlankWhileRunning == pc \in Running => board = Blank /\ result = "none"

\* A pause is made only while attempts are left.
AttemptLeft ==
    /\ pc = "start" => attempt = 0
    /\ pc = "backoff" => attempt < Retries

\* What a branch that ends the step leaves behind.
Ended ==
    /\ pc' = "returned"
    /\ board' \in Boards
    /\ result' \in {"success", "failure", "raised"}
    /\ result' = "success" <=> board'.html # "none"
    /\ board'.success <=> board'.html # "none"
    /\ board'.usedFallback = "yes" <=> board'.html = "fallback"

\* What any outcome of an attempt leaves behind.
Settled ==
    \/ Ended /\ (require => board'.html # "fallback")
    \/ /\ pc' = "backoff" /\ attempt < Retries
       /\ board' = board /\ result' = result

IInv ==
    /\ TypeOK
    /\ BlankWhileRunning
    /\ AttemptLeft
    /\ BoardMatchesResult
    /\ RequiredPageIsTheModels

-----------------------------------------------------------------------------
(* ReportStep: the branches, each from a blank board.                      *)

LEMMA FallbackEnds ==
    ASSUME NEW reason \in {"none", "llm_timeout", "budget_exhausted"},
           board = Blank, WriteFallback(reason)
    PROVE  Ended
BY DEF Blank, WriteFallback, Return, Ended, Boards

LEMMA RefusalEnds ==
    ASSUME NEW reason \in {"llm_timeout", "llm_empty_or_invalid",
                           "budget_exhausted", "llm_exception"},
           board = Blank, Refuse(reason)
    PROVE  Ended /\ board'.html = "none"
BY DEF Blank, Refuse, Return, Ended, Boards

LEMMA BareReturnEnds ==
    ASSUME board = Blank, NEW r \in {"failure", "raised"},
           Return(r), UNCHANGED board
    PROVE  Ended /\ board'.html = "none"
BY DEF Blank, Return, Ended, Boards

LEMMA ExceptionBranchSettles ==
    ASSUME board = Blank, ExceptionBranch
    PROVE  Settled
BY FallbackEnds, RefusalEnds, BareReturnEnds DEF ExceptionBranch, Settled

LEMMA TimeoutBranchSettles ==
    ASSUME board = Blank, TimeoutBranch
    PROVE  Settled
BY FallbackEnds, RefusalEnds, ExceptionBranchSettles DEF TimeoutBranch, Settled

LEMMA InvalidBranchSettles ==
    ASSUME board = Blank, InvalidBranch
    PROVE  Settled
BY FallbackEnds, RefusalEnds, ExceptionBranchSettles DEF InvalidBranch, Settled

LEMMA BudgetBranchSettles ==
    ASSUME board = Blank, BudgetBranch
    PROVE  Settled
BY FallbackEnds, RefusalEnds, BareReturnEnds DEF BudgetBranch, Settled

LEMMA AcceptPageSettles ==
    ASSUME board = Blank, AcceptPage
    PROVE  Settled
BY DEF Blank, AcceptPage, Return, Ended, Boards, Settled

LEMMA RaiseSettles ==
    ASSUME board = Blank, NEW kind, Raise(kind)
    PROVE  Settled /\ clock' \in {0, clock}
<1>1. CASE attempt < Retries /\ Retry
  BY <1>1 DEF Retry, Settled
<1>2. CASE FallTo(kind)
  BY <1>2, TimeoutBranchSettles, BudgetBranchSettles, ExceptionBranchSettles
     DEF FallTo
<1> QED
  BY <1>1, <1>2 DEF Raise

-----------------------------------------------------------------------------
(* The invariant.                                                          *)

\* A settled outcome of a running step keeps the parts about the board.
LEMMA SettledKeepsBoard ==
    ASSUME IInv, pc \in Running, Settled, UNCHANGED config,
           attempt' = attempt
    PROVE  /\ pc' \in {"returned", "backoff"}
           /\ board' \in Boards
           /\ result' \in {"none", "success", "failure", "raised"}
           /\ BlankWhileRunning'
           /\ AttemptLeft'
           /\ BoardMatchesResult'
           /\ RequiredPageIsTheModels'
<1>1. CASE Ended /\ (require => board'.html # "fallback")
  BY <1>1 DEF Ended, Running, BlankWhileRunning, AttemptLeft,
              BoardMatchesResult,
              RequiredPageIsTheModels, config
<1>2. CASE /\ pc' = "backoff" /\ attempt < Retries
           /\ board' = board /\ result' = result
  BY <1>2 DEF IInv, TypeOK, Running, Blank, Boards, BlankWhileRunning,
              AttemptLeft,
              BoardMatchesResult, RequiredPageIsTheModels, config
<1> QED
  BY <1>1, <1>2 DEF Settled

LEMMA CountPastIsNat ==
    ASSUME NEW n \in Nat, NEW bound
    PROVE  CountPast(n, bound) \in Nat
BY DEF CountPast

LEMMA InitIInv == Init => IInv
BY ReportAssumption
   DEF Init, IInv, TypeOK, BlankWhileRunning, AttemptLeft, Blank, Running,
       config,
       BoardMatchesResult, RequiredPageIsTheModels

\* A step that settles an attempt: the counters it touches stay numbers.
LEMMA SettlingKeepsIInv ==
    ASSUME IInv, pc \in Running, Settled, UNCHANGED config,
           attempt' = attempt, UNCHANGED delivered,
           clock' \in Nat, asked' \in Nat, live' \in Nat, elapsed' \in Nat
    PROVE  IInv'
BY SettledKeepsBoard DEF IInv, TypeOK, Boards, config

\* A step that leaves the board and the result alone and goes on running.
LEMMA RunningOnKeepsIInv ==
    ASSUME IInv, pc \in Running, pc' \in Running \ {"start", "backoff"},
           UNCHANGED config,
           UNCHANGED <<board, result, delivered>>, attempt' \in 0 .. Retries,
           clock' \in Nat, asked' \in Nat, live' \in Nat, elapsed' \in Nat
    PROVE  IInv'
BY DEF IInv, TypeOK, Running, BlankWhileRunning, AttemptLeft,
       BoardMatchesResult,
       RequiredPageIsTheModels, config

LEMMA NextIInv == IInv /\ [Next]_vars => IInv'
<1> SUFFICES ASSUME IInv, [Next]_vars PROVE IInv'
  OBVIOUS
<1>t. /\ attempt \in 0 .. Retries /\ clock \in Nat /\ asked \in Nat
      /\ live \in Nat /\ elapsed \in Nat
  BY DEF IInv, TypeOK
<1>b. pc \in Running => board = Blank
  BY DEF IInv, BlankWhileRunning
<1>1. CASE SkipModel
  <2>1. board = Blank /\ pc \in Running
    BY <1>1, <1>b DEF SkipModel, Running
  <2>2. Ended
    BY <1>1, <2>1, FallbackEnds, BareReturnEnds DEF SkipModel
  <2> QED
    BY <1>1, <2>1, <2>2, <1>t
       DEF SkipModel, Ended, IInv, TypeOK, Boards, Running,
           BlankWhileRunning, AttemptLeft,
           BoardMatchesResult, RequiredPageIsTheModels, config, timing
<1>2. CASE NoAsn
  <2>1. pc \in Running /\ Settled
    BY <1>2, <1>b, BareReturnEnds DEF NoAsn, Running, Settled
  <2> QED
    BY <1>2, <2>1, <1>t, SettlingKeepsIInv DEF NoAsn, timing
<1>3. CASE PreparationRaises
  <2>1. pc \in Running /\ Settled
    BY <1>3, <1>b, ExceptionBranchSettles DEF PreparationRaises, Running
  <2> QED
    BY <1>3, <2>1, <1>t, SettlingKeepsIInv DEF PreparationRaises, timing
<1>4. CASE BeginAttempt
  <2>1. /\ pc \in Running
        /\ pc' \in Running \ {"start", "backoff"}
    BY <1>4 DEF BeginAttempt, Running
  <2>2. attempt' \in 0 .. Retries
    BY <1>4, <1>t, ReportAssumption DEF BeginAttempt, IInv, AttemptLeft
  <2> QED
    BY <1>4, <2>1, <2>2, <1>t, RunningOnKeepsIInv DEF BeginAttempt
<1>5. CASE ProbesReturn
  BY <1>5, <1>t, RunningOnKeepsIInv DEF ProbesReturn, Running
<1>6. CASE ProbesRaise
  <2>1. pc \in Running /\ Settled /\ clock' \in {0, clock}
    BY <1>6, <1>b, RaiseSettles DEF ProbesRaise, Running
  <2> QED
    BY <1>6, <2>1, <1>t, SettlingKeepsIInv DEF ProbesRaise
<1>7. CASE ProbesTimeOut
  BY <1>7, <1>t, RunningOnKeepsIInv DEF ProbesTimeOut, Running, timing
<1>8. CASE ProbesEndLate
  <2>1. pc \in Running /\ Settled /\ clock' \in {0, clock}
    BY <1>8, <1>b, RaiseSettles DEF ProbesEndLate, Running
  <2> QED
    BY <1>8, <2>1, <1>t, SettlingKeepsIInv DEF ProbesEndLate
<1>9. CASE ModelAnswers
  <2>1. pc \in Running /\ Settled
    BY <1>9, <1>b, AcceptPageSettles, InvalidBranchSettles
       DEF ModelAnswers, Running
  <2> QED
    BY <1>9, <2>1, <1>t, SettlingKeepsIInv DEF ModelAnswers, timing
<1>10. CASE ModelRaises
  <2>1. pc \in Running /\ Settled /\ clock' \in {0, clock}
    BY <1>10, <1>b, RaiseSettles DEF ModelRaises, Running
  <2> QED
    BY <1>10, <2>1, <1>t, SettlingKeepsIInv DEF ModelRaises
<1>11. CASE CallTimesOut
  <2>1. pc \in Running /\ Settled
    BY <1>11, <1>b, InvalidBranchSettles DEF CallTimesOut, Running
  <2> QED
    BY <1>11, <2>1, <1>t, CountPastIsNat, SettlingKeepsIInv DEF CallTimesOut
<1>12. CASE WatchdogFires
  <2>1. pc \in Running /\ Settled /\ clock' \in {0, clock}
    BY <1>12, <1>b, RaiseSettles DEF WatchdogFires, Running
  <2> QED
    BY <1>12, <2>1, <1>t, CountPastIsNat, SettlingKeepsIInv DEF WatchdogFires
<1>13. CASE AbandonedCallEnds
  <2>1. live' \in Nat
    BY <1>13, <1>t DEF AbandonedCallEnds
  <2> QED
    BY <1>13, <2>1
       DEF AbandonedCallEnds, IInv, TypeOK, BlankWhileRunning, AttemptLeft,
           Running,
           BoardMatchesResult, RequiredPageIsTheModels, config
<1>14. CASE Tick
  <2>1. pc \in Running /\ clock' \in Nat /\ elapsed' \in Nat
    BY <1>14, <1>t, CountPastIsNat DEF Tick, Running
  <2> QED
    BY <1>14, <2>1, <1>t
       DEF Tick, IInv, TypeOK, Running, BlankWhileRunning, AttemptLeft,
           BoardMatchesResult, RequiredPageIsTheModels, config
<1>15. CASE Deliver
  BY <1>15
     DEF Deliver, IInv, TypeOK, BlankWhileRunning, AttemptLeft, Running, Blank,
         BoardMatchesResult, RequiredPageIsTheModels, config, timing
<1>16. CASE UNCHANGED vars
  BY <1>16
     DEF vars, IInv, TypeOK, BlankWhileRunning, AttemptLeft, Running,
         BoardMatchesResult, RequiredPageIsTheModels, config, timing
<1> QED
  BY <1>1, <1>2, <1>3, <1>4, <1>5, <1>6, <1>7, <1>8, <1>9, <1>10, <1>11,
     <1>12, <1>13, <1>14, <1>15, <1>16 DEF Next, Clockwork, Outside

LEMMA AlwaysIInv == Spec => []IInv
BY InitIInv, NextIInv, PTL DEF Spec

-----------------------------------------------------------------------------
(* The theorems.                                                           *)

\* The state of a step keeps its shape, for any limits.
THEOREM TypeCorrect == Spec => []TypeOK
<1>1. IInv => TypeOK
  BY DEF IInv
<1> QED
  BY <1>1, AlwaysIInv, PTL

\* After any number of attempts, the result of ReportAgent.step and the page
\* it left on the board agree.
THEOREM BoardAgrees == Spec => []BoardMatchesResult
<1>1. IInv => BoardMatchesResult
  BY DEF IInv
<1> QED
  BY <1>1, AlwaysIInv, PTL

\* A step that must use the model leaves no deterministic page, whichever
\* branch ends it and however often it was retried.
THEOREM RequiredPageHeld == Spec => []RequiredPageIsTheModels
<1>1. IInv => RequiredPageIsTheModels
  BY DEF IInv
<1> QED
  BY <1>1, AlwaysIInv, PTL

-----------------------------------------------------------------------------
(* ReportStep: the time a step takes.                                      *)

\* 0 + 1 + ... + (k - 1), the pauses before attempt k in units of Backoff.
Triangle(k) == (k * (k - 1)) \div 2

\* The longest that attempts whose number is k may take, the pauses between
\* the first n of them included.
Longest(k, n) == k * LongestAttempt + Backoff * Triangle(n)

\* Where a step is decides how much of its time may be spent: an attempt
\* under way counts by its clock, and an attempt that ended leaves at most one
\* call behind.
TimeInv ==
    /\ pc = "start" => elapsed = 0 /\ live = 0
    /\ pc \in {"probing", "blocked", "calling"} =>
         /\ attempt >= 1 /\ clock =< LongestAttempt
         /\ live =< attempt - 1
         /\ elapsed =< Longest(attempt - 1, attempt) + clock
    /\ pc = "backoff" =>
         /\ clock =< Backoff * attempt
         /\ live =< attempt
         /\ elapsed =< Longest(attempt, attempt) + clock
    /\ pc \in {"returned", "delivered"} =>
         live =< attempt /\ elapsed =< Longest(attempt, attempt)

LEMMA LimitsAreNat ==
    /\ LongestAttempt \in Nat /\ Watchdog \in Nat
    /\ ProbeTimeout =< LongestAttempt /\ ProbeMax =< LongestAttempt
    /\ Watchdog =< LongestAttempt
BY ReportAssumption DEF LongestAttempt, Watchdog

LEMMA TriangleGrows ==
    ASSUME NEW k \in Nat
    PROVE  Triangle(k) \in Nat /\ Triangle(k + 1) = Triangle(k) + k
<1>1. \A x \in Nat : (x + 2 * k) \div 2 = (x \div 2) + k /\ x \div 2 \in Nat
  OBVIOUS
<1>2. k * (k - 1) \in Nat
  <2>1. CASE k = 0
    BY <2>1
  <2>2. CASE k # 0
    <3>1. k - 1 \in Nat
      BY <2>2
    <3>2. \A m, n \in Nat : m * n \in Nat
      OBVIOUS
    <3> QED
      BY <3>1, <3>2
  <2> QED
    BY <2>1, <2>2
<1>3. (k + 1) * ((k + 1) - 1) = k * (k - 1) + 2 * k
  OBVIOUS
<1> QED
  BY <1>1, <1>2, <1>3 DEF Triangle

LEMMA ProductGrows ==
    ASSUME NEW c \in Nat, NEW m \in Nat, NEW n \in Nat, m =< n
    PROVE  m * c \in Nat /\ n * c \in Nat /\ m * c =< n * c
OBVIOUS

LEMMA TriangleMonotone ==
    ASSUME NEW m \in Nat, NEW n \in Nat, m =< n
    PROVE  Triangle(m) =< Triangle(n)
<1>1. m * (m - 1) =< n * (n - 1)
  <2>1. CASE m = 0
    <3>1. n * (n - 1) \in Nat
      <4>1. CASE n = 0
        BY <4>1
      <4>2. CASE n # 0
        BY <4>2, n - 1 \in Nat, ProductGrows
      <4> QED
        BY <4>1, <4>2
    <3> QED
      BY <2>1, <3>1
  <2>2. CASE m # 0
    <3>1. m - 1 \in Nat /\ n - 1 \in Nat /\ m - 1 =< n - 1
      BY <2>2
    <3>2. m * (m - 1) =< n * (m - 1)
      BY <3>1, ProductGrows
    <3>3. (m - 1) * n =< (n - 1) * n
      BY <3>1, ProductGrows
    <3> QED
      BY <3>1, <3>2, <3>3
  <2> QED
    BY <2>1, <2>2
<1>2. \A x, y \in Int : x =< y => x \div 2 =< y \div 2
  OBVIOUS
<1>3. m * (m - 1) \in Int /\ n * (n - 1) \in Int
  OBVIOUS
<1> QED
  BY <1>1, <1>2, <1>3 DEF Triangle

\* One more attempt, one more pause, and the whole step.
LEMMA LongestGrows ==
    ASSUME NEW k \in Nat, NEW n \in Nat
    PROVE  /\ Longest(k, n) \in Nat
           /\ Longest(k + 1, n) = Longest(k, n) + LongestAttempt
           /\ Longest(k, n + 1) = Longest(k, n) + Backoff * n
<1>1. LongestAttempt \in Nat /\ Backoff \in Nat
  BY LimitsAreNat, ReportAssumption
<1>2. Triangle(n) \in Nat /\ Triangle(n + 1) = Triangle(n) + n
  BY TriangleGrows
<1>3. (k + 1) * LongestAttempt = k * LongestAttempt + LongestAttempt
  BY <1>1
<1>4. Backoff * Triangle(n + 1) = Backoff * Triangle(n) + Backoff * n
  <2>1. \A a, b, c \in Nat : a * (b + c) = a * b + a * c
    OBVIOUS
  <2> QED
    BY <2>1, <1>1, <1>2
<1>5. k * LongestAttempt \in Nat /\ Backoff * Triangle(n) \in Nat
      /\ Backoff * n \in Nat
  BY <1>1, <1>2, ProductGrows
<1> QED
  BY <1>1, <1>3, <1>4, <1>5 DEF Longest

LEMMA LongestWithinStep ==
    ASSUME NEW k \in 0 .. Retries
    PROVE  Longest(k, k) =< LongestStep /\ LongestStep \in Nat
<1>1. /\ LongestAttempt \in Nat /\ Backoff \in Nat
      /\ Retries \in Nat /\ k \in Nat /\ k =< Retries
  BY LimitsAreNat, ReportAssumption
<1>2. k * LongestAttempt =< Retries * LongestAttempt
  BY <1>1, ProductGrows
<1>3. /\ Triangle(k) \in Nat /\ Triangle(Retries) \in Nat
      /\ Triangle(k) =< Triangle(Retries)
  BY <1>1, TriangleGrows, TriangleMonotone
<1>4. Triangle(k) * Backoff =< Triangle(Retries) * Backoff
  BY <1>1, <1>3, ProductGrows
<1>5. \A x, y \in Nat : x * y = y * x /\ x * y \in Nat
  OBVIOUS
<1>6. Backoff * Triangle(k) =< Backoff * Triangle(Retries)
  BY <1>1, <1>3, <1>4, <1>5
<1>7. LongestStep = Longest(Retries, Retries)
  BY DEF LongestStep, Longest, Triangle
<1> QED
  BY <1>1, <1>2, <1>3, <1>5, <1>6, <1>7 DEF Longest

-----------------------------------------------------------------------------
(* The time invariant is inductive.                                        *)

UnderWay == {"probing", "blocked", "calling"}

LEMMA CountPastByOne ==
    ASSUME NEW n \in Nat, NEW bound \in Nat
    PROVE  CountPast(n, bound) \in Nat /\ CountPast(n, bound) =< n + 1
BY DEF CountPast

\* What the branches do to pc.
LEMMA BranchesReturn ==
    /\ ExceptionBranch => pc' = "returned"
    /\ TimeoutBranch => pc' = "returned"
    /\ InvalidBranch => pc' = "returned"
    /\ BudgetBranch => pc' = "returned"
    /\ AcceptPage => pc' = "returned"
BY DEF ExceptionBranch, TimeoutBranch, InvalidBranch, BudgetBranch, AcceptPage,
       WriteFallback, Refuse, Return

LEMMA RaisePauses ==
    ASSUME NEW kind, Raise(kind)
    PROVE  pc' = "returned" \/ (pc' = "backoff" /\ clock' = 0)
BY BranchesReturn DEF Raise, Retry, FallTo

\* An attempt that ends, in a pause or for good, is counted as a whole.
LEMMA EndedAttemptIsCounted ==
    ASSUME IInv, TimeInv, pc \in UnderWay,
           pc' = "returned" \/ (pc' = "backoff" /\ clock' = 0),
           attempt' = attempt, elapsed' = elapsed,
           live' \in Nat, live' =< live + 1
    PROVE  TimeInv'
<1>1. /\ attempt \in Nat /\ clock \in Nat /\ live \in Nat /\ elapsed \in Nat
      /\ LongestAttempt \in Nat /\ Backoff \in Nat
  BY LimitsAreNat, ReportAssumption DEF IInv, TypeOK
<1>2. /\ attempt >= 1 /\ clock =< LongestAttempt /\ live =< attempt - 1
      /\ elapsed =< Longest(attempt - 1, attempt) + clock
  BY DEF TimeInv, UnderWay
<1>3. /\ attempt - 1 \in Nat /\ Longest(attempt - 1, attempt) \in Nat
      /\ Longest(attempt, attempt)
           = Longest(attempt - 1, attempt) + LongestAttempt
  <2>1. attempt - 1 \in Nat /\ (attempt - 1) + 1 = attempt
    BY <1>1, <1>2
  <2> QED
    BY <1>1, <2>1, LongestGrows
<1>4. elapsed' =< Longest(attempt', attempt') /\ live' =< attempt'
  BY <1>1, <1>2, <1>3
<1>5. CASE pc' = "returned"
  BY <1>4, <1>5 DEF TimeInv
<1>6. CASE pc' = "backoff" /\ clock' = 0
  <2>1. 0 =< Backoff * attempt
    BY <1>1, ProductGrows
  <2>2. Longest(attempt', attempt') = Longest(attempt', attempt') + clock'
    BY <1>1, <1>3, <1>6
  <2> QED
    BY <1>4, <1>6, <2>1, <2>2 DEF TimeInv
<1> QED
  BY <1>5, <1>6

\* A step that ends before its first attempt has taken no time.
LEMMA EarlyEndIsFree ==
    ASSUME IInv, TimeInv, pc = "start", pc' = "returned", UNCHANGED timing
    PROVE  TimeInv'
<1>1. attempt = 0 /\ elapsed = 0 /\ live = 0
  BY DEF IInv, AttemptLeft, TimeInv
<1>2. Longest(0, 0) \in Nat
  BY LongestGrows
<1> QED
  BY <1>1, <1>2 DEF TimeInv, timing

LEMMA InitTimeInv == Init => TimeInv
BY DEF Init, TimeInv

LEMMA NextTimeInv == IInv /\ TimeInv /\ [Next]_vars => TimeInv'
<1> SUFFICES ASSUME IInv, TimeInv, [Next]_vars PROVE TimeInv'
  OBVIOUS
<1>t. /\ attempt \in 0 .. Retries /\ clock \in Nat /\ asked \in Nat
      /\ live \in Nat /\ elapsed \in Nat /\ attempt \in Nat
  BY ReportAssumption DEF IInv, TypeOK
<1>l. /\ LongestAttempt \in Nat /\ Backoff \in Nat /\ Retries \in Nat
      /\ LongestStep \in Nat
  BY LimitsAreNat, LongestWithinStep, <1>t, ReportAssumption
<1>g. live + 1 \in Nat /\ live =< live + 1
  BY <1>t
<1>1. CASE SkipModel
  BY <1>1, EarlyEndIsFree DEF SkipModel, WriteFallback, Return
<1>2. CASE NoAsn
  BY <1>2, EarlyEndIsFree DEF NoAsn, Return
<1>3. CASE PreparationRaises
  BY <1>3, EarlyEndIsFree, BranchesReturn DEF PreparationRaises
<1>4. CASE BeginAttempt
  <2>1. /\ pc' \in {"calling", "probing"} /\ attempt' = attempt + 1
        /\ clock' = 0 /\ live' = live /\ elapsed' = elapsed
    BY <1>4 DEF BeginAttempt
  <2>2. attempt' >= 1 /\ attempt' - 1 = attempt /\ clock' =< LongestAttempt
    BY <2>1, <1>t, <1>l
  <2>3. Longest(attempt, attempt + 1)
          = Longest(attempt, attempt) + Backoff * attempt
    BY <1>t, LongestGrows
  <2>4. elapsed =< Longest(attempt, attempt + 1) /\ live =< attempt
    <3>1. CASE pc = "start"
      <4>1. elapsed = 0 /\ live = 0
        BY <3>1 DEF TimeInv
      <4>2. Longest(attempt, attempt + 1) \in Nat
        BY <1>t, LongestGrows
      <4> QED
        BY <4>1, <4>2, <1>t
    <3>2. CASE pc = "backoff" /\ clock = Backoff * attempt
      BY <3>2, <2>3 DEF TimeInv
    <3> QED
      BY <1>4, <3>1, <3>2 DEF BeginAttempt
  <2>5. Longest(attempt' - 1, attempt') + clock' = Longest(attempt, attempt + 1)
    <3>1. Longest(attempt, attempt + 1) \in Nat
      BY <1>t, LongestGrows
    <3> QED
      BY <2>1, <2>2, <3>1
  <2> QED
    BY <2>1, <2>2, <2>4, <2>5 DEF TimeInv
<1>5. CASE ProbesReturn
  BY <1>5 DEF ProbesReturn, TimeInv
<1>6. CASE ProbesRaise
  BY <1>6, <1>g, RaisePauses, EndedAttemptIsCounted, <1>t
     DEF ProbesRaise, UnderWay
<1>7. CASE ProbesTimeOut
  BY <1>7 DEF ProbesTimeOut, TimeInv, timing
<1>8. CASE ProbesEndLate
  BY <1>8, <1>g, RaisePauses, EndedAttemptIsCounted, <1>t
     DEF ProbesEndLate, UnderWay
<1>9. CASE ModelAnswers
  BY <1>9, <1>g, BranchesReturn, EndedAttemptIsCounted, <1>t
     DEF ModelAnswers, UnderWay, timing
<1>10. CASE ModelRaises
  BY <1>10, <1>g, RaisePauses, EndedAttemptIsCounted, <1>t
     DEF ModelRaises, UnderWay
<1>11. CASE CallTimesOut
  BY <1>11, <1>t, <1>l, CountPastByOne, BranchesReturn, EndedAttemptIsCounted
     DEF CallTimesOut, UnderWay
<1>12. CASE WatchdogFires
  BY <1>12, <1>t, <1>l, CountPastByOne, RaisePauses, EndedAttemptIsCounted
     DEF WatchdogFires, UnderWay
<1>13. CASE AbandonedCallEnds
  BY <1>13, <1>t DEF AbandonedCallEnds, TimeInv
<1>14. CASE Tick
  <2>1. /\ clock' = clock + 1 /\ elapsed' \in Nat /\ elapsed' =< elapsed + 1
        /\ UNCHANGED <<pc, attempt, live>>
    BY <1>14, <1>t, <1>l, CountPastByOne DEF Tick
  <2>2. CASE pc \in UnderWay
    <3>1. clock + 1 =< LongestAttempt
      BY <1>14, <2>2, <1>t, LimitsAreNat, ReportAssumption
         DEF Tick, UnderWay, Watchdog
    <3>2. Longest(attempt - 1, attempt) \in Nat /\ attempt >= 1
      BY <2>2, <1>t, LongestGrows DEF TimeInv, UnderWay
    <3> QED
      BY <2>1, <2>2, <3>1, <3>2, <1>t DEF TimeInv, UnderWay
  <2>3. CASE pc = "backoff"
    <3>1. clock < Backoff * attempt /\ Backoff * attempt \in Nat
      BY <1>14, <2>3, <1>t, <1>l, ProductGrows DEF Tick
    <3>2. Longest(attempt, attempt) \in Nat
      BY <1>t, LongestGrows
    <3> QED
      BY <2>1, <2>3, <3>1, <3>2, <1>t DEF TimeInv
  <2> QED
    BY <1>14, <2>2, <2>3 DEF Tick, UnderWay
<1>15. CASE Deliver
  BY <1>15 DEF Deliver, TimeInv, timing
<1>16. CASE UNCHANGED vars
  BY <1>16 DEF vars, timing, TimeInv
<1> QED
  BY <1>1, <1>2, <1>3, <1>4, <1>5, <1>6, <1>7, <1>8, <1>9, <1>10, <1>11,
     <1>12, <1>13, <1>14, <1>15, <1>16 DEF Next, Clockwork, Outside

LEMMA AlwaysTimeInv == Spec => [](IInv /\ TimeInv)
<1>1. Init => IInv /\ TimeInv
  BY InitIInv, InitTimeInv
<1>2. (IInv /\ TimeInv) /\ [Next]_vars => (IInv /\ TimeInv)'
  BY NextIInv, NextTimeInv
<1> QED
  BY <1>1, <1>2, PTL DEF Spec

\* However the probes, the provider and the two timers interleave, a step lasts
\* no longer than its attempts and pauses, and leaves no more calls behind than
\* it made attempts.
THEOREM StepIsBounded == Spec => []TimeIsBounded
<1>1. IInv /\ TimeInv => TimeIsBounded
  <2> SUFFICES ASSUME IInv, TimeInv PROVE TimeIsBounded
    OBVIOUS
  <2>1. /\ attempt \in 0 .. Retries /\ attempt \in Nat /\ clock \in Nat
        /\ live \in Nat /\ elapsed \in Nat /\ pc \in Running \cup {"returned", "delivered"}
        /\ LongestAttempt \in Nat /\ Retries \in Nat
    BY LimitsAreNat, ReportAssumption DEF IInv, TypeOK, Running
  <2>2. /\ Longest(attempt, attempt) \in Nat
        /\ Longest(attempt, attempt) =< LongestStep /\ LongestStep \in Nat
    BY <2>1, LongestGrows, LongestWithinStep
  <2>3. CASE pc = "start"
    BY <2>1, <2>2, <2>3 DEF TimeInv, TimeIsBounded
  <2>4. CASE pc \in UnderWay
    <3>1. attempt - 1 \in Nat /\ (attempt - 1) + 1 = attempt
      BY <2>1, <2>4 DEF TimeInv, UnderWay
    <3>2. Longest(attempt, attempt)
            = Longest(attempt - 1, attempt) + LongestAttempt
          /\ Longest(attempt - 1, attempt) \in Nat
      BY <3>1, <2>1, LongestGrows
    <3> QED
      BY <2>1, <2>2, <2>4, <3>2 DEF TimeInv, TimeIsBounded, UnderWay
  <2>5. CASE pc = "backoff"
    <3>1. /\ attempt + 1 \in 0 .. Retries /\ attempt + 1 \in Nat
          /\ Backoff \in Nat
      BY <2>1, <2>5, ReportAssumption DEF IInv, AttemptLeft
    <3>2. Longest(attempt + 1, attempt + 1) =< LongestStep
      BY <3>1, LongestWithinStep
    <3>3. /\ Longest(attempt + 1, attempt + 1)
               = Longest(attempt + 1, attempt) + Backoff * attempt
          /\ Longest(attempt + 1, attempt)
               = Longest(attempt, attempt) + LongestAttempt
          /\ Backoff * attempt \in Nat
      BY <2>1, <3>1, LongestGrows, ProductGrows
    <3> QED
      BY <2>1, <2>2, <2>5, <3>2, <3>3 DEF TimeInv, TimeIsBounded
  <2>6. CASE pc \in {"returned", "delivered"}
    BY <2>1, <2>2, <2>6 DEF TimeInv, TimeIsBounded
  <2> QED
    BY <2>1, <2>3, <2>4, <2>5, <2>6 DEF Running, UnderWay
<1> QED
  BY <1>1, AlwaysTimeInv, PTL

-----------------------------------------------------------------------------
(* TwoPhase: the invariant of the runs on one window.                      *)

Places == {"off", "measure", "open", "write", "close", "publish", "load",
           "deep", "end", "dead"}
Outcomes == {"none", "known", "lost", "failed", "refused", "analysed", "invalid"}
Bodies == [Pieces -> Runs \cup {None}]
RunStates == [pc : Places, mode : Modes, ok : BOOLEAN, large : BOOLEAN,
              fd : Runs \cup {None}, read : Bodies, outcome : Outcomes]

PhaseTypeOK ==
    /\ run \in [Runs -> RunStates]
    /\ body \in [Runs -> Bodies]
    /\ tmp \in Runs \cup {None} /\ cached \in Runs \cup {None}
    /\ last \in Runs \cup {None} /\ crossed \subseteq Runs
    /\ \A r \in Runs : Writing(r) => run[r].fd \in Runs

\* A run that has not opened the temporary file yet has left no trace.
NoTrace ==
    \A r \in Runs : At(r, {"off", "measure", "open"}) =>
        /\ tmp # r /\ cached # r
        /\ \A f \in Runs, k \in Pieces : body[f][k] # r

\* The cache and the temporary name never lead to one file.
Apart == tmp # None => tmp # cached

\* Two that write at the same time have crossed.
OverlapIsCrossed ==
    \A r, q \in Runs : r # q /\ Writing(r) /\ Writing(q) => r \in crossed

\* Who has opened the temporary file last, and has not crossed, is alone.
LastIsAlone ==
    \A r, q \in Runs : last = r /\ r \notin crossed /\ q # r => ~Writing(q)

\* What a run that nobody has crossed has written so far.
SoFar(r) ==
    [k \in Pieces |-> IF \/ At(r, {"close"}) /\ k = 1
                         \/ At(r, {"publish"}) /\ (k = 1 \/ run[r].large)
                      THEN r ELSE None]

\* It writes to the file under the temporary name, and nobody else does.
OwnPieces ==
    \A r \in Runs : Writing(r) /\ r \notin crossed =>
        tmp = run[r].fd /\ body[tmp] = SoFar(r)

\* An auto run about to load finds its own measurements, unless somebody has
\* opened the temporary file after it.
OwnCached ==
    \A r \in Runs : /\ At(r, {"load"}) /\ run[r].mode = "auto"
                    /\ last = r /\ r \notin crossed
                    => cached # None /\ body[cached] = Own(r)

\* Before anybody crosses, the cache holds one result.
WholeCached == crossed = {} /\ cached # None => Whole(body[cached])

PhaseInv ==
    /\ PhaseTypeOK /\ NoTrace /\ Apart /\ OverlapIsCrossed /\ LastIsAlone
    /\ OwnPieces /\ OwnCached /\ WholeCached

-----------------------------------------------------------------------------
(* TwoPhase: what a step does to the record of its run.                    *)

Untraced == {"off", "measure", "open"}

\* Only r moves, and it does not start a file or forget the size of its result.
Moves(r) ==
    /\ run' \in [Runs -> RunStates]
    /\ \A q \in Runs \ {r} : run'[q] = run[q]
    /\ run'[r].pc \in Untraced => run[r].pc \in Untraced
    /\ run'[r].large = run[r].large \/ run[r].pc = "measure"

LEMMA NamesAreNotFiles ==
    None \notin Runs /\ \A r \in Runs : ModesOf(r) \subseteq Modes
BY TwoPhaseAssumption

LEMMA OwnIsBody ==
    ASSUME PhaseTypeOK, NEW r \in Runs
    PROVE  /\ Own(r) \in Bodies /\ Empty \in Bodies /\ SoFar(r) \in Bodies
           /\ Own(r)[1] = r
BY DEF Own, Empty, SoFar, Bodies, Pieces

LEMMA OffIsState == Off \in RunStates
BY DEF Off, RunStates, Places, Modes, Bodies, Outcomes, Empty, Pieces

LEMMA LeaveMoves ==
    ASSUME PhaseTypeOK, NEW r \in Runs, NEW to \in {"end", "dead"},
           NEW outcome \in Outcomes, Leave(r, to, outcome)
    PROVE  Moves(r) /\ run'[r].pc = to
<1>1. run[r] \in RunStates
  BY DEF PhaseTypeOK
<1> DEFINE new == [Off EXCEPT !.pc = to, !.outcome = outcome,
                             !.ok = run[r].ok, !.large = run[r].large]
<1>3. new \in RunStates /\ new.pc = to /\ new.large = run[r].large
  <2>1. to \in Places
    BY DEF Places
  <2> QED
    BY <1>1, <2>1, OffIsState DEF RunStates
<1>4. run' = [run EXCEPT ![r] = new]
  BY DEF Leave
<1> HIDE DEF new
<1>5. run' \in [Runs -> RunStates] /\ run'[r] = new
      /\ \A q \in Runs \ {r} : run'[q] = run[q]
  BY <1>3, <1>4 DEF PhaseTypeOK
<1> QED
  BY <1>3, <1>5 DEF Moves, Untraced

LEMMA ProceedMoves ==
    ASSUME PhaseTypeOK, NEW r \in Runs, NEW path \in {"known", "lost", "failed"},
           Proceed(r, path)
    PROVE  /\ Moves(r) /\ run'[r].pc \in {"deep", "load", "end"}
           /\ run'[r].pc = "load" => path = "known"
<1>1. run[r] \in RunStates /\ None \in Runs \cup {None} /\ Own(r) \in Bodies
  BY OwnIsBody DEF PhaseTypeOK
<1>2. CASE run[r].mode = "deep"
  <2>1. run' = [run EXCEPT ![r].fd = None, ![r].pc = "deep", ![r].read = Own(r)]
    BY <1>2 DEF Proceed
  <2> QED
    BY <1>1, <2>1 DEF PhaseTypeOK, RunStates, Places, Moves, Untraced
<1>3. CASE run[r].mode = "auto" /\ path = "known"
  <2>1. run' = [run EXCEPT ![r].fd = None, ![r].pc = "load", ![r].read = @]
    BY <1>3 DEF Proceed
  <2> QED
    BY <1>1, <1>3, <2>1 DEF PhaseTypeOK, RunStates, Places, Moves, Untraced
<1>4. CASE ~(run[r].mode = "deep") /\ ~(run[r].mode = "auto" /\ path = "known")
  <2>1. Leave(r, "end", path)
    BY <1>4 DEF Proceed
  <2> QED
    BY <2>1, LeaveMoves DEF Outcomes
<1> QED
  BY <1>2, <1>3, <1>4

-----------------------------------------------------------------------------
(* TwoPhase: each step keeps the invariant.                                *)

\* Results that were written keep their bytes while others move: only a run
\* whose bytes are nowhere yet decides about the size of its result.
LEMMA OwnIsStable ==
    ASSUME PhaseInv, NEW r \in Runs, Moves(r), NEW f \in Runs, NEW q \in Runs,
           body[f] = Own(q)
    PROVE  Own(q)' = Own(q)
<1>1. body[f][1] = q
  BY OwnIsBody DEF PhaseInv
<1>2. ~At(q, {"measure"})
  BY <1>1 DEF PhaseInv, NoTrace, At, Pieces
<1>3. run'[q].large = run[q].large
  BY <1>2 DEF Moves, At
<1> QED
  BY <1>3 DEF Own

\* Steps that leave the files alone and do not go on writing.
LEMMA QuietStepKeeps ==
    ASSUME PhaseInv, NEW r \in Runs, Moves(r), UNCHANGED <<files, history>>,
           run'[r].pc \notin {"write", "close", "publish"},
           run'[r].pc = "load" => run'[r].mode # "auto"
    PROVE  PhaseInv'
<1>t. /\ PhaseTypeOK /\ NoTrace /\ Apart /\ OverlapIsCrossed /\ LastIsAlone
      /\ OwnPieces /\ OwnCached /\ WholeCached
  BY DEF PhaseInv
<1>u. UNCHANGED <<body, tmp, cached, last, crossed>>
  BY DEF files, history
<1>w. \A q \in Runs : Writing(q)' => Writing(q) /\ q # r /\ run'[q] = run[q]
  BY DEF Moves, Writing, At
<1>1. PhaseTypeOK'
  BY <1>t, <1>u, <1>w DEF PhaseTypeOK, Moves
<1>2. NoTrace'
  <2>1. \A q \in Runs : At(q, Untraced)' => At(q, Untraced)
    BY DEF Moves, At
  <2> QED
    BY <1>t, <1>u, <2>1 DEF NoTrace, Untraced
<1>3. Apart'
  BY <1>t, <1>u DEF Apart
<1>4. OverlapIsCrossed' /\ LastIsAlone'
  BY <1>t, <1>u, <1>w DEF OverlapIsCrossed, LastIsAlone
<1>5. OwnPieces'
  <2>1. \A q \in Runs : q # r => SoFar(q)' = SoFar(q)
    BY DEF Moves, SoFar, At
  <2> QED
    BY <1>t, <1>u, <1>w, <2>1 DEF OwnPieces
<1>6. OwnCached'
  <2> SUFFICES ASSUME NEW q \in Runs, At(q, {"load"})', run'[q].mode = "auto",
                      last' = q, q \notin crossed'
               PROVE  cached' # None /\ body'[cached'] = Own(q)'
    BY DEF OwnCached
  <2>1. q # r /\ run'[q] = run[q]
    BY DEF Moves, At
  <2>2. cached # None /\ body[cached] = Own(q)
    BY <1>t, <1>u, <2>1 DEF OwnCached, At
  <2>3. Own(q)' = Own(q)
    BY <2>1 DEF Own
  <2> QED
    BY <1>u, <2>2, <2>3
<1>7. WholeCached'
  <2> SUFFICES ASSUME crossed = {}, cached # None PROVE Whole(body[cached])'
    BY <1>u DEF WholeCached
  <2>1. PICK q \in Runs : body[cached] = Own(q)
    BY <1>t DEF WholeCached, Whole
  <2>2. cached \in Runs
    BY <1>t DEF PhaseTypeOK
  <2>3. Own(q)' = Own(q)
    BY <2>1, <2>2, OwnIsStable
  <2> QED
    BY <1>u, <2>1, <2>3 DEF Whole
<1> QED
  BY <1>1, <1>2, <1>3, <1>4, <1>5, <1>6, <1>7 DEF PhaseInv

LEMMA BeginKeeps ==
    ASSUME PhaseInv, NEW r \in Runs, Begin(r)
    PROVE  PhaseInv'
<1>1. PICK m \in Modes :
        run' = [run EXCEPT ![r].mode = m,
                  ![r].pc = IF m = "follow" THEN "load" ELSE "measure"]
  BY NamesAreNotFiles DEF Begin
<1>2. run \in [Runs -> RunStates] /\ run[r].pc = "off"
  BY DEF PhaseInv, PhaseTypeOK, Begin, At
<1>3. /\ run'[r].mode = m
      /\ run'[r].pc = IF m = "follow" THEN "load" ELSE "measure"
      /\ Moves(r)
  BY <1>1, <1>2 DEF Moves, Untraced, RunStates, Places
<1> QED
  BY <1>3, QuietStepKeeps DEF Begin

LEMMA MeasureKeeps ==
    ASSUME PhaseInv, NEW r \in Runs, Measure(r)
    PROVE  PhaseInv'
<1>1. PICK ok, large \in BOOLEAN :
        run' = [run EXCEPT ![r].ok = ok, ![r].large = large, ![r].pc = "open"]
  BY DEF Measure
<1>2. run \in [Runs -> RunStates] /\ run[r].pc = "measure"
  BY DEF PhaseInv, PhaseTypeOK, Measure, At
<1>3. Moves(r) /\ run'[r].pc = "open"
  BY <1>1, <1>2 DEF Moves, Untraced, RunStates, Places
<1> QED
  BY <1>3, QuietStepKeeps DEF Measure

LEMMA DiskFailsKeeps ==
    ASSUME PhaseInv, NEW r \in Runs, DiskFails(r)
    PROVE  PhaseInv'
<1>1. Moves(r) /\ run'[r].pc \in {"deep", "end"}
  BY ProceedMoves DEF DiskFails, PhaseInv
<1> QED
  BY <1>1, QuietStepKeeps DEF DiskFails

LEMMA DieKeeps ==
    ASSUME PhaseInv, NEW r \in Runs, Die(r)
    PROVE  PhaseInv'
<1>1. Moves(r) /\ run'[r].pc = "dead"
  BY LeaveMoves DEF Die, PhaseInv, Outcomes
<1> QED
  BY <1>1, QuietStepKeeps DEF Die

LEMMA DeepKeeps ==
    ASSUME PhaseInv, NEW r \in Runs, Deep(r)
    PROVE  PhaseInv'
<1>1. Moves(r) /\ run'[r].pc = "end"
  BY LeaveMoves DEF Deep, PhaseInv, Outcomes
<1> QED
  BY <1>1, QuietStepKeeps DEF Deep

LEMMA LoadKeeps ==
    ASSUME PhaseInv, NEW r \in Runs, Load(r)
    PROVE  PhaseInv'
<1>t. PhaseTypeOK /\ run \in [Runs -> RunStates]
  BY DEF PhaseInv, PhaseTypeOK
<1>1. PICK b : /\ b = (IF cached = None THEN Empty ELSE body[cached])
               /\ \/ run' = [run EXCEPT ![r].read = b, ![r].pc = "deep"]
                  \/ Leave(r, "end", "refused")
  BY DEF Load
<1>2. b \in Bodies
  BY <1>1, <1>t, OwnIsBody DEF PhaseTypeOK
<1>3. Moves(r) /\ run'[r].pc \in {"deep", "end"}
  <2>1. CASE run' = [run EXCEPT ![r].read = b, ![r].pc = "deep"]
    BY <1>t, <1>2, <2>1 DEF Moves, Untraced, RunStates, Places
  <2>2. CASE Leave(r, "end", "refused")
    BY <1>t, <2>2, LeaveMoves DEF Outcomes
  <2> QED
    BY <1>1, <2>1, <2>2
<1> QED
  BY <1>3, QuietStepKeeps DEF Load

\* Opening: whoever else is writing has crossed with r from here on.
LEMMA OpenKeeps ==
    ASSUME PhaseInv, NEW r \in Runs, OpenTmp(r)
    PROVE  PhaseInv'
<1> DEFINE f == IF tmp = None THEN r ELSE tmp
           others == {q \in Runs \ {r} : Writing(q)}
<1>t. /\ PhaseTypeOK /\ NoTrace /\ Apart /\ OverlapIsCrossed /\ LastIsAlone
      /\ OwnPieces /\ OwnCached /\ WholeCached
  BY DEF PhaseInv
<1>1. /\ run[r].pc = "open"
      /\ run' = [run EXCEPT ![r].fd = f, ![r].pc = "write"]
      /\ body' = [body EXCEPT ![f] = Empty]
      /\ tmp' = f /\ last' = r /\ cached' = cached
      /\ crossed' = crossed \cup others \cup {q \in {r} : others # {}}
  BY DEF OpenTmp, At
<1>2. f \in Runs /\ f # cached /\ f # None
  BY <1>1, <1>t, NamesAreNotFiles DEF PhaseTypeOK, NoTrace, Apart, At
<1>3. Empty \in Bodies /\ Empty = [k \in Pieces |-> None]
  BY <1>t, OwnIsBody DEF Empty
<1> HIDE DEF f, others
<1>4. /\ run'[r].pc = "write" /\ run'[r].fd = f /\ run'[r].large = run[r].large
      /\ Moves(r)
  BY <1>1, <1>2, <1>t DEF PhaseTypeOK, RunStates, Places, Moves, Untraced
<1>5. /\ body' \in [Runs -> Bodies] /\ body'[f] = Empty
      /\ \A g \in Runs \ {f} : body'[g] = body[g]
  BY <1>1, <1>2, <1>3, <1>t DEF PhaseTypeOK
<1>6. \A q \in Runs \ {r} : Writing(q)' <=> q \in others
  BY <1>4 DEF Moves, Writing, At, others
<1>7. others \subseteq Runs
  BY DEF others
<1>8. PhaseTypeOK'
  <2>1. crossed' \subseteq Runs
    BY <1>1, <1>7, <1>t DEF PhaseTypeOK
  <2>2. \A q \in Runs : Writing(q)' => run'[q].fd \in Runs
    BY <1>2, <1>4, <1>6, <1>t DEF PhaseTypeOK, Moves, others
  <2> QED
    BY <1>1, <1>2, <1>4, <1>5, <2>1, <2>2, <1>t DEF PhaseTypeOK, Moves
<1>9. NoTrace'
  <2> SUFFICES ASSUME NEW q \in Runs, At(q, {"off", "measure", "open"})'
               PROVE  /\ tmp' # q /\ cached' # q
                      /\ \A g \in Runs, k \in Pieces : body'[g][k] # q
    BY DEF NoTrace
  <2>1. q # r /\ At(q, {"off", "measure", "open"})
    BY <1>4 DEF Moves, At
  <2>2. /\ tmp # q /\ cached # q
        /\ \A g \in Runs, k \in Pieces : body[g][k] # q
    BY <1>t, <2>1 DEF NoTrace
  <2>3. f # q
    BY <2>1, <2>2 DEF f
  <2>4. \A k \in Pieces : Empty[k] # q
    BY <1>3, NamesAreNotFiles
  <2> QED
    BY <1>1, <1>5, <2>2, <2>3, <2>4
<1>10. Apart'
  BY <1>1, <1>2 DEF Apart
<1>11. OverlapIsCrossed'
  <2> SUFFICES ASSUME NEW p \in Runs, NEW q \in Runs, p # q,
                      Writing(p)', Writing(q)'
               PROVE  p \in crossed'
    BY DEF OverlapIsCrossed
  <2>1. CASE p = r
    BY <1>1, <1>6, <2>1
  <2>2. CASE p # r
    BY <1>1, <1>6, <2>2
  <2> QED
    BY <2>1, <2>2
<1>12. LastIsAlone'
  BY <1>1, <1>6 DEF LastIsAlone
<1>13. OwnPieces'
  <2> SUFFICES ASSUME NEW q \in Runs, Writing(q)', q \notin crossed'
               PROVE  tmp' = run'[q].fd /\ body'[tmp'] = SoFar(q)'
    BY DEF OwnPieces
  <2>1. q = r
    BY <1>1, <1>6
  <2>2. SoFar(r)' = Empty
    BY <1>3, <1>4 DEF SoFar, At
  <2> QED
    BY <1>1, <1>4, <1>5, <2>1, <2>2
<1>14. OwnCached'
  BY <1>1, <1>4 DEF OwnCached, At
<1>15. WholeCached'
  <2> SUFFICES ASSUME crossed' = {}, cached # None
               PROVE  \E q \in Runs : body'[cached] = Own(q)'
    BY <1>1 DEF WholeCached, Whole
  <2>1. PICK q \in Runs : body[cached] = Own(q)
    BY <1>1, <1>t DEF WholeCached, Whole
  <2>2. cached \in Runs
    BY <1>t DEF PhaseTypeOK
  <2>3. Own(q)' = Own(q) /\ body'[cached] = body[cached]
    BY <1>2, <1>4, <1>5, <2>1, <2>2, OwnIsStable
  <2> QED
    BY <2>1, <2>3
<1> QED
  BY <1>8, <1>9, <1>10, <1>11, <1>12, <1>13, <1>14, <1>15 DEF PhaseInv

\* A piece is written: r goes from one writing place to the next, and only the
\* file it has open changes, where it becomes what r has written so far.
LEMMA PieceKeeps ==
    ASSUME PhaseInv, NEW r \in Runs, Writing(r), Moves(r),
           Writing(r)', run'[r].fd = run[r].fd, run'[r].large = run[r].large,
           UNCHANGED <<tmp, cached, history>>,
           body' \in [Runs -> Bodies],
           \A g \in Runs \ {run[r].fd} : body'[g] = body[g],
           \A k \in Pieces : body'[run[r].fd][k] \in {r, body[run[r].fd][k]},
           body[run[r].fd] = SoFar(r) => body'[run[r].fd] = SoFar(r)'
    PROVE  PhaseInv'
<1>t. /\ PhaseTypeOK /\ NoTrace /\ Apart /\ OverlapIsCrossed /\ LastIsAlone
      /\ OwnPieces /\ OwnCached /\ WholeCached
  BY DEF PhaseInv
<1>u. UNCHANGED <<tmp, cached, last, crossed>>
  BY DEF history
<1>w. \A q \in Runs : Writing(q)' <=> Writing(q)
  BY DEF Moves, Writing, At
<1>f. run[r].fd \in Runs
  BY <1>t DEF PhaseTypeOK
<1>1. PhaseTypeOK'
  <2>1. \A q \in Runs : Writing(q)' => run'[q].fd \in Runs
    BY <1>t, <1>w DEF PhaseTypeOK, Moves
  <2> QED
    BY <1>t, <1>u, <2>1 DEF PhaseTypeOK, Moves
<1>2. NoTrace'
  <2> SUFFICES ASSUME NEW q \in Runs, At(q, {"off", "measure", "open"})'
               PROVE  /\ tmp' # q /\ cached' # q
                      /\ \A g \in Runs, k \in Pieces : body'[g][k] # q
    BY DEF NoTrace
  <2>1. q # r /\ At(q, {"off", "measure", "open"})
    BY DEF Moves, At, Writing
  <2>2. /\ tmp # q /\ cached # q
        /\ \A g \in Runs, k \in Pieces : body[g][k] # q
    BY <1>t, <2>1 DEF NoTrace
  <2>3. \A k \in Pieces : body'[run[r].fd][k] # q
    BY <1>f, <2>1, <2>2
  <2> QED
    BY <1>u, <2>2, <2>3
<1>3. Apart' /\ OverlapIsCrossed' /\ LastIsAlone'
  BY <1>t, <1>u, <1>w DEF Apart, OverlapIsCrossed, LastIsAlone
<1>4. OwnPieces'
  <2> SUFFICES ASSUME NEW q \in Runs, Writing(q), q \notin crossed
               PROVE  tmp' = run'[q].fd /\ body'[tmp'] = SoFar(q)'
    BY <1>u, <1>w DEF OwnPieces
  <2>1. q = r
    BY <1>t DEF OverlapIsCrossed
  <2>2. tmp = run[r].fd /\ body[tmp] = SoFar(r)
    BY <1>t, <2>1 DEF OwnPieces
  <2> QED
    BY <1>u, <2>1, <2>2
<1>5. OwnCached'
  <2> SUFFICES ASSUME NEW q \in Runs, At(q, {"load"})', run'[q].mode = "auto",
                      last = q, q \notin crossed
               PROVE  FALSE
    BY <1>u DEF OwnCached
  <2>1. q # r
    BY DEF Writing, At
  <2> QED
    BY <1>t, <2>1 DEF LastIsAlone
<1>6. WholeCached'
  <2> SUFFICES ASSUME crossed = {}, cached # None
               PROVE  \E q \in Runs : body'[cached] = Own(q)'
    BY <1>u DEF WholeCached, Whole
  <2>1. PICK q \in Runs : body[cached] = Own(q)
    BY <1>t DEF WholeCached, Whole
  <2>2. cached \in Runs
    BY <1>t DEF PhaseTypeOK
  <2>3. tmp = run[r].fd /\ tmp # cached
    BY <1>t, <1>f, NamesAreNotFiles DEF OwnPieces, Apart
  <2>4. Own(q)' = Own(q) /\ body'[cached] = body[cached]
    BY <2>1, <2>2, <2>3, OwnIsStable
  <2> QED
    BY <2>1, <2>4
<1> QED
  BY <1>1, <1>2, <1>3, <1>4, <1>5, <1>6 DEF PhaseInv

LEMMA GotoMoves ==
    ASSUME PhaseTypeOK, NEW r \in Runs, run[r].pc \notin Untraced,
           NEW to \in {"close", "publish"}, Goto(r, to)
    PROVE  /\ Moves(r) /\ run'[r].pc = to /\ run'[r].fd = run[r].fd
           /\ run'[r].large = run[r].large
<1>1. to \in Places \ Untraced
  BY DEF Places, Untraced
<1> QED
  BY <1>1 DEF Goto, PhaseTypeOK, Moves, RunStates

LEMMA WriteKeeps ==
    ASSUME PhaseInv, NEW r \in Runs, Write(r)
    PROVE  PhaseInv'
<1>t. PhaseTypeOK
  BY DEF PhaseInv
<1>1. /\ run[r].pc = "write" /\ Writing(r) /\ run[r].fd \in Runs
      /\ body' = [body EXCEPT ![run[r].fd][1] = r]
  BY <1>t DEF Write, Writing, At, PhaseTypeOK
<1>2. /\ Moves(r) /\ run'[r].pc = "close" /\ run'[r].fd = run[r].fd
      /\ run'[r].large = run[r].large
  BY <1>1, <1>t, GotoMoves DEF Write, Untraced
<1>3. body[run[r].fd] \in Bodies /\ body \in [Runs -> Bodies]
  BY <1>1, <1>t DEF PhaseTypeOK
<1>4. /\ body' \in [Runs -> Bodies]
      /\ \A g \in Runs \ {run[r].fd} : body'[g] = body[g]
      /\ body'[run[r].fd] = [body[run[r].fd] EXCEPT ![1] = r]
  BY <1>1, <1>3 DEF Bodies
<1>5. \A k \in Pieces : body'[run[r].fd][k] \in {r, body[run[r].fd][k]}
  BY <1>3, <1>4 DEF Bodies
<1>6. body[run[r].fd] = SoFar(r) => body'[run[r].fd] = SoFar(r)'
  <2>1. SoFar(r) = [k \in Pieces |-> None]
    BY <1>1 DEF SoFar, At
  <2>2. SoFar(r)' = [k \in Pieces |-> IF k = 1 THEN r ELSE None]
    BY <1>2 DEF SoFar, At
  <2> QED
    BY <1>4, <2>1, <2>2 DEF Pieces
<1> QED
  BY <1>1, <1>2, <1>4, <1>5, <1>6, PieceKeeps DEF Write, Writing, At

LEMMA CloseKeeps ==
    ASSUME PhaseInv, NEW r \in Runs, Close(r)
    PROVE  PhaseInv'
<1>t. PhaseTypeOK
  BY DEF PhaseInv
<1>1. /\ run[r].pc = "close" /\ Writing(r) /\ run[r].fd \in Runs
      /\ body' = IF run[r].large THEN [body EXCEPT ![run[r].fd][2] = r] ELSE body
  BY <1>t DEF Close, Writing, At, PhaseTypeOK
<1>2. /\ Moves(r) /\ run'[r].pc = "publish" /\ run'[r].fd = run[r].fd
      /\ run'[r].large = run[r].large
  BY <1>1, <1>t, GotoMoves DEF Close, Untraced
<1>3. body[run[r].fd] \in Bodies /\ body \in [Runs -> Bodies]
  BY <1>1, <1>t DEF PhaseTypeOK
<1>4. /\ body' \in [Runs -> Bodies]
      /\ \A g \in Runs \ {run[r].fd} : body'[g] = body[g]
      /\ body'[run[r].fd] = IF run[r].large THEN [body[run[r].fd] EXCEPT ![2] = r]
                            ELSE body[run[r].fd]
  BY <1>1, <1>3 DEF Bodies
<1>5. \A k \in Pieces : body'[run[r].fd][k] \in {r, body[run[r].fd][k]}
  BY <1>3, <1>4 DEF Bodies
<1>6. body[run[r].fd] = SoFar(r) => body'[run[r].fd] = SoFar(r)'
  <2>1. SoFar(r) = [k \in Pieces |-> IF k = 1 THEN r ELSE None]
    BY <1>1 DEF SoFar, At
  <2>2. SoFar(r)' = [k \in Pieces |-> IF k = 1 \/ run[r].large THEN r ELSE None]
    BY <1>2 DEF SoFar, At
  <2> QED
    BY <1>4, <2>1, <2>2 DEF Pieces
<1> QED
  BY <1>1, <1>2, <1>4, <1>5, <1>6, PieceKeeps DEF Close, Writing, At

\* Publishing: the file goes from one name to the other, whole if r was alone.
LEMMA PublishKeeps ==
    ASSUME PhaseInv, NEW r \in Runs, Publish(r)
    PROVE  PhaseInv'
<1>t. /\ PhaseTypeOK /\ NoTrace /\ Apart /\ OverlapIsCrossed /\ LastIsAlone
      /\ OwnPieces /\ OwnCached /\ WholeCached
  BY DEF PhaseInv
<1>1. run[r].pc = "publish" /\ Writing(r) /\ run[r].fd \in Runs
  BY <1>t DEF Publish, Writing, At, PhaseTypeOK
<1>2. UNCHANGED <<body, last, crossed>>
  BY DEF Publish, history
<1>3. CASE tmp = None /\ Proceed(r, "lost") /\ UNCHANGED <<tmp, cached>>
  <2>1. Moves(r) /\ run'[r].pc \in {"deep", "end"}
    BY <1>3, <1>t, ProceedMoves
  <2> QED
    BY <1>2, <1>3, <2>1, QuietStepKeeps DEF files, history
<1>4. CASE tmp # None /\ cached' = tmp /\ tmp' = None /\ Proceed(r, "known")
  <2>1. Moves(r) /\ run'[r].pc \in {"deep", "load", "end"}
    BY <1>4, <1>t, ProceedMoves
  <2>2. run'[r].large = run[r].large
    BY <1>1, <2>1 DEF Moves
  <2>w. \A q \in Runs : Writing(q)' => Writing(q) /\ q # r /\ run'[q] = run[q]
    BY <2>1 DEF Moves, Writing, At
  <2>o. r \notin crossed => body[tmp] = Own(r)
    <3>1. SoFar(r) = Own(r)
      BY <1>1 DEF SoFar, Own, At
    <3> QED
      BY <1>1, <1>t, <3>1 DEF OwnPieces
  <2>p. Own(r)' = Own(r)
    BY <2>2 DEF Own
  <2>3. PhaseTypeOK'
    BY <1>2, <1>4, <1>t, <2>1, <2>w DEF PhaseTypeOK, Moves
  <2>4. NoTrace'
    <3>1. \A q \in Runs : At(q, Untraced)' => At(q, Untraced)
      BY <2>1 DEF Moves, At
    <3> QED
      BY <1>2, <1>4, <1>t, <3>1, NamesAreNotFiles DEF NoTrace, Untraced
  <2>5. Apart'
    BY <1>4 DEF Apart
  <2>6. OverlapIsCrossed' /\ LastIsAlone'
    BY <1>2, <1>t, <2>w DEF OverlapIsCrossed, LastIsAlone
  <2>7. OwnPieces'
    <3> SUFFICES ASSUME NEW q \in Runs, Writing(q)', q \notin crossed
                 PROVE  FALSE
      BY <1>2 DEF OwnPieces
    <3> QED
      BY <1>1, <1>t, <2>w DEF OverlapIsCrossed
  <2>8. OwnCached'
    <3> SUFFICES ASSUME NEW q \in Runs, At(q, {"load"})', last = q, q \notin crossed
                 PROVE  cached' # None /\ body[cached'] = Own(q)'
      BY <1>2 DEF OwnCached
    <3>1. q = r
      BY <1>1, <1>t DEF LastIsAlone
    <3> QED
      BY <1>4, <2>o, <2>p, <3>1
  <2>9. WholeCached'
    <3> SUFFICES ASSUME crossed = {} PROVE body[tmp] = Own(r)'
      BY <1>2, <1>4 DEF WholeCached, Whole
    <3> QED
      BY <2>o, <2>p
  <2> QED
    BY <2>3, <2>4, <2>5, <2>6, <2>7, <2>8, <2>9 DEF PhaseInv
<1> QED
  BY <1>3, <1>4 DEF Publish

-----------------------------------------------------------------------------
(* TwoPhase: the theorems.                                                 *)

LEMMA PhaseInvInit == PhaseInit => PhaseInv
<1> SUFFICES ASSUME PhaseInit PROVE PhaseInv
  OBVIOUS
<1>1. \A r \in Runs : run[r] = Off /\ run[r].pc = "off"
  BY DEF PhaseInit, Off
<1>2. Empty \in Bodies /\ \A k \in Pieces : Empty[k] = None
  BY DEF Empty, Bodies
<1>3. PhaseTypeOK
  BY <1>1, <1>2, OffIsState DEF PhaseInit, PhaseTypeOK, Writing, At
<1> QED
  BY <1>1, <1>2, <1>3, NamesAreNotFiles
     DEF PhaseInit, PhaseInv, NoTrace, Apart, OverlapIsCrossed, LastIsAlone,
         OwnPieces, OwnCached, WholeCached, Writing, At

LEMMA PhaseInvNext == PhaseInv /\ [PhaseNext]_phaseVars => PhaseInv'
<1> SUFFICES ASSUME PhaseInv, [PhaseNext]_phaseVars PROVE PhaseInv'
  OBVIOUS
<1>1. ASSUME NEW r \in Runs, Begin(r) \/ Step(r) \/ Die(r) PROVE PhaseInv'
  BY <1>1, BeginKeeps, MeasureKeeps, OpenKeeps, WriteKeeps, CloseKeeps,
     PublishKeeps, DiskFailsKeeps, LoadKeeps, DeepKeeps, DieKeeps DEF Step
<1>2. CASE UNCHANGED phaseVars
  BY <1>2
     DEF phaseVars, files, history, PhaseInv, PhaseTypeOK, NoTrace, Apart,
         OverlapIsCrossed, LastIsAlone, OwnPieces, OwnCached, WholeCached,
         Writing, At, SoFar, Own, Whole
<1> QED
  BY <1>1, <1>2 DEF PhaseNext

LEMMA AlwaysPhaseInv == PhaseSpec => []PhaseInv
BY PhaseInvInit, PhaseInvNext, PTL DEF PhaseSpec

\* The runs and the files on a window keep their shape, and a run that writes
\* has a file open.
THEOREM PhaseTypeCorrect == PhaseSpec => []PhaseTypeOK
<1>1. PhaseInv => PhaseTypeOK
  BY DEF PhaseInv
<1> QED
  BY <1>1, AlwaysPhaseInv, PTL

\* For any number of runs on a window, and whatever dies between the writing and
\* the moving of the file: phase 2 reads a whole result until two runs have been
\* writing at once (load_quick_cache, the write in analyze_quick), and that of
\* an auto run reads its own unless another has come after it or crossed it.
THEOREM PhaseTwoIsTold == PhaseSpec => PhaseTwoReadsTheTruth
<1>1. ASSUME PhaseInv, NEW r \in Runs, Load(r)
      PROVE  /\ crossed = {} /\ cached # None => Whole(run'[r].read)
             /\ run[r].mode = "auto" /\ last = r /\ r \notin crossed
                  => run'[r].read = Own(r)
  <2>1. PhaseTypeOK /\ OwnCached /\ WholeCached /\ At(r, {"load"})
    BY <1>1 DEF PhaseInv, Load
  <2>2. ASSUME cached # None, Whole(body[cached])
        PROVE  run'[r].read = body[cached]
    <3>1. run' = [run EXCEPT ![r].read = body[cached], ![r].pc = "deep"]
      BY <1>1, <2>2 DEF Load
    <3> QED
      BY <3>1, <2>1 DEF PhaseTypeOK, RunStates
  <2>3. crossed = {} /\ cached # None => Whole(run'[r].read)
    BY <2>1, <2>2 DEF WholeCached
  <2>4. run[r].mode = "auto" /\ last = r /\ r \notin crossed
          => run'[r].read = Own(r)
    BY <2>1, <2>2 DEF OwnCached, Whole
  <2> QED
    BY <2>3, <2>4
<1>2. PhaseInv =>
        [\A r \in Runs : Load(r) =>
           /\ crossed = {} /\ cached # None => Whole(run'[r].read)
           /\ run[r].mode = "auto" /\ last = r /\ r \notin crossed
                => run'[r].read = Own(r)]_phaseVars
  BY <1>1
<1> QED
  BY <1>2, AlwaysPhaseInv, PTL DEF PhaseTwoReadsTheTruth
=============================================================================
