------------------------------ MODULE CallBudget ------------------------------
(***************************************************************************)
(* The rolling-window request budget of one process (_BudgetTracker in     *)
(* llm/llm_factory.py) under the threads that pass it before every call    *)
(* of the model.                                                           *)
(*                                                                         *)
(* check_and_record takes the lock only to append.  The loop that prunes   *)
(* the deque (window_len) runs without it: each thread prunes against the  *)
(* clock reading it entered with, and CPython may switch threads after the *)
(* pop and at the backward jump of the loop, that is between the test of a *)
(* second or later turn and its pop, but not between the first test and    *)
(* its pop, and not between the last test and len().                       *)
(*                                                                         *)
(* Time is relative: the deque holds the ages of its entries in ticks, and *)
(* an age beyond the window is as good as any other.  The process shares   *)
(* its budget with no other; those that do are the subject of              *)
(* SharedBudget.                                                           *)
(***************************************************************************)
EXTENDS Naturals, Sequences, FiniteSets

CONSTANTS
  Callers,      \* threads that call the model
  MaxCalls,     \* LLM_BUDGET_MAX_CALLS
  BudgetWindow  \* LLM_BUDGET_WINDOW_S

ASSUME BudgetAssumption ==
  /\ IsFiniteSet(Callers) /\ Callers # {}
  /\ MaxCalls \in Nat /\ BudgetWindow \in Nat

VARIABLES
  calls,  \* _calls: the ages of the recorded calls, the oldest in front
  place,  \* place[t]: where t is in check_and_record: "idle" outside it,
          \* "clock" with the clock read, "prune" before the test of a further
          \* turn, "pop" between that test and its pop, "charge" with the budget
          \* compared and the call not yet recorded
  stale,  \* stale[t]: how many entries, in front, are older than t's cutoff
  made    \* history: made[a], the calls recorded in the last a ticks (since the
          \* last reset)

budgetVars == <<calls, place, stale, made>>

\* The length of what stands in front of the deque and is older than the
\* window, as the only element of a set.
StaleFront ==
  {k \in 0..Len(calls) : /\ \A i \in 1..k : calls[i] > BudgetWindow
                         /\ k < Len(calls) => calls[k + 1] <= BudgetWindow}

BudgetInit ==
  /\ calls = <<>>
  /\ place = [t \in Callers |-> "idle"]
  /\ stale = [t \in Callers |-> 0]
  /\ made = [a \in 0..BudgetWindow |-> 0]

Move(t, to) == place' = [place EXCEPT ![t] = to]

\* _calls.popleft(): whatever stands in front goes, for everybody.
PopFront ==
  /\ calls' = Tail(calls)
  /\ stale' = [u \in Callers |-> IF stale[u] > 0 THEN stale[u] - 1 ELSE 0]

-----------------------------------------------------------------------------
\* window_len reads the clock.
ReadClock(t) ==
  /\ place[t] = "idle"
  /\ \E k \in StaleFront : stale' = [stale EXCEPT ![t] = k]
  /\ Move(t, "clock")
  /\ UNCHANGED <<calls, made>>

\* The first turn of its loop: test and pop in one.
FirstTurn(t) ==
  /\ place[t] = "clock" /\ stale[t] > 0
  /\ PopFront
  /\ Move(t, "prune")
  /\ UNCHANGED made

\* The test of a further turn finds a stale entry in front,
Test(t) ==
  /\ place[t] = "prune" /\ stale[t] > 0
  /\ Move(t, "pop")
  /\ UNCHANGED <<calls, stale, made>>

\* ... and the pop takes what is in front by then,
Pop(t) ==
  /\ place[t] = "pop" /\ calls # <<>>
  /\ PopFront
  /\ Move(t, "prune")
  /\ UNCHANGED made

\* ... or raises IndexError, which no caller of the budget catches.
PopEmpty(t) ==
  /\ place[t] = "pop" /\ calls = <<>>
  /\ Move(t, "idle")
  /\ UNCHANGED <<calls, stale, made>>

\* The loop ends for t: nothing older than its cutoff is left.
Counts(t) == place[t] \in {"clock", "prune"} /\ stale[t] = 0

\* A mutated form: the comparison admits one call too many.
AdmitOffByOne(t) ==
  /\ Counts(t)
  /\ Len(calls) <= MaxCalls
  /\ Move(t, "charge")
  /\ UNCHANGED <<calls, stale, made>>

\* check_and_record, outside the lock: the window holds fewer than MaxCalls.
Admit(t) ==
  /\ Counts(t)
  /\ Len(calls) < MaxCalls
  /\ Move(t, "charge")
  /\ UNCHANGED <<calls, stale, made>>

\* It does not: BudgetExhausted.
Refuse(t) ==
  /\ Counts(t)
  /\ Len(calls) >= MaxCalls
  /\ Move(t, "idle")
  /\ UNCHANGED <<calls, stale, made>>

\* check_and_record, under the lock; the call goes out.
Record(t) ==
  /\ place[t] = "charge"
  /\ calls' = Append(calls, 0)
  /\ made' = [a \in 0..BudgetWindow |-> made[a] + 1]
  /\ Move(t, "idle")
  /\ UNCHANGED stale

\* reset clears the deque, also under a thread that is pruning it.
ResetBudget ==
  /\ calls' = <<>>
  /\ stale' = [t \in Callers |-> 0]
  /\ made' = [a \in 0..BudgetWindow |-> 0]
  /\ UNCHANGED place

\* A tick later; ages saturate once they are beyond the window.
BudgetTick ==
  /\ calls' = [i \in 1..Len(calls) |->
                 IF calls[i] > BudgetWindow THEN calls[i] ELSE calls[i] + 1]
  /\ made' = [a \in 0..BudgetWindow |-> IF a = 0 THEN 0 ELSE made[a - 1]]
  /\ UNCHANGED <<place, stale>>

\* The steps of a check before the call is recorded.
Ask(t) == \/ ReadClock(t) \/ FirstTurn(t) \/ Test(t) \/ Pop(t) \/ PopEmpty(t)
          \/ Admit(t) \/ Refuse(t)

Pass(t) == Ask(t) \/ Record(t)

BudgetNext == (\E t \in Callers : Pass(t)) \/ ResetBudget \/ BudgetTick

BudgetSpec == BudgetInit /\ [][BudgetNext]_budgetVars
-----------------------------------------------------------------------------
BudgetTypeOK ==
  /\ calls \in Seq(0..BudgetWindow + 1)
  /\ place \in [Callers -> {"idle", "clock", "prune", "pop", "charge"}]
  /\ stale \in [Callers -> Nat]
  /\ made \in [0..BudgetWindow -> Nat]

\* The quota of a window may be overdrawn in two ways, and by one call for each
\* other thread in either.  A call is compared with it before it is recorded.
\* And a pop whose test was overtaken by another thread's pop takes a call of the
\* window out of the count; but it takes the oldest, so that no further thread
\* finds a stale entry to prune until that call has left the window.
OverdraftBounded ==
  made[BudgetWindow] <= MaxCalls + 2 * (Cardinality(Callers) - 1)

\* "Check budget; if OK, record this call.  Raises BudgetExhausted."
\* (check_and_record): no pop ever meets an empty deque.  The code does not keep
\* it: PopEmpty.
OnlyExhaustionIsRaised == \A t \in Callers : place[t] = "pop" => calls # <<>>
=============================================================================
