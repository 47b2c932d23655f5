------------------------------- MODULE LLMCalls -------------------------------
(***************************************************************************)
(* A call of the model from its first check to its last request: the       *)
(* budget (CallBudget), then the breaker and the requests (LLMClient), by  *)
(* the threads of one process and under one clock.                         *)
(***************************************************************************)
EXTENDS LLMClient, CallBudget

ASSUME SameThreads == Callers = Threads

callVars == <<vars, budgetVars>>

CallInit == Init /\ BudgetInit

\* Every method asks the budget first; a refused call goes no further.
AskBudget(t) ==
  /\ pc[t] = "idle"
  /\ Ask(t)
  /\ UNCHANGED vars

\* A call that has been charged goes on to the breaker or its first request.
Charged(t) == Record(t) /\ \E m \in Methods : Begin(t, m)

Request(t) == Proceed(t) /\ UNCHANGED budgetVars

\* One clock for both.
PassTime == Tick /\ BudgetTick

CallNext ==
  \/ \E t \in Threads : AskBudget(t) \/ Charged(t) \/ Request(t)
  \/ ResetBreaker /\ UNCHANGED budgetVars
  \/ ResetBudget /\ UNCHANGED vars
  \/ PassTime

\* Time passes; whether a thread moves or a request is answered is not known.
CallSpec == CallInit /\ [][CallNext]_callVars /\ WF_callVars(PassTime)
=============================================================================
