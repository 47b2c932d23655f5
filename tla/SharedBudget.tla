---------------------------- MODULE SharedBudget ----------------------------
(***************************************************************************)
(* The request budget that processes share through a file                  *)
(* (llm/llm_factory.py, _BudgetTracker with LLM_BUDGET_SHARED_FILE), and   *)
(* the batch runner (scripts/run_4mode_batch.py) that starts one process   *)
(* after the other and paces itself by that file.                          *)
(*                                                                         *)
(* A process reads the file once, when it starts, and appends to it from   *)
(* then on; the file is not locked against other processes, and a process  *)
(* may die between any two steps (the batch runs it under "timeout").      *)
(* Threads of one process are the subject of CallBudget.                   *)
(***************************************************************************)
EXTENDS Naturals, FiniteSets

CONSTANTS
  Procs,        \* processes; the batch starts them, and so may anybody else
  Quota,        \* LLM_BUDGET_MAX_CALLS
  Window,       \* LLM_BUDGET_WINDOW_S
  RotateEvery,  \* LLM_BUDGET_ROTATE_EVERY
  None,         \* nobody, nothing
  MaxTime,      \* bound on the clock
  MaxCalls      \* bound on the calls recorded

ASSUME BudgetAssumption ==
  /\ IsFiniteSet(Procs) /\ None \notin Procs
  /\ Quota \in Nat \ {0} /\ Window \in Nat /\ RotateEvery \in Nat \ {0}
  /\ MaxTime \in Nat /\ MaxCalls \in Nat

VARIABLES
  now,      \* the clock
  issued,   \* calls recorded so far, to tell them apart
  lines,    \* the budget file: the calls recorded in it
  tmp,      \* the temporary file of a rotation, or None
  mine,     \* mine[p]: the calls p counts (its deque)
  pc,       \* pc[p]: where p is; "off" when it does not run
  last,     \* last[p]: the call p is recording
  kept,     \* kept[p]: what p's rotation has read
  appends,  \* appends[p]: appends of p since its last rotation
  spent,    \* history: the recorded calls that have gone past the budget
  batch,    \* the batch: "launch", "run", "look", "wait"
  child,    \* the process it runs
  until,    \* when its wait is over
  paced,    \* history: the child was launched behind a look at the budget
  company   \* history: "none", while only the batch has started processes; "apart",
            \* while no two have run at the same time; "together"

budget == <<lines, tmp, mine, last, kept, appends, issued, spent>>
batchVars == <<batch, child, until, paced>>
vars == <<now, issued, lines, tmp, mine, pc, last, kept, appends, spent, batch,
          child, until, paced, company>>

Calls == [id : 1..MaxCalls, at : 0..MaxTime]
NoCall == [id |-> 0, at |-> 0]
InWindow(S) == {c \in S : c.at + Window >= now}
Running == {p \in Procs : pc[p] # "off"}

Init ==
  /\ now = 0 /\ issued = 0 /\ lines = {} /\ tmp = None
  /\ mine = [p \in Procs |-> {}] /\ pc = [p \in Procs |-> "off"]
  /\ last = [p \in Procs |-> NoCall] /\ kept = [p \in Procs |-> {}]
  /\ appends = [p \in Procs |-> 0] /\ spent = {}
  /\ batch = "launch" /\ child = None /\ until = 0 /\ paced = FALSE
  /\ company = "none"

Goto(p, to) == pc' = [pc EXCEPT ![p] = to]
Tick == now < MaxTime /\ now' = now + 1
        /\ UNCHANGED <<budget, pc, batchVars, company>>

-----------------------------------------------------------------------------
\* load_shared: what the file holds of the window.
Load(p, meets) ==
  /\ pc[p] = "off"
  /\ Goto(p, "idle")
  /\ mine' = [mine EXCEPT ![p] = InWindow(lines)]
  /\ appends' = [appends EXCEPT ![p] = 0]
  /\ company' = IF Running # {} THEN "together" ELSE meets
  /\ UNCHANGED <<now, issued, lines, tmp, last, kept, spent>>

\* Somebody else starts a process.
Start(p) == Load(p, IF company = "none" THEN "apart" ELSE company) /\ UNCHANGED batchVars

\* check_and_record: BudgetExhausted leaves the process idle.
Check(p) ==
  /\ pc[p] = "idle"
  /\ mine' = [mine EXCEPT ![p] = InWindow(@)]
  /\ Goto(p, IF Cardinality(mine'[p]) >= Quota THEN "idle" ELSE "record")
  /\ UNCHANGED <<now, issued, lines, tmp, last, kept, appends, spent, batchVars, company>>

Record(p) ==
  /\ pc[p] = "record" /\ issued < MaxCalls
  /\ issued' = issued + 1
  /\ last' = [last EXCEPT ![p] = [id |-> issued + 1, at |-> now]]
  /\ mine' = [mine EXCEPT ![p] = @ \cup {last'[p]}]
  /\ Goto(p, "append")
  /\ UNCHANGED <<now, lines, tmp, kept, appends, spent, batchVars, company>>

\* A mutated form: the call is only counted, not written down.
AppendNothing(p) ==
  /\ pc[p] = "append"
  /\ appends' = [appends EXCEPT ![p] = (@ + 1) % RotateEvery]
  /\ Goto(p, IF appends'[p] = 0 THEN "rotate" ELSE "idle")
  /\ spent' = spent \cup {last[p]} /\ last' = [last EXCEPT ![p] = NoCall]
  /\ UNCHANGED <<now, issued, lines, tmp, mine, kept, batchVars, company>>

\* append_shared; every RotateEvery-th append rewrites the file.
Append(p) ==
  /\ pc[p] = "append"
  /\ lines' = lines \cup {last[p]}
  /\ appends' = [appends EXCEPT ![p] = (@ + 1) % RotateEvery]
  /\ Goto(p, IF appends'[p] = 0 THEN "rotate" ELSE "idle")
  /\ spent' = spent \cup {last[p]} /\ last' = [last EXCEPT ![p] = NoCall]
  /\ UNCHANGED <<now, issued, tmp, mine, kept, batchVars, company>>

\* A mutated form: a call as old as the window is dropped too early.
RotateReadShort(p) ==
  /\ pc[p] = "rotate"
  /\ kept' = [kept EXCEPT ![p] = {c \in lines : c.at + Window > now}]
  /\ Goto(p, "tmp")
  /\ UNCHANGED <<now, issued, lines, tmp, mine, last, appends, spent, batchVars, company>>

\* rotate_shared reads the file,
RotateRead(p) ==
  /\ pc[p] = "rotate"
  /\ kept' = [kept EXCEPT ![p] = InWindow(lines)]
  /\ Goto(p, "tmp")
  /\ UNCHANGED <<now, issued, lines, tmp, mine, last, appends, spent, batchVars, company>>

\* ... writes what it keeps to a temporary file of one name for all processes,
RotateWrite(p) ==
  /\ pc[p] = "tmp"
  /\ tmp' = [keeps |-> kept[p]] /\ kept' = [kept EXCEPT ![p] = {}]
  /\ Goto(p, "replace")
  /\ UNCHANGED <<now, issued, lines, mine, last, appends, spent, batchVars, company>>

\* ... and moves it over the file.  When another process has moved it away, the
\* error leaves check_and_record, and no call is made.
RotateReplace(p) ==
  /\ pc[p] = "replace"
  /\ lines' = IF tmp = None THEN lines ELSE tmp.keeps
  /\ tmp' = None /\ Goto(p, "idle")
  /\ UNCHANGED <<now, issued, mine, last, kept, appends, spent, batchVars, company>>

\* A process ends, or is killed wherever it is.
Stop(p) ==
  /\ pc[p] # "off"
  /\ Goto(p, "off")
  /\ mine' = [mine EXCEPT ![p] = {}] /\ kept' = [kept EXCEPT ![p] = {}]
  /\ last' = [last EXCEPT ![p] = NoCall] /\ appends' = [appends EXCEPT ![p] = 0]
  /\ UNCHANGED <<now, issued, lines, tmp, spent, batchVars, company>>

-----------------------------------------------------------------------------
\* The batch.  read_budget_used, and "pct" at its two marks.
Used == Cardinality(InWindow(lines))
Critical == 100 * Used >= 95 * Quota
Eased == 10 * Used < 9 * Quota

\* run_one starts a process ...
Launch(p) ==
  /\ batch = "launch" /\ batch' = "run" /\ child' = p
  /\ Load(p, company)
  /\ UNCHANGED <<until, paced>>

\* ... and waits for its end; the next mode of the event follows at once, the
\* next event behind a look at the budget.
ChildEnds ==
  /\ batch = "run" /\ pc[child] = "off"
  /\ child' = None /\ paced' = FALSE
  /\ batch' \in {"launch", "look"}
  /\ UNCHANGED <<now, budget, pc, until, company>>

\* budget_window_oldest_ts
Oldest(t) == \E c \in InWindow(lines) : c.at = t /\ \A d \in InWindow(lines) : t <= d.at

\* A mutated form: the batch stops waiting while the oldest call still counts.
LookShort ==
  /\ batch = "look" /\ paced' = TRUE
  /\ IF Critical
       THEN batch' = "wait" /\ \E t \in 0..MaxTime : Oldest(t) /\ until' = t + Window - 1
       ELSE batch' = "launch" /\ UNCHANGED until
  /\ UNCHANGED <<now, budget, pc, child, company>>

\* adaptive_event_sleep and wait_for_budget_window: until the oldest call of the
\* window has left it.
Look ==
  /\ batch = "look" /\ paced' = TRUE
  /\ IF Critical
       THEN batch' = "wait" /\ \E t \in 0..MaxTime : Oldest(t) /\ until' = t + Window + 1
       ELSE batch' = "launch" /\ UNCHANGED until
  /\ UNCHANGED <<now, budget, pc, child, company>>

Wait ==
  /\ batch = "wait" /\ (now >= until \/ Eased)
  /\ batch' = "launch" /\ until' = 0
  /\ UNCHANGED <<now, budget, pc, child, paced, company>>

Step(p) ==
  \/ Start(p) \/ Check(p) \/ Record(p) \/ Append(p)
  \/ RotateRead(p) \/ RotateWrite(p) \/ RotateReplace(p)
  \/ Stop(p) \/ Launch(p)

Next == Tick \/ ChildEnds \/ Look \/ Wait \/ \E p \in Procs : Step(p)

Spec == Init /\ [][Next]_vars
-----------------------------------------------------------------------------
TypeOK ==
  /\ now \in 0..MaxTime /\ issued \in 0..MaxCalls
  /\ lines \subseteq Calls /\ spent \subseteq Calls
  /\ tmp \in {None} \cup [keeps : SUBSET Calls]
  /\ mine \in [Procs -> SUBSET Calls] /\ kept \in [Procs -> SUBSET Calls]
  /\ last \in [Procs -> Calls \cup {NoCall}]
  /\ pc \in [Procs -> {"off", "idle", "record", "append", "rotate", "tmp", "replace"}]
  /\ appends \in [Procs -> 0..RotateEvery - 1]
  /\ batch \in {"launch", "run", "look", "wait"} /\ child \in Procs \cup {None}
  /\ until \in 0..MaxTime + Window + 1 /\ paced \in BOOLEAN /\ company \in {"none", "apart", "together"}

\* As long as no two processes have run at the same time, the quota holds over
\* all of them, however many have come, gone or died: each new one finds the
\* calls of the ones before it in the file.
QuotaAcrossRestarts == company # "together" => Cardinality(InWindow(spent)) <= Quota

\* "Rewrite the shared file to contain only timestamps in the window"
\* (rotate_shared): of one process at a time, no rotation and no death in the
\* middle of one loses a call of the window.
NothingForgotten == company # "together" => InWindow(spent) \subseteq lines

\* "Rotate every N appends to bound file size. We use a file lock"
\* (append_shared): the file keeps the calls of the window also when several
\* processes append and rotate.  The code does not keep it.
RotationIsLocked == InWindow(spent) \subseteq lines

\* "Otherwise we'd hit BudgetExhausted immediately on the next subprocess
\* invocation" (wait_for_budget_window): the process launched behind a look at
\* the budget can make a call, as long as nobody else starts any.
PacedChildHasRoom ==
  [][\A p \in Procs :
       Launch(p) /\ paced /\ company' = "none" => Cardinality(mine'[p]) < Quota]_vars

=============================================================================
