------------------------------ MODULE LLMClient ------------------------------
(***************************************************************************)
(* The calls of the language model (OpenAICompatibleLLM in                 *)
(* llm/llm_factory.py) behind the 429 circuit breaker (_RateLimitBreaker), *)
(* which the threads of a process share: a call that the request budget    *)
(* has admitted (CallBudget; here it may admit any) passes the breaker and *)
(* may then send one or several requests.                                  *)
(*                                                                         *)
(* The breaker's methods hold its lock.  Time is kept relative: the deque  *)
(* holds the ages of its entries in ticks, and an age beyond the window is *)
(* as good as any other.  A clock reading and the critical section behind  *)
(* it fall into one tick.                                                  *)
(***************************************************************************)
EXTENDS Naturals, Sequences, FiniteSets

CONSTANTS
  Threads,       \* worker threads that call the model
  Threshold,     \* LLM_429_BREAKER_THRESHOLD
  HitWindow,     \* LLM_429_BREAKER_WINDOW_S
  BaseCooldown,  \* LLM_429_COOLDOWN_S
  MaxCooldown,   \* the 60 s cap of the exponential cool-off
  MaxRetries,    \* attempts of one complete()
  None           \* a thread outside any call

ASSUME ClientAssumption ==
  /\ IsFiniteSet(Threads) /\ Threads # {}
  /\ HitWindow \in Nat
  /\ Threshold \in Nat \ {0} /\ MaxRetries \in Nat \ {0}
  /\ BaseCooldown \in Nat \ {0} /\ MaxCooldown \in Nat
  /\ BaseCooldown <= MaxCooldown

\* chat and stream_complete take the steps of a complete that does not retry.
Methods == {"complete", "stream_chat"}

ASSUME NoneIsNoMethod == None \notin Methods

VARIABLES
  hits,     \* _RateLimitBreaker._hits: ages of the 429s
  tripped,  \* _tripped_at is set
  cooldown, \* ticks until _cooldown_until, 0 once it is reached
  method,   \* method[t]: the method t is in
  pc,       \* pc[t]: "idle", "guard", "ready", "waiting"
  attempt,  \* attempt[t]: the number of t's request within its call
  leaked    \* history: leaked[t], requests t has sent through a guarded
            \* method since the breaker opened, 0 while it is closed

threadVars == <<method, pc, attempt>>
breakerVars == <<hits, tripped, cooldown>>
vars == <<hits, tripped, cooldown, method, pc, attempt, leaked>>

Open == tripped /\ cooldown > 0

Init ==
  /\ hits = <<>>
  /\ tripped = FALSE /\ cooldown = 0
  /\ method = [t \in Threads |-> None]
  /\ pc = [t \in Threads |-> "idle"]
  /\ attempt = [t \in Threads |-> 0]
  /\ leaked = [t \in Threads |-> 0]

\* The deque s after the loop that pops entries older than `window` off its
\* front, as the only element of a set.
Pruned(s, window) ==
  {SubSeq(s, k + 1, Len(s)) : k \in {k \in 0..Len(s) :
     /\ \A i \in 1..k : s[i] > window
     /\ k < Len(s) => s[k + 1] <= window}}

Enter(t, at) == pc' = [pc EXCEPT ![t] = at]

Leave(t) ==
  /\ Enter(t, "idle")
  /\ method' = [method EXCEPT ![t] = None]
  /\ attempt' = [attempt EXCEPT ![t] = 0]

\* While the breaker is closed nothing counts as leaked.
StillLeaked(sent) == leaked' = IF Open' THEN sent ELSE [t \in Threads |-> 0]

-----------------------------------------------------------------------------
\* A call that the budget has admitted.  stream_chat consults no breaker.
Begin(t, m) ==
  /\ pc[t] = "idle"
  /\ method' = [method EXCEPT ![t] = m]
  /\ IF m = "complete"
       THEN Enter(t, "guard") /\ UNCHANGED attempt
       ELSE Enter(t, "ready") /\ attempt' = [attempt EXCEPT ![t] = 1]
  /\ UNCHANGED <<breakerVars, leaked>>

\* is_open with the cool-off elapsed.
Recover ==
  /\ tripped' = FALSE
  /\ hits' = IF tripped THEN <<>> ELSE hits
  /\ UNCHANGED cooldown

\* A mutated form: the guard is not consulted.
PassGuardAlways(t) ==
  /\ pc[t] = "guard"
  /\ UNCHANGED breakerVars
  /\ Enter(t, "ready")
  /\ attempt' = [attempt EXCEPT ![t] = 1]
  /\ StillLeaked(leaked)
  /\ UNCHANGED method

\* breaker_guard finds the breaker closed.
PassGuard(t) ==
  /\ pc[t] = "guard"
  /\ ~Open
  /\ Recover
  /\ Enter(t, "ready")
  /\ attempt' = [attempt EXCEPT ![t] = 1]
  /\ StillLeaked(leaked)
  /\ UNCHANGED method

\* A mutated form: a refused call counts as a 429 and renews the cool-off.
FailFastRenewing(t) ==
  /\ pc[t] = "guard"
  /\ Open
  /\ hits' = hits /\ cooldown' = BaseCooldown
  /\ Leave(t)
  /\ UNCHANGED <<tripped, leaked>>

\* breaker_guard finds it open: LLMRateLimitedError; get_window_hits prunes.
FailFast(t) ==
  /\ pc[t] = "guard"
  /\ Open
  /\ hits' \in Pruned(hits, HitWindow)
  /\ Leave(t)
  /\ UNCHANGED <<tripped, cooldown, leaked>>

\* The response cache answers a complete(); its charge stays.
CacheHit(t) ==
  /\ pc[t] = "ready" /\ method[t] = "complete" /\ attempt[t] = 1
  /\ Leave(t)
  /\ UNCHANGED <<breakerVars, leaked>>

\* A request goes out; neither guard is consulted again before a retry.
Send(t) ==
  /\ pc[t] = "ready"
  /\ Enter(t, "waiting")
  /\ UNCHANGED <<breakerVars, method, attempt>>
  /\ StillLeaked(IF method[t] = "complete"
                    THEN [leaked EXCEPT ![t] = @ + 1] ELSE leaked)

\* The call ends: an answer, an error that is not retried, the last attempt,
\* or anything at all in stream_chat.
Conclude(t) ==
  /\ pc[t] = "waiting"
  /\ Leave(t)
  /\ UNCHANGED <<breakerVars, leaked>>

\* complete() after a transient error, or an answer without the JSON asked for.
Retry(t) ==
  /\ pc[t] = "waiting" /\ method[t] = "complete"
  /\ attempt[t] < MaxRetries
  /\ attempt' = [attempt EXCEPT ![t] = @ + 1]
  /\ Enter(t, "ready")
  /\ UNCHANGED <<breakerVars, method, leaked>>

Smaller(a, b) == IF a < b THEN a ELSE b

\* The cool-off of a breaker that trips on n hits.
TripCooldown(n) == Smaller(BaseCooldown * 2 ^ (n - Threshold), MaxCooldown)

\* record_hit for a 429, real or read into the text of an error; the caller
\* raises.  A hit on a tripped breaker, or below the threshold, sets the
\* cool-off to its base value.
RateLimited(t) ==
  /\ pc[t] = "waiting" /\ method[t] = "complete"
  /\ \E left \in Pruned(Append(hits, 0), HitWindow) :
       /\ hits' = left
       /\ LET trips == Len(left) >= Threshold /\ ~tripped
          IN  /\ tripped' = (tripped \/ trips)
              /\ cooldown' = IF trips THEN TripCooldown(Len(left))
                                      ELSE BaseCooldown
  /\ Leave(t)
  /\ StillLeaked(leaked)

\* _RateLimitBreaker.reset leaves the trip flag alone.
ResetBreaker ==
  /\ hits' = <<>> /\ cooldown' = 0
  /\ leaked' = [t \in Threads |-> 0]
  /\ UNCHANGED <<tripped, threadVars>>

\* A tick later; ages saturate once they are beyond the window.
Older(s, window) == [i \in 1..Len(s) |-> Smaller(s[i] + 1, window + 1)]

Tick ==
  /\ hits' = Older(hits, HitWindow)
  /\ cooldown' = IF cooldown > 0 THEN cooldown - 1 ELSE 0
  /\ UNCHANGED <<tripped, threadVars>>
  /\ StillLeaked(leaked)

\* The steps of a call that has begun.
Proceed(t) ==
  \/ PassGuard(t) \/ FailFast(t) \/ CacheHit(t) \/ Send(t)
  \/ Conclude(t) \/ Retry(t) \/ RateLimited(t)

Step(t) == Proceed(t) \/ \E m \in Methods : Begin(t, m)

Next == \/ \E t \in Threads : Step(t)
        \/ ResetBreaker \/ Tick

\* Time passes; whether a thread moves or a request is answered is not known.
Spec == Init /\ [][Next]_vars /\ WF_vars(Tick)
-----------------------------------------------------------------------------
TypeOK ==
  /\ hits \in Seq(0..HitWindow + 1)
  /\ tripped \in BOOLEAN
  /\ cooldown \in 0..MaxCooldown
  /\ method \in [Threads -> Methods \cup {None}]
  /\ pc \in [Threads -> {"idle", "guard", "ready", "waiting"}]
  /\ attempt \in [Threads -> 0..MaxRetries]
  /\ leaked \in [Threads -> Nat]

\* Once the breaker has opened, the calls under way may still send their
\* remaining attempts, but nothing else reaches the provider through a guarded
\* method until it closes: no new call, and no retry by the thread whose 429
\* opened it.
LeakBounded ==
  /\ \A t \in Threads : leaked[t] <= MaxRetries
  /\ Open => \E t \in Threads : leaked[t] = 0

\* The exponential cool-off never takes effect: a breaker can trip only on
\* exactly Threshold hits, because a recovery empties the deque and late hits
\* on a tripped breaker are forgotten with it.
CooldownNeverDoubles == cooldown <= BaseCooldown

\* A closed breaker has seen fewer hits than would have tripped it.
ClosedBelowThreshold == ~tripped => Len(hits) < Threshold

\* An open breaker closes although the 429s of calls under way renew its
\* cool-off: they are refused from then on, so the renewals run out.
BreakerCloses == Open ~> ~Open
=============================================================================
