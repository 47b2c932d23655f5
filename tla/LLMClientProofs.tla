--------------------------- MODULE LLMClientProofs ---------------------------
(***************************************************************************)
(* For any number of threads and any settings: of the budget, the types    *)
(* and the bound on the overdraft; of the breaker, the types, the flat     *)
(* cool-off, and the bound on what leaks while it is open.                 *)
(***************************************************************************)
EXTENDS LLMCalls, FiniteSetTheorems, TLAPS

HitAges == 0..HitWindow + 1

\* Pruning leaves a deque of the same kind that is no longer.
LEMMA PrunedProperties ==
  ASSUME NEW S, NEW s \in Seq(S), NEW w, NEW left \in Pruned(s, w)
  PROVE  left \in Seq(S) /\ Len(left) <= Len(s)
<1>1. PICK k \in 0..Len(s) : left = SubSeq(s, k + 1, Len(s))
  BY DEF Pruned
<1> QED  BY <1>1

\* Ageing keeps the deque and its length.
LEMMA OlderProperties ==
  ASSUME NEW w \in Nat, NEW s \in Seq(0..w + 1)
  PROVE  Older(s, w) \in Seq(0..w + 1) /\ Len(Older(s, w)) = Len(s)
<1>1. \A i \in 1..Len(s) : Smaller(s[i] + 1, w + 1) \in 0..w + 1
  BY DEF Smaller
<1> QED  BY <1>1 DEF Older

\* The cool-off of a trip on exactly Threshold hits is the base value.
LEMMA TripAtThreshold == TripCooldown(Threshold) = BaseCooldown
<1>1. 2 ^ (Threshold - Threshold) = 1
  BY ClientAssumption
<1> QED  BY <1>1, ClientAssumption DEF TripCooldown, Smaller

\* The arithmetic part of the assumption.
LEMMA Sizes ==
  /\ HitWindow \in Nat /\ MaxRetries \in Nat
  /\ Threshold \in Nat /\ Threshold > 0 /\ MaxRetries > 0
  /\ BaseCooldown \in Nat /\ BaseCooldown > 0
  /\ MaxCooldown \in Nat /\ BaseCooldown <= MaxCooldown
BY ClientAssumption

-----------------------------------------------------------------------------
\* A trip happens on exactly Threshold hits only because a closed breaker
\* holds fewer, so the three facts are inductive together.
BreakerInv == TypeOK /\ ClosedBelowThreshold /\ CooldownNeverDoubles

\* Initially the breaker is empty and no call is under way.
LEMMA InitBreaker == Init => BreakerInv
<1> SUFFICES ASSUME Init PROVE BreakerInv
  OBVIOUS
<1>1. hits \in Seq(0..HitWindow + 1)
  BY DEF Init
<1>3. tripped \in BOOLEAN
  BY DEF Init
<1>5. cooldown \in 0..MaxCooldown
  BY Sizes DEF Init
<1>6. method \in [Threads -> Methods \cup {None}]
  BY DEF Init
<1>4. /\ pc \in [Threads -> {"idle", "guard", "ready", "waiting"}]
      /\ attempt \in [Threads -> 0..MaxRetries] /\ leaked \in [Threads -> Nat]
  BY Sizes DEF Init
<1>2. ClosedBelowThreshold /\ CooldownNeverDoubles
  BY Sizes DEF Init, ClosedBelowThreshold, CooldownNeverDoubles
<1> QED  BY <1>1, <1>2, <1>3, <1>4, <1>5, <1>6 DEF BreakerInv, TypeOK

\* What a step may do to the history `leaked`, by type.
LEMMA StillLeakedType ==
  ASSUME NEW sent \in [Threads -> Nat], StillLeaked(sent)
  PROVE  leaked' \in [Threads -> Nat]
BY DEF StillLeaked

\* A thread that leaves its call keeps the types of the thread variables.
LEMMA LeaveTypes ==
  ASSUME TypeOK, NEW t \in Threads, Leave(t)
  PROVE  /\ method' \in [Threads -> Methods \cup {None}]
         /\ pc' \in [Threads -> {"idle", "guard", "ready", "waiting"}]
         /\ attempt' \in [Threads -> 0..MaxRetries]
<1>1. pc' = [pc EXCEPT ![t] = "idle"] /\ method' = [method EXCEPT ![t] = None]
  BY DEF Leave, Enter
<1>2. attempt' = [attempt EXCEPT ![t] = 0] /\ 0 \in 0..MaxRetries
  BY Sizes DEF Leave
<1> QED  BY <1>1, <1>2 DEF TypeOK

\* The steps of a thread that leave the breaker's deque alone or prune it.
LEMMA CallBreaker ==
  ASSUME BreakerInv, NEW t \in Threads,
         \/ \E m \in Methods : Begin(t, m)
         \/ FailFast(t) \/ CacheHit(t)
         \/ Send(t) \/ Conclude(t) \/ Retry(t)
  PROVE  BreakerInv'
<1> USE Sizes DEF BreakerInv, ClosedBelowThreshold, CooldownNeverDoubles
<1>1. CASE \E m \in Methods : Begin(t, m)
  <2>1. PICK m \in Methods : Begin(t, m)
    BY <1>1
  <2>2. attempt' \in [Threads -> 0..MaxRetries]
    <3>1. attempt' = attempt \/ attempt' = [attempt EXCEPT ![t] = 1]
      BY <2>1 DEF Begin
    <3>2. attempt \in [Threads -> 0..MaxRetries] /\ 1 \in 0..MaxRetries
      BY DEF TypeOK
    <3> QED  BY <3>1, <3>2
  <2>3. /\ pc' \in [Threads -> {"idle", "guard", "ready", "waiting"}]
        /\ method' \in [Threads -> Methods \cup {None}]
    BY <2>1 DEF Begin, TypeOK, Enter
  <2>4. /\ hits' = hits /\ tripped' = tripped
        /\ cooldown' = cooldown /\ leaked' = leaked
    BY <2>1 DEF Begin, breakerVars
  <2> QED  BY <2>2, <2>3, <2>4 DEF TypeOK
<1>4. CASE FailFast(t)
  <2>1. hits' \in Seq(HitAges) /\ Len(hits') <= Len(hits)
    BY <1>4, PrunedProperties DEF FailFast, TypeOK, HitAges
  <2> QED  BY <1>4, <2>1 DEF FailFast, TypeOK, HitAges, Leave, Enter, Open
<1>5. CASE CacheHit(t)
  <2>1. hits' = hits /\ tripped' = tripped
        /\ cooldown' = cooldown /\ leaked' = leaked /\ Leave(t)
    BY <1>5 DEF CacheHit, breakerVars
  <2> QED  BY <2>1, LeaveTypes DEF TypeOK
<1>6. CASE Send(t)
  <2> DEFINE sent == IF method[t] = "complete"
                       THEN [leaked EXCEPT ![t] = @ + 1] ELSE leaked
  <2>2. sent \in [Threads -> Nat]
    BY DEF TypeOK
  <2>3. StillLeaked(sent)
    BY <1>6 DEF Send
  <2> HIDE DEF sent
  <2>1. leaked' \in [Threads -> Nat]
    BY <2>2, <2>3, StillLeakedType
  <2> QED  BY <1>6, <2>1 DEF Send, TypeOK, Enter, breakerVars
<1>7. CASE Conclude(t)
  BY <1>7, LeaveTypes DEF Conclude, TypeOK, breakerVars
<1>8. CASE Retry(t)
  BY <1>8 DEF Retry, TypeOK, Enter, breakerVars
<1> QED  BY <1>1, <1>4, <1>5, <1>6, <1>7, <1>8

\* A guard that finds the breaker closed recovers it with an empty deque.
LEMMA PassGuardBreaker ==
  ASSUME BreakerInv, NEW t \in Threads, PassGuard(t)
  PROVE  BreakerInv'
<1> USE Sizes DEF BreakerInv
<1>1. leaked' \in [Threads -> Nat]
  BY StillLeakedType DEF PassGuard, TypeOK
<1>4. tripped' \in BOOLEAN
  BY DEF PassGuard, Recover
<1>6. hits' \in Seq(HitAges)
  <2>1. hits' = <<>> \/ hits' = hits
    BY DEF PassGuard, Recover
  <2>2. hits \in Seq(HitAges) /\ <<>> \in Seq(HitAges)
    BY DEF TypeOK, HitAges
  <2> QED  BY <2>1, <2>2
<1>5. attempt' \in [Threads -> 0..MaxRetries]
  BY DEF PassGuard, TypeOK
<1>2. TypeOK'
  BY <1>1, <1>4, <1>5, <1>6 DEF PassGuard, TypeOK, Recover, Enter, HitAges
<1>3. ClosedBelowThreshold' /\ CooldownNeverDoubles'
  BY DEF PassGuard, Recover, ClosedBelowThreshold, CooldownNeverDoubles
<1> QED  BY <1>2, <1>3

\* A 429 on a closed breaker brings the deque to Threshold hits at most.
LEMMA RateLimitedBreaker ==
  ASSUME BreakerInv, NEW t \in Threads, RateLimited(t)
  PROVE  BreakerInv'
<1> USE Sizes DEF BreakerInv
<1>1. PICK left \in Pruned(Append(hits, 0), HitWindow) :
        /\ hits' = left
        /\ LET trips == Len(left) >= Threshold /\ ~tripped
           IN  /\ tripped' = (tripped \/ trips)
               /\ cooldown' = IF trips THEN TripCooldown(Len(left))
                                       ELSE BaseCooldown
  BY DEF RateLimited
<1>2. Append(hits, 0) \in Seq(HitAges) /\ Len(Append(hits, 0)) = Len(hits) + 1
  BY DEF TypeOK, HitAges
<1>3. left \in Seq(HitAges) /\ Len(left) <= Len(hits) + 1
  BY <1>2, PrunedProperties
<1>4. Len(left) \in Nat /\ Len(hits) \in Nat
  BY <1>3 DEF TypeOK
<1>5. Len(left) >= Threshold /\ ~tripped => Len(left) = Threshold
  BY <1>3, <1>4 DEF ClosedBelowThreshold
<1>6. cooldown' = BaseCooldown
  BY <1>1, <1>5, TripAtThreshold
<1>7. ClosedBelowThreshold' /\ CooldownNeverDoubles'
  <2>1. ~tripped' => ~(Len(left) >= Threshold)
    BY <1>1
  <2>2. ~tripped' => Len(left) < Threshold
    BY <2>1, <1>4
  <2>3. Len(hits') = Len(left)
    BY <1>1
  <2>4. cooldown' <= BaseCooldown
    BY <1>6
  <2> QED  BY <2>2, <2>3, <2>4 DEF ClosedBelowThreshold, CooldownNeverDoubles
<1>8. leaked' \in [Threads -> Nat]
  BY StillLeakedType DEF RateLimited, TypeOK
<1>10. tripped' \in BOOLEAN
  BY <1>1 DEF TypeOK
<1>11. cooldown' \in 0..MaxCooldown
  BY <1>6
<1>12. Leave(t)
  BY DEF RateLimited
<1>9. TypeOK'
  BY <1>1, <1>3, <1>8, <1>10, <1>11, <1>12, LeaveTypes DEF TypeOK, HitAges
<1> QED  BY <1>7, <1>9

\* The administrative resets and the passing of time.
LEMMA OtherBreaker ==
  ASSUME BreakerInv, ResetBreaker \/ Tick \/ UNCHANGED vars
  PROVE  BreakerInv'
<1> USE Sizes DEF BreakerInv, ClosedBelowThreshold, CooldownNeverDoubles
<1>1. CASE ResetBreaker
  BY <1>1 DEF ResetBreaker, TypeOK, threadVars
<1>3. CASE Tick
  <2>1. hits' \in Seq(HitAges) /\ Len(hits') = Len(hits)
    BY <1>3, OlderProperties DEF Tick, TypeOK, HitAges
  <2>2. leaked' \in [Threads -> Nat]
    BY <1>3, StillLeakedType DEF Tick, TypeOK
  <2>3. cooldown' \in 0..MaxCooldown /\ cooldown' <= BaseCooldown
    BY <1>3 DEF Tick, TypeOK
  <2> QED  BY <1>3, <2>1, <2>2, <2>3 DEF Tick, TypeOK, threadVars, HitAges
<1>4. CASE UNCHANGED vars
  BY <1>4 DEF vars, TypeOK
<1> QED  BY <1>1, <1>3, <1>4

\* The breaker's invariant is inductive.
LEMMA NextBreaker == BreakerInv /\ [Next]_vars => BreakerInv'
<1> SUFFICES ASSUME BreakerInv, [Next]_vars PROVE BreakerInv'
  OBVIOUS
<1>1. CASE \E t \in Threads : Step(t)
  BY <1>1, CallBreaker, PassGuardBreaker, RateLimitedBreaker DEF Step, Proceed
<1>2. CASE ResetBreaker \/ Tick \/ UNCHANGED vars
  BY <1>2, OtherBreaker
<1> QED  BY <1>1, <1>2 DEF Next

\* The breaker's invariant always holds.
LEMMA BreakerCorrect == Spec => []BreakerInv
BY InitBreaker, NextBreaker, PTL DEF Spec

\* Every variable of the client keeps its type.
THEOREM ClientTypeCorrect == Spec => []TypeOK
BY BreakerCorrect, PTL DEF BreakerInv

\* The exponential term of record_hit never lengthens a cool-off.
THEOREM CooldownFlat == Spec => []CooldownNeverDoubles
BY BreakerCorrect, PTL DEF BreakerInv

-----------------------------------------------------------------------------
\* What thread t may have sent at most since the breaker opened, and whether
\* it is past the guard.
Past(t) == pc[t] \in {"ready", "waiting"} /\ method[t] = "complete"
Allowance(t) == IF Past(t)
                  THEN IF pc[t] = "ready" THEN attempt[t] - 1 ELSE attempt[t]
                  ELSE MaxRetries

LeakInv ==
  /\ \A t \in Threads : Past(t) => attempt[t] >= 1
  /\ \A t \in Threads : leaked[t] <= Allowance(t)
  /\ ~Open => \A t \in Threads : leaked[t] = 0
  /\ Open => \E t \in Threads : leaked[t] = 0 /\ ~Past(t)

\* Nothing is allowed to be negative.
LEMMA AllowanceNat ==
  ASSUME TypeOK, \A t \in Threads : Past(t) => attempt[t] >= 1
  PROVE  \A t \in Threads : Allowance(t) \in Nat
<1> TAKE t \in Threads
<1>1. attempt[t] \in Nat /\ MaxRetries \in Nat
  BY Sizes DEF TypeOK
<1> QED  BY <1>1 DEF Allowance

\* So no thread has sent more than the attempts of one call.
LEMMA LeakedMax ==
  ASSUME TypeOK, LeakInv
  PROVE  \A t \in Threads : leaked[t] <= MaxRetries
<1> TAKE t \in Threads
<1>1. attempt[t] \in 0..MaxRetries /\ leaked[t] \in Nat /\ MaxRetries \in Nat
  BY Sizes DEF TypeOK
<1>2. Allowance(t) \in Nat /\ Allowance(t) <= MaxRetries
  BY <1>1 DEF Allowance, LeakInv
<1> QED  BY <1>1, <1>2 DEF LeakInv

\* The step of one thread keeps the invariant when it takes nothing new past
\* an open guard, and when the thread that opens the breaker is not past it.
LEMMA LeakStep ==
  ASSUME TypeOK', LeakInv, NEW t \in Threads,
         \A u \in Threads \ {t} : /\ pc'[u] = pc[u] /\ method'[u] = method[u]
                                   /\ attempt'[u] = attempt[u],
         Past(t)' => attempt'[t] >= 1,
         ~Open' => \A u \in Threads : leaked'[u] = 0,
         Open' => /\ \A u \in Threads \ {t} : leaked'[u] = leaked[u]
                  /\ leaked'[t] <= Allowance(t)'
                  /\ ~Past(t) \/ ~Open => ~Past(t)' /\ leaked'[t] = leaked[t]
  PROVE  LeakInv'
<1>1. \A u \in Threads \ {t} : (Past(u)' <=> Past(u)) /\ Allowance(u)' = Allowance(u)
  BY DEF Past, Allowance
<1>2. \A u \in Threads : Past(u)' => attempt'[u] >= 1
  BY <1>1 DEF LeakInv
<1>3. \A u \in Threads : Allowance(u)' \in Nat
  <2> TAKE u \in Threads
  <2>1. attempt'[u] \in Nat /\ MaxRetries \in Nat
    BY Sizes DEF TypeOK
  <2> QED  BY <2>1, <1>2 DEF Allowance
<1>4. \A u \in Threads : leaked'[u] <= Allowance(u)'
  <2>1. CASE Open'
    BY <2>1, <1>1 DEF LeakInv
  <2>2. CASE ~Open'
    <3>1. \A u \in Threads : leaked'[u] = 0
      BY <2>2
    <3> QED  BY <3>1, <1>3
  <2> QED  BY <2>1, <2>2
<1>5. Open' => \E u \in Threads : leaked'[u] = 0 /\ ~Past(u)'
  <2> SUFFICES ASSUME Open' PROVE \E u \in Threads : leaked'[u] = 0 /\ ~Past(u)'
    OBVIOUS
  <2>1. CASE Open
    <3>1. PICK u \in Threads : leaked[u] = 0 /\ ~Past(u)
      BY <2>1 DEF LeakInv
    <3>2. CASE u = t
      BY <3>1, <3>2
    <3>3. CASE u # t
      BY <3>1, <3>3, <1>1
    <3> QED  BY <3>2, <3>3
  <2>2. CASE ~Open
    BY <2>2 DEF LeakInv
  <2> QED  BY <2>1, <2>2
<1> QED  BY <1>2, <1>4, <1>5 DEF LeakInv

\* What the thread steps have in common, in the form LeakStep asks for.
LEMMA ThreadLeak ==
  ASSUME BreakerInv, BreakerInv', LeakInv, NEW t \in Threads, Step(t)
  PROVE  LeakInv'
<1> USE DEF BreakerInv
<1>z. StillLeaked(leaked) => (~Open' => \A u \in Threads : leaked'[u] = 0)
  BY DEF StillLeaked
<1>1. CASE \E m \in Methods : Begin(t, m)
  <2>m. PICK m \in Methods : Begin(t, m)
    BY <1>1
  <2>1. /\ hits' = hits /\ tripped' = tripped /\ cooldown' = cooldown
        /\ leaked' = leaked
    BY <2>m DEF Begin, breakerVars
  <2>2. Open' <=> Open
    BY <2>1 DEF Open
  <2>3. ~Past(t) /\ ~Past(t)'
    BY <2>m DEF Begin, Past, Enter, TypeOK, Methods
  <2>4. \A u \in Threads \ {t} : /\ pc'[u] = pc[u] /\ method'[u] = method[u]
                                  /\ attempt'[u] = attempt[u]
    BY <2>m DEF Begin, Enter, TypeOK
  <2>5. leaked'[t] <= Allowance(t)'
    BY <2>1, <2>3 DEF LeakInv, Allowance
  <2> QED  BY <2>1, <2>2, <2>3, <2>4, <2>5, LeakStep DEF LeakInv
<1>3. CASE PassGuard(t)
  <2>1. ~Open'
    BY <1>3 DEF PassGuard, Recover, Open
  <2>2. \A u \in Threads \ {t} : /\ pc'[u] = pc[u] /\ method'[u] = method[u]
                                  /\ attempt'[u] = attempt[u]
    BY <1>3 DEF PassGuard, Enter, TypeOK
  <2>3. attempt'[t] = 1
    BY <1>3 DEF PassGuard, TypeOK
  <2>4. \A u \in Threads : leaked'[u] = 0
    BY <1>3, <2>1, <1>z DEF PassGuard
  <2> QED  BY <2>1, <2>2, <2>3, <2>4, LeakStep
<1>4. CASE FailFast(t) \/ CacheHit(t) \/ Conclude(t)
  <2>1. /\ tripped' = tripped /\ cooldown' = cooldown /\ leaked' = leaked
        /\ Leave(t)
    BY <1>4 DEF FailFast, CacheHit, Conclude, breakerVars
  <2>2. Open' <=> Open
    BY <2>1 DEF Open
  <2>3. ~Past(t)'
    BY <2>1 DEF Leave, Enter, Past, TypeOK
  <2>4. \A u \in Threads \ {t} : /\ pc'[u] = pc[u] /\ method'[u] = method[u]
                                  /\ attempt'[u] = attempt[u]
    BY <2>1 DEF Leave, Enter, TypeOK
  <2>5. Allowance(t)' = MaxRetries /\ leaked[t] <= MaxRetries
    BY <2>3, LeakedMax DEF Allowance
  <2> QED  BY <2>1, <2>2, <2>3, <2>4, <2>5, LeakStep DEF LeakInv
<1>5. CASE Send(t)
  <2>1. /\ tripped' = tripped /\ cooldown' = cooldown
        /\ method' = method /\ attempt' = attempt
        /\ pc[t] = "ready" /\ pc' = [pc EXCEPT ![t] = "waiting"]
    BY <1>5 DEF Send, breakerVars, Enter
  <2>2. Open' <=> Open
    BY <2>1 DEF Open
  <2>3. pc'[t] = "waiting" /\ \A u \in Threads \ {t} : pc'[u] = pc[u]
    BY <2>1 DEF TypeOK
  <2>4. (Past(t)' <=> Past(t)) /\ attempt'[t] = attempt[t]
    BY <2>1, <2>3 DEF Past
  <2>5. ~Open' => \A u \in Threads : leaked'[u] = 0
    BY <1>5 DEF Send, StillLeaked
  <2>6. CASE method[t] = "complete"
    <3>1. Open' => leaked' = [leaked EXCEPT ![t] = @ + 1]
      BY <1>5, <2>6 DEF Send, StillLeaked
    <3>2. Past(t) /\ Allowance(t) = attempt[t] - 1
      BY <2>1, <2>6 DEF Past, Allowance
    <3>3. Allowance(t)' = attempt[t]
      BY <2>1, <2>3, <2>4, <3>2 DEF Allowance
    <3>4. Open' => leaked'[t] <= Allowance(t)'
      BY <3>1, <3>2, <3>3 DEF LeakInv, TypeOK
    <3>5. Open' => \A u \in Threads \ {t} : leaked'[u] = leaked[u]
      BY <3>1 DEF TypeOK
    <3> QED  BY <2>1, <2>2, <2>3, <2>4, <2>5, <3>2, <3>4, <3>5, LeakStep DEF LeakInv
  <2>7. CASE method[t] # "complete"
    <3>1. Open' => leaked' = leaked
      BY <1>5, <2>7 DEF Send, StillLeaked
    <3>2. ~Past(t) /\ ~Past(t)'
      BY <2>4, <2>7 DEF Past
    <3>3. leaked[t] <= MaxRetries /\ Allowance(t)' = MaxRetries
      BY <3>2 DEF LeakInv, Allowance
    <3> QED  BY <2>1, <2>2, <2>3, <2>5, <3>1, <3>2, <3>3, LeakStep
  <2> QED  BY <2>6, <2>7
<1>6. CASE Retry(t)
  <2>1. /\ tripped' = tripped /\ cooldown' = cooldown /\ leaked' = leaked
        /\ method' = method /\ attempt' = [attempt EXCEPT ![t] = @ + 1]
        /\ pc[t] = "waiting" /\ pc' = [pc EXCEPT ![t] = "ready"]
        /\ method[t] = "complete"
    BY <1>6 DEF Retry, breakerVars, Enter
  <2>2. Open' <=> Open
    BY <2>1 DEF Open
  <2>3. /\ pc'[t] = "ready" /\ attempt'[t] = attempt[t] + 1
        /\ \A u \in Threads \ {t} : pc'[u] = pc[u] /\ attempt'[u] = attempt[u]
    BY <2>1 DEF TypeOK
  <2>4. Past(t) /\ Past(t)' /\ Allowance(t) = attempt[t]
    BY <2>1, <2>3 DEF Past, Allowance
  <2>a. attempt[t] \in Nat
    BY DEF TypeOK
  <2>5. Allowance(t)' = attempt[t] /\ attempt'[t] >= 1
    <3>1. attempt[t] >= 1
      BY <2>4 DEF LeakInv
    <3>2. Allowance(t)' = attempt'[t] - 1
      BY <2>3, <2>4 DEF Allowance
    <3> QED  BY <3>1, <3>2, <2>3, <2>a
  <2>6. leaked'[t] <= Allowance(t)'
    BY <2>1, <2>4, <2>5 DEF LeakInv
  <2>7. ~Open' => \A u \in Threads : leaked'[u] = 0
    BY <2>1, <2>2 DEF LeakInv
  <2>8. Open' => Open
    BY <2>2
  <2> QED  BY <2>1, <2>3, <2>4, <2>5, <2>6, <2>7, <2>8, LeakStep
<1>7. CASE RateLimited(t)
  <2>1. Leave(t) /\ StillLeaked(leaked)
    BY <1>7 DEF RateLimited
  <2>2. ~Past(t)'
    BY <2>1 DEF Leave, Enter, Past, TypeOK
  <2>3. \A u \in Threads \ {t} : /\ pc'[u] = pc[u] /\ method'[u] = method[u]
                                  /\ attempt'[u] = attempt[u]
    BY <2>1 DEF Leave, Enter, TypeOK
  <2>4. Allowance(t)' = MaxRetries /\ leaked[t] <= MaxRetries
    BY <2>2, LeakedMax DEF Allowance
  <2>5. Open' => leaked' = leaked
    BY <2>1 DEF StillLeaked
  <2> QED  BY <1>z, <2>1, <2>2, <2>3, <2>4, <2>5, LeakStep
<1> QED  BY <1>1, <1>3, <1>4, <1>5, <1>6, <1>7 DEF Step, Proceed

\* The leak invariant is inductive.
LEMMA NextLeak == BreakerInv /\ BreakerInv' /\ LeakInv /\ [Next]_vars => LeakInv'
<1> SUFFICES ASSUME BreakerInv, BreakerInv', LeakInv, [Next]_vars PROVE LeakInv'
  OBVIOUS
<1>1. CASE \E t \in Threads : Step(t)
  BY <1>1, ThreadLeak
<1>2. CASE UNCHANGED vars
  <2>1. /\ tripped' = tripped /\ cooldown' = cooldown /\ leaked' = leaked
        /\ pc' = pc /\ method' = method /\ attempt' = attempt
    BY <1>2 DEF vars
  <2> QED  BY <2>1 DEF LeakInv, Open, Past, Allowance
<1>3. CASE ResetBreaker \/ Tick
  <2>1. pc' = pc /\ method' = method /\ attempt' = attempt
    BY <1>3 DEF ResetBreaker, Tick, threadVars
  <2>2. ~Open' => \A u \in Threads : leaked'[u] = 0
    BY <1>3 DEF ResetBreaker, Tick, StillLeaked
  <2>3. Open' => Open /\ leaked' = leaked
    <3>1. CASE ResetBreaker
      BY <3>1 DEF ResetBreaker, Open
    <3>2. CASE Tick
      <4>1. tripped' = tripped /\ (cooldown' > 0 => cooldown > 0)
        BY <3>2 DEF Tick, BreakerInv, TypeOK
      <4>2. Open' => leaked' = leaked
        BY <3>2 DEF Tick, StillLeaked
      <4> QED  BY <4>1, <4>2 DEF Open
    <3> QED  BY <1>3, <3>1, <3>2
  <2>4. \A u \in Threads : Allowance(u) \in Nat
    BY AllowanceNat DEF LeakInv, BreakerInv
  <2>5. \A u \in Threads : leaked'[u] <= Allowance(u)
    BY <2>2, <2>3, <2>4 DEF LeakInv
  <2> QED  BY <2>1, <2>2, <2>3, <2>5 DEF LeakInv, Past, Allowance
<1> QED  BY <1>1, <1>2, <1>3 DEF Next

\* A closed breaker with nobody in a call.
LEMMA InitLeak == Init => LeakInv
<1> SUFFICES ASSUME Init PROVE LeakInv
  OBVIOUS
<1>1. \A t \in Threads : ~Past(t) /\ leaked[t] = 0 /\ Allowance(t) = MaxRetries
  BY DEF Init, Past, Allowance
<1>2. ~Open
  BY DEF Init, Open
<1> QED  BY <1>1, <1>2, Sizes DEF LeakInv

\* What the invariant says of the leak.
LEMMA LeakGives == BreakerInv /\ LeakInv => LeakBounded
<1> SUFFICES ASSUME BreakerInv, LeakInv PROVE LeakBounded
  OBVIOUS
<1>1. \A t \in Threads : leaked[t] <= MaxRetries
  BY LeakedMax DEF BreakerInv
<1> QED  BY <1>1 DEF LeakInv, LeakBounded

\* Through an open breaker leaks at most what was under way, and nothing of
\* the thread that opened it (breaker_guard at the entry of a call only, and
\* the missing retry after a 429).
THEOREM LeakCorrect == Spec => []LeakBounded
BY InitLeak, LeakGives, NextLeak, BreakerCorrect, PTL DEF Spec

-----------------------------------------------------------------------------
\* A call that was compared with the quota and not recorded yet counts, and so
\* does a pop whose test is done.
Charging == {t \in Callers : place[t] = "charge"}
Popping == {t \in Callers : place[t] = "pop"}

QuotaInv == Len(calls) + Cardinality(Charging) < MaxCalls + Cardinality(Callers)

\* What a thread takes for stale is older than the window.
StaleInv ==
  \A t \in Callers : /\ stale[t] <= Len(calls)
                     /\ \A i \in 1..stale[t] : calls[i] > BudgetWindow

\* Somebody has not tested, or what was tested is still in front, or a reset came.
PopInv == (\A t \in Callers : place[t] = "pop")
            => calls = <<>> \/ calls[1] > BudgetWindow

\* The first k entries are those older than a.
Split(a, k) == \A i \in 1..Len(calls) : calls[i] > a <=> i <= k

\* Of the calls made within a ticks the deque has all, or it has nothing older
\* and lacks one for each thread at most, of which one has not popped.
Held(a, k) ==
  /\ Split(a, k)
  /\ \/ made[a] = Len(calls) - k
     \/ /\ k = 0
        /\ made[a] + Cardinality(Popping) < Len(calls) + Cardinality(Callers)

CountInv == \A a \in 0..BudgetWindow : \E k \in 0..Len(calls) : Held(a, k)

BudgetInv == BudgetTypeOK /\ QuotaInv /\ StaleInv /\ PopInv /\ CountInv

\* The sets of threads that charge or pop are no larger than all threads.
LEMMA ThreadSets ==
  ASSUME NEW S \in SUBSET Callers
  PROVE  /\ IsFiniteSet(S)
         /\ Cardinality(S) \in Nat
         /\ Cardinality(S) <= Cardinality(Callers)
         /\ Cardinality(Callers) \in Nat /\ Cardinality(Callers) > 0
         /\ S # Callers => Cardinality(S) < Cardinality(Callers)
<1>1. Cardinality(Callers) # 0
  BY BudgetAssumption, FS_EmptySet
<1>2. /\ IsFiniteSet(S) /\ Cardinality(S) \in Nat
      /\ Cardinality(S) <= Cardinality(Callers) /\ Cardinality(Callers) \in Nat
  BY BudgetAssumption, FS_Subset, FS_CardinalityType
<1>3. S # Callers => Cardinality(S) < Cardinality(Callers)
  BY <1>2, BudgetAssumption, FS_Subset
<1> QED  BY <1>1, <1>2, <1>3

\* Initially nothing is recorded and nobody is in the budget.
LEMMA InitBudget == BudgetInit => BudgetInv
<1> SUFFICES ASSUME BudgetInit PROVE BudgetInv
  OBVIOUS
<1> USE BudgetAssumption
<1>1. BudgetTypeOK
  BY DEF BudgetInit, BudgetTypeOK
<1>2. Charging = {} /\ Popping = {} /\ Len(calls) = 0
  BY DEF BudgetInit, Charging, Popping
<1>3. Cardinality({}) = 0 /\ Cardinality(Callers) > 0 /\ Cardinality(Callers) \in Nat
  BY FS_EmptySet, ThreadSets
<1>4. QuotaInv
  BY <1>2, <1>3 DEF QuotaInv
<1>5. StaleInv /\ PopInv
  BY DEF BudgetInit, StaleInv, PopInv
<1>6. CountInv
  <2> SUFFICES ASSUME NEW a \in 0..BudgetWindow
               PROVE  \E k \in 0..Len(calls) : Held(a, k)
    BY DEF CountInv
  <2>1. Held(a, 0)
    BY <1>2 DEF BudgetInit, Held, Split
  <2> QED  BY <2>1, <1>2
<1> QED  BY <1>1, <1>4, <1>5, <1>6 DEF BudgetInv

\* An entry of a deque has the type of its entries.
LEMMA EntryType ==
  ASSUME NEW S, NEW s \in Seq(S), NEW i \in 1..Len(s)
  PROVE  s[i] \in S
OBVIOUS

\* Steps that leave the deque and the count of recorded calls alone: they keep
\* the count when nobody new pops, or when something stale is in front.
LEMMA SameCalls ==
  ASSUME BudgetInv, UNCHANGED <<calls, made>>,
         \/ Popping' \subseteq Popping
         \/ calls # <<>> /\ calls[1] > BudgetWindow
  PROVE  CountInv'
<1> SUFFICES ASSUME NEW a \in 0..BudgetWindow
             PROVE  (\E k \in 0..Len(calls) : Held(a, k))'
  BY DEF CountInv
<1> USE DEF BudgetInv, BudgetTypeOK
<1>1. PICK k \in 0..Len(calls) : Held(a, k)
  BY DEF CountInv
<1>2. Split(a, k)'
  BY <1>1 DEF Held, Split
<1>3. Popping \in SUBSET Callers /\ Popping' \in SUBSET Callers
  BY DEF Popping
<1>4. CASE Popping' \subseteq Popping
  <2>1. Cardinality(Popping') <= Cardinality(Popping)
    BY <1>3, <1>4, ThreadSets, FS_Subset
  <2>2. Cardinality(Popping) \in Nat /\ Cardinality(Popping') \in Nat
    BY <1>3, ThreadSets
  <2>3. Len(calls) \in Nat /\ made[a] \in Nat /\ Cardinality(Callers) \in Nat
    BY <1>3, ThreadSets
  <2> QED  BY <1>1, <1>2, <2>1, <2>2, <2>3 DEF Held
<1>5. CASE calls # <<>> /\ calls[1] > BudgetWindow
  <2>1. Len(calls) \in Nat /\ Len(calls) >= 1 /\ calls[1] \in Nat
    <3>1. calls \in Seq(0..BudgetWindow + 1)
      OBVIOUS
    <3>2. Len(calls) \in Nat /\ Len(calls) >= 1
      BY <3>1, <1>5
    <3>3. 1 \in 1..Len(calls)
      BY <3>2
    <3>4. calls[1] \in 0..BudgetWindow + 1
      BY ONLY <3>1, <3>3, EntryType
    <3> QED  BY <3>2, <3>4, BudgetAssumption
  <2>2. calls[1] > a
    BY <1>5, <2>1, BudgetAssumption
  <2>3. k # 0
    BY <1>1, <2>1, <2>2 DEF Held, Split
  <2> QED  BY <1>1, <1>2, <2>3 DEF Held
<1> QED  BY <1>4, <1>5

\* A pop keeps the types, what is stale, and the count: of a stale entry
\* because it is not counted, and of any other because its thread had tested.
LEMMA PopKeeps ==
  ASSUME BudgetInv, calls # <<>>, PopFront, UNCHANGED made,
         NEW t \in Callers, Move(t, "prune"),
         place[t] = "pop" \/ calls[1] > BudgetWindow
  PROVE  BudgetInv'
<1> USE DEF BudgetInv, BudgetTypeOK
<1>1. /\ calls' = Tail(calls) /\ Len(calls) \in Nat /\ Len(calls) >= 1
      /\ Len(calls') = Len(calls) - 1 /\ Len(calls') \in Nat
      /\ \A i \in 1..Len(calls') : calls'[i] = calls[i + 1]
  BY DEF PopFront
<1>2. BudgetTypeOK'
  <2>1. calls' \in Seq(0..BudgetWindow + 1)
    BY <1>1
  <2>2. stale' \in [Callers -> Nat]
    BY DEF PopFront
  <2>3. place' \in [Callers -> {"idle", "clock", "prune", "pop", "charge"}]
    BY DEF Move
  <2> QED  BY <2>1, <2>2, <2>3
<1>3. Charging' \subseteq Charging /\ Popping' = Popping \ {t}
      /\ Charging \in SUBSET Callers /\ Popping \in SUBSET Callers
      /\ Charging' \in SUBSET Callers /\ Popping' \in SUBSET Callers
  BY DEF Move, Charging, Popping
<1>4. QuotaInv'
  <2>1. Cardinality(Charging') <= Cardinality(Charging)
    BY <1>3, ThreadSets, FS_Subset
  <2>2. /\ Cardinality(Charging) \in Nat /\ Cardinality(Charging') \in Nat
        /\ Cardinality(Callers) \in Nat
    BY <1>3, ThreadSets
  <2> QED  BY <2>1, <2>2, <1>1, BudgetAssumption DEF QuotaInv
<1>5. StaleInv'
  <2> SUFFICES ASSUME NEW u \in Callers
               PROVE  /\ stale'[u] <= Len(calls')
                      /\ \A i \in 1..stale'[u] : calls'[i] > BudgetWindow
    BY DEF StaleInv
  <2>1. /\ stale[u] \in Nat /\ stale[u] <= Len(calls)
        /\ \A i \in 1..stale[u] : calls[i] > BudgetWindow
    BY DEF StaleInv
  <2>2. stale'[u] = IF stale[u] > 0 THEN stale[u] - 1 ELSE 0
    BY DEF PopFront
  <2>3. stale'[u] <= Len(calls')
    BY <2>1, <2>2, <1>1
  <2>4. ASSUME NEW i \in 1..stale'[u] PROVE calls'[i] > BudgetWindow
    <3>1. i + 1 \in 1..stale[u] /\ i \in 1..Len(calls')
      BY <2>1, <2>2, <2>3, <1>1
    <3> QED  BY <3>1, <2>1, <1>1
  <2> QED  BY <2>3, <2>4
<1>6. PopInv'
  BY DEF PopInv, Move
<1>7. CountInv'
  <2> SUFFICES ASSUME NEW a \in 0..BudgetWindow
               PROVE  (\E k \in 0..Len(calls) : Held(a, k))'
    BY DEF CountInv
  <2>1. PICK k \in 0..Len(calls) : Held(a, k)
    BY DEF CountInv
  <2>2. \A i \in 1..Len(calls) : calls[i] > a <=> i <= k
    BY <2>1 DEF Held, Split
  <2>3. CASE k > 0
    <3>1. \A i \in 1..Len(calls') : calls'[i] > a <=> i <= k - 1
      BY <2>2, <2>3, <1>1
    <3>2. made[a] = Len(calls) - k
      BY <2>1, <2>3 DEF Held
    <3>3. k - 1 \in 0..Len(calls') /\ made'[a] = Len(calls') - (k - 1)
      BY <2>3, <3>2, <1>1
    <3>4. Held(a, k - 1)'
      BY <3>1, <3>3 DEF Held, Split
    <3> QED  BY <3>3, <3>4
  <2>4. CASE k = 0
    <3>1. \A i \in 1..Len(calls') : calls'[i] > a <=> i <= 0
      BY <2>2, <2>4, <1>1
    <3>2. ~(calls[1] > a)
      BY <2>2, <2>4, <1>1
    <3>3. calls[1] \in Nat /\ ~(calls[1] > BudgetWindow)
      BY <3>2, <1>1, BudgetAssumption
    <3>4. t \in Popping
      BY <3>3 DEF Popping
    <3>5. Popping # Callers
      BY <3>3 DEF PopInv, Popping
    <3>6. /\ Cardinality(Popping') = Cardinality(Popping) - 1
          /\ Cardinality(Popping) < Cardinality(Callers)
          /\ Cardinality(Popping) \in Nat /\ Cardinality(Callers) \in Nat
      BY <1>3, <3>4, <3>5, ThreadSets, FS_RemoveElement
    <3>7. made'[a] + Cardinality(Popping') < Len(calls') + Cardinality(Callers)
      BY <2>1, <2>4, <3>6, <1>1 DEF Held
    <3>8. Held(a, 0)'
      BY <3>1, <3>7 DEF Held, Split
    <3> QED  BY <3>8, <1>1
  <2> QED  BY <2>3, <2>4
<1> QED  BY <1>2, <1>4, <1>5, <1>6, <1>7

\* The steps that leave the deque alone.
LEMMA LookKeeps ==
  ASSUME BudgetInv, NEW t \in Callers,
         ReadClock(t) \/ Test(t) \/ PopEmpty(t) \/ Admit(t) \/ Refuse(t)
  PROVE  BudgetInv'
<1> USE DEF BudgetInv, BudgetTypeOK
<1>1. /\ calls' = calls /\ made' = made
      /\ \E at \in {"idle", "clock", "pop", "charge"} :
           place' = [place EXCEPT ![t] = at] /\ (at = "pop" => Test(t))
                                             /\ (at = "charge" => Admit(t))
  BY DEF ReadClock, Test, PopEmpty, Admit, Refuse, Move
<1>2. stale' \in [Callers -> Nat] /\ StaleInv'
  <2>1. CASE ReadClock(t)
    <3>1. PICK k \in StaleFront : stale' = [stale EXCEPT ![t] = k]
      BY <2>1 DEF ReadClock
    <3>2. k \in Nat /\ k <= Len(calls) /\ \A i \in 1..k : calls[i] > BudgetWindow
      BY DEF StaleFront
    <3>3. stale' \in [Callers -> Nat]
      BY <3>1, <3>2
    <3>4. \A u \in Callers : stale'[u] = k \/ stale'[u] = stale[u]
      BY <3>1
    <3> QED  BY <1>1, <3>2, <3>3, <3>4 DEF StaleInv
  <2>2. CASE ~ReadClock(t)
    <3>1. stale' = stale
      BY <2>2 DEF Test, PopEmpty, Admit, Refuse
    <3> QED  BY <1>1, <3>1 DEF StaleInv
  <2> QED  BY <2>1, <2>2
<1>3. BudgetTypeOK'
  BY <1>1, <1>2
<1>4. Test(t) => calls # <<>> /\ calls[1] > BudgetWindow
  BY DEF Test, StaleInv
<1>5. PopInv'
  <2> SUFFICES ASSUME \A u \in Callers : place'[u] = "pop"
               PROVE  calls = <<>> \/ calls[1] > BudgetWindow
    BY <1>1 DEF PopInv
  <2>1. place'[t] = "pop"
    OBVIOUS
  <2> QED  BY <2>1, <1>1, <1>4
<1>6. CountInv'
  <2>1. CASE Test(t)
    BY <2>1, <1>1, <1>4, SameCalls
  <2>2. CASE ~Test(t)
    <3>1. Popping' \subseteq Popping
      BY <2>2, <1>1 DEF Popping
    <3> QED  BY <3>1, <1>1, SameCalls
  <2> QED  BY <2>1, <2>2
<1>7. QuotaInv'
  <2>1. Charging \in SUBSET Callers /\ Charging' \in SUBSET Callers
    BY DEF Charging
  <2>2. /\ Cardinality(Charging) \in Nat /\ Cardinality(Charging') \in Nat
        /\ Cardinality(Charging') <= Cardinality(Callers)
        /\ Cardinality(Callers) \in Nat /\ Len(calls) \in Nat /\ MaxCalls \in Nat
    BY <2>1, ThreadSets, BudgetAssumption
  <2>3. CASE Admit(t)
    BY <2>2, <2>3, <1>1 DEF Admit, QuotaInv
  <2>4. CASE ~Admit(t)
    <3>1. Charging' \subseteq Charging
      BY <2>4, <1>1 DEF Charging
    <3>2. Cardinality(Charging') <= Cardinality(Charging)
      BY <2>1, <3>1, ThreadSets, FS_Subset
    <3> QED  BY <3>2, <2>2, <1>1 DEF QuotaInv
  <2> QED  BY <2>3, <2>4
<1> QED  BY <1>2, <1>3, <1>5, <1>6, <1>7

\* Recording moves a call from one term of the quota to the other, and adds to
\* both sides of the count.
LEMMA RecordKeeps ==
  ASSUME BudgetInv, NEW t \in Callers, Record(t)
  PROVE  BudgetInv'
<1> USE DEF BudgetInv, BudgetTypeOK
<1>1. /\ calls' = Append(calls, 0) /\ Len(calls') = Len(calls) + 1
      /\ Len(calls) \in Nat /\ stale' = stale
      /\ \A i \in 1..Len(calls) : calls'[i] = calls[i]
      /\ calls'[Len(calls) + 1] = 0
  BY DEF Record
<1>2. BudgetTypeOK'
  <2>1. calls' \in Seq(0..BudgetWindow + 1)
    BY <1>1, BudgetAssumption
  <2>2. made' \in [0..BudgetWindow -> Nat]
    BY DEF Record
  <2>3. place' \in [Callers -> {"idle", "clock", "prune", "pop", "charge"}]
    BY DEF Record, Move
  <2> QED  BY <2>1, <2>2, <2>3, <1>1
<1>3. /\ t \in Charging /\ Charging' = Charging \ {t}
      /\ Popping' = Popping /\ Charging \in SUBSET Callers
      /\ Popping \in SUBSET Callers
  BY DEF Record, Move, Charging, Popping
<1>4. QuotaInv'
  <2>1. /\ Cardinality(Charging') = Cardinality(Charging) - 1
        /\ Cardinality(Charging) \in Nat /\ Cardinality(Callers) \in Nat
    BY <1>3, ThreadSets, FS_RemoveElement
  <2> QED  BY <2>1, <1>1, BudgetAssumption DEF QuotaInv
<1>5. StaleInv'
  BY <1>1 DEF StaleInv
<1>6. PopInv'
  <2>1. place'[t] = "idle"
    BY DEF Record, Move
  <2> QED  BY <2>1 DEF PopInv
<1>7. CountInv'
  <2> SUFFICES ASSUME NEW a \in 0..BudgetWindow
               PROVE  (\E k \in 0..Len(calls) : Held(a, k))'
    BY DEF CountInv
  <2>1. PICK k \in 0..Len(calls) : Held(a, k)
    BY DEF CountInv
  <2>2. \A i \in 1..Len(calls') : calls'[i] > a <=> i <= k
    <3> TAKE i \in 1..Len(calls')
    <3>1. CASE i = Len(calls) + 1
      BY <3>1, <1>1
    <3>2. CASE i \in 1..Len(calls)
      BY <3>2, <1>1, <2>1 DEF Held, Split
    <3> QED  BY <3>1, <3>2, <1>1
  <2>3. made'[a] = made[a] + 1 /\ made[a] \in Nat
    BY DEF Record
  <2>4. Cardinality(Popping) \in Nat /\ Cardinality(Callers) \in Nat
    BY <1>3, ThreadSets
  <2>5. \/ made'[a] = Len(calls') - k
        \/ k = 0 /\ made'[a] + Cardinality(Popping') < Len(calls') + Cardinality(Callers)
    BY <2>1, <2>3, <2>4, <1>1, <1>3 DEF Held
  <2>6. Held(a, k)' /\ k \in 0..Len(calls')
    BY <2>2, <2>5, <1>1 DEF Held, Split
  <2> QED  BY <2>6
<1> QED  BY <1>2, <1>4, <1>5, <1>6, <1>7

\* The reset empties the deque and starts the count anew.
LEMMA ResetKeeps ==
  ASSUME BudgetInv, ResetBudget
  PROVE  BudgetInv'
<1> USE DEF BudgetInv, BudgetTypeOK
<1>1. /\ calls' = <<>> /\ Len(calls') = 0 /\ place' = place
      /\ \A a \in 0..BudgetWindow : made'[a] = 0
      /\ \A u \in Callers : stale'[u] = 0
  BY DEF ResetBudget
<1>2. BudgetTypeOK'
  BY DEF ResetBudget
<1>3. QuotaInv'
  <2>1. Charging' = Charging /\ Charging \in SUBSET Callers
    BY <1>1 DEF Charging
  <2>2. Cardinality(Charging) \in Nat /\ Cardinality(Callers) \in Nat
    BY <2>1, ThreadSets
  <2> QED  BY <2>1, <2>2, <1>1, BudgetAssumption DEF QuotaInv
<1>4. StaleInv' /\ PopInv'
  BY <1>1 DEF StaleInv, PopInv
<1>5. CountInv'
  <2> SUFFICES ASSUME NEW a \in 0..BudgetWindow
               PROVE  (\E k \in 0..Len(calls) : Held(a, k))'
    BY DEF CountInv
  <2>1. Held(a, 0)'
    BY <1>1 DEF Held, Split
  <2> QED  BY <2>1, <1>1
<1> QED  BY <1>2, <1>3, <1>4, <1>5

\* A tick later the calls of the last a ticks are those of the last a - 1.
LEMMA TickKeeps ==
  ASSUME BudgetInv, BudgetTick
  PROVE  BudgetInv'
<1> USE BudgetAssumption DEF BudgetInv, BudgetTypeOK
<1>1. /\ place' = place /\ stale' = stale
      /\ calls' = [i \in 1..Len(calls) |->
                     IF calls[i] > BudgetWindow THEN calls[i] ELSE calls[i] + 1]
  BY DEF BudgetTick
<1>2. calls' \in Seq(0..BudgetWindow + 1) /\ Len(calls') = Len(calls) /\ Len(calls) \in Nat
  <2>1. \A i \in 1..Len(calls) :
          (IF calls[i] > BudgetWindow THEN calls[i] ELSE calls[i] + 1)
            \in 0..BudgetWindow + 1
    OBVIOUS
  <2> QED  BY <2>1, <1>1
<1>3. made' \in [0..BudgetWindow -> Nat]
  BY DEF BudgetTick
<1>4. \A i \in 1..Len(calls) :
        /\ calls[i] \in Nat
        /\ calls'[i] = IF calls[i] > BudgetWindow THEN calls[i] ELSE calls[i] + 1
  BY <1>1
<1>5. BudgetTypeOK'
  BY <1>1, <1>2, <1>3
<1>6. Charging' = Charging /\ Popping' = Popping
  BY <1>1 DEF Charging, Popping
<1>7. QuotaInv'
  BY <1>2, <1>6 DEF QuotaInv
<1>8. StaleInv'
  <2> SUFFICES ASSUME NEW u \in Callers
               PROVE  /\ stale[u] <= Len(calls')
                      /\ \A i \in 1..stale[u] : calls'[i] > BudgetWindow
    BY <1>1 DEF StaleInv
  <2>1. stale[u] \in Nat /\ stale[u] <= Len(calls)
    BY DEF StaleInv
  <2>2. \A i \in 1..stale[u] : calls[i] > BudgetWindow /\ i \in 1..Len(calls)
    BY <2>1, <1>2 DEF StaleInv
  <2> QED  BY <2>1, <2>2, <1>2, <1>4
<1>9. PopInv'
  <2>1. calls' # <<>> => calls # <<>> /\ 1 \in 1..Len(calls)
    BY <1>2
  <2> QED  BY <2>1, <1>1, <1>4 DEF PopInv
<1>10. CountInv'
  <2> SUFFICES ASSUME NEW a \in 0..BudgetWindow
               PROVE  (\E k \in 0..Len(calls) : Held(a, k))'
    BY DEF CountInv
  <2>1. CASE a = 0
    <3>1. \A i \in 1..Len(calls') : calls'[i] > 0 <=> i <= Len(calls')
      BY <1>2, <1>4
    <3>2. made'[0] = 0
      BY DEF BudgetTick
    <3>3. Held(a, Len(calls))'
      BY <2>1, <3>1, <3>2, <1>2 DEF Held, Split
    <3> QED  BY <3>3, <1>2
  <2>2. CASE a > 0
    <3>1. a - 1 \in 0..BudgetWindow
      BY <2>2
    <3>2. PICK k \in 0..Len(calls) : Held(a - 1, k)
      BY <3>1 DEF CountInv
    <3>3. \A i \in 1..Len(calls') : calls'[i] > a <=> i <= k
      <4> TAKE i \in 1..Len(calls')
      <4>1. i \in 1..Len(calls)
        BY <1>2
      <4>2. calls'[i] > a <=> calls[i] > a - 1
        <5>1. /\ calls[i] \in Nat /\ a \in Nat /\ a <= BudgetWindow
              /\ calls'[i] = IF calls[i] > BudgetWindow THEN calls[i] ELSE calls[i] + 1
          BY <4>1, <1>4
        <5>2. CASE calls[i] > BudgetWindow
          BY <5>1, <5>2
        <5>3. CASE ~(calls[i] > BudgetWindow)
          BY <5>1, <5>3
        <5> QED  BY <5>2, <5>3
      <4>3. calls[i] > a - 1 <=> i <= k
        BY <4>1, <3>2 DEF Held, Split
      <4> QED  BY <4>2, <4>3
    <3>4. made'[a] = made[a - 1]
      BY <2>2 DEF BudgetTick
    <3>5. Held(a, k)' /\ k \in 0..Len(calls')
      BY <3>2, <3>3, <3>4, <1>2, <1>6 DEF Held, Split
    <3> QED  BY <3>5
  <2> QED  BY <2>1, <2>2
<1> QED  BY <1>5, <1>7, <1>8, <1>9, <1>10

\* The budget's invariant is inductive.
LEMMA NextBudget == BudgetInv /\ [BudgetNext]_budgetVars => BudgetInv'
<1> SUFFICES ASSUME BudgetInv, [BudgetNext]_budgetVars PROVE BudgetInv'
  OBVIOUS
<1>1. ASSUME NEW t \in Callers, Pass(t)
      PROVE  BudgetInv'
  <2>1. CASE FirstTurn(t)
    <3>1. calls # <<>> /\ calls[1] > BudgetWindow
      BY <2>1 DEF FirstTurn, BudgetInv, BudgetTypeOK, StaleInv
    <3> QED  BY <2>1, <3>1, PopKeeps DEF FirstTurn
  <2>2. CASE Pop(t)
    BY <2>2, PopKeeps DEF Pop
  <2>3. CASE ReadClock(t) \/ Test(t) \/ PopEmpty(t) \/ Admit(t) \/ Refuse(t)
    BY <2>3, LookKeeps
  <2>4. CASE Record(t)
    BY <2>4, RecordKeeps
  <2> QED  BY <1>1, <2>1, <2>2, <2>3, <2>4 DEF Pass, Ask
<1>2. CASE UNCHANGED budgetVars
  BY <1>2 DEF budgetVars, BudgetInv, BudgetTypeOK, QuotaInv, StaleInv, PopInv,
              CountInv, Held, Split, Charging, Popping
<1> QED  BY <1>1, <1>2, ResetKeeps, TickKeeps DEF BudgetNext

\* The budget's invariant always holds.
LEMMA BudgetCorrect == BudgetSpec => []BudgetInv
BY InitBudget, NextBudget, PTL DEF BudgetSpec

\* Every variable of the budget keeps its type.
THEOREM BudgetTypeCorrect == BudgetSpec => []BudgetTypeOK
BY BudgetCorrect, PTL DEF BudgetInv

\* In any window the quota is overdrawn by two calls for each other thread at
\* most, whatever the interleaving of the comparisons, the recordings and the
\* unlocked pruning (window_len, check_and_record).
THEOREM OverdraftCorrect == BudgetSpec => []OverdraftBounded
<1>1. BudgetInv => OverdraftBounded
  <2> SUFFICES ASSUME BudgetInv PROVE OverdraftBounded
    OBVIOUS
  <2> USE BudgetAssumption DEF BudgetInv, BudgetTypeOK
  <2>1. PICK k \in 0..Len(calls) : Held(BudgetWindow, k)
    BY DEF CountInv
  <2>2. Charging \in SUBSET Callers /\ Popping \in SUBSET Callers
    BY DEF Charging, Popping
  <2>3. /\ Cardinality(Charging) \in Nat /\ Cardinality(Popping) \in Nat
        /\ Cardinality(Callers) \in Nat /\ Cardinality(Callers) > 0
    BY <2>2, ThreadSets
  <2>4. Len(calls) \in Nat /\ made[BudgetWindow] \in Nat
    OBVIOUS
  <2>5. Len(calls) < MaxCalls + Cardinality(Callers)
    BY <2>3, <2>4 DEF QuotaInv
  <2>6. made[BudgetWindow] < Len(calls) + Cardinality(Callers)
    BY <2>1, <2>3, <2>4 DEF Held
  <2> QED  BY <2>3, <2>4, <2>5, <2>6 DEF OverdraftBounded
<1> QED  BY <1>1, BudgetCorrect, PTL

-----------------------------------------------------------------------------
\* A call is a step of the budget, of the client, or of both: what each does by
\* itself is what it does in the other's company.
LEMMA CallSteps == [CallNext]_callVars => [BudgetNext]_budgetVars /\ [Next]_vars
<1> SUFFICES ASSUME [CallNext]_callVars PROVE [BudgetNext]_budgetVars /\ [Next]_vars
  OBVIOUS
<1> USE SameThreads
<1>1. ASSUME NEW t \in Threads, AskBudget(t)
      PROVE  BudgetNext /\ UNCHANGED vars
  BY <1>1 DEF AskBudget, BudgetNext, Pass
<1>2. ASSUME NEW t \in Threads, Charged(t)
      PROVE  BudgetNext /\ Next
  BY <1>2 DEF Charged, BudgetNext, Pass, Next, Step
<1>3. ASSUME NEW t \in Threads, Request(t)
      PROVE  Next /\ UNCHANGED budgetVars
  BY <1>3 DEF Request, Next, Step
<1>4. CASE ResetBreaker /\ UNCHANGED budgetVars
  BY <1>4 DEF Next
<1>5. CASE ResetBudget /\ UNCHANGED vars
  BY <1>5 DEF BudgetNext
<1>6. CASE PassTime
  BY <1>6 DEF PassTime, Next, BudgetNext
<1>7. CASE UNCHANGED callVars
  BY <1>7 DEF callVars
<1> QED  BY <1>1, <1>2, <1>3, <1>4, <1>5, <1>6, <1>7 DEF CallNext

\* The calls of a process keep the budget's bound and the breaker's together: a
\* call that is charged, refused by the breaker or retried for longer than the
\* window does not loosen either (complete, from check_and_record to its end).
THEOREM CallsCorrect == CallSpec => []OverdraftBounded /\ []LeakBounded
<1>1. CallInit => BudgetInit /\ Init
  BY DEF CallInit
<1>2. CallSpec => BudgetSpec
  BY <1>1, CallSteps, PTL DEF CallSpec, BudgetSpec
<1>3. BreakerInv /\ LeakInv => LeakBounded
  BY LeakGives
<1>4. Init => LeakInv
  BY InitLeak
<1>5. CallSpec => [](BreakerInv /\ LeakInv)
  BY <1>1, <1>4, CallSteps, InitBreaker, NextBreaker, NextLeak, PTL DEF CallSpec
<1> QED  BY <1>2, <1>3, <1>5, OverdraftCorrect, PTL
=============================================================================
