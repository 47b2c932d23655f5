------------------------- MODULE SharedBudgetProofs -------------------------
(***************************************************************************)
(* The shared budget for any quota, window, rotation interval and set of   *)
(* processes, and for runs of any length: the types, and what the file     *)
(* promises while no two processes run at the same time.                   *)
(***************************************************************************)
EXTENDS SharedBudget, FiniteSetTheorems, TLAPS

Places == {"off", "idle", "record", "append", "rotate", "tmp", "replace"}

LEMMA Sizes ==
  /\ Window \in Nat /\ MaxTime \in Nat /\ MaxCalls \in Nat /\ Quota \in Nat
  /\ RotateEvery \in Nat /\ RotateEvery > 0 /\ Quota > 0 /\ None \notin Procs
  BY BudgetAssumption

\* A process that records has been given a call.
TypeInv == TypeOK /\ \A p \in Procs : pc[p] = "append" => last[p] \in Calls

LEMMA InWindowShrinks ==
  ASSUME NEW S, NEW T, S \subseteq T PROVE InWindow(S) \subseteq InWindow(T) /\ InWindow(S) \subseteq S
  BY DEF InWindow

LEMMA InitTyped == Init => TypeInv
<1> SUFFICES ASSUME Init PROVE TypeInv
  OBVIOUS
<1> USE Sizes DEF Init
<1>1. now \in 0..MaxTime /\ issued \in 0..MaxCalls /\ until \in 0..MaxTime + Window + 1
  OBVIOUS
<1>2. mine \in [Procs -> SUBSET Calls] /\ kept \in [Procs -> SUBSET Calls]
  OBVIOUS
<1>3. appends \in [Procs -> 0..RotateEvery - 1]
  OBVIOUS
<1>4. /\ last \in [Procs -> Calls \cup {NoCall}]
      /\ pc \in [Procs -> {"off", "idle", "record", "append", "rotate", "tmp", "replace"}]
  OBVIOUS
<1>5. \A p \in Procs : pc[p] # "append"
  OBVIOUS
<1> QED BY <1>1, <1>2, <1>3, <1>4, <1>5 DEF TypeInv, TypeOK

LEMMA StepTyped == TypeInv /\ [Next]_vars => TypeInv'
<1> SUFFICES ASSUME TypeInv, [Next]_vars PROVE TypeInv'
  OBVIOUS
<1> USE Sizes DEF TypeInv, TypeOK, budget, batchVars
<1>1. CASE UNCHANGED vars
  BY <1>1 DEF vars
<1>2. CASE Tick
  BY <1>2 DEF Tick
<1>3. CASE ChildEnds
  BY <1>3 DEF ChildEnds
<1>4. CASE Look
  BY <1>4 DEF Look
<1>5. CASE Wait
  BY <1>5 DEF Wait
<1>6. ASSUME NEW p \in Procs, Step(p) PROVE TypeInv'
  <2>1. CASE \E m \in {"none", "apart", "together"} : Load(p, m) /\ UNCHANGED <<until, paced>> /\ batch' \in {"launch", "run", "look", "wait"} /\ child' \in {p, child}
    BY <2>1, InWindowShrinks DEF Load, Goto
  <2>2. CASE Start(p) \/ Launch(p)
    BY <2>1, <2>2 DEF Start, Launch
  <2>3. CASE Check(p)
    BY <2>3, InWindowShrinks DEF Check, Goto
  <2>4. CASE Record(p)
    BY <2>4 DEF Record, Goto, Calls
  <2>5. CASE Append(p)
    BY <2>5 DEF Append, Goto
  <2>6. CASE RotateRead(p)
    BY <2>6, InWindowShrinks DEF RotateRead, Goto
  <2>7. CASE RotateWrite(p)
    BY <2>7 DEF RotateWrite, Goto
  <2>8. CASE RotateReplace(p)
    BY <2>8 DEF RotateReplace, Goto
  <2>9. CASE Stop(p)
    BY <2>9 DEF Stop, Goto
  <2> QED BY <1>6, <2>2, <2>3, <2>4, <2>5, <2>6, <2>7, <2>8, <2>9 DEF Step
<1> QED BY <1>1, <1>2, <1>3, <1>4, <1>5, <1>6 DEF Next

LEMMA Typed == Spec => []TypeInv
  BY InitTyped, StepTyped, PTL DEF Spec

\* Every variable keeps its type: the calls recorded stay calls, a process that
\* appends has been given one, and the count of appends stays below the interval
\* of the rotations.
THEOREM TypeCorrect == Spec => []TypeOK
<1>1. TypeInv => TypeOK
  BY DEF TypeInv
<1> QED BY <1>1, Typed, PTL

-----------------------------------------------------------------------------
LEMMA CallsFinite == IsFiniteSet(Calls)
<1> DEFINE Pairs == (1..MaxCalls) \X (0..MaxTime)
           f == [x \in Pairs |-> [id |-> x[1], at |-> x[2]]]
<1>1. IsFiniteSet(1..MaxCalls) /\ IsFiniteSet(0..MaxTime)
  BY Sizes, FS_Interval
<1>2. IsFiniteSet(Pairs)
  BY <1>1, FS_Product
<1>3. f \in Surjection(Pairs, Calls)
  <2>1. \A x \in Pairs : f[x] \in Calls
    BY DEF Calls
  <2>2. ASSUME NEW c \in Calls PROVE \E x \in Pairs : f[x] = c
    <3>1. <<c.id, c.at>> \in Pairs /\ f[<<c.id, c.at>>] = c
      BY DEF Calls
    <3> QED BY <3>1
  <2> QED BY <2>1, <2>2 DEF Surjection
<1> QED BY <1>2, <1>3, FS_Surjection

LEMMA Sized ==
  ASSUME NEW S, S \subseteq Calls
  PROVE  /\ IsFiniteSet(S) /\ Cardinality(S) \in Nat
         /\ IsFiniteSet(InWindow(S)) /\ Cardinality(InWindow(S)) \in Nat
<1>1. InWindow(S) \subseteq Calls
  BY DEF InWindow
<1> QED BY <1>1, CallsFinite, FS_Subset, FS_CardinalityType

LEMMA Smaller ==
  ASSUME NEW S, NEW T, S \subseteq T, T \subseteq Calls
  PROVE  Cardinality(S) <= Cardinality(T)
  BY Sized, FS_Subset

-----------------------------------------------------------------------------
\* While the processes are apart, the one that runs knows every call of the
\* window, and so do the file and the stages of a rotation.
Knows(p) ==
  /\ InWindow(spent) \subseteq mine[p]
  /\ pc[p] = "record" => Cardinality(InWindow(mine[p])) < Quota
  /\ pc[p] = "append" => last[p] \in mine[p] /\ Cardinality(InWindow(mine[p])) <= Quota
  /\ pc[p] = "tmp" => InWindow(spent) \subseteq kept[p]
  /\ pc[p] = "replace" => tmp = None \/ InWindow(spent) \subseteq tmp.keeps

Apart ==
  /\ \A p, q \in Procs : pc[p] # "off" /\ pc[q] # "off" => p = q
  /\ InWindow(spent) \subseteq lines
  /\ Cardinality(InWindow(spent)) <= Quota
  /\ \A p \in Procs : pc[p] # "off" => Knows(p)

ApartInv == TypeInv /\ (company # "together" => Apart)

LEMMA InitApart == Init => ApartInv
<1> SUFFICES ASSUME Init PROVE ApartInv
  OBVIOUS
<1>1. InWindow(spent) = {} /\ Cardinality(InWindow(spent)) <= Quota
  BY Sizes, FS_EmptySet DEF Init, InWindow
<1>2. \A p \in Procs : pc[p] = "off"
  BY DEF Init
<1> QED BY <1>1, <1>2, InitTyped DEF ApartInv, Apart

LEMMA StepApart == ApartInv /\ [Next]_vars => ApartInv'
<1> SUFFICES ASSUME ApartInv, [Next]_vars, company' # "together" PROVE Apart'
  BY StepTyped DEF ApartInv
<1> USE Sizes DEF budget, batchVars
<1>t. TypeOK /\ TypeInv'
  BY StepTyped DEF ApartInv, TypeInv
<1>a. /\ lines \subseteq Calls /\ spent \subseteq Calls /\ mine \in [Procs -> SUBSET Calls]
      /\ kept \in [Procs -> SUBSET Calls] /\ now \in Nat /\ \A c \in Calls : c.at \in Nat
  BY <1>t DEF TypeOK, Calls
<1>b. /\ \A p \in Procs : mine[p] \subseteq Calls
      /\ \A p \in Procs : mine'[p] \subseteq Calls
      /\ \A p \in Procs : pc[p] = "append" => last[p] \in Calls
      /\ spent' \subseteq Calls
  BY <1>t DEF TypeOK, TypeInv, ApartInv
\* A step that leaves the calls alone, and may let the clock go on.
<1>q. ASSUME UNCHANGED <<budget, pc>>, now' \in Nat, now' >= now, company # "together" PROVE Apart'
  <2>0. Apart
    BY <1>q DEF ApartInv
  <2>1. \A S \in SUBSET Calls :
          {c \in S : c.at + Window >= now'} \subseteq InWindow(S)
    BY <1>q, <1>a DEF InWindow
  <2>2. \A S \in SUBSET Calls : S' = S => InWindow(S)' \subseteq InWindow(S)
    BY <2>1 DEF InWindow
  <2>3. \A S \in SUBSET Calls :
          /\ Cardinality({c \in S : c.at + Window >= now'}) \in Nat
          /\ Cardinality(InWindow(S)) \in Nat
          /\ Cardinality({c \in S : c.at + Window >= now'}) <= Cardinality(InWindow(S))
    <3> SUFFICES ASSUME NEW S \in SUBSET Calls
                 PROVE  /\ Cardinality({c \in S : c.at + Window >= now'}) \in Nat
                        /\ Cardinality(InWindow(S)) \in Nat
                        /\ Cardinality({c \in S : c.at + Window >= now'}) <= Cardinality(InWindow(S))
      OBVIOUS
    <3>1. InWindow(S) \subseteq Calls
      BY DEF InWindow
    <3> QED BY <3>1, <2>1, Smaller, Sized
  <2>4. Cardinality(InWindow(spent)') <= Quota
    <3>1. InWindow(spent)' = {c \in spent : c.at + Window >= now'}
      BY <1>q DEF InWindow
    <3> QED BY <3>1, <2>3, <2>0, <1>a, Sizes DEF Apart
  <2>5. InWindow(spent)' \subseteq InWindow(spent)
    BY <2>1, <1>q, <1>a DEF InWindow
  <2>6. ASSUME NEW p \in Procs, pc[p] # "off" PROVE Knows(p)'
    <3>1. Knows(p)
      BY <2>0, <2>6 DEF Apart
    <3>2. Cardinality(InWindow(mine[p])') <= Cardinality(InWindow(mine[p]))
          /\ Cardinality(InWindow(mine[p])') \in Nat /\ Cardinality(InWindow(mine[p])) \in Nat
      BY <2>3, <1>q, <1>b DEF InWindow
    <3> QED BY <3>1, <3>2, <2>5, <1>q DEF Knows
  <2> QED BY <2>0, <2>4, <2>5, <2>6, <1>q DEF Apart
<1>1. CASE UNCHANGED vars
  BY <1>1, <1>q, <1>a DEF vars
<1>2. CASE Tick
  BY <1>2, <1>q, <1>a DEF Tick
<1>3. CASE ChildEnds
  BY <1>3, <1>q, <1>a DEF ChildEnds
<1>4. CASE Look
  BY <1>4, <1>q, <1>a DEF Look
<1>5. CASE Wait
  BY <1>5, <1>q, <1>a DEF Wait
<1>6. ASSUME NEW p \in Procs, Step(p) PROVE Apart'
  <2> DEFINE Others == \A q \in Procs : q # p => pc'[q] = "off" /\ pc[q] = "off"
  <2>s. ASSUME Others, now' = now, InWindow(spent') \subseteq lines',
               Cardinality(InWindow(spent')) <= Quota, pc'[p] # "off" => Knows(p)'
        PROVE  Apart'
    <3>1. InWindow(spent)' = InWindow(spent')
      BY <2>s DEF InWindow
    <3> QED BY <2>s, <3>1 DEF Apart
  <2>1. CASE Start(p) \/ Launch(p)
    <3>1. /\ Running = {} /\ company # "together" /\ pc[p] = "off"
          /\ mine'[p] = InWindow(lines) /\ pc'[p] = "idle"
          /\ pc' = [pc EXCEPT ![p] = "idle"]
          /\ UNCHANGED <<now, spent, lines>>
      BY <2>1, <1>t DEF Start, Launch, Load, Goto, TypeOK
    <3>2. Apart /\ Others
      BY <3>1, <1>t DEF ApartInv, Running, TypeOK
    <3>3. Knows(p)'
      BY <3>1, <3>2 DEF Knows, Apart, InWindow
    <3> QED BY <3>1, <3>2, <3>3, <2>s DEF Apart
  <2>2. CASE ~ (Start(p) \/ Launch(p))
    <3>0. /\ company # "together" /\ pc[p] # "off" /\ now' = now
          /\ \A q \in Procs : q # p => pc'[q] = pc[q]
      BY <1>6, <2>2, <1>t DEF Step, Check, Record, Append, RotateRead, RotateWrite,
         RotateReplace, Stop, Goto, TypeOK
    <3>1. Apart /\ Knows(p) /\ Others
      BY <3>0, <1>6 DEF ApartInv, Apart
    <3>2. CASE Check(p)
      <4>1. InWindow(mine'[p]) = mine'[p] /\ mine'[p] = InWindow(mine[p])
        BY <3>2, <1>b, <1>a DEF Check, InWindow
      <4>2. Cardinality(mine'[p]) \in Nat
        BY <1>b, Sized
      <4>3. Knows(p)'
        <5>1. /\ UNCHANGED <<spent, lines, now>> /\ pc'[p] \in {"idle", "record"}
              /\ pc'[p] = "record" => ~ (Cardinality(mine'[p]) >= Quota)
          BY <3>2, <1>t DEF Check, Goto, TypeOK
        <5>2. InWindow(spent)' \subseteq mine'[p]
          BY <5>1, <4>1, <3>1 DEF Knows, InWindow
        <5>3. InWindow(mine[p])' = mine'[p]
          BY <5>1, <4>1 DEF InWindow
        <5> QED BY <5>1, <5>2, <5>3, <4>2 DEF Knows
      <4> QED BY <3>1, <3>2, <4>3, <2>s DEF Check, Apart
    <3>3. CASE Record(p)
      <4>1. /\ mine'[p] = mine[p] \cup {last'[p]} /\ pc'[p] = "append"
            /\ UNCHANGED <<spent, lines, now>>
        BY <3>3, <1>t DEF Record, Goto, TypeOK
      <4>2. InWindow(mine'[p]) \subseteq InWindow(mine[p]) \cup {last'[p]}
        BY <4>1 DEF InWindow
      <4>3. Cardinality(InWindow(mine'[p])) <= Cardinality(InWindow(mine[p])) + 1
            /\ Cardinality(InWindow(mine[p])) \in Nat /\ Cardinality(InWindow(mine'[p])) \in Nat
        <5>1. IsFiniteSet(InWindow(mine[p])) /\ Cardinality(InWindow(mine[p])) \in Nat
              /\ Cardinality(InWindow(mine'[p])) \in Nat
          BY <1>b, Sized
        <5>2. IsFiniteSet(InWindow(mine[p]) \cup {last'[p]})
              /\ Cardinality(InWindow(mine[p]) \cup {last'[p]}) \in Nat
              /\ Cardinality(InWindow(mine[p]) \cup {last'[p]}) <= Cardinality(InWindow(mine[p])) + 1
          <6> DEFINE T == InWindow(mine[p])
          <6>1. IsFiniteSet(T) /\ Cardinality(T) \in Nat
            BY <5>1
          <6> HIDE DEF T
          <6>2. /\ IsFiniteSet(T \cup {last'[p]})
                /\ Cardinality(T \cup {last'[p]}) = IF last'[p] \in T THEN Cardinality(T) ELSE Cardinality(T) + 1
            BY <6>1, FS_AddElement
          <6>3. Cardinality(T \cup {last'[p]}) \in Nat /\ Cardinality(T \cup {last'[p]}) <= Cardinality(T) + 1
            BY <6>1, <6>2
          <6> QED BY <6>2, <6>3 DEF T
        <5>3. Cardinality(InWindow(mine'[p])) <= Cardinality(InWindow(mine[p]) \cup {last'[p]})
          BY <5>2, <4>2, FS_Subset
        <5> QED BY <5>1, <5>2, <5>3
      <4>4. Cardinality(InWindow(mine[p])) < Quota
        BY <3>1, <3>3 DEF Knows, Record
      <4>5. Cardinality(InWindow(mine'[p])) <= Quota
        BY <4>3, <4>4
      <4>6. InWindow(mine[p])' = InWindow(mine'[p]) /\ InWindow(spent)' = InWindow(spent)
        BY <4>1 DEF InWindow
      <4>7. Knows(p)'
        BY <3>1, <4>1, <4>5, <4>6 DEF Knows
      <4> QED BY <3>1, <4>1, <4>7, <2>s DEF Apart
    <3>4. CASE Append(p)
      <4>1. /\ pc[p] = "append" /\ pc'[p] \in {"rotate", "idle"} /\ mine' = mine /\ now' = now
            /\ lines' = lines \cup {last[p]} /\ spent' = spent \cup {last[p]}
        BY <3>4, <1>t DEF Append, Goto, TypeOK
      <4>2. /\ InWindow(spent) \subseteq mine[p] /\ last[p] \in mine[p]
            /\ Cardinality(InWindow(mine[p])) <= Quota
        BY <3>1, <4>1 DEF Knows
      <4>3. InWindow(spent') \subseteq InWindow(mine[p]) /\ InWindow(spent') \subseteq lines'
        BY <4>1, <4>2, <3>1 DEF Apart, InWindow
      <4>4. Cardinality(InWindow(spent')) <= Quota
        <5>1. InWindow(mine[p]) \subseteq Calls
          BY <1>b DEF InWindow
        <5>2. Cardinality(InWindow(spent')) <= Cardinality(InWindow(mine[p]))
          BY <5>1, <4>3, Smaller
        <5> QED BY <5>2, <4>2, <1>b, Sized
      <4>5. Knows(p)'
        BY <4>1, <4>3 DEF Knows, InWindow
      <4> QED BY <3>1, <4>1, <4>3, <4>4, <4>5, <2>s
    <3>5. CASE RotateRead(p)
      <4>1. /\ pc'[p] = "tmp" /\ kept'[p] = InWindow(lines)
            /\ UNCHANGED <<mine, spent, lines, now>>
        BY <3>5, <1>t DEF RotateRead, Goto, TypeOK
      <4>2. Knows(p)'
        BY <4>1, <3>1 DEF Knows, Apart, InWindow
      <4> QED BY <4>1, <4>2, <3>1, <2>s DEF Apart
    <3>6. CASE RotateWrite(p)
      <4>1. /\ pc'[p] = "replace" /\ pc[p] = "tmp" /\ tmp'.keeps = kept[p]
            /\ UNCHANGED <<mine, spent, lines, now>>
        BY <3>6, <1>t DEF RotateWrite, Goto, TypeOK
      <4>2. Knows(p)'
        BY <4>1, <3>1 DEF Knows, InWindow
      <4> QED BY <4>1, <4>2, <3>1, <2>s DEF Apart
    <3>7. CASE RotateReplace(p)
      <4>1. /\ pc'[p] = "idle" /\ pc[p] = "replace" /\ InWindow(spent) \subseteq lines'
            /\ UNCHANGED <<mine, spent, now>>
        BY <3>7, <3>1, <1>t DEF RotateReplace, Goto, TypeOK, Knows, Apart
      <4>2. Knows(p)'
        BY <4>1, <3>1 DEF Knows, InWindow
      <4> QED BY <4>1, <4>2, <3>1, <2>s DEF Apart
    <3>8. CASE Stop(p)
      <4>1. pc'[p] = "off" /\ UNCHANGED <<spent, lines, now>>
        BY <3>8, <1>t DEF Stop, Goto, TypeOK
      <4> QED BY <4>1, <3>1, <2>s DEF Apart
    <3> QED BY <1>6, <2>2, <3>2, <3>3, <3>4, <3>5, <3>6, <3>7, <3>8 DEF Step
  <2> QED BY <2>1, <2>2
<1> QED BY <1>1, <1>2, <1>3, <1>4, <1>5, <1>6 DEF Next

LEMMA KeptApart == Spec => []ApartInv
  BY InitApart, StepApart, PTL DEF Spec

\* The quota holds over all processes that ever were, as long as no two of them
\* have run at the same time.
THEOREM QuotaHolds == Spec => []QuotaAcrossRestarts
<1>1. ApartInv => QuotaAcrossRestarts
  BY DEF ApartInv, Apart, QuotaAcrossRestarts
<1> QED BY <1>1, KeptApart, PTL

\* Of such processes no rotation, and no death in the middle of one, takes a
\* call of the window out of the file.
THEOREM FileRemembers == Spec => []NothingForgotten
<1>1. ApartInv => NothingForgotten
  BY DEF ApartInv, Apart, NothingForgotten
<1> QED BY <1>1, KeptApart, PTL

-----------------------------------------------------------------------------
\* While only the batch has started processes: its child alone runs, the file
\* holds no call that was not made, and a wait leaves room when it is over.
From(t) == {c \in lines : c.at >= t}

Batched ==
  /\ \A p \in Procs : pc[p] # "off" => batch = "run" /\ child = p
  /\ lines \subseteq spent /\ \A p \in Procs : kept[p] \subseteq spent
  /\ tmp = None \/ tmp.keeps \subseteq spent
  /\ batch = "launch" /\ paced => Cardinality(InWindow(lines)) < Quota
  /\ batch = "wait" => \E t \in Nat : /\ until = t + Window + 1
                                      /\ \E c \in lines : c.at = t
                                      /\ Cardinality(From(t)) <= Quota

BatchInv == ApartInv /\ (company = "none" => Batched)

LEMMA InitBatched == Init => BatchInv
  BY InitApart DEF Init, BatchInv, Batched

LEMMA StepBatched == BatchInv /\ [Next]_vars => BatchInv'
<1> SUFFICES ASSUME BatchInv, [Next]_vars, company' = "none" PROVE Batched'
  BY StepApart DEF BatchInv
<1> USE Sizes DEF budget, batchVars
<1>t. TypeOK /\ TypeInv' /\ ApartInv
  BY StepApart DEF ApartInv, BatchInv, TypeInv
<1>a. /\ lines \subseteq Calls /\ lines' \subseteq Calls /\ spent \subseteq Calls
      /\ now \in Nat /\ \A c \in Calls : c.at \in Nat
      /\ Cardinality(InWindow(lines)) \in Nat
  BY <1>t, Sized DEF TypeOK, TypeInv, Calls
<1>0. company = "none" /\ Batched /\ Apart
  BY <1>t DEF Next, vars, Tick, ChildEnds, Look, Wait, Step, Start, Check, Record, Append,
     RotateRead, RotateWrite, RotateReplace, Stop, Launch, Load, BatchInv, ApartInv
<1>u. Cardinality(InWindow(lines)) <= Quota
  <2>1. InWindow(lines) \subseteq InWindow(spent) /\ InWindow(spent) \subseteq Calls
    BY <1>0, <1>a DEF Batched, InWindow
  <2> QED BY <2>1, <1>0, <1>a, Smaller, Sized DEF Apart
<1>1. CASE UNCHANGED vars
  BY <1>1, <1>0 DEF vars, Batched, InWindow, From
<1>2. CASE Tick
  <2>1. InWindow(lines)' \subseteq InWindow(lines) /\ InWindow(lines) \subseteq Calls
        /\ \A t : From(t)' = From(t)
    BY <1>2, <1>a DEF Tick, InWindow, From
  <2>2. Cardinality(InWindow(lines)') <= Cardinality(InWindow(lines))
        /\ Cardinality(InWindow(lines)') \in Nat
    BY <2>1, Smaller, Sized
  <2> QED BY <1>2, <2>1, <2>2, <1>0, <1>a DEF Tick, Batched
<1>3. CASE ChildEnds
  BY <1>3, <1>0 DEF ChildEnds, Batched
<1>4. CASE Look
  <2>1. CASE Critical
    <3>1. PICK t \in 0..MaxTime : Oldest(t) /\ until' = t + Window + 1
      BY <1>4, <2>1 DEF Look
    <3>2. /\ \E c \in lines : c.at = t
          /\ t + Window >= now
          /\ From(t) \subseteq InWindow(lines)
      BY <3>1, <1>a DEF Oldest, InWindow, From
    <3>3. Cardinality(From(t)) <= Quota
      <4>1. InWindow(lines) \subseteq Calls /\ From(t) \subseteq Calls
        BY <1>a DEF InWindow, From
      <4>2. Cardinality(From(t)) <= Cardinality(InWindow(lines)) /\ Cardinality(From(t)) \in Nat
        BY <4>1, <3>2, Smaller, Sized
      <4> QED BY <4>2, <1>u, <1>a
    <3>4. batch' = "wait" /\ UNCHANGED <<lines, spent, kept, tmp, pc>> /\ batch # "run"
          /\ From(t)' = From(t)
      BY <1>4, <2>1 DEF Look, From
    <3> QED BY <3>1, <3>2, <3>3, <3>4, <1>0 DEF Batched
  <2>2. CASE ~ Critical
    <3>1. /\ ~ (100 * Cardinality(InWindow(lines)) >= 95 * Quota)
          /\ batch' = "launch" /\ UNCHANGED <<lines, spent, kept, tmp, pc, now>> /\ batch = "look"
      BY <1>4, <2>2 DEF Look, Critical, Used
    <3>2. Cardinality(InWindow(lines)) < Quota
      BY <3>1, <1>a
    <3>3. InWindow(lines)' = InWindow(lines)
      BY <3>1 DEF InWindow
    <3> QED BY <3>1, <3>2, <3>3, <1>0 DEF Batched
  <2> QED BY <2>1, <2>2
<1>5. CASE Wait
  <2>1. /\ batch = "wait" /\ batch' = "launch"
        /\ UNCHANGED <<lines, spent, kept, tmp, pc, now>> /\ (now >= until \/ Eased)
    BY <1>5 DEF Wait
  <2>2. Cardinality(InWindow(lines)) < Quota
    <3>1. CASE Eased
      BY <3>1, <1>a DEF Eased, Used
    <3>2. CASE now >= until
      <4>1. PICK t \in Nat : /\ until = t + Window + 1
                             /\ \E c \in lines : c.at = t
                             /\ Cardinality(From(t)) <= Quota
        BY <2>1, <1>0 DEF Batched
      <4>2. PICK c \in lines : c.at = t
        BY <4>1
      <4>3. /\ InWindow(lines) \subseteq From(t)
            /\ c \in From(t) /\ c \notin InWindow(lines)
            /\ From(t) \subseteq Calls
        BY <4>1, <4>2, <3>2, <1>a DEF InWindow, From
      <4>4. /\ IsFiniteSet(From(t)) /\ Cardinality(From(t)) \in Nat
            /\ Cardinality(InWindow(lines)) <= Cardinality(From(t))
            /\ Cardinality(InWindow(lines)) # Cardinality(From(t))
        BY <4>3, Sized, FS_Subset
      <4> QED BY <4>1, <4>4, <1>a
    <3> QED BY <2>1, <3>1, <3>2
  <2>3. InWindow(lines)' = InWindow(lines)
    BY <2>1 DEF InWindow
  <2> QED BY <2>1, <2>2, <2>3, <1>0 DEF Batched
<1>6. ASSUME NEW p \in Procs, Step(p) PROVE Batched'
  <2>1. ~ Start(p)
    BY <1>0, <1>t DEF Start, Load, Running
  <2>2. CASE Launch(p)
    BY <2>2, <1>0, <1>t DEF Launch, Load, Goto, Batched, TypeOK
  <2>3. CASE pc[p] # "off"
    <3>1. /\ batch = "run" /\ child = p
          /\ UNCHANGED batchVars /\ \A q \in Procs : q # p => pc'[q] = pc[q]
      BY <1>6, <2>1, <2>3, <1>0, <1>t DEF Step, Check, Record, Append, RotateRead, RotateWrite,
         RotateReplace, Stop, Launch, Load, Goto, TypeOK, Batched
    <3>2. lines' \subseteq spent' /\ (tmp' = None \/ tmp'.keeps \subseteq spent')
          /\ \A q \in Procs : kept'[q] \subseteq spent'
      <4>1. CASE RotateRead(p)
        BY <4>1, <1>0, <1>t DEF RotateRead, Batched, InWindow, TypeOK
      <4>2. CASE RotateWrite(p)
        BY <4>2, <1>0, <1>t DEF RotateWrite, Batched, TypeOK
      <4>3. CASE RotateReplace(p)
        BY <4>3, <1>0, <1>t DEF RotateReplace, Batched, TypeOK
      <4>4. CASE Stop(p)
        BY <4>4, <1>0, <1>t DEF Stop, Batched, TypeOK
      <4>5. CASE Check(p) \/ Record(p) \/ Append(p)
        BY <4>5, <1>0, <1>t DEF Check, Record, Append, Batched
      <4> QED BY <1>6, <2>1, <2>3, <4>1, <4>2, <4>3, <4>4, <4>5 DEF Step, Launch, Load
    <3> QED BY <3>1, <3>2, <1>0 DEF Batched, batchVars
  <2> QED BY <1>6, <2>1, <2>2, <2>3 DEF Step, Check, Record, Append, RotateRead, RotateWrite,
         RotateReplace, Stop
<1> QED BY <1>1, <1>2, <1>3, <1>4, <1>5, <1>6 DEF Next

\* The process a batch launches behind a look at the budget finds room for a
\* call, as long as nobody but the batch starts processes.
THEOREM RoomBehindLook == Spec => PacedChildHasRoom
<1>1. ASSUME BatchInv, NEW p \in Procs, Launch(p), paced, company' = "none"
      PROVE  Cardinality(mine'[p]) < Quota
  <2>1. company = "none" /\ batch = "launch" /\ mine'[p] = InWindow(lines)
    BY <1>1 DEF Launch, Load, BatchInv, ApartInv, TypeInv, TypeOK
  <2> QED BY <2>1, <1>1 DEF BatchInv, Batched
<1>2. BatchInv => [\A p \in Procs :
         Launch(p) /\ paced /\ company' = "none" => Cardinality(mine'[p]) < Quota]_vars
  BY <1>1
<1>3. Spec => []BatchInv
  BY InitBatched, StepBatched, PTL DEF Spec
<1> QED BY <1>2, <1>3, PTL DEF PacedChildHasRoom
=============================================================================
