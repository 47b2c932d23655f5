-------------------------- MODULE BlackboardProofs --------------------------
(***************************************************************************)
(* Proofs about the evidence board, for any set of clients, keys and       *)
(* payloads, any event-list signature and fingerprint functions and any    *)
(* value of the bounds.  TypeOK is inductive by itself; each of the other  *)
(* invariants is inductive relative to it.                                 *)
(***************************************************************************)
EXTENDS Blackboard, TLAPS

\* Content equivalence composes, which is what lets the check against the
\* value at hand speak about the first one.
LEMMA EquivalentTransitive ==
  ASSUME NEW a, NEW b, NEW c, Equivalent(a, b), Equivalent(b, c)
  PROVE  Equivalent(a, c)
BY DEF Equivalent

\* Equivalent values have the same content class.
LEMMA EquivalentClass ==
  ASSUME NEW a, NEW b, Equivalent(a, b)
  PROVE  ClassOf(a) = ClassOf(b)
BY DEF Equivalent, ClassOf

\* A value that is stored over a measurement is equivalent to it.
LEMMA StoredEquivalent ==
  ASSUME NEW d \in Critical, NEW v, cell[d] # None
  PROVE  Equivalent(cell[d], Stored(d, v, FALSE))
BY DEF Stored, Rejected, Equivalent

\* What an update passes is a function from some cells to slots.
LEMMA UpdateDomain ==
  ASSUME NEW data \in Updates
  PROVE  /\ DOMAIN data \subseteq Cells
         /\ \A d \in DOMAIN data : data[d] \in Slot
BY DEF Updates

\* Writing one key is a bulk update of that key alone.
LEMMA WriteIsUpdate ==
  ASSUME NEW d \in Cells, NEW v \in Slot, NEW force \in BOOLEAN, Write(d, v, force)
  PROVE  \E data : /\ UpdateSection(data, force)
                   /\ DOMAIN data \subseteq Cells
                   /\ \A e \in DOMAIN data : data[e] \in Slot
<1> DEFINE data == [e \in {d} |-> v]
<1>1. DOMAIN data = {d} /\ \A e \in DOMAIN data : data[e] = v
  OBVIOUS
<1>2. UpdateSection(data, force)
  BY DEF Write
<1> HIDE DEF data
<1>3. QED
  BY <1>1, <1>2

\* The four kinds of steps, with the updates of both entry points as one.
LEMMA StepKinds ==
  ASSUME Next
  PROVE  \/ \E data, force :
              /\ force \in BOOLEAN /\ UpdateSection(data, force)
              /\ DOMAIN data \subseteq Cells
              /\ \A d \in DOMAIN data : data[d] \in Slot
         \/ \E k \in Kinds : AddRecord(k)
         \/ \E c \in Clients : Snapshot(c)
         \/ \E c \in Clients, again \in SUBSET Kinds, fresh \in Kinds \cup {None} :
              fresh \notin again /\ Merge(c, again, fresh)
         \/ Clear
<1>1. CASE \E d \in Cells, v \in Slot, force \in BOOLEAN : Write(d, v, force)
  BY <1>1, WriteIsUpdate
<1>2. CASE \E data \in Updates, force \in BOOLEAN : UpdateSection(data, force)
  BY <1>2, UpdateDomain
<1>3. QED
  BY <1>1, <1>2 DEF Next
-----------------------------------------------------------------------------
Lists == [Kinds -> [Generations -> Seq(Record)]]

\* An update keeps the types.
LEMMA UpdateTypes ==
  ASSUME TypeOK, NEW data, NEW force \in BOOLEAN, UpdateSection(data, force),
         \A d \in DOMAIN data : data[d] \in Slot
  PROVE  /\ cell' \in [Cells -> Slot]
         /\ waived' \in [Critical -> 0..MaxWaivers]
         /\ origin' \in [Critical -> Slot]
<1>1. \A d \in Cells : cell[d] \in Slot
  BY DEF TypeOK
<1>2. \A d \in Critical : d \in Cells /\ origin[d] \in Slot /\ waived[d] \in 0..MaxWaivers
  BY DEF TypeOK, Cells
<1>3. \A d \in Cells : d \in DOMAIN data => Stored(d, data[d], force) \in Slot
  BY <1>1 DEF Stored
<1>4. cell' \in [Cells -> Slot]
  BY <1>1, <1>3 DEF UpdateSection
<1>5. \A d \in Critical : d \in DOMAIN data => OriginAfter(d, data[d], force) \in Slot
  BY <1>2 DEF OriginAfter
<1>6. origin' \in [Critical -> Slot]
  BY <1>2, <1>5 DEF UpdateSection
<1>7. waived' \in [Critical -> 0..MaxWaivers]
  <2>1. \A d \in Critical : force /\ d \in DOMAIN data => waived[d] + 1 \in 0..MaxWaivers
    BY <1>2, BoardAssumption DEF UpdateSection
  <2>2. QED
    BY <1>2, <2>1 DEF UpdateSection
<1>8. QED
  BY <1>4, <1>6, <1>7

\* What a merge adds is a sequence of records.
LEMMA IncomingType ==
  ASSUME TypeOK, NEW c \in Clients, NEW again \in SUBSET Kinds, NEW fresh,
         again # {} => held[c] # None, fresh # None => records < MaxRecords,
         fresh \in Kinds \cup {None}, NEW k \in Kinds
  PROVE  Incoming(c, again, fresh, k) \in Seq(Record)
<1>1. CASE k \in again
  <2>1. held[c] \in Generations
    BY <1>1 DEF TypeOK
  <2>2. QED
    BY <1>1, <2>1 DEF Incoming, TypeOK
<1>2. CASE k \notin again /\ k = fresh
  <2>1. records + 1 \in Record
    BY <1>2, BoardAssumption DEF TypeOK, Record
  <2>2. <<records + 1>> \in Seq(Record)
    BY <2>1
  <2>3. QED
    BY <1>2, <2>2 DEF Incoming
<1>3. CASE k \notin again /\ k # fresh
  BY <1>3 DEF Incoming
<1>4. QED
  BY <1>1, <1>2, <1>3

\* Adding a record keeps the types.
LEMMA AddRecordTypes ==
  ASSUME TypeOK, NEW k \in Kinds, AddRecord(k)
  PROVE  TypeOK'
<1>1. gen \in Generations /\ records \in 0..MaxRecords /\ lists \in Lists
  BY DEF TypeOK, Lists
<1>2. records + 1 \in Record /\ records' \in 0..MaxRecords
  BY <1>1, BoardAssumption DEF AddRecord, Record
<1>3. Append(lists[k][gen], records + 1) \in Seq(Record)
  BY <1>1, <1>2 DEF Lists
<1>4. lists' \in Lists
  BY <1>1, <1>3 DEF AddRecord, Lists
<1>5. QED
  BY <1>2, <1>4 DEF TypeOK, AddRecord, cellVars, Lists

\* A merge keeps the types.
LEMMA MergeTypes ==
  ASSUME TypeOK, NEW c \in Clients, NEW again \in SUBSET Kinds,
         NEW fresh \in Kinds \cup {None}, Merge(c, again, fresh)
  PROVE  TypeOK'
<1>1. gen \in Generations /\ records \in 0..MaxRecords /\ lists \in Lists
  BY DEF TypeOK, Lists
<1>2. records' \in 0..MaxRecords
  BY <1>1, BoardAssumption DEF Merge
<1>3. ASSUME NEW k \in Kinds
      PROVE  [lists[k] EXCEPT ![gen] = @ \o Incoming(c, again, fresh, k)]
               \in [Generations -> Seq(Record)]
  <2>1. Incoming(c, again, fresh, k) \in Seq(Record)
    BY IncomingType DEF Merge
  <2>2. lists[k] \in [Generations -> Seq(Record)] /\ lists[k][gen] \in Seq(Record)
    BY <1>1 DEF Lists
  <2>3. lists[k][gen] \o Incoming(c, again, fresh, k) \in Seq(Record)
    BY <2>1, <2>2
  <2>4. QED
    BY <1>1, <2>2, <2>3
<1>4. lists' \in Lists
  BY <1>3 DEF Merge, Lists
<1>5. QED
  BY <1>2, <1>4 DEF TypeOK, Merge, cellVars, Lists

\* The board starts well typed.
THEOREM InitTypes == Init => TypeOK
<1> SUFFICES ASSUME Init PROVE TypeOK
  OBVIOUS
<1>1. 0 \in Generations /\ 0 \in 0..MaxRecords /\ 0 \in 0..MaxWaivers
  BY BoardAssumption DEF Generations
<1>2. lists \in Lists
  BY DEF Init, Lists
<1>3. cell \in [Cells -> Slot] /\ origin \in [Critical -> Slot]
  BY DEF Init, Slot
<1>4. waived \in [Critical -> 0..MaxWaivers] /\ held \in [Clients -> Generations \cup {None}]
  BY <1>1 DEF Init
<1>5. QED
  BY <1>1, <1>2, <1>3, <1>4 DEF Init, TypeOK, Lists

\* Every step keeps the types: TypeOK is inductive.
THEOREM NextTypes == TypeOK /\ [Next]_vars => TypeOK'
<1> SUFFICES ASSUME TypeOK, [Next]_vars PROVE TypeOK'
  OBVIOUS
<1>1. ASSUME NEW data, NEW force \in BOOLEAN, UpdateSection(data, force),
             \A d \in DOMAIN data : data[d] \in Slot
      PROVE  TypeOK'
  BY <1>1, UpdateTypes DEF TypeOK, UpdateSection, listVars
<1>2. ASSUME NEW k \in Kinds, AddRecord(k) PROVE TypeOK'
  BY <1>2, AddRecordTypes
<1>3. ASSUME NEW c \in Clients, Snapshot(c) PROVE TypeOK'
  BY <1>3 DEF TypeOK, Snapshot, cellVars
<1>4. ASSUME NEW c \in Clients, NEW again \in SUBSET Kinds,
             NEW fresh \in Kinds \cup {None}, Merge(c, again, fresh)
      PROVE  TypeOK'
  BY <1>4, MergeTypes
<1>5. CASE Clear
  <2>1. gen' \in Generations
    BY <1>5, BoardAssumption DEF TypeOK, Clear, Generations
  <2>2. cell' \in [Cells -> Slot] /\ origin' \in [Critical -> Slot]
    BY <1>5 DEF TypeOK, Clear, Slot
  <2>3. waived' \in [Critical -> 0..MaxWaivers]
    BY <1>5, BoardAssumption DEF TypeOK, Clear
  <2>4. QED
    BY <1>5, <2>1, <2>2, <2>3 DEF TypeOK, Clear
<1>6. CASE UNCHANGED vars
  BY <1>6 DEF TypeOK, vars
<1>7. QED
  BY <1>1, <1>2, <1>3, <1>4, <1>5, <1>6, StepKinds

\* Every variable of the board keeps its type.
THEOREM BoardTypeCorrect == Spec => []TypeOK
<1>1. Init => TypeOK
  BY InitTypes
<1>2. TypeOK /\ [Next]_vars => TypeOK'
  BY NextTypes
<1>3. QED
  BY <1>1, <1>2, PTL DEF Spec
-----------------------------------------------------------------------------
\* An update moves the origin and the value of a critical key together.
LEMMA UpdateKeepsFirst ==
  ASSUME TypeOK, KeepsFirstMeasurement, NEW data, NEW force \in BOOLEAN,
         UpdateSection(data, force)
  PROVE  KeepsFirstMeasurement'
<1> SUFFICES ASSUME NEW d \in Critical PROVE Equivalent(origin'[d], cell'[d])
  BY DEF KeepsFirstMeasurement, Equivalent
<1>0. d \in Cells /\ Equivalent(origin[d], cell[d])
  BY DEF Cells, KeepsFirstMeasurement
<1>1. CASE d \notin DOMAIN data
  BY <1>0, <1>1 DEF UpdateSection
<1>2. CASE d \in DOMAIN data
  <2>1. cell'[d] = Stored(d, data[d], force) /\ origin'[d] = OriginAfter(d, data[d], force)
    BY <1>0, <1>2 DEF UpdateSection
  <2>2. CASE force \/ cell[d] = None
    BY <2>1, <2>2 DEF Stored, Rejected, OriginAfter, Equivalent
  <2>3. CASE ~force /\ cell[d] # None
    <3>1. origin'[d] = origin[d] /\ cell'[d] = Stored(d, data[d], FALSE)
      BY <2>1, <2>3 DEF OriginAfter, Stored, Rejected
    <3>2. Equivalent(cell[d], cell'[d])
      BY <2>3, <3>1, StoredEquivalent
    <3>3. QED
      BY <1>0, <3>1, <3>2, EquivalentTransitive
  <2>4. QED
    BY <2>2, <2>3
<1>3. QED
  BY <1>1, <1>2

\* With the types, KeepsFirstMeasurement is inductive (write, update_section).
THEOREM NextKeepsFirst ==
  TypeOK /\ KeepsFirstMeasurement /\ [Next]_vars => KeepsFirstMeasurement'
<1> SUFFICES ASSUME TypeOK, KeepsFirstMeasurement, [Next]_vars
             PROVE  KeepsFirstMeasurement'
  OBVIOUS
<1>1. ASSUME NEW data, NEW force \in BOOLEAN, UpdateSection(data, force)
      PROVE  KeepsFirstMeasurement'
  BY <1>1, UpdateKeepsFirst
<1>2. CASE UNCHANGED cellVars
  BY <1>2 DEF cellVars, KeepsFirstMeasurement, Equivalent
<1>3. CASE Clear
  <2>1. \A d \in Critical : d \in Cells /\ d \notin Stray
    BY BoardAssumption DEF Cells
  <2>2. QED
    BY <1>3, <2>1 DEF Clear, KeepsFirstMeasurement, Equivalent
<1>4. QED
  BY <1>1, <1>2, <1>3, StepKinds DEF AddRecord, Snapshot, Merge, vars, cellVars

\* No order of single and bulk writes changes the content class of a critical
\* key after its first measurement (write, update_section,
\* fingerprints_equivalent).
THEOREM FirstMeasurementKept == Spec => []KeepsFirstMeasurement
<1>1. Init => KeepsFirstMeasurement
  BY DEF Init, KeepsFirstMeasurement, Equivalent, Cells
<1>2. TypeOK /\ KeepsFirstMeasurement /\ [Next]_vars => KeepsFirstMeasurement'
  BY NextKeepsFirst
<1>3. QED
  BY <1>1, <1>2, BoardTypeCorrect, PTL DEF Spec
-----------------------------------------------------------------------------
\* With the types, AblatedSurfaceIsSilent is inductive.
THEOREM NextSilent ==
  TypeOK /\ AblatedSurfaceIsSilent /\ [Next]_vars => AblatedSurfaceIsSilent'
<1> SUFFICES ASSUME TypeOK, AblatedSurfaceIsSilent, [Next]_vars
             PROVE  AblatedSurfaceIsSilent'
  OBVIOUS
<1>1. CASE UNCHANGED <<lists, surface>>
  BY <1>1 DEF AblatedSurfaceIsSilent
<1>2. ASSUME NEW k \in Kinds, AddRecord(k) PROVE AblatedSurfaceIsSilent'
  <2>1. CASE surface
    BY <1>2, <2>1 DEF AddRecord, AblatedSurfaceIsSilent
  <2>2. CASE ~surface
    <3>1. k = "metrics" /\ surface' = surface
      BY <1>2, <2>2 DEF AddRecord
    <3>2. \A other \in Kinds \ {"metrics"} : lists'[other] = lists[other]
      BY <1>2, <3>1 DEF AddRecord, TypeOK
    <3>3. QED
      BY <3>1, <3>2 DEF AblatedSurfaceIsSilent
  <2>3. QED
    BY <2>1, <2>2
<1>3. ASSUME NEW c, NEW again, NEW fresh, Merge(c, again, fresh)
      PROVE  AblatedSurfaceIsSilent'
  BY <1>3 DEF Merge, AblatedSurfaceIsSilent
<1>4. QED
  BY <1>1, <1>2, <1>3, StepKinds DEF UpdateSection, Snapshot, Clear, vars, listVars

\* With the evidence_board stage ablated nothing but metrics is recorded
\* (record_surface_off and the add_* and merge_evidence guards).
THEOREM AblatedSurfaceSilent == Spec => []AblatedSurfaceIsSilent
<1>1. Init => AblatedSurfaceIsSilent
  BY DEF Init, AblatedSurfaceIsSilent
<1>2. TypeOK /\ AblatedSurfaceIsSilent /\ [Next]_vars => AblatedSurfaceIsSilent'
  BY NextSilent
<1>3. QED
  BY <1>1, <1>2, BoardTypeCorrect, PTL DEF Spec
-----------------------------------------------------------------------------
\* t continues s.
Extends(t, s) == /\ Len(s) <= Len(t)
                 /\ \A i \in 1..Len(s) : t[i] = s[i]

OnlyAppended ==
  \A k \in Kinds, g \in Generations :
    /\ Extends(lists'[k][g], lists[k][g])
    /\ g # gen => lists'[k][g] = lists[k][g]

\* A concatenation keeps its left part as it was.
LEMMA AppendExtends ==
  ASSUME NEW S, NEW s \in Seq(S), NEW t \in Seq(S)
  PROVE  Extends(s \o t, s)
<1>1. s \o t \in Seq(S) /\ Len(s \o t) = Len(s) + Len(t)
  OBVIOUS
<1>2. \A i \in 1..Len(s) : (s \o t)[i] = s[i]
  OBVIOUS
<1>3. QED
  BY <1>1, <1>2 DEF Extends

\* Adding a record only appends.
LEMMA AddRecordAppends ==
  ASSUME TypeOK, NEW k \in Kinds, AddRecord(k)
  PROVE  OnlyAppended
<1>1. lists \in Lists /\ gen \in Generations /\ records + 1 \in Record
  BY BoardAssumption DEF TypeOK, Lists, AddRecord, Record
<1>2. ASSUME NEW j \in Kinds, NEW g \in Generations
      PROVE  lists'[j][g] = IF j = k /\ g = gen
                              THEN Append(lists[j][g], records + 1) ELSE lists[j][g]
  BY <1>1 DEF AddRecord, Lists
<1>3. ASSUME NEW j \in Kinds, NEW g \in Generations
      PROVE  Extends(Append(lists[j][g], records + 1), lists[j][g])
  <2>1. lists[j][g] \in Seq(Record)
    BY <1>1 DEF Lists
  <2>2. QED
    BY <1>1, <2>1 DEF Extends
<1>4. \A j \in Kinds, g \in Generations : Extends(lists[j][g], lists[j][g])
  BY <1>1 DEF Lists, Extends
<1>5. QED
  BY <1>2, <1>3, <1>4 DEF OnlyAppended

\* A merge only appends, also when a list is extended by itself.
LEMMA MergeAppends ==
  ASSUME TypeOK, NEW c \in Clients, NEW again \in SUBSET Kinds,
         NEW fresh \in Kinds \cup {None}, Merge(c, again, fresh)
  PROVE  OnlyAppended
<1>1. lists \in Lists /\ gen \in Generations
  BY DEF TypeOK, Lists
<1>2. ASSUME NEW k \in Kinds, NEW g \in Generations
      PROVE  lists'[k][g] = IF g = gen THEN lists[k][g] \o Incoming(c, again, fresh, k)
                                       ELSE lists[k][g]
  BY <1>1 DEF Merge, Lists
<1>3. ASSUME NEW k \in Kinds, NEW g \in Generations
      PROVE  Extends(lists[k][g] \o Incoming(c, again, fresh, k), lists[k][g])
  <2>1. Incoming(c, again, fresh, k) \in Seq(Record)
    BY IncomingType DEF Merge
  <2>2. lists[k][g] \in Seq(Record)
    BY <1>1 DEF Lists
  <2>3. QED
    BY <2>1, <2>2, AppendExtends
<1>4. \A k \in Kinds, g \in Generations : Extends(lists[k][g], lists[k][g])
  BY <1>1 DEF Lists, Extends
<1>5. QED
  BY <1>2, <1>3, <1>4 DEF OnlyAppended

\* No step rewrites or shortens a record list.
THEOREM NextAppends == TypeOK /\ [Next]_vars => OnlyAppended
<1> SUFFICES ASSUME TypeOK, [Next]_vars PROVE OnlyAppended
  OBVIOUS
<1>1. CASE UNCHANGED lists
  BY <1>1 DEF OnlyAppended, Extends, TypeOK
<1>2. QED
  BY <1>1, AddRecordAppends, MergeAppends, StepKinds
     DEF UpdateSection, Snapshot, Clear, vars, listVars

\* The evidence trail is append-only, in the lists the board holds and in those
\* it has dropped (add_*, merge_evidence, clear).
THEOREM EvidenceAppendOnly == Spec => RecordsOnlyAppended
<1>1. TypeOK /\ [Next]_vars =>
        [\A k \in Kinds, g \in Generations :
           /\ Len(lists[k][g]) <= Len(lists'[k][g])
           /\ \A i \in 1..Len(lists[k][g]) : lists'[k][g][i] = lists[k][g][i]
           /\ g # gen => lists'[k][g] = lists[k][g]]_vars
  BY NextAppends DEF OnlyAppended, Extends
<1>2. QED
  BY <1>1, BoardTypeCorrect, PTL DEF Spec, RecordsOnlyAppended
-----------------------------------------------------------------------------
\* The record r is in one of the list objects.
Kept(objects, r) ==
  \E k \in Kinds, g \in Generations :
    \E i \in 1..Len(objects[k][g]) : objects[k][g][i] = r

\* What only gets longer keeps what it holds.
LEMMA AppendingKeeps ==
  ASSUME TypeOK, TypeOK', OnlyAppended, NEW r, Kept(lists, r)
  PROVE  Kept(lists', r)
<1>1. PICK k \in Kinds, g \in Generations :
        \E i \in 1..Len(lists[k][g]) : lists[k][g][i] = r
  BY DEF Kept
<1>2. PICK i \in 1..Len(lists[k][g]) : lists[k][g][i] = r
  BY <1>1
<1>3. lists[k][g] \in Seq(Record) /\ lists'[k][g] \in Seq(Record)
  BY DEF TypeOK
<1>4. i \in 1..Len(lists'[k][g]) /\ lists'[k][g][i] = r
  BY <1>2, <1>3 DEF OnlyAppended, Extends
<1>5. QED
  BY <1>4 DEF Kept

\* What is put at the end of a list object is in it.
LEMMA LastIsKept ==
  ASSUME NEW objects, NEW k \in Kinds, NEW g \in Generations,
         NEW s \in Seq(Record), NEW r \in Record, objects[k][g] = s \o <<r>>
  PROVE  Kept(objects, r)
<1>1. <<r>> \in Seq(Record) /\ Len(<<r>>) = 1
  OBVIOUS
<1>2. Len(s \o <<r>>) = Len(s) + 1 /\ Len(s) \in Nat
  BY <1>1
<1>3. (s \o <<r>>)[Len(s) + 1] = r
  OBVIOUS
<1>4. Len(s) + 1 \in 1..Len(objects[k][g]) /\ objects[k][g][Len(s) + 1] = r
  BY <1>2, <1>3
<1>5. QED
  BY <1>4 DEF Kept

\* A record that gets a number gets a place.
LEMMA AddRecordKeeps ==
  ASSUME TypeOK, NEW k \in Kinds, AddRecord(k)
  PROVE  records' = records + 1 /\ Kept(lists', records + 1)
<1>1. lists \in Lists /\ gen \in Generations /\ records + 1 \in Record
  BY BoardAssumption DEF TypeOK, Lists, AddRecord, Record
<1>2. lists[k][gen] \in Seq(Record)
  BY <1>1 DEF Lists
<1>3. lists'[k][gen] = Append(lists[k][gen], records + 1)
  BY <1>1 DEF AddRecord, Lists
<1>4. Append(lists[k][gen], records + 1) = lists[k][gen] \o <<records + 1>>
  BY <1>1, <1>2
<1>5. Kept(lists', records + 1)
  BY <1>1, <1>2, <1>3, <1>4, LastIsKept
<1>6. QED
  BY <1>5 DEF AddRecord

\* A merge with a new record gives that record a place, whatever lists it
\* extends by what they or their successors hold already.
LEMMA MergeKeeps ==
  ASSUME TypeOK, NEW c \in Clients, NEW again \in SUBSET Kinds,
         NEW fresh \in Kinds \cup {None}, fresh \notin again,
         Merge(c, again, fresh)
  PROVE  \/ records' = records
         \/ records' = records + 1 /\ Kept(lists', records + 1)
<1>1. CASE fresh = None
  BY <1>1 DEF Merge
<1>2. CASE fresh # None
  <2>1. fresh \in Kinds /\ records' = records + 1
    BY <1>2 DEF Merge
  <2>2. lists \in Lists /\ gen \in Generations /\ records + 1 \in Record
    BY <1>2, BoardAssumption DEF TypeOK, Lists, Merge, Record
  <2>3. lists[fresh][gen] \in Seq(Record)
    BY <2>1, <2>2 DEF Lists
  <2>4. Incoming(c, again, fresh, fresh) = <<records + 1>>
    BY DEF Incoming
  <2>5. lists'[fresh][gen] = lists[fresh][gen] \o <<records + 1>>
    BY <2>1, <2>2, <2>4 DEF Merge, Lists
  <2>6. Kept(lists', records + 1)
    BY <2>1, <2>2, <2>3, <2>5, LastIsKept
  <2>7. QED
    BY <2>1, <2>6
<1>3. QED
  BY <1>1, <1>2

\* With the types, NoRecordLost is inductive: a record keeps its place because
\* lists are only appended to, and no number is given without a place.
THEOREM NextLosesNothing == TypeOK /\ NoRecordLost /\ [Next]_vars => NoRecordLost'
<1> SUFFICES ASSUME TypeOK, NoRecordLost, [Next]_vars PROVE NoRecordLost'
  OBVIOUS
<1>1. TypeOK' /\ OnlyAppended
  BY NextTypes, NextAppends
<1>2. \A r \in 1..records : Kept(lists', r)
  <2> SUFFICES ASSUME NEW r \in 1..records PROVE Kept(lists', r)
    OBVIOUS
  <2>1. Kept(lists, r)
    BY DEF NoRecordLost, Kept
  <2>2. QED
    BY <1>1, <2>1, AppendingKeeps
<1>3. \/ records' = records
      \/ records' = records + 1 /\ Kept(lists', records + 1)
  <2>1. ASSUME NEW k \in Kinds, AddRecord(k)
        PROVE  records' = records + 1 /\ Kept(lists', records + 1)
    BY <2>1, AddRecordKeeps
  <2>2. ASSUME NEW c \in Clients, NEW again \in SUBSET Kinds,
               NEW fresh \in Kinds \cup {None}, fresh \notin again,
               Merge(c, again, fresh)
        PROVE  \/ records' = records
               \/ records' = records + 1 /\ Kept(lists', records + 1)
    BY <2>2, MergeKeeps
  <2>3. CASE UNCHANGED records
    BY <2>3
  <2>4. QED
    BY <2>1, <2>2, <2>3, StepKinds DEF UpdateSection, Snapshot, Clear, vars, listVars
<1>4. \A r \in 1..records' : Kept(lists', r)
  BY <1>2, <1>3 DEF TypeOK
<1>5. QED
  BY <1>4 DEF NoRecordLost, Kept

\* Every record the board ever accepted is still in a list object, those of
\* earlier generations included (add_*, read_evidence_board, merge_evidence,
\* clear).
THEOREM NoRecordIsLost == Spec => []NoRecordLost
<1>1. Init => NoRecordLost
  BY DEF Init, NoRecordLost
<1>2. TypeOK /\ NoRecordLost /\ [Next]_vars => NoRecordLost'
  BY NextLosesNothing
<1>3. QED
  BY <1>1, <1>2, BoardTypeCorrect, PTL DEF Spec
-----------------------------------------------------------------------------
\* The steps of WriteOnce, for one key.
LEMMA UpdatePromise ==
  ASSUME TypeOK, NEW data, NEW force \in BOOLEAN, UpdateSection(data, force),
         \A d \in DOMAIN data : data[d] \in Slot, NEW k \in Critical
  PROVE  Promise!Keep(k) \/ Promise!Measure(k) \/ Promise!Waive(k)
<1> DEFINE before == ClassOf(cell[k])
           after == ClassOf(cell'[k])
           classes == {ClassOf(v) : v \in Values}
<1>1. k \in Cells /\ cell[k] \in Slot
  BY DEF TypeOK, Cells
<1>2. cell'[k] \in Slot
  BY <1>1, UpdateTypes
<1>3. ClassOf(None) = <<"unset">>
  BY DEF ClassOf
<1>4. after \in classes \cup {<<"unset">>} /\ (cell'[k] # None => after \in classes)
  BY <1>2, <1>3 DEF Slot
<1>5. CASE k \notin DOMAIN data
  <2>1. cell'[k] = cell[k] /\ waived'[k] = waived[k]
    BY <1>1, <1>5 DEF UpdateSection
  <2>2. QED
    BY <2>1 DEF Promise!Keep
<1>6. CASE k \in DOMAIN data /\ force
  <2>1. waived'[k] = waived[k] + 1
    BY <1>1, <1>6 DEF UpdateSection
  <2>2. QED
    BY <1>4, <2>1 DEF Promise!Waive
<1>7. CASE k \in DOMAIN data /\ ~force
  <2>1. cell'[k] = Stored(k, data[k], FALSE) /\ waived'[k] = waived[k]
    BY <1>1, <1>7 DEF UpdateSection, Stored, Rejected
  <2>2. CASE cell[k] # None
    <3>1. before = after
      BY <2>1, <2>2, StoredEquivalent, EquivalentClass
    <3>2. QED
      BY <2>1, <3>1 DEF Promise!Keep
  <2>3. CASE cell[k] = None /\ cell'[k] # None
    BY <1>3, <1>4, <2>1, <2>3 DEF Promise!Measure
  <2>4. CASE cell[k] = None /\ cell'[k] = None
    BY <2>1, <2>4 DEF Promise!Keep
  <2>5. QED
    BY <2>2, <2>3, <2>4
<1>8. QED
  BY <1>5, <1>6, <1>7

\* Every step of the board is a step of WriteOnce or leaves its state alone.
THEOREM NextPromise ==
  TypeOK /\ [Next]_vars =>
    [Promise!Next]_<<[d \in Critical |-> ClassOf(cell[d])], waived>>
<1> SUFFICES ASSUME TypeOK, [Next]_vars
             PROVE [Promise!Next]_<<[d \in Critical |-> ClassOf(cell[d])], waived>>
  OBVIOUS
<1>1. CASE UNCHANGED cellVars
  BY <1>1 DEF cellVars, ClassOf
<1>2. ASSUME NEW data, NEW force \in BOOLEAN, UpdateSection(data, force),
             \A d \in DOMAIN data : data[d] \in Slot
      PROVE  Promise!Next
  BY <1>2, UpdatePromise DEF Promise!Next
<1>3. CASE Clear
  <2>1. ASSUME NEW k \in Critical PROVE Promise!Waive(k)
    <3>1. k \in Cells /\ k \notin Stray
      BY BoardAssumption DEF Cells
    <3>2. cell'[k] = None /\ waived'[k] = waived[k] + 1
      BY <1>3, <3>1 DEF Clear
    <3>3. ClassOf(cell'[k]) = <<"unset">>
      BY <3>2 DEF ClassOf
    <3>4. QED
      BY <3>2, <3>3 DEF Promise!Waive
  <2>2. QED
    BY <2>1 DEF Promise!Next
<1>4. QED
  BY <1>1, <1>2, <1>3, StepKinds DEF AddRecord, Snapshot, Merge, vars, cellVars

\* The board implements WriteOnce.
THEOREM PromiseKept == Spec => RefinesWriteOnce
<1>1. Init => Promise!Init
  BY DEF Init, Promise!Init, ClassOf, Cells
<1>2. TypeOK /\ [Next]_vars =>
        [Promise!Next]_<<[d \in Critical |-> ClassOf(cell[d])], waived>>
  BY NextPromise
<1>3. QED
  BY <1>1, <1>2, BoardTypeCorrect, PTL DEF Spec, Promise!Spec, RefinesWriteOnce
=============================================================================
