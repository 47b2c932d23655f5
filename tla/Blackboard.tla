----------------------------- MODULE Blackboard -----------------------------
(***************************************************************************)
(* The shared evidence board of one run (agents/core.py, class             *)
(* Blackboard): keyed sections guarded by one asyncio lock, a write-once   *)
(* rule for the two critical telemetry keys, and typed record lists that   *)
(* clients append to, take snapshots of and merge back.                    *)
(*                                                                         *)
(* Every operation of the class is one critical section without an await   *)
(* inside, so each is one action.  A snapshot copies the dictionary of     *)
(* lists but not the lists, so a list is named by its kind and by how many *)
(* times the board had been cleared when it was created, and a snapshot    *)
(* is the generation its references point to.                              *)
(***************************************************************************)
EXTENDS Naturals, Sequences

CONSTANTS
  Clients,        \* the agents and workflow stages that share the board
  Critical,       \* <<section, key>> pairs under the write-once rule
  Plain,          \* other pairs, in sections that clear() resets
  Stray,          \* pairs in sections that write() creates on demand
  Values,         \* payloads
  EventList,      \* [Values -> signature of the payload's event lists]
  NoEvents,       \* the signature of a payload without any event list
  Fingerprint,    \* [Values -> hash of the payload's significant keys]
  None,           \* Python's None, also a key that was never written
  Kinds,          \* the typed record lists
  MaxRecords,     \* bound: records ever created
  MaxLength,      \* bound: length of one record list
  MaxWaivers      \* bound: forced writes of one key, and clears

Cells == Critical \cup Plain \cup Stray
Slot == Values \cup {None}
Generations == 0..MaxWaivers

ASSUME BoardAssumption ==
  /\ None \notin Values
  /\ None \notin Generations
  /\ None \notin Kinds
  /\ Critical \cap (Plain \cup Stray) = {}
  /\ MaxRecords \in Nat /\ MaxLength \in Nat /\ MaxWaivers \in Nat

VARIABLES
  cell,     \* cell[<<section, key>>]: the value stored there
  lists,    \* lists[k][g]: the record list of kind k of generation g
  gen,      \* generation of the lists the board itself holds
  surface,  \* record_surface_enabled: evidence_board is not ablated
  held,     \* held[c]: generation of the lists in c's last snapshot
  records,  \* number of records created so far; a record is its number
  waived,   \* history: waived[d], waivers of the write-once rule of d
  origin    \* history: origin[d], the first value of d since then

cellVars == <<cell, waived, origin>>
listVars == <<lists, gen, surface, held, records>>
vars == <<cell, lists, gen, surface, held, records, waived, origin>>

-----------------------------------------------------------------------------

\* fingerprints_equivalent: event-list signatures decide whenever either
\* payload has one; the semantic fingerprint only when neither has.
Equivalent(v, w) ==
  IF v = None \/ w = None THEN v = w
  ELSE IF EventList[v] # NoEvents \/ EventList[w] # NoEvents
         THEN EventList[v] = EventList[w]
         ELSE Fingerprint[v] = Fingerprint[w]

\* The write-once check shared by write and update_section.
Rejected(d, v, force) ==
  /\ d \in Critical
  /\ ~force
  /\ cell[d] # None
  /\ ~Equivalent(cell[d], v)

\* A mutated form: the check is made but the value is stored anyway.
StoredAnyway(d, v, force) == v

Stored(d, v, force) == IF Rejected(d, v, force) THEN cell[d] ELSE v

OriginAfter(d, v, force) ==
  IF force \/ cell[d] = None THEN v ELSE origin[d]

Init ==
  /\ cell = [d \in Cells |-> None]
  /\ lists = [k \in Kinds |-> [g \in Generations |-> <<>>]]
  /\ gen = 0
  /\ surface \in BOOLEAN
  /\ held = [c \in Clients |-> None]
  /\ records = 0
  /\ waived = [d \in Critical |-> 0]
  /\ origin = [d \in Critical |-> None]

\* write and update_section store several keys of one section under one hold
\* of the lock and judge each key on its own; write is the case of one key.
UpdateSection(data, force) ==
  /\ force => \A d \in Critical \cap DOMAIN data : waived[d] < MaxWaivers
  /\ cell' = [d \in Cells |-> IF d \in DOMAIN data
                                THEN Stored(d, data[d], force) ELSE cell[d]]
  /\ origin' = [d \in Critical |-> IF d \in DOMAIN data
                                THEN OriginAfter(d, data[d], force)
                                ELSE origin[d]]
  /\ waived' = [d \in Critical |-> IF force /\ d \in DOMAIN data
                                THEN waived[d] + 1 ELSE waived[d]]
  /\ UNCHANGED listVars

Write(d, v, force) == UpdateSection([e \in {d} |-> v], force)

\* A mutated form: the record is numbered but its list is written back from
\* a copy taken when the list was created.
AddRecordToCopy(k) ==
  /\ surface \/ k = "metrics"
  /\ records < MaxRecords
  /\ Len(lists[k][gen]) < MaxLength
  /\ records' = records + 1
  /\ lists' = [lists EXCEPT ![k][gen] = <<records + 1>>]
  /\ UNCHANGED <<gen, surface, held, cellVars>>

\* add_observation, add_claim, ... append unless the surface is ablated;
\* add_metric does not look at the switch.
AddRecord(k) ==
  /\ surface \/ k = "metrics"
  /\ records < MaxRecords
  /\ Len(lists[k][gen]) < MaxLength
  /\ records' = records + 1
  /\ lists' = [lists EXCEPT ![k][gen] = Append(@, records + 1)]
  /\ UNCHANGED <<gen, surface, held, cellVars>>

\* read_evidence_board: a new dictionary over the same list objects.
Snapshot(c) ==
  /\ held' = [held EXCEPT ![c] = gen]
  /\ UNCHANGED <<lists, gen, surface, records, cellVars>>

\* The records a merge by c adds to the list of kind k: for a kind in `again`
\* the list object of c's snapshot, for the kind `fresh` one new record.
Incoming(c, again, fresh, k) ==
  IF k \in again THEN lists[k][held[c]]
  ELSE IF k = fresh THEN <<records + 1>> ELSE <<>>

\* A mutated form: the merge replaces the lists it is given.
MergeReplaces(c, again, fresh) ==
  /\ surface
  /\ again # {} => held[c] # None
  /\ fresh # None => records < MaxRecords
  /\ lists' = [k \in Kinds |-> IF k \in again \cup {fresh}
       THEN [lists[k] EXCEPT ![gen] = Incoming(c, again, fresh, k)]
       ELSE lists[k]]
  /\ records' = IF fresh = None THEN records ELSE records + 1
  /\ UNCHANGED <<gen, surface, held, cellVars>>

\* merge_evidence by c.  Extending a list by itself doubles it.
Merge(c, again, fresh) ==
  /\ surface
  /\ again # {} => held[c] # None
  /\ fresh # None => records < MaxRecords
  /\ \A k \in Kinds :
       Len(lists[k][gen]) + Len(Incoming(c, again, fresh, k)) <= MaxLength
  /\ lists' = [k \in Kinds |->
       [lists[k] EXCEPT ![gen] = @ \o Incoming(c, again, fresh, k)]]
  /\ records' = IF fresh = None THEN records ELSE records + 1
  /\ UNCHANGED <<gen, surface, held, cellVars>>

\* clear replaces every section of SECTIONS and every record list by a new
\* object; sections that write() created on demand stay as they are.
Clear ==
  /\ gen < MaxWaivers
  /\ \A d \in Critical : waived[d] < MaxWaivers
  /\ gen' = gen + 1
  /\ cell' = [d \in Cells |-> IF d \in Stray THEN cell[d] ELSE None]
  /\ origin' = [d \in Critical |-> None]
  /\ waived' = [d \in Critical |-> waived[d] + 1]
  /\ UNCHANGED <<lists, surface, held, records>>

\* What a caller of update_section passes: values for keys of one section.
Sections == {d[1] : d \in Cells}
Updates == UNION {[D -> Slot] : D \in UNION {
             (SUBSET {d \in Cells : d[1] = s}) \ {{}} : s \in Sections}}

Next ==
  \/ \E d \in Cells, v \in Slot, force \in BOOLEAN : Write(d, v, force)
  \/ \E data \in Updates, force \in BOOLEAN : UpdateSection(data, force)
  \/ \E k \in Kinds : AddRecord(k)
  \/ \E c \in Clients : Snapshot(c)
  \/ \E c \in Clients, again \in SUBSET Kinds, fresh \in Kinds \cup {None} :
       fresh \notin again /\ Merge(c, again, fresh)
  \/ Clear

Spec == Init /\ [][Next]_vars
-----------------------------------------------------------------------------
Record == 1..MaxRecords

TypeOK ==
  /\ cell \in [Cells -> Slot]
  /\ lists \in [Kinds -> [Generations -> Seq(Record)]]
  /\ gen \in Generations
  /\ surface \in BOOLEAN
  /\ held \in [Clients -> Generations \cup {None}]
  /\ records \in 0..MaxRecords
  /\ waived \in [Critical -> 0..MaxWaivers]
  /\ origin \in [Critical -> Slot]

\* Whatever the order in which agents and stages write the critical telemetry
\* keys, one by one or in bulk, the value a reader finds has the content class
\* of the first value written since the rule was last waived.
KeepsFirstMeasurement ==
  \A d \in Critical : Equivalent(origin[d], cell[d])

\* The evidence trail is append-only: no call removes, reorders or rewrites a
\* record of any list object, and an object the board has dropped in a clear
\* never changes again although snapshots may still point at it.
RecordsOnlyAppended ==
  [][\A k \in Kinds, g \in Generations :
       /\ Len(lists[k][g]) <= Len(lists'[k][g])
       /\ \A i \in 1..Len(lists[k][g]) : lists'[k][g][i] = lists[k][g][i]
       /\ g # gen => lists'[k][g] = lists[k][g]]_vars

\* Every record that was ever accepted is still in a list object: merging a
\* snapshot, or a clear that races with a holder of one, loses none.
NoRecordLost ==
  \A r \in 1..records : \E k \in Kinds, g \in Generations :
    \E i \in 1..Len(lists[k][g]) : lists[k][g][i] = r

\* With the evidence_board stage ablated the run leaves no typed record,
\* metrics aside, through whichever of the entry points.
AblatedSurfaceIsSilent ==
  ~surface => \A k \in Kinds \ {"metrics"}, g \in Generations :
                lists[k][g] = <<>>

\* The content class of a value: what Equivalent compares.
ClassOf(v) ==
  IF v = None THEN <<"unset">>
  ELSE IF EventList[v] # NoEvents THEN <<"events", EventList[v]>>
       ELSE <<"semantic", Fingerprint[v]>>

Promise == INSTANCE WriteOnce WITH
  Key <- Critical, Class <- {ClassOf(v) : v \in Values}, Unset <- <<"unset">>,
  class <- [d \in Critical |-> ClassOf(cell[d])]

\* The board keeps the promise of WriteOnce: no order of writes, bulk updates
\* and clears changes the class of a critical key behind the callers' back.
RefinesWriteOnce == Promise!Spec
=============================================================================
