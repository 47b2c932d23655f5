----------------------------- MODULE UpdateScan -----------------------------
(***************************************************************************)
(* One scan of a window of update chunks for one target, in the four ways  *)
(* the detectors read it:                                                  *)
(*   "batch"   detect_hijacks_batch (hijack/hijack_detector.py): a bounded *)
(*             number of chunks is handed to worker threads and their      *)
(*             alerts are merged in the order of the chunks;               *)
(*   "shared"  SharedUpdateScan.run (shared_scan.py): one loop hands every *)
(*             chunk to the hijack, leak and outage detectors;             *)
(*   "light"   light_origin_hijack (chief_agent.py): all rows at once;     *)
(*   "leak"    analyze_leak_surface (leak/leak_detector.py): the leak      *)
(*             detector on its own.                                        *)
(* A chunk is the sequence of its announcements: an empty one holds only   *)
(* withdrawals.  Whether a path leaks is looked up in an external table.   *)
(***************************************************************************)
EXTENDS OriginHijack, FiniteSets

CONSTANTS Chunks,     \* the chunks a window may hold
          NumChunks,  \* chunks in the window that is read
          Baseline,   \* how many of them lie before the event
          Snapshots,  \* the maps prefix_to_as the scan may be given
          Leaky,      \* the paths the PathProb table calls a leak
          Addresses,  \* the values id() may give to a chunk's map
          InFlight,   \* CHUNK_INFLIGHT
          Workers,    \* chunk_workers
          MaxSample,  \* MAX_ALERT_SAMPLE
          MaxLeaks    \* max_leaks

None == "none"   \* the address of no map

ASSUME SizesAssumption ==
    /\ NumChunks \in Nat /\ Baseline \in 0..NumChunks
    /\ InFlight \in Nat \ {0} /\ Workers \in Nat \ {0}
    /\ MaxSample \in Nat /\ MaxLeaks \in Nat \ {0}
    /\ IsFiniteSet(Addresses) /\ Cardinality(Addresses) >= InFlight
    /\ None \notin Addresses

ASSUME RowsAssumption ==
    /\ Chunks \subseteq Seq(Announcements)
    /\ \A m \in Snapshots : DOMAIN m \subseteq IPPrefixes

Ways     == {"batch", "shared", "light", "leak"}
Detectors == {"hijack", "leak", "outage"}
Unscored  == [k \in {} |-> <<>>]

VARIABLES
    way, snapshot, window,   \* the request; never changed
    requested,                \* detectors of the shared scan that could be prepared
    pc,                       \* "run", "done", or "raised"
    pos,                      \* chunks taken from the stream
    pending,                  \* _pending: submitted chunks, not yet merged
    running,                  \* the chunks the worker threads are at
    addr,                     \* chunk -> id() of the map it was given, while it lives
    cache,                    \* detect_origin_hijacks._trie_cache: address -> trie
    found,                    \* chunk -> the alerts of its worker, or Unscored
    merged,                   \* chunks whose alerts are in the samples
    sample, counted,          \* the alerts kept, and how many the aggregator saw
    leaks,                    \* [kept, total] of the leak detector
    fed                       \* detector -> the chunks the shared scan gave it

scanVars == <<way, snapshot, window, requested, pc, pos, pending, running, addr, cache,
          found, merged, sample, counted, leaks, fed>>

request == <<way, snapshot, window, requested>>
threads == <<pending, running, addr, cache>>

-----------------------------------------------------------------------------
PrefixesIn(rows) == {rows[i].prefix : i \in DOMAIN rows}

(* prefix_to_as_subset of a chunk in the batch scan. *)
Trimmed(i) == [p \in DOMAIN snapshot \cap PrefixesIn(window[i]) |-> snapshot[p]]

(* The announcements of a chunk with the target on their path.             *)
Named(i) == Selected(window[i], {row \in ToSet(window[i]) : Names(row)})

(* What the worker of the batch scan is given of a chunk, and how it       *)
(* scores it: the ownership is derived from the trimmed map.               *)
BatchAlerts(i, trie) ==
    Detect(Trimmed(i), trie, Owned(Trimmed(i)), Named(i))

(* hijack_chunk_api.consume_chunk: the full map, and also the rows for a   *)
(* prefix the target owns.                                                 *)
SharedAlerts(i) ==
    LET relevant(row) == Names(row) \/ row.prefix \in Owned(snapshot)
    IN  Detect(snapshot, DOMAIN snapshot, Owned(snapshot),
               Selected(window[i], {row \in ToSet(window[i]) : relevant(row)}))

LightAlerts(i) ==
    Detect(snapshot, DOMAIN snapshot, Owned(snapshot), window[i])

LeaksOf(i) ==
    LET row(n) == window[i][n]
    IN  Cardinality({n \in DOMAIN window[i] :
                        Origin(row(n)) = Target /\ row(n).path \in Leaky})

Quiet(i) == window[i] = <<>>

InEvent(i) == i > Baseline

(* The reading starts before the event only for the outage detector.       *)
FirstChunk == IF "outage" \in requested THEN 1 ELSE Baseline + 1

Cut(s, n) == SubSeq(s, 1, IF n < Len(s) THEN n ELSE Len(s))

(* merge_chunk_alerts *)
Merge(alerts) ==
    /\ sample'  = [k \in Kinds |-> sample[k] \o Cut(alerts[k], MaxSample - Len(sample[k]))]
    /\ counted' = [k \in Kinds |-> counted[k] + Len(alerts[k])]

KeepLeaks(i) ==
    leaks' = [kept  |-> leaks.kept + (IF LeaksOf(i) < MaxLeaks - leaks.kept
                                      THEN LeaksOf(i) ELSE MaxLeaks - leaks.kept),
              total |-> leaks.total + LeaksOf(i)]

-----------------------------------------------------------------------------
ScanInit ==
    /\ way \in Ways
    /\ snapshot \in Snapshots
    /\ window \in [1..NumChunks -> Chunks]
    /\ requested \in IF way = "shared" THEN SUBSET Detectors
                     ELSE {{IF way = "leak" THEN "leak" ELSE "hijack"}}
    /\ pc = "run" /\ pos = FirstChunk - 1 /\ merged = FirstChunk - 1
    /\ pending = <<>> /\ running = {}
    /\ addr = [i \in 1..NumChunks |-> None]
    /\ cache = [a \in {} |-> {}]
    /\ found = [i \in 1..NumChunks |-> Unscored]
    /\ sample = [k \in Kinds |-> <<>>] /\ counted = [k \in Kinds |-> 0]
    /\ leaks = [kept |-> 0, total |-> 0]
    /\ fed = [d \in Detectors |-> <<>>]

-----------------------------------------------------------------------------
(* The batch scan *)

(* Mutant: the number of chunks in flight is not looked at. *)
SubmitUnbounded ==
    /\ way = "batch" /\ pc = "run"
    /\ pos < NumChunks
    /\ pos' = pos + 1
    /\ pending' = Append(pending, pos + 1)
    /\ \E a \in Addresses \ {addr[i] : i \in 1..NumChunks} :
          addr' = [addr EXCEPT ![pos + 1] = a]
    /\ UNCHANGED <<request, pc, running, cache, found, merged, sample, counted, leaks, fed>>

(* The main thread fills the window of chunks in flight: the new map may   *)
(* live at any address no living map has.                                  *)
Submit ==
    /\ way = "batch" /\ pc = "run"
    /\ pos < NumChunks /\ Len(pending) < InFlight
    /\ pos' = pos + 1
    /\ pending' = Append(pending, pos + 1)
    /\ \E a \in Addresses \ {addr[i] : i \in 1..NumChunks} :
          addr' = [addr EXCEPT ![pos + 1] = a]
    /\ UNCHANGED <<request, pc, running, cache, found, merged, sample, counted, leaks, fed>>

Waiting == {i \in ToSet(pending) : found[i] = Unscored /\ i \notin running}

(* A thread of the pool takes the oldest chunk no thread has taken. *)
TakeChunk(i) ==
    /\ way = "batch"
    /\ i \in Waiting /\ \A j \in Waiting : i <= j
    /\ Cardinality(running) < Workers
    /\ running' = running \cup {i}
    /\ UNCHANGED <<request, pc, pos, pending, addr, cache, found, merged, sample, counted,
                   leaks, fed>>

(* process_chunk_worker: the trie is looked up by the address of the map,  *)
(* built and cached when the address is new, and the map is released.      *)
Finish(i) ==
    /\ i \in running
    /\ running' = running \ {i}
    /\ LET scored == Named(i) # <<>> /\ DOMAIN Trimmed(i) # {}
           hit    == addr[i] \in DOMAIN cache
           trie   == IF hit THEN cache[addr[i]] ELSE DOMAIN Trimmed(i)
       IN  /\ cache' = IF scored /\ ~hit
                       THEN [a \in DOMAIN cache \cup {addr[i]} |->
                               IF a = addr[i] THEN trie ELSE cache[a]]
                       ELSE cache
           /\ found' = [found EXCEPT ![i] = BatchAlerts(i, trie)]
    /\ addr' = [addr EXCEPT ![i] = None]
    /\ UNCHANGED <<request, pc, pos, pending, merged, sample, counted, leaks, fed>>

(* Mutant: the main thread merges whichever chunk is ready. *)
MergeReady ==
    /\ way = "batch" /\ pc = "run"
    /\ Len(pending) = InFlight \/ pos = NumChunks
    /\ \E n \in DOMAIN pending :
          /\ found[pending[n]] # Unscored
          /\ Merge(found[pending[n]])
          /\ pending' = RemoveAt(pending, n)
    /\ merged' = merged + 1
    /\ UNCHANGED <<request, pc, pos, running, addr, cache, found, leaks, fed>>

(* Mutant: the main thread merges only when the window is full. *)
MergeWhenFull ==
    /\ way = "batch" /\ pc = "run"
    /\ Len(pending) = InFlight
    /\ found[Head(pending)] # Unscored
    /\ Merge(found[Head(pending)])
    /\ pending' = Tail(pending)
    /\ merged' = merged + 1
    /\ UNCHANGED <<request, pc, pos, running, addr, cache, found, leaks, fed>>

(* With the window full or the stream at its end, the main thread waits    *)
(* for the oldest chunk.                                                   *)
MergeOldest ==
    /\ way = "batch" /\ pc = "run"
    /\ pending # <<>>
    /\ Len(pending) = InFlight \/ pos = NumChunks
    /\ found[Head(pending)] # Unscored
    /\ Merge(found[Head(pending)])
    /\ pending' = Tail(pending)
    /\ merged' = merged + 1
    /\ UNCHANGED <<request, pc, pos, running, addr, cache, found, leaks, fed>>

BatchEnds ==
    /\ way = "batch" /\ pc = "run"
    /\ pos = NumChunks /\ pending = <<>>
    /\ pc' = "done"
    /\ UNCHANGED <<request, pos, threads, found, merged, sample, counted, leaks, fed>>

-----------------------------------------------------------------------------
(* The shared scan *)

(* Mutant: the chunks before the event go to every detector. *)
FeedsAll(d, i) == d \in requested

(* chunk_is_in_event: the hijack and leak detectors get the event only.    *)
Feeds(d, i) == d \in requested /\ (d = "outage" \/ InEvent(i))

(* The leak detector unpacks five values, and a chunk with no announcement *)
(* gives it four: the error leaves the scan, before the outage detector.   *)
FeedChunk ==
    /\ way = "shared" /\ pc = "run" /\ requested # {}
    /\ pos < NumChunks
    /\ pos' = pos + 1
    /\ LET i == pos + 1
           breaks == Quiet(i) /\ Feeds("leak", i)
       IN  /\ found' = IF Feeds("hijack", i)
                       THEN [found EXCEPT ![i] = SharedAlerts(i)] ELSE found
           /\ IF Feeds("leak", i) /\ ~breaks THEN KeepLeaks(i) ELSE UNCHANGED leaks
           /\ pc' = IF breaks THEN "raised" ELSE "run"
           /\ fed' = [d \in Detectors |->
                        IF Feeds(d, i) /\ ~(breaks /\ d \in {"leak", "outage"})
                        THEN Append(fed[d], i) ELSE fed[d]]
    /\ UNCHANGED <<request, threads, merged, sample, counted>>

(* finalize_hijack folds the alerts in the order they were found.          *)
MergeNext ==
    /\ way = "shared" /\ pc = "run" /\ pos = NumChunks
    /\ "hijack" \in requested /\ merged < NumChunks
    /\ IF found[merged + 1] = Unscored THEN UNCHANGED <<sample, counted>>
       ELSE Merge(found[merged + 1])
    /\ merged' = merged + 1
    /\ UNCHANGED <<request, pc, pos, threads, found, leaks, fed>>

SharedEnds ==
    /\ way = "shared" /\ pc = "run"
    /\ \/ requested = {}
       \/ pos = NumChunks /\ ("hijack" \in requested => merged = NumChunks)
    /\ pc' = "done"
    /\ UNCHANGED <<request, pos, threads, found, merged, sample, counted, leaks, fed>>

-----------------------------------------------------------------------------
(* The detectors on their own *)

LightScan ==
    /\ way = "light" /\ pc = "run"
    /\ found' = [i \in 1..NumChunks |-> IF InEvent(i) THEN LightAlerts(i) ELSE Unscored]
    /\ pos' = NumChunks /\ pc' = "done"
    /\ UNCHANGED <<request, threads, merged, sample, counted, leaks, fed>>

(* The chunk after the one that filled the list is counted, and ends the   *)
(* loop.                                                                   *)
LeakChunk ==
    /\ way = "leak" /\ pc = "run" /\ pos < NumChunks
    /\ pos' = pos + 1
    /\ IF Quiet(pos + 1)
       THEN pc' = "raised" /\ UNCHANGED leaks
       ELSE /\ KeepLeaks(pos + 1)
            /\ pc' = IF leaks.kept >= MaxLeaks THEN "done" ELSE "run"
    /\ UNCHANGED <<request, threads, found, merged, sample, counted, fed>>

LeakEnds ==
    /\ way = "leak" /\ pc = "run" /\ pos = NumChunks
    /\ pc' = "done"
    /\ UNCHANGED <<request, pos, threads, found, merged, sample, counted, leaks, fed>>

Terminated == pc # "run" /\ running = {} /\ UNCHANGED scanVars

ScanNext ==
    \/ Submit
    \/ \E i \in 1..NumChunks : TakeChunk(i)
    \/ \E i \in 1..NumChunks : Finish(i)
    \/ MergeOldest
    \/ BatchEnds
    \/ FeedChunk
    \/ MergeNext
    \/ SharedEnds
    \/ LightScan
    \/ LeakChunk
    \/ LeakEnds
    \/ Terminated

ScanSpec == ScanInit /\ [][ScanNext]_scanVars

(* The threads of the pool and the thread that scans are always run again. *)
FairScanSpec ==
    /\ ScanSpec
    /\ WF_scanVars(\E i \in 1..NumChunks : TakeChunk(i) \/ Finish(i))
    /\ WF_scanVars(Submit \/ MergeOldest \/ BatchEnds \/ FeedChunk \/ MergeNext \/ SharedEnds
                 \/ LightScan \/ LeakChunk \/ LeakEnds)

-----------------------------------------------------------------------------
(* Properties *)

NoAlerts == [k \in Kinds |-> <<>>]

AlertsOf(i) == IF found[i] = Unscored THEN NoAlerts ELSE found[i]

(* The variables of the scan have the values the code gives them; no more  *)
(* chunks are in flight than allowed, and no two living maps share an      *)
(* address.                                                                *)
ScanTypeOK ==
    /\ way \in Ways /\ snapshot \in Snapshots
    /\ window \in [1..NumChunks -> Chunks]
    /\ requested \subseteq Detectors
    /\ pc \in {"run", "done", "raised"}
    /\ pos \in 0..NumChunks /\ merged \in 0..NumChunks
    /\ Len(pending) <= InFlight
    /\ Cardinality(running) <= Workers /\ running \subseteq ToSet(pending)
    /\ \A i, j \in 1..NumChunks : addr[i] = addr[j] /\ addr[i] # None => i = j
    /\ \A i \in 1..NumChunks : addr[i] # None <=> i \in ToSet(pending) /\ found[i] = Unscored
    /\ DOMAIN cache \subseteq Addresses
    /\ \A k \in Kinds : Len(sample[k]) <= MaxSample
    /\ leaks.kept \in 0..MaxLeaks /\ leaks.total >= leaks.kept

(* Whatever the order in which the threads finish, the sample of each kind *)
(* is the beginning of all its alerts in the order of the chunks, and the  *)
(* aggregator has seen every alert of the merged chunks once.              *)
SampleInOrder ==
    \A k \in Kinds :
        LET alerts == FlattenSeq([i \in 1..merged |-> AlertsOf(i)[k]])
        IN  /\ sample[k] = Cut(alerts, MaxSample)
            /\ counted[k] = Len(alerts)

(* Trimming the map to a chunk, and whatever trie its address brings up,   *)
(* hide no announcement of an exact prefix of the target by another origin *)
(* that the batch scan looks at, and add none.                             *)
VictimsSurviveTrimming ==
    way = "batch" =>
        \A i \in 1..NumChunks : found[i] # Unscored =>
            LET victim(row) == /\ Names(row) /\ Origin(row) # Target
                               /\ row.prefix \in Owned(snapshot)
            IN  found[i]["origin_hijacked"] =
                  Selected(window[i], {row \in ToSet(window[i]) : victim(row)})

(* The target is accused only of announcing an exact prefix the snapshot   *)
(* gives to others: a prefix the snapshot does not know is no accusation.  *)
AccusedOnlyOfForeign ==
    \A i \in 1..NumChunks :
        \A row \in ToSet(AlertsOf(i)["origin_hijacking"]) :
            /\ Origin(row) = Target
            /\ row.prefix \in DOMAIN snapshot
            /\ Target \notin snapshot[row.prefix]

(* The walk of the trie finds the most specific stored prefix that covers  *)
(* the one asked for, for the map of the scan and for every trie it made.  *)
ParentIsMostSpecific ==
    \A stored \in {DOMAIN snapshot} \cup {cache[a] : a \in DOMAIN cache} :
        \A q \in UNION {PrefixesIn(window[i]) : i \in 1..NumChunks} :
            FindParent(stored, q) = MostSpecific(stored, q)

(* The leaks in those of the first n chunks that are among chunks.         *)
LeaksUpTo(n, chunks) ==
    LET upTo[i \in 0..n] ==
            IF i = 0 THEN 0
            ELSE upTo[i - 1] + (IF i \in chunks THEN LeaksOf(i) ELSE 0)
    IN  upTo[n]

(* Sharing the reading is invisible to the detectors: each one has been    *)
(* given the chunks of its own window, in order, and the leaks counted and *)
(* kept are those of its chunks.                                           *)
SharingIsInvisible ==
    way = "shared" /\ pc # "raised" /\ requested # {} =>
        /\ \A d \in Detectors :
              LET first == IF d = "outage" THEN 1 ELSE Baseline + 1
              IN  fed[d] = IF d \in requested
                           THEN [n \in 1..pos - first + 1 |-> first + n - 1] ELSE <<>>
        /\ leaks.total = LeaksUpTo(pos, ToSet(fed["leak"]))
        /\ leaks.kept = IF leaks.total < MaxLeaks THEN leaks.total ELSE MaxLeaks

(* Every scan comes to an end: no thread and no window in flight blocks it.*)
ScanEnds == <>(pc # "run")
=============================================================================
