---------------------------- MODULE UpdateStream ----------------------------
(***************************************************************************)
(* get_updates_streaming (data/updates_loader.py): the windows of a period *)
(* as a generator of chunks.  Either the generator reads them itself, or a *)
(* daemon thread reads ahead into a bounded queue and closes it with a     *)
(* sentinel whatever happens to it; the generator hands the queue's chunks *)
(* out and joins the thread, for a second at most, when it is closed.      *)
(*                                                                         *)
(* Reading one window (iter_window_chunks, data/parquet_cache.py) is one   *)
(* step with one of three outcomes: a chunk, nothing, or an exception.     *)
(***************************************************************************)
EXTENDS Integers, Sequences

CONSTANTS
  MaxWindows,  \* the longest period, in windows
  Capacity,    \* the queue's maxsize
  Sentinel     \* what the producer puts last

ASSUME StreamAssumption ==
  /\ MaxWindows \in Nat /\ Capacity \in Nat \ {0}
  /\ Sentinel \notin Int

\* What the archive holds for a window: rows in the cache or a good source;
\* nothing that makes a row; nothing yet, to be downloaded; a file whose
\* reading raises.
Contents == {"cached", "void", "remote", "unreadable"}

Readable == {"cached"}
Fallible == {"remote", "unreadable"}
Deliverable == {"cached", "remote"}
Skippable == {"void", "remote"}

VARIABLES
  archive,    \* archive[w]: the content of window w
  mode,       \* "inline" (one worker, or no download) or "threaded"
  cursor,     \* the window iter_window_chunks is at
  producer,   \* "off", "reading", "putting", "closing", "dead"
  queue,      \* q: windows of the chunks, and the sentinel
  consumer,   \* "new", "pulling", "yielded", "joining", "closed"
  delivered,  \* history: the windows whose chunks the caller has got
  outcome     \* "open", "exhausted", "abandoned", "failed"

vars == <<archive, mode, cursor, producer, queue, consumer, delivered, outcome>>
inputs == <<archive, mode>>

\* A period whose end is before its start has no window.
Init ==
  /\ archive \in UNION {[1..n -> Contents] : n \in 0..MaxWindows}
  /\ mode \in {"inline", "threaded"}
  /\ cursor = 1
  /\ producer = "off" /\ queue = <<>>
  /\ consumer = "new" /\ delivered = <<>> /\ outcome = "open"

Windows == DOMAIN archive
AtEnd == cursor \notin Windows

\* The outcomes of reading the window at the cursor.  A download raises when
\* its attempts are used up; a skipped window is behind the cursor at once.
Reads == ~AtEnd /\ archive[cursor] \in Deliverable
Skips == ~AtEnd /\ archive[cursor] \in Skippable /\ cursor' = cursor + 1
Raises == ~AtEnd /\ archive[cursor] \in Fallible
-----------------------------------------------------------------------------
\* The first next(): nothing to do for an empty period, otherwise the thread
\* starts or the caller's own thread reads.
Start ==
  /\ consumer = "new"
  /\ IF Windows = {}
       THEN consumer' = "closed" /\ outcome' = "exhausted" /\ UNCHANGED producer
       ELSE /\ consumer' = "pulling"
            /\ producer' = IF mode = "threaded" THEN "reading" ELSE "off"
            /\ UNCHANGED outcome
  /\ UNCHANGED <<inputs, cursor, queue, delivered>>

\* A mutated form: an exception ends the thread without the sentinel.
ReadNoFinally ==
  /\ producer = "reading"
  /\ \/ Reads /\ producer' = "putting" /\ UNCHANGED cursor
     \/ Skips /\ UNCHANGED producer
     \/ AtEnd /\ producer' = "closing" /\ UNCHANGED cursor
     \/ Raises /\ producer' = "dead" /\ UNCHANGED cursor
  /\ UNCHANGED <<inputs, queue, consumer, delivered, outcome>>

\* The producer's next(): an exception, of the one class it catches or of any
\* other, leads to the finally clause like the end of the period.
Read ==
  /\ producer = "reading"
  /\ \/ Reads /\ producer' = "putting" /\ UNCHANGED cursor
     \/ Skips /\ UNCHANGED producer
     \/ (AtEnd \/ Raises) /\ producer' = "closing" /\ UNCHANGED cursor
  /\ UNCHANGED <<inputs, queue, consumer, delivered, outcome>>

\* A mutated form: a full queue drops the chunk instead of blocking.
PutOrDrop ==
  /\ producer = "putting"
  /\ queue' = IF Len(queue) < Capacity THEN Append(queue, cursor) ELSE queue
  /\ producer' = "reading" /\ cursor' = cursor + 1
  /\ UNCHANGED <<inputs, consumer, delivered, outcome>>

\* q.put(chunk) blocks while the queue is full.
Put ==
  /\ producer = "putting"
  /\ Len(queue) < Capacity
  /\ queue' = Append(queue, cursor)
  /\ producer' = "reading" /\ cursor' = cursor + 1
  /\ UNCHANGED <<inputs, consumer, delivered, outcome>>

\* A mutated form: the sentinel needs a second free place.
PutSentinelTight ==
  /\ producer = "closing"
  /\ Len(queue) + 1 < Capacity
  /\ queue' = Append(queue, Sentinel)
  /\ producer' = "dead"
  /\ UNCHANGED <<inputs, cursor, consumer, delivered, outcome>>

\* finally: q.put(sentinel), which blocks in the same way.
PutSentinel ==
  /\ producer = "closing"
  /\ Len(queue) < Capacity
  /\ queue' = Append(queue, Sentinel)
  /\ producer' = "dead"
  /\ UNCHANGED <<inputs, cursor, consumer, delivered, outcome>>

\* q.get() blocks while the queue is empty; the sentinel ends the loop.
Get ==
  /\ consumer = "pulling" /\ mode = "threaded"
  /\ queue # <<>>
  /\ queue' = Tail(queue)
  /\ IF Head(queue) = Sentinel
       THEN consumer' = "joining" /\ outcome' = "exhausted" /\ UNCHANGED delivered
       ELSE /\ consumer' = "yielded" /\ UNCHANGED outcome
            /\ delivered' = Append(delivered, Head(queue))
  /\ UNCHANGED <<inputs, cursor, producer>>

\* The same without a thread: an exception goes to the caller.
ReadInline ==
  /\ consumer = "pulling" /\ mode = "inline"
  /\ \/ /\ Reads /\ consumer' = "yielded"
        /\ delivered' = Append(delivered, cursor) /\ cursor' = cursor + 1
        /\ UNCHANGED outcome
     \/ Skips /\ UNCHANGED <<consumer, delivered, outcome>>
     \/ AtEnd /\ consumer' = "closed" /\ outcome' = "exhausted"
              /\ UNCHANGED <<cursor, delivered>>
     \/ Raises /\ consumer' = "closed" /\ outcome' = "failed"
               /\ UNCHANGED <<cursor, delivered>>
  /\ UNCHANGED <<inputs, producer, queue>>

\* The caller asks for another chunk.
Resume ==
  /\ consumer = "yielded"
  /\ consumer' = "pulling"
  /\ UNCHANGED <<inputs, cursor, producer, queue, delivered, outcome>>

\* The caller closes the generator, at the yield or before its first chunk.
Abandon ==
  /\ consumer \in {"new", "yielded"}
  /\ consumer' = IF producer = "off" THEN "closed" ELSE "joining"
  /\ outcome' = "abandoned"
  /\ UNCHANGED <<inputs, cursor, producer, queue, delivered>>

\* The generator's finally: is_alive, and a join that gives up after a second.
Join ==
  /\ consumer = "joining"
  /\ consumer' = "closed"
  /\ UNCHANGED <<inputs, cursor, producer, queue, delivered, outcome>>

Produce == Read \/ Put \/ PutSentinel
Consume == Get \/ ReadInline \/ Join

Next == Produce \/ Consume \/ Start \/ Resume \/ Abandon

\* Reads end and runnable threads run; the caller may stop asking.
Spec == Init /\ [][Next]_vars /\ WF_vars(Produce) /\ WF_vars(Consume)
-----------------------------------------------------------------------------
TypeOK ==
  /\ archive \in UNION {[1..n -> Contents] : n \in 0..MaxWindows}
  /\ mode \in {"inline", "threaded"}
  /\ cursor \in 1..MaxWindows + 1
  /\ producer \in {"off", "reading", "putting", "closing", "dead"}
  /\ queue \in Seq((1..MaxWindows) \cup {Sentinel}) /\ Len(queue) <= Capacity
  /\ consumer \in {"new", "pulling", "yielded", "joining", "closed"}
  /\ delivered \in Seq(1..MaxWindows)
  /\ outcome \in {"open", "exhausted", "abandoned", "failed"}

\* The windows arrive in order and once, and none that can be read is passed
\* over except behind a failure: read-ahead, queue and sentinel together keep
\* what the plain loop promises.
OS == INSTANCE OrderedStream
RefinesOrderedStream == OS!Spec

\* A caller that asks for a chunk gets one or the end of the stream, whatever
\* has become of the producer.
CallerIsServed == consumer = "pulling" ~> consumer # "pulling"

\* Behind a closed stream the producer ends if what is left of the period fits
\* into the queue together with the sentinel.
Fits == Len(queue) + (Len(archive) - cursor + 1) + 1 <= Capacity
FittingRestEnds ==
  consumer = "closed" /\ producer \in {"reading", "putting"} /\ Fits
    ~> producer = "dead"

=============================================================================
