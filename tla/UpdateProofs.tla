---------------------------- MODULE UpdateProofs ----------------------------
(***************************************************************************)
(* The theorems about the reading of the update chunks, for every archive, *)
(* window, snapshot and bound.                                             *)
(*                                                                         *)
(* First the reading itself: the read-ahead of get_updates_streaming keeps *)
(* the promise of OrderedStream for every period, every queue size and     *)
(* either mode.  Then the scan of the chunks (UpdateScan): the trie finds  *)
(* the most specific prefix, the samples of alerts are in the order of the *)
(* chunks whatever the order of the threads, no victim is lost and nobody  *)
(* accused by the trimmed maps, and sharing the reading is invisible.      *)
(***************************************************************************)
EXTENDS UpdateStream, UpdateScan, FiniteSetTheorems, WellFoundedInduction, TLAPS

\* The i-th window behind the caller: 0 is the last one it has got.
Behind(i) == IF i = 0 THEN OS!Last(delivered) ELSE queue[i]

\* Nothing readable lies strictly between a and b.
Clear(a, b) ==
  a < b /\ \A v \in Windows : a < v /\ v < b => archive[v] \notin Readable

\* What is readable behind a is hidden by a failure.
Stopped(a) ==
  \A v \in Windows :
    a < v /\ archive[v] \in Readable => OS!Hidden(a, v)

\* Each chunk in the queue is the right one to follow the one before it.
ChunksFollow ==
  \A i \in DOMAIN queue : queue[i] # Sentinel =>
    /\ queue[i] \in Windows /\ archive[queue[i]] \in Deliverable
    /\ Clear(Behind(i - 1), queue[i])

\* The sentinel is the producer's last word, and nothing is missing before it.
SentinelLast ==
  \A i \in DOMAIN queue : queue[i] = Sentinel =>
    i = Len(queue) /\ producer = "dead" /\ Stopped(Behind(i - 1))

\* The producer goes on where the queue ends.
ProducerFollows ==
  /\ producer \in {"reading", "putting"} => Clear(Behind(Len(queue)), cursor)
  /\ producer = "putting" =>
       cursor \in Windows /\ archive[cursor] \in Deliverable
  /\ producer = "closing" => Stopped(Behind(Len(queue)))

\* Without a thread, the generator goes on where the caller is.
InlineFollows ==
  /\ mode = "inline" => producer = "off" /\ queue = <<>>
  /\ mode = "inline" /\ consumer \in {"new", "pulling", "yielded"} =>
       Clear(OS!Last(delivered), cursor)

ConsumerOpen ==
  /\ consumer \in {"new", "pulling", "yielded"} => outcome = "open"
  /\ consumer = "new" =>
       producer = "off" /\ queue = <<>> /\ delivered = <<>> /\ cursor = 1

IInv ==
  /\ TypeOK /\ ChunksFollow /\ SentinelLast
  /\ ProducerFollows /\ InlineFollows /\ ConsumerOpen
-----------------------------------------------------------------------------
\* The windows of the period are 1..n, and reading stays within them.
LEMMA Period ==
  ASSUME TypeOK
  PROVE  /\ Windows \subseteq 1..MaxWindows
         /\ cursor \in Nat /\ (cursor \in Windows => cursor + 1 \in 1..MaxWindows + 1)
         /\ \A w \in Windows : archive[w] \in Contents
         /\ \A v \in 1..MaxWindows + 1 : v \in Windows \/ \A w \in Windows : w < v
<1>1. PICK n \in 0..MaxWindows : archive \in [1..n -> Contents]
  BY DEF TypeOK
<1>2. Windows = 1..n /\ MaxWindows \in Nat
  BY <1>1, StreamAssumption DEF Windows
<1> QED
  BY <1>1, <1>2 DEF TypeOK

LEMMA AppendStays ==
  ASSUME NEW S, NEW s \in Seq(S), NEW e \in S
  PROVE  Append(s, e) \in Seq(S)
OBVIOUS

\* What the caller got last is a window, or 0 before the first.
LEMMA LastIsNat ==
  ASSUME TypeOK
  PROVE  OS!Last(delivered) \in 0..MaxWindows
<1>1. MaxWindows \in Nat
  BY StreamAssumption
<1> QED
  BY <1>1 DEF TypeOK, OS!Last

LEMMA TypeInit == Init => TypeOK
<1> SUFFICES ASSUME Init PROVE TypeOK
  OBVIOUS
<1> QED
  BY StreamAssumption DEF Init, TypeOK

\* Every step keeps the types, given that a chunk being put is a window.
LEMMA TypeStep ==
  ASSUME TypeOK, ProducerFollows, [Next]_vars
  PROVE  TypeOK'
<1> USE StreamAssumption
<1>0. /\ MaxWindows \in Nat /\ Capacity \in Nat
      /\ Windows \subseteq 1..MaxWindows /\ cursor \in Nat
      /\ cursor \in Windows => cursor + 1 \in 1..MaxWindows + 1
  BY Period
<1>1. CASE Start
  BY <1>1 DEF TypeOK, Start, inputs
<1>2. CASE Read
  <2>1. archive' = archive /\ mode' = mode /\ cursor' \in 1..MaxWindows + 1
    BY <1>0, <1>2 DEF TypeOK, Read, Reads, Skips, Raises, AtEnd, inputs
  <2> QED
    BY <1>2, <2>1 DEF TypeOK, Read
<1>3. CASE Put
  <2>1. cursor \in 1..MaxWindows /\ cursor' \in 1..MaxWindows + 1
    BY <1>0, <1>3 DEF Put, ProducerFollows
  <2>2. queue' \in Seq((1..MaxWindows) \cup {Sentinel}) /\ Len(queue') <= Capacity
    BY <1>0, <1>3, <2>1 DEF Put, TypeOK
  <2> QED
    BY <1>3, <2>1, <2>2 DEF TypeOK, Put, inputs
<1>4. CASE PutSentinel
  <2>1. queue' \in Seq((1..MaxWindows) \cup {Sentinel}) /\ Len(queue') <= Capacity
    BY <1>0, <1>4 DEF PutSentinel, TypeOK
  <2> QED
    BY <1>4, <2>1 DEF TypeOK, PutSentinel, inputs
<1>5. CASE Get
  <2>1. queue' \in Seq((1..MaxWindows) \cup {Sentinel}) /\ Len(queue') <= Capacity
    BY <1>0, <1>5 DEF Get, TypeOK
  <2>2. Head(queue) \in (1..MaxWindows) \cup {Sentinel}
    BY <1>5 DEF Get, TypeOK
  <2>3. delivered' \in Seq(1..MaxWindows)
    <3>1. CASE Head(queue) = Sentinel
      BY <1>5, <3>1 DEF Get, TypeOK
    <3>2. CASE Head(queue) # Sentinel
      <4>1. delivered \in Seq(1..MaxWindows) /\ Head(queue) \in 1..MaxWindows
        BY <2>2, <3>2 DEF TypeOK
      <4>2. delivered' = Append(delivered, Head(queue))
        BY <1>5, <3>2 DEF Get
      <4> QED
        BY <4>1, <4>2, AppendStays
    <3> QED
      BY <3>1, <3>2
  <2> QED
    BY <1>5, <2>1, <2>3 DEF TypeOK, Get, inputs
<1>6. CASE ReadInline
  <2>1. cursor' \in 1..MaxWindows + 1 /\ delivered' \in Seq(1..MaxWindows)
    <3>1. CASE Reads /\ delivered' = Append(delivered, cursor) /\ cursor' = cursor + 1
      <4>1. cursor \in 1..MaxWindows /\ cursor' \in 1..MaxWindows + 1
        BY <1>0, <3>1 DEF Reads, AtEnd
      <4>2. delivered \in Seq(1..MaxWindows)
        BY DEF TypeOK
      <4> QED
        BY <3>1, <4>1, <4>2, AppendStays
    <3>2. CASE Skips /\ UNCHANGED delivered
      BY <1>0, <3>2 DEF TypeOK, Skips, AtEnd
    <3>3. CASE UNCHANGED <<cursor, delivered>>
      BY <3>3 DEF TypeOK
    <3> QED
      BY <1>6, <3>1, <3>2, <3>3 DEF ReadInline
  <2> QED
    BY <1>6, <2>1 DEF TypeOK, ReadInline, inputs
<1>7. CASE Join
  BY <1>7 DEF TypeOK, Join, inputs
<1>8. CASE Resume
  BY <1>8 DEF TypeOK, Resume, inputs
<1>9. CASE Abandon
  BY <1>9 DEF TypeOK, Abandon, inputs
<1>10. CASE UNCHANGED vars
  BY <1>10 DEF TypeOK, vars
<1> QED
  BY <1>1, <1>2, <1>3, <1>4, <1>5, <1>6, <1>7, <1>8, <1>9, <1>10
     DEF Next, Produce, Consume
-----------------------------------------------------------------------------
\* What is in the queue: windows and the sentinel, which is no number.
LEMMA QueueShape ==
  ASSUME TypeOK
  PROVE  /\ Len(queue) \in Nat /\ DOMAIN queue = 1..Len(queue)
         /\ \A i \in DOMAIN queue : queue[i] \in 1..MaxWindows \/ queue[i] = Sentinel
         /\ Sentinel \notin Int /\ MaxWindows \in Nat
  BY StreamAssumption DEF TypeOK

\* Before the sentinel is put the queue holds windows only, and so the place
\* behind which the producer goes on is a number.
LEMMA OnlyWindows ==
  ASSUME IInv, producer # "dead"
  PROVE  /\ \A i \in DOMAIN queue : queue[i] # Sentinel
         /\ \A i \in 0..Len(queue) : Behind(i) \in 0..MaxWindows
<1>1. \A i \in DOMAIN queue : queue[i] # Sentinel
  BY DEF IInv, SentinelLast
<1>2. /\ OS!Last(delivered) \in 0..MaxWindows
      /\ Len(queue) \in Nat /\ DOMAIN queue = 1..Len(queue) /\ MaxWindows \in Nat
      /\ \A i \in DOMAIN queue : queue[i] \in 1..MaxWindows
  BY <1>1, QueueShape, LastIsNat DEF IInv
<1> QED
  BY <1>1, <1>2 DEF Behind

PipeVars == <<archive, mode, cursor, producer, queue, delivered>>

\* A step that leaves the pipe alone leaves what is said of it.
LEMMA PipeUnchanged ==
  ASSUME IInv, UNCHANGED PipeVars
  PROVE  ChunksFollow' /\ SentinelLast' /\ ProducerFollows'
  BY DEF IInv, PipeVars, ChunksFollow, SentinelLast, ProducerFollows, Behind,
         Clear, Stopped, Windows, OS!Last, OS!Hidden

LEMMA StartStep ==
  ASSUME IInv, Start, TypeOK'
  PROVE  IInv'
<1>1. /\ queue = <<>> /\ cursor = 1 /\ delivered = <<>> /\ outcome = "open"
      /\ queue' = <<>> /\ cursor' = 1 /\ delivered' = <<>>
      /\ archive' = archive /\ mode' = mode
  BY DEF IInv, ConsumerOpen, Start, inputs
<1>2. Clear(0, 1)'
  <2>1. Windows \subseteq 1..MaxWindows /\ MaxWindows \in Nat /\ Windows' = Windows
    BY <1>1, Period, StreamAssumption DEF IInv, Windows
  <2> QED
    BY <2>1 DEF Clear
<1>3. OS!Last(delivered)' = 0 /\ Behind(Len(queue))' = 0
  BY <1>1 DEF Behind, OS!Last
<1>4. producer' \in {"off", "reading"} /\ (mode' = "inline" => producer' = "off")
  BY DEF Start, IInv, ConsumerOpen, inputs
<1>5. ChunksFollow' /\ SentinelLast'
  BY <1>1 DEF ChunksFollow, SentinelLast
<1>6. ProducerFollows' /\ InlineFollows'
  BY <1>1, <1>2, <1>3, <1>4 DEF ProducerFollows, InlineFollows
<1>7. ConsumerOpen'
  BY <1>1 DEF ConsumerOpen, Start
<1> QED
  BY <1>5, <1>6, <1>7 DEF IInv

LEMMA ReadStep ==
  ASSUME IInv, Read, TypeOK'
  PROVE  IInv'
<1> DEFINE b == Behind(Len(queue))
<1>1. /\ producer = "reading" /\ archive' = archive /\ mode' = mode
      /\ queue' = queue /\ delivered' = delivered
      /\ consumer' = consumer /\ outcome' = outcome
  BY DEF Read, inputs
<1>2. /\ b \in Nat /\ b' = b /\ Clear(b, cursor) /\ cursor \in 1..MaxWindows + 1
      /\ Windows \subseteq Nat /\ Windows' = Windows
  <2>1. b \in 0..MaxWindows
    BY <1>1, OnlyWindows, QueueShape DEF IInv
  <2>2. Windows \subseteq 1..MaxWindows /\ MaxWindows \in Nat
    BY Period, StreamAssumption DEF IInv
  <2> QED
    BY <1>1, <2>1, <2>2 DEF IInv, ProducerFollows, TypeOK, Behind, Windows, OS!Last
<1>3. ChunksFollow'
  BY <1>1 DEF IInv, ChunksFollow, Behind, Clear, Windows, OS!Last
<1>4. SentinelLast'
  BY <1>1, OnlyWindows DEF SentinelLast
<1>5. ProducerFollows'
  <2>1. CASE Reads /\ producer' = "putting" /\ UNCHANGED cursor
    BY <1>1, <1>2, <2>1 DEF ProducerFollows, Reads, AtEnd, Clear, Windows
  <2>2. CASE Skips /\ UNCHANGED producer
    <3>1. archive[cursor] \notin Readable /\ cursor' = cursor + 1
      BY <2>2 DEF Skips, Skippable, Readable
    <3>2. Clear(b, cursor + 1)
      BY <1>2, <3>1 DEF Clear
    <3>3. Clear(b, cursor)'
      BY <1>1, <1>2, <3>1, <3>2 DEF Clear
    <3> QED
      BY <1>1, <2>2, <3>3 DEF ProducerFollows
  <2>3. CASE (AtEnd \/ Raises) /\ producer' = "closing" /\ UNCHANGED cursor
    <3>1. Stopped(b)
      <4>1. CASE AtEnd
        <5>1. \A w \in Windows : w < cursor
          BY <1>2, <4>1, Period DEF IInv, AtEnd
        <5> QED
          BY <1>2, <5>1 DEF Stopped, Clear
      <4>2. CASE Raises
        <5>1. cursor \in Windows /\ archive[cursor] \in Fallible
          BY <4>2 DEF Raises, AtEnd
        <5>2. \A v \in Windows : b < v /\ archive[v] \in Readable => cursor <= v
          BY <1>2 DEF Clear
        <5> QED
          BY <1>2, <5>1, <5>2 DEF Stopped, OS!Hidden, Clear, Windows
      <4> QED
        BY <2>3, <4>1, <4>2
    <3>2. Stopped(b)'
      BY <1>1, <1>2, <3>1 DEF Stopped, OS!Hidden
    <3> QED
      BY <2>3, <3>2 DEF ProducerFollows
  <2> QED
    BY <2>1, <2>2, <2>3 DEF Read
<1>6. InlineFollows' /\ ConsumerOpen'
  BY <1>1 DEF IInv, InlineFollows, ConsumerOpen
<1> QED
  BY <1>3, <1>4, <1>5, <1>6 DEF IInv
LEMMA PutStep ==
  ASSUME IInv, Put, TypeOK'
  PROVE  IInv'
<1> DEFINE n == Len(queue)
<1>1. /\ producer = "putting" /\ producer' = "reading" /\ archive' = archive
      /\ mode' = mode /\ queue' = Append(queue, cursor) /\ cursor' = cursor + 1
      /\ delivered' = delivered /\ consumer' = consumer /\ outcome' = outcome
  BY DEF Put, inputs
<1>2. /\ cursor \in Windows /\ archive[cursor] \in Deliverable
      /\ Clear(Behind(n), cursor)
      /\ cursor \in Nat /\ cursor # Sentinel /\ n \in Nat
      /\ Windows \subseteq Nat /\ Windows' = Windows
  <2>1. Windows \subseteq 1..MaxWindows /\ MaxWindows \in Nat /\ cursor \in Nat
    BY Period, StreamAssumption DEF IInv
  <2> QED
    BY <1>1, <2>1, QueueShape DEF IInv, ProducerFollows, Windows
<1>3. /\ DOMAIN queue = 1..n /\ DOMAIN queue' = 1..(n + 1)
      /\ \A i \in 1..n : queue'[i] = queue[i]
      /\ queue'[n + 1] = cursor
  BY <1>1, <1>2, QueueShape DEF IInv, TypeOK
<1>4. \A i \in 0..n : Behind(i)' = Behind(i)
  BY <1>1, <1>2, <1>3 DEF Behind, OS!Last
<1>5. Behind(Len(queue))' = cursor
  <2>1. Len(queue') = n + 1
    BY <1>1, <1>2 DEF IInv, TypeOK
  <2> QED
    BY <1>2, <1>3, <2>1 DEF Behind
<1>6. \A i \in DOMAIN queue' : queue'[i] # Sentinel
  BY <1>1, <1>2, <1>3, OnlyWindows
<1>7. ChunksFollow'
  <2> SUFFICES ASSUME NEW i \in 1..(n + 1)
               PROVE  /\ queue'[i] \in Windows /\ archive[queue'[i]] \in Deliverable
                      /\ Clear(Behind(i - 1)', queue'[i])
    BY <1>1, <1>2, <1>3 DEF ChunksFollow, Clear
  <2>1. CASE i = n + 1
    BY <1>2, <1>3, <1>4, <2>1
  <2>2. CASE i \in 1..n
    <3>1. queue[i] # Sentinel
      BY <1>1, <1>3, <2>2, OnlyWindows
    <3>2. i - 1 \in 0..n
      BY <1>2, <2>2
    <3> QED
      BY <1>3, <1>4, <2>2, <3>1, <3>2 DEF IInv, ChunksFollow
  <2> QED
    BY <1>2, <2>1, <2>2
<1>8. SentinelLast'
  BY <1>6 DEF SentinelLast
<1>9. ProducerFollows'
  <2>1. Clear(cursor, cursor + 1)
    BY <1>2 DEF Clear
  <2>2. Clear(Behind(Len(queue)), cursor)'
    BY <1>1, <1>2, <1>5, <2>1 DEF Clear
  <2> QED
    BY <1>1, <2>2 DEF ProducerFollows
<1>10. InlineFollows' /\ ConsumerOpen'
  BY <1>1 DEF IInv, InlineFollows, ConsumerOpen
<1> QED
  BY <1>7, <1>8, <1>9, <1>10 DEF IInv

LEMMA PutSentinelStep ==
  ASSUME IInv, PutSentinel, TypeOK'
  PROVE  IInv'
<1> DEFINE n == Len(queue)
<1>1. /\ producer = "closing" /\ producer' = "dead" /\ archive' = archive
      /\ mode' = mode /\ queue' = Append(queue, Sentinel) /\ cursor' = cursor
      /\ delivered' = delivered /\ consumer' = consumer /\ outcome' = outcome
  BY DEF PutSentinel, inputs
<1>2. n \in Nat /\ Stopped(Behind(n)) /\ Windows' = Windows
  BY <1>1, QueueShape DEF IInv, ProducerFollows, Windows
<1>3. /\ DOMAIN queue = 1..n /\ DOMAIN queue' = 1..(n + 1) /\ Len(queue') = n + 1
      /\ \A i \in 1..n : queue'[i] = queue[i]
      /\ queue'[n + 1] = Sentinel
  BY <1>1, <1>2, QueueShape DEF IInv, TypeOK
<1>4. \A i \in 0..n : Behind(i)' = Behind(i)
  BY <1>1, <1>2, <1>3 DEF Behind, OS!Last
<1>5. \A i \in 1..n : queue'[i] # Sentinel /\ i - 1 \in 0..n
  BY <1>1, <1>2, <1>3, OnlyWindows
<1>6. ChunksFollow'
  <2> SUFFICES ASSUME NEW i \in 1..n
               PROVE  /\ queue'[i] \in Windows /\ archive[queue'[i]] \in Deliverable
                      /\ Clear(Behind(i - 1)', queue'[i])
    BY <1>1, <1>2, <1>3 DEF ChunksFollow, Clear
  <2> QED
    BY <1>3, <1>4, <1>5 DEF IInv, ChunksFollow
<1>7. SentinelLast'
  <2> SUFFICES ASSUME NEW i \in 1..(n + 1), queue'[i] = Sentinel
               PROVE  i = n + 1 /\ Stopped(Behind(i - 1)')
    BY <1>1, <1>2, <1>3 DEF SentinelLast, Stopped, OS!Hidden
  <2>1. i = n + 1
    BY <1>2, <1>5
  <2>2. i - 1 = n
    BY <1>2, <2>1
  <2> QED
    BY <1>2, <1>4, <2>1, <2>2
<1>8. ProducerFollows'
  BY <1>1 DEF ProducerFollows
<1>9. InlineFollows' /\ ConsumerOpen'
  BY <1>1 DEF IInv, InlineFollows, ConsumerOpen
<1> QED
  BY <1>6, <1>7, <1>8, <1>9 DEF IInv
\* A get moves everything one place towards the caller.
LEMMA GetChunkStep ==
  ASSUME IInv, Get, TypeOK', Head(queue) # Sentinel
  PROVE  IInv'
<1> DEFINE n == Len(queue)
<1>1. /\ mode = "threaded" /\ queue # <<>> /\ queue' = Tail(queue)
      /\ consumer = "pulling" /\ consumer' = "yielded" /\ outcome' = outcome
      /\ delivered' = Append(delivered, Head(queue))
      /\ archive' = archive /\ mode' = mode /\ cursor' = cursor
      /\ producer' = producer
  BY DEF Get, inputs
<1>2. /\ n \in Nat \ {0} /\ Windows' = Windows /\ Head(queue) = queue[1]
      /\ DOMAIN queue = 1..n /\ DOMAIN queue' = 1..(n - 1) /\ Len(queue') = n - 1
      /\ \A i \in 1..(n - 1) : queue'[i] = queue[i + 1]
  BY <1>1, QueueShape DEF IInv, TypeOK, Windows
<1>3. \A i \in 0..(n - 1) : Behind(i)' = Behind(i + 1)
  <2>1. OS!Last(delivered)' = queue[1]
    <3>1. /\ delivered \in Seq(1..MaxWindows) /\ queue[1] \in 1..MaxWindows
      BY <1>2, QueueShape DEF IInv, TypeOK
    <3> QED
      BY <1>1, <1>2, <3>1 DEF OS!Last
  <2>2. \A i \in 1..(n - 1) : Behind(i)' = Behind(i + 1)
    BY <1>2 DEF Behind
  <2>3. Behind(0)' = Behind(1)
    BY <2>1 DEF Behind
  <2> QED
    BY <1>2, <2>2, <2>3
<1>4. \A i \in 1..(n - 1) : i + 1 \in 1..n /\ i - 1 \in 0..(n - 1) /\ (i - 1) + 1 = (i + 1) - 1
  BY <1>2
<1>5. ChunksFollow'
  <2> SUFFICES ASSUME NEW i \in 1..(n - 1), queue[i + 1] # Sentinel
               PROVE  /\ queue[i + 1] \in Windows /\ archive[queue[i + 1]] \in Deliverable
                      /\ Clear(Behind(i - 1)', queue[i + 1])
    BY <1>1, <1>2 DEF ChunksFollow, Clear
  <2>1. Behind(i - 1)' = Behind((i + 1) - 1)
    BY <1>3, <1>4
  <2> QED
    BY <1>2, <1>4, <2>1 DEF IInv, ChunksFollow
<1>6. SentinelLast'
  <2> SUFFICES ASSUME NEW i \in 1..(n - 1), queue[i + 1] = Sentinel
               PROVE  i = n - 1 /\ producer = "dead" /\ Stopped(Behind(i - 1)')
    BY <1>1, <1>2 DEF SentinelLast, Stopped, OS!Hidden
  <2>1. Behind(i - 1)' = Behind((i + 1) - 1)
    BY <1>3, <1>4
  <2>2. i + 1 = n /\ producer = "dead" /\ Stopped(Behind((i + 1) - 1))
    BY <1>2, <1>4 DEF IInv, SentinelLast
  <2> QED
    BY <1>2, <2>1, <2>2
<1>7. ProducerFollows'
  <2>1. Behind(Len(queue))' = Behind(n)
    <3>1. Len(queue') \in 0..(n - 1) /\ Len(queue') + 1 = n
      BY <1>2
    <3> QED
      BY <1>3, <3>1 DEF Behind
  <2> QED
    BY <1>1, <1>2, <2>1
       DEF IInv, ProducerFollows, Clear, Stopped, OS!Hidden
<1>8. InlineFollows' /\ ConsumerOpen'
  BY <1>1 DEF IInv, InlineFollows, ConsumerOpen
<1> QED
  BY <1>5, <1>6, <1>7, <1>8 DEF IInv

LEMMA GetSentinelStep ==
  ASSUME IInv, Get, TypeOK', Head(queue) = Sentinel
  PROVE  IInv' /\ Stopped(OS!Last(delivered))
<1>1. /\ mode = "threaded" /\ queue # <<>> /\ queue' = Tail(queue)
      /\ consumer' = "joining" /\ delivered' = delivered /\ cursor' = cursor
      /\ archive' = archive /\ mode' = mode /\ producer' = producer
  BY DEF Get, inputs
<1>2. 1 \in DOMAIN queue /\ queue[1] = Sentinel
  BY <1>1 DEF IInv, TypeOK
<1>3. Len(queue) = 1 /\ producer = "dead" /\ Stopped(Behind(1 - 1))
  BY <1>2 DEF IInv, SentinelLast
<1>4. Stopped(OS!Last(delivered))
  BY <1>3 DEF Behind
<1>5. queue' = <<>>
  BY <1>1, <1>3 DEF IInv, TypeOK
<1>6. ChunksFollow' /\ SentinelLast'
  BY <1>5 DEF ChunksFollow, SentinelLast
<1>7. ProducerFollows' /\ InlineFollows' /\ ConsumerOpen'
  BY <1>1, <1>3 DEF ProducerFollows, InlineFollows, ConsumerOpen
<1> QED
  BY <1>4, <1>6, <1>7 DEF IInv

LEMMA ReadInlineStep ==
  ASSUME IInv, ReadInline, TypeOK'
  PROVE  IInv'
<1> DEFINE l == OS!Last(delivered)
<1>1. /\ consumer = "pulling" /\ mode = "inline" /\ producer = "off" /\ queue = <<>>
      /\ archive' = archive /\ mode' = mode /\ producer' = "off" /\ queue' = <<>>
      /\ outcome = "open"
  BY DEF IInv, ReadInline, InlineFollows, ConsumerOpen, inputs
<1>2. ChunksFollow' /\ SentinelLast' /\ ProducerFollows'
  BY <1>1 DEF ChunksFollow, SentinelLast, ProducerFollows
<1>3. /\ l \in Nat /\ Clear(l, cursor) /\ cursor \in Nat
      /\ Windows \subseteq Nat /\ Windows' = Windows
  <2>1. Windows \subseteq 1..MaxWindows /\ MaxWindows \in Nat /\ cursor \in Nat
    BY Period, StreamAssumption DEF IInv
  <2> QED
    BY <1>1, <2>1, LastIsNat DEF IInv, InlineFollows, Windows
<1>4. /\ ConsumerOpen'
      /\ consumer' \in {"new", "pulling", "yielded"} => Clear(OS!Last(delivered), cursor)'
  <2>1. CASE /\ Reads /\ consumer' = "yielded" /\ outcome' = outcome
             /\ delivered' = Append(delivered, cursor) /\ cursor' = cursor + 1
    <3>1. OS!Last(delivered)' = cursor
      <4>1. delivered \in Seq(1..MaxWindows)
        BY DEF IInv, TypeOK
      <4> QED
        BY <2>1, <4>1 DEF OS!Last
    <3>2. Clear(cursor, cursor + 1)
      BY <1>3 DEF Clear
    <3> QED
      BY <1>1, <1>3, <2>1, <3>1, <3>2 DEF Clear, ConsumerOpen
  <2>2. CASE Skips /\ UNCHANGED <<consumer, delivered, outcome>>
    <3>1. archive[cursor] \notin Readable /\ cursor' = cursor + 1
      BY <2>2 DEF Skips, Skippable, Readable
    <3>2. Clear(l, cursor + 1)
      BY <1>3, <3>1 DEF Clear
    <3> QED
      BY <1>1, <1>3, <2>2, <3>1, <3>2 DEF Clear, ConsumerOpen, OS!Last
  <2>3. CASE consumer' = "closed"
    BY <2>3 DEF ConsumerOpen
  <2> QED
    BY <2>1, <2>2, <2>3 DEF ReadInline
<1>5. InlineFollows'
  BY <1>1, <1>4 DEF InlineFollows
<1> QED
  BY <1>2, <1>4, <1>5 DEF IInv

\* The caller's own steps, and the end of the generator.
LEMMA CallerStep ==
  ASSUME IInv, Join \/ Resume \/ Abandon \/ UNCHANGED vars, TypeOK'
  PROVE  IInv'
<1>1. UNCHANGED PipeVars
  BY DEF PipeVars, Join, Resume, Abandon, vars, inputs
<1>2. ChunksFollow' /\ SentinelLast' /\ ProducerFollows'
  BY <1>1, PipeUnchanged
<1>3. InlineFollows' /\ ConsumerOpen'
  <2>1. consumer' \in {"new", "pulling", "yielded"} =>
          /\ consumer \in {"new", "pulling", "yielded"} /\ outcome' = outcome
          /\ consumer' = "new" => consumer = "new"
    BY DEF Join, Resume, Abandon, vars
  <2>2. OS!Last(delivered)' = OS!Last(delivered)
    BY <1>1 DEF PipeVars, OS!Last
  <2>3. InlineFollows'
    BY <1>1, <2>1, <2>2 DEF IInv, InlineFollows, Clear, Windows, PipeVars
  <2>4. ConsumerOpen'
    BY <1>1, <2>1 DEF IInv, ConsumerOpen, PipeVars
  <2> QED
    BY <2>3, <2>4
<1> QED
  BY <1>2, <1>3 DEF IInv
-----------------------------------------------------------------------------
LEMMA InvInit == Init => IInv
<1> SUFFICES ASSUME Init PROVE IInv
  OBVIOUS
<1>1. TypeOK
  BY TypeInit
<1>2. ChunksFollow /\ SentinelLast /\ ProducerFollows /\ ConsumerOpen
  BY DEF Init, ChunksFollow, SentinelLast, ProducerFollows, ConsumerOpen
<1>3. InlineFollows
  <2>1. Windows \subseteq 1..MaxWindows /\ MaxWindows \in Nat
    BY <1>1, Period, StreamAssumption
  <2> QED
    BY <2>1 DEF Init, InlineFollows, Clear, OS!Last
<1> QED
  BY <1>1, <1>2, <1>3 DEF IInv

LEMMA InvStep == IInv /\ [Next]_vars => IInv'
<1> SUFFICES ASSUME IInv, [Next]_vars PROVE IInv'
  OBVIOUS
<1>1. TypeOK'
  BY TypeStep DEF IInv
<1>2. CASE Read
  BY <1>1, <1>2, ReadStep
<1>3. CASE Put
  BY <1>1, <1>3, PutStep
<1>4. CASE PutSentinel
  BY <1>1, <1>4, PutSentinelStep
<1>5. CASE Get
  BY <1>1, <1>5, GetChunkStep, GetSentinelStep
<1>6. CASE ReadInline
  BY <1>1, <1>6, ReadInlineStep
<1>7. CASE Start
  BY <1>1, <1>7, StartStep
<1>8. CASE Join \/ Resume \/ Abandon \/ UNCHANGED vars
  BY <1>1, <1>8, CallerStep
<1> QED
  BY <1>2, <1>3, <1>4, <1>5, <1>6, <1>7, <1>8 DEF Next, Produce, Consume

\* Queue, thread and caller are the parts of one stream without a gap: what
\* the caller will get next follows what it got last, the queue's chunks follow
\* one another, the producer goes on behind them, and the sentinel is put last.
THEOREM PipeCorrect == Spec => []IInv
<1> QED
  BY InvInit, InvStep, PTL DEF Spec

\* The variables keep their types, and the queue its bound, in every run.
THEOREM StreamTypeCorrect == Spec => []TypeOK
<1>1. IInv => TypeOK
  BY DEF IInv
<1> QED
  BY <1>1, PipeCorrect, PTL

\* A step of the stream is a step of its promise, or none the reader sees.
LEMMA PromiseStep ==
  IInv /\ [Next]_vars => [OS!Next]_<<archive, delivered, outcome>>
<1> SUFFICES ASSUME IInv, [Next]_vars
             PROVE  OS!Next \/ UNCHANGED <<archive, delivered, outcome>>
  OBVIOUS
<1> USE DEF OS!Next
<1>0. TypeOK'
  BY TypeStep DEF IInv
<1>1. CASE Get /\ Head(queue) = Sentinel
  <2>1. Stopped(OS!Last(delivered))
    BY <1>0, <1>1, GetSentinelStep
  <2>2. outcome = "open" /\ outcome' = "exhausted" /\ UNCHANGED <<archive, delivered>>
    BY <1>1 DEF IInv, ConsumerOpen, Get, inputs
  <2> QED
    BY <2>1, <2>2 DEF OS!Exhaust, Stopped, Windows
<1>2. CASE Get /\ Head(queue) # Sentinel
  <2>1. /\ outcome = "open" /\ UNCHANGED <<archive, outcome>>
        /\ delivered' = Append(delivered, queue[1])
    BY <1>2 DEF IInv, ConsumerOpen, Get, inputs
  <2>2. 1 \in DOMAIN queue /\ queue[1] # Sentinel
    BY <1>2 DEF IInv, TypeOK, Get
  <2>3. /\ queue[1] \in Windows /\ archive[queue[1]] \in Deliverable
        /\ Clear(OS!Last(delivered), queue[1])
    BY <2>2 DEF IInv, ChunksFollow, Behind
  <2> QED
    BY <2>1, <2>3 DEF OS!Deliver, Clear, Windows
<1>3. CASE ReadInline
  <2>1. outcome = "open" /\ archive' = archive /\ Clear(OS!Last(delivered), cursor)
    BY <1>3 DEF IInv, ConsumerOpen, InlineFollows, ReadInline, inputs
  <2>2. CASE Reads /\ delivered' = Append(delivered, cursor) /\ outcome' = outcome
    BY <2>1, <2>2 DEF OS!Deliver, Clear, Windows, Reads, AtEnd
  <2>3. CASE UNCHANGED <<delivered, outcome>>
    BY <2>1, <2>3
  <2>4. CASE AtEnd /\ outcome' = "exhausted" /\ delivered' = delivered
    <3>1. \A w \in Windows : w < cursor
      BY <2>4, Period DEF IInv, TypeOK, AtEnd
    <3> QED
      BY <2>1, <2>4, <3>1 DEF OS!Exhaust, Clear, Windows
  <2>5. CASE Raises /\ outcome' = "failed" /\ delivered' = delivered
    BY <2>1, <2>5 DEF OS!Fail, Clear, Windows, Raises, AtEnd
  <2> QED
    BY <1>3, <2>2, <2>3, <2>4, <2>5 DEF ReadInline
<1>4. CASE Start
  <2>1. outcome = "open" /\ UNCHANGED <<archive, delivered>>
    BY <1>4 DEF IInv, ConsumerOpen, Start, inputs
  <2> QED
    BY <1>4, <2>1 DEF Start, OS!Exhaust, Windows
<1>5. CASE Abandon
  BY <1>5 DEF IInv, ConsumerOpen, Abandon, OS!Abandon, inputs
<1>6. CASE Produce \/ Join \/ Resume \/ UNCHANGED vars
  BY <1>6 DEF Produce, Read, Put, PutSentinel, Join, Resume, vars, inputs
<1> QED
  BY <1>1, <1>2, <1>3, <1>4, <1>5, <1>6 DEF Next, Consume

\* The read-ahead implements the plain ordered stream: in every period, with
\* every queue, the windows arrive in order and once, and one that can be read
\* is passed over only behind a failure.
THEOREM StreamKept == Spec => RefinesOrderedStream
<1>1. Init => OS!Init
  BY DEF Init, OS!Init
<1> QED
  BY <1>1, PipeCorrect, PromiseStep, PTL DEF Spec, RefinesOrderedStream, OS!Spec

-----------------------------------------------------------------------------
\* Induction over the naturals.  A set of naturals that is not empty has a
\* least element; from that follow that a table that is filled entry by entry
\* exists, and that what holds of 0 and goes from one number to the next holds
\* of all of them.

\* The pairs of the well-founded order on the naturals.
LEMMA SmallerPairs == \A m, n \in Nat : m < n => <<m, n>> \in OpToRel(<, Nat)
BY DEF OpToRel

\* What is minimal in an order is least.
LEMMA LeastInRelation ==
  ASSUME NEW R, NEW S, S \subseteq Nat, \A m, n \in Nat : m < n => <<m, n>> \in R,
         \E n \in S : \A m \in S : ~(<<m, n>> \in R)
  PROVE  \E n \in S : \A m \in S : n <= m
<1>1. PICK n \in S : \A m \in S : ~(<<m, n>> \in R)
  OBVIOUS
<1>2. ASSUME NEW m \in S PROVE n <= m
  <2>1. m \in Nat /\ n \in Nat /\ ~(m < n)
    BY <1>1
  <2>2. QED
    BY <2>1
<1>3. QED
  BY <1>2

\* Every set of naturals that is not empty has a least element.
LEMMA LeastOf ==
  ASSUME NEW S, S \subseteq Nat, S # {}
  PROVE  \E n \in S : \A m \in S : n <= m
<1>1. \E n \in S : \A m \in S : ~(<<m, n>> \in OpToRel(<, Nat))
  BY NatLessThanWellFounded, WFMin
<1>2. QED
  BY <1>1, SmallerPairs, LeastInRelation, Zenon

\* f is the table that starts with v and gets its n-th entry from the one
\* before by step[n].
Table(f, N, V, v, step) ==
  f \in [0..N -> V] /\ f[0] = v /\ \A n \in 1..N : f[n] = step[n][f[n - 1]]

\* A table that is filled entry by entry exists.
LEMMA TableExists ==
  ASSUME NEW N \in Nat, NEW V, NEW v \in V, NEW step \in [1..N -> [V -> V]]
  PROVE  \E f : Table(f, N, V, v, step)
<1> DEFINE Filled(m, f) == f[0] = v /\ \A n \in 1..m : f[n] = step[n][f[n - 1]]
           Bad == {m \in 0..N : ~ \E f \in [0..m -> V] : Filled(m, f)}
<1>1. 0 \notin Bad
  <2>1. [n \in 0..0 |-> v] \in [0..0 -> V] /\ Filled(0, [n \in 0..0 |-> v])
    OBVIOUS
  <2>2. QED
    BY <2>1
<1>2. ASSUME NEW m \in 1..N, m - 1 \notin Bad PROVE m \notin Bad
  <2>1. PICK f \in [0..(m - 1) -> V] : Filled(m - 1, f)
    BY <1>2
  <2> DEFINE g == [n \in 0..m |-> IF n = m THEN step[m][f[m - 1]] ELSE f[n]]
  <2>2. g \in [0..m -> V]
    BY <2>1
  <2>3. \A n \in 0..m : g[n] = IF n = m THEN step[m][f[m - 1]] ELSE f[n]
    OBVIOUS
  <2> HIDE DEF g
  <2>4. g[0] = v
    BY <2>1, <2>3
  <2>5. ASSUME NEW n \in 1..m PROVE g[n] = step[n][g[n - 1]]
    <3>1. n - 1 \in 0..m /\ n - 1 # m /\ g[n - 1] = f[n - 1]
      BY <2>3
    <3>2. CASE n = m
      BY <2>3, <3>1, <3>2
    <3>3. CASE n # m
      BY <2>1, <2>3, <3>1, <3>3
    <3>4. QED
      BY <3>2, <3>3
  <2>6. QED
    BY <2>2, <2>4, <2>5
<1>3. Bad = {}
  <2> HIDE DEF Filled
  <2> SUFFICES ASSUME Bad # {} PROVE FALSE
    OBVIOUS
  <2>1. Bad \subseteq Nat
    OBVIOUS
  <2>2. PICK m \in Bad : \A k \in Bad : m <= k
    BY <2>1, LeastOf
  <2>3. m \in 0..N /\ m # 0
    BY <1>1, <2>2
  <2> HIDE DEF Bad
  <2>5. m \in 1..N /\ m - 1 \notin Bad
    BY <2>1, <2>2, <2>3
  <2>4. QED
    BY <1>2, <2>2, <2>5
<1>4. \E f \in [0..N -> V] : Filled(N, f)
  BY <1>3
<1>5. QED
  BY <1>4 DEF Table

-----------------------------------------------------------------------------
\* Induction up to N, for a property given as the set of the numbers that
\* have it.
LEMMA UpTo ==
  ASSUME NEW N \in Nat, NEW P, 0 \in P, \A n \in 1..N : n - 1 \in P => n \in P
  PROVE  \A n \in 0..N : n \in P
<1> DEFINE Bad == {n \in 0..N : n \notin P}
<1> SUFFICES ASSUME Bad # {} PROVE FALSE
  OBVIOUS
<1>1. Bad \subseteq Nat
  OBVIOUS
<1>2. PICK m \in Bad : \A k \in Bad : m <= k
  BY <1>1, LeastOf
<1>3. m \in 1..N /\ m \notin P
  <2>1. m \in 0..N /\ m \notin P /\ m # 0
    OBVIOUS
  <2> HIDE DEF Bad
  <2>2. QED
    BY <2>1
<1>4. m - 1 \in Bad
  BY <1>3
<1>5. QED
  <2> HIDE DEF Bad
  <2>1. m <= m - 1 /\ m \in Nat
    BY <1>1, <1>2, <1>4
  <2>2. QED
    BY <2>1

KeptTable(s, wanted, f) ==
  f = [n \in 0..Len(s) |->
         IF n = 0 THEN <<>>
         ELSE IF s[n] \in wanted THEN Append(f[n - 1], s[n]) ELSE f[n - 1]]

\* f[n] is what is selected of the first n elements of s.
Keeps(s, wanted, f) ==
  /\ f[0] = <<>>
  /\ \A n \in 1..Len(s) : f[n] = IF s[n] \in wanted THEN Append(f[n - 1], s[n])
                                                     ELSE f[n - 1]

\* Selected is the last entry of its table.
LEMMA SelectedTable ==
  ASSUME NEW R, NEW s \in Seq(R), NEW wanted
  PROVE  \E f \in [0..Len(s) -> Seq(R)] :
           Keeps(s, wanted, f) /\ Selected(s, wanted) = f[Len(s)]
<1>0. Len(s) \in Nat /\ \A n \in 1..Len(s) : s[n] \in R
  OBVIOUS
<1> DEFINE step == [n \in 1..Len(s) |-> [v \in Seq(R) |->
                      IF s[n] \in wanted THEN Append(v, s[n]) ELSE v]]
<1>1. step \in [1..Len(s) -> [Seq(R) -> Seq(R)]]
  BY <1>0
<1>2. \A n \in 1..Len(s), v \in Seq(R) :
        step[n][v] = IF s[n] \in wanted THEN Append(v, s[n]) ELSE v
  OBVIOUS
<1> HIDE DEF step
<1>3. PICK f : f \in [0..Len(s) -> Seq(R)] /\ f[0] = <<>>
                 /\ \A n \in 1..Len(s) : f[n] = step[n][f[n - 1]]
  <2>1. <<>> \in Seq(R)
    OBVIOUS
  <2>2. \E f : Table(f, Len(s), Seq(R), <<>>, step)
    BY <1>0, <1>1, <2>1, TableExists
  <2>3. QED
    BY <2>2 DEF Table
<1>4. Keeps(s, wanted, f)
  <2>1. \A n \in 1..Len(s) : n - 1 \in 0..Len(s) /\ f[n - 1] \in Seq(R)
    <3>1. \A n \in 1..Len(s) : n - 1 \in 0..Len(s)
      BY <1>0
    <3>2. \A n \in 0..Len(s) : f[n] \in Seq(R)
      BY <1>3
    <3>3. QED
      BY <3>1, <3>2
  <2>2. QED
    BY <1>2, <1>3, <2>1 DEF Keeps
<1>5. KeptTable(s, wanted, f)
  <2>1. \A n \in 0..Len(s) : f[n] = IF n = 0 THEN <<>>
          ELSE IF s[n] \in wanted THEN Append(f[n - 1], s[n]) ELSE f[n - 1]
    <3>1. f[0] = <<>> /\ \A n \in 1..Len(s) : f[n] = IF s[n] \in wanted
                            THEN Append(f[n - 1], s[n]) ELSE f[n - 1]
      BY <1>4 DEF Keeps
    <3>2. \A n \in 0..Len(s) : n = 0 \/ n \in 1..Len(s)
      BY <1>0
    <3>3. QED
      BY <3>1, <3>2
  <2>2. f = [n \in 0..Len(s) |-> f[n]]
    BY <1>3
  <2>3. QED
    BY <2>1, <2>2 DEF KeptTable
<1> DEFINE g == CHOOSE h : KeptTable(s, wanted, h)
<1>6. KeptTable(s, wanted, g)
  BY <1>5
<1>7. Selected(s, wanted) = g[Len(s)]
  BY DEF Selected, KeptTable
<1> HIDE DEF g
<1>8. \A n \in 0..Len(s) : g[n] = IF n = 0 THEN <<>>
         ELSE IF s[n] \in wanted THEN Append(g[n - 1], s[n]) ELSE g[n - 1]
  BY <1>6 DEF KeptTable
<1> DEFINE P == {n \in 0..Len(s) : g[n] = f[n]}
<1>9. 0 \in P /\ \A n \in 1..Len(s) : n - 1 \in P => n \in P
  BY <1>0, <1>3, <1>4, <1>8 DEF Keeps
<1>10. \A n \in 0..Len(s) : n \in P
  <2> HIDE DEF P
  <2>1. QED
    BY <1>0, <1>9, UpTo
<1>11. g[Len(s)] = f[Len(s)]
  BY <1>0, <1>10
<1>12. QED
  BY <1>3, <1>4, <1>7, <1>11

\* Only one value satisfies the equations of the table.
LEMMA KeepsDetermines ==
  ASSUME NEW R, NEW s \in Seq(R), NEW A, NEW B, NEW f, NEW g,
         Keeps(s, A, f), Keeps(s, B, g), \A n \in 1..Len(s) : s[n] \in A <=> s[n] \in B
  PROVE  \A n \in 0..Len(s) : f[n] = g[n]
<1>0. Len(s) \in Nat
  OBVIOUS
<1> DEFINE P == {n \in 0..Len(s) : f[n] = g[n]}
<1>1. 0 \in P /\ \A n \in 1..Len(s) : n - 1 \in P => n \in P
  BY DEF Keeps
<1>2. \A n \in 0..Len(s) : n \in P
  <2> HIDE DEF P
  <2>1. QED
    BY <1>1, <1>0, UpTo
<1>3. QED
  BY <1>2

\* Selections by sets that agree on the sequence are equal.
LEMMA SelectedSame ==
  ASSUME NEW R, NEW s \in Seq(R), NEW A, NEW B,
         \A n \in 1..Len(s) : s[n] \in A <=> s[n] \in B
  PROVE  Selected(s, A) = Selected(s, B)
<1>1. PICK f \in [0..Len(s) -> Seq(R)] : Keeps(s, A, f) /\ Selected(s, A) = f[Len(s)]
  BY SelectedTable
<1>2. PICK g \in [0..Len(s) -> Seq(R)] : Keeps(s, B, g) /\ Selected(s, B) = g[Len(s)]
  BY SelectedTable
<1>3. f[Len(s)] = g[Len(s)]
  BY <1>1, <1>2, KeepsDetermines
<1>4. QED
  BY <1>1, <1>2, <1>3

\* Appending adds one element.
LEMMA AppendToSet ==
  ASSUME NEW R, NEW s \in Seq(R), NEW x \in R
  PROVE  ToSet(Append(s, x)) = ToSet(s) \cup {x}
<1> DEFINE t == Append(s, x)
<1>1. DOMAIN s = 1..Len(s) /\ DOMAIN t = 1..(Len(s) + 1) /\ Len(s) \in Nat
  OBVIOUS
<1>2. t[Len(s) + 1] = x /\ \A n \in 1..Len(s) : t[n] = s[n]
  OBVIOUS
<1> HIDE DEF t
<1>3. ToSet(t) = ToSet(s) \cup {x}
  BY <1>1, <1>2 DEF ToSet
<1>4. QED
  BY <1>3 DEF t

\* The elements of a selection are the wanted ones of the sequence.
LEMMA SelectedElements ==
  ASSUME NEW R, NEW s \in Seq(R), NEW wanted
  PROVE  /\ Selected(s, wanted) \in Seq(R)
         /\ ToSet(Selected(s, wanted)) = {x \in ToSet(s) : x \in wanted}
<1>0. Len(s) \in Nat /\ DOMAIN s = 1..Len(s) /\ \A n \in 1..Len(s) : s[n] \in R
  OBVIOUS
<1>1. PICK f \in [0..Len(s) -> Seq(R)] :
        Keeps(s, wanted, f) /\ Selected(s, wanted) = f[Len(s)]
  BY SelectedTable
<1> DEFINE Wanted(n) == {s[m] : m \in {k \in 1..n : s[k] \in wanted}}
           P == {n \in 0..Len(s) : ToSet(f[n]) = Wanted(n)}
<1>2. 0 \in P
  BY <1>0, <1>1 DEF Keeps, ToSet
<1>3. ASSUME NEW n \in 1..Len(s), n - 1 \in P PROVE n \in P
  <2>1. f[n - 1] \in Seq(R) /\ s[n] \in R
    BY <1>0
  <2>2. \A x : x \in Wanted(n) <=> x \in Wanted(n - 1) \/ (x = s[n] /\ s[n] \in wanted)
    BY <1>0
  <2>3. CASE s[n] \in wanted
    <3>1. f[n] = Append(f[n - 1], s[n])
      BY <1>1, <2>3 DEF Keeps
    <3>2. ToSet(Append(f[n - 1], s[n])) = ToSet(f[n - 1]) \cup {s[n]}
      BY <2>1, AppendToSet
    <3>3. ToSet(f[n - 1]) = Wanted(n - 1)
      BY <1>3
    <3> HIDE DEF Wanted
    <3>4. ToSet(f[n]) = Wanted(n)
      BY <2>2, <2>3, <3>1, <3>2, <3>3
    <3>5. QED
      BY <1>0, <3>4
  <2>4. CASE s[n] \notin wanted
    BY <1>1, <1>3, <2>2, <2>4 DEF Keeps
  <2>5. QED
    BY <2>3, <2>4
<1>4. \A n \in 0..Len(s) : n \in P
  <2> HIDE DEF P
  <2>1. QED
    BY <1>0, <1>2, <1>3, UpTo
<1>5. ToSet(f[Len(s)]) = Wanted(Len(s))
  <2>1. Len(s) \in P
    <3> HIDE DEF P
    <3>1. QED
      BY <1>0, <1>4
  <2> HIDE DEF Wanted
  <2>2. QED
    BY <2>1
<1>6. Wanted(Len(s)) = {x \in ToSet(s) : x \in wanted}
  <2>1. ToSet(s) = {s[m] : m \in 1..Len(s)}
    BY <1>0 DEF ToSet
  <2>2. \A x : x \in Wanted(Len(s)) <=> \E m \in 1..Len(s) : s[m] \in wanted /\ x = s[m]
    OBVIOUS
  <2> HIDE DEF Wanted
  <2>3. QED
    BY <2>1, <2>2
<1>7. QED
  BY <1>0, <1>1, <1>5, <1>6

\* Selecting element by element.
LEMMA SelectedAppend ==
  ASSUME NEW R, NEW s \in Seq(R), NEW x \in R, NEW wanted
  PROVE  Selected(Append(s, x), wanted) =
           IF x \in wanted THEN Append(Selected(s, wanted), x) ELSE Selected(s, wanted)
<1> DEFINE t == Append(s, x)
<1>1. t \in Seq(R) /\ Len(t) = Len(s) + 1 /\ Len(s) \in Nat /\ t[Len(s) + 1] = x
      /\ \A n \in 1..Len(s) : t[n] = s[n]
  OBVIOUS
<1> HIDE DEF t
<1>2. PICK f \in [0..Len(s) -> Seq(R)] :
        Keeps(s, wanted, f) /\ Selected(s, wanted) = f[Len(s)]
  BY SelectedTable
<1>3. PICK g \in [0..Len(t) -> Seq(R)] :
        Keeps(t, wanted, g) /\ Selected(t, wanted) = g[Len(t)]
  BY <1>1, SelectedTable
<1>4. Keeps(s, wanted, g)
  BY <1>1, <1>3 DEF Keeps
<1>5. g[Len(s)] = f[Len(s)]
  BY <1>1, <1>2, <1>4, KeepsDetermines
<1>6. g[Len(t)] = IF x \in wanted THEN Append(g[Len(s)], x) ELSE g[Len(s)]
  BY <1>1, <1>3 DEF Keeps
<1>7. QED
  BY <1>2, <1>3, <1>5, <1>6 DEF t

\* Nothing is selected from nothing.
LEMMA SelectedOfNothing ==
  ASSUME NEW wanted
  PROVE  Selected(<<>>, wanted) = <<>>
<1>1. <<>> \in Seq({}) /\ Len(<<>>) = 0
  OBVIOUS
<1>2. PICK f \in [0..Len(<<>>) -> Seq({})] :
        Keeps(<<>>, wanted, f) /\ Selected(<<>>, wanted) = f[Len(<<>>)]
  BY <1>1, SelectedTable
<1>3. QED
  BY <1>1, <1>2 DEF Keeps

\* Selecting twice is selecting what both want.
LEMMA SelectedTwice ==
  ASSUME NEW R, NEW s \in Seq(R), NEW A, NEW B
  PROVE  Selected(Selected(s, A), B) = Selected(s, A \cap B)
<1>0. Len(s) \in Nat /\ \A n \in 1..Len(s) : s[n] \in R
  OBVIOUS
<1>1. PICK f \in [0..Len(s) -> Seq(R)] : Keeps(s, A, f) /\ Selected(s, A) = f[Len(s)]
  BY SelectedTable
<1>2. PICK g \in [0..Len(s) -> Seq(R)] :
        Keeps(s, A \cap B, g) /\ Selected(s, A \cap B) = g[Len(s)]
  BY SelectedTable
<1> DEFINE P == {n \in 0..Len(s) : Selected(f[n], B) = g[n]}
<1>3. 0 \in P
  BY <1>0, <1>1, <1>2, SelectedOfNothing DEF Keeps
<1>4. ASSUME NEW n \in 1..Len(s), n - 1 \in P PROVE n \in P
  <2>1. f[n - 1] \in Seq(R) /\ s[n] \in R /\ Selected(f[n - 1], B) = g[n - 1]
    BY <1>0, <1>4
  <2>2. Selected(Append(f[n - 1], s[n]), B) =
          IF s[n] \in B THEN Append(Selected(f[n - 1], B), s[n])
          ELSE Selected(f[n - 1], B)
    <3>1. \A t \in Seq(R), x \in R : Selected(Append(t, x), B) =
            IF x \in B THEN Append(Selected(t, B), x) ELSE Selected(t, B)
      BY SelectedAppend
    <3>2. QED
      BY <2>1, <3>1
  <2>3. f[n] = IF s[n] \in A THEN Append(f[n - 1], s[n]) ELSE f[n - 1]
    BY <1>1 DEF Keeps
  <2>4. g[n] = IF s[n] \in A \cap B THEN Append(g[n - 1], s[n]) ELSE g[n - 1]
    BY <1>2 DEF Keeps
  <2>5. QED
    BY <2>1, <2>2, <2>3, <2>4
<1>5. \A n \in 0..Len(s) : n \in P
  <2> HIDE DEF P
  <2>1. QED
    BY <1>0, <1>3, <1>4, UpTo
<1>6. QED
  BY <1>0, <1>1, <1>2, <1>5

-----------------------------------------------------------------------------
\* The trie: the walk finds the most specific stored prefix.

\* The first i bits of q.
First(q, i) == SubSeq(q, 1, i)

\* Lengths of the stored prefixes that cover q, up to i bits.
Over(stored, q, i) == {j \in 0..i : j < Len(q) /\ First(q, j) \in stored}

\* b is the longest of them.
BestUpTo(stored, q, i, b) ==
  \/ Over(stored, q, i) = {} /\ b = NoParent
  \/ \E j \in Over(stored, q, i) :
       b = First(q, j) /\ \A m \in Over(stored, q, i) : m <= j

Here(stored, q, i, best) ==
  IF i < Len(q) /\ First(q, i) \in stored THEN First(q, i) ELSE best

WalkTable(stored, q, f) ==
  f = [i \in 0..Len(q) |->
         IF i = 0 THEN Here(stored, q, 0, NoParent)
         ELSE IF First(q, i) \in Nodes(stored)
              THEN Here(stored, q, i, f[i - 1]) ELSE f[i - 1]]

\* A prefix is its own last node.
LEMMA StoredIsNode ==
  ASSUME NEW stored, stored \subseteq IPPrefixes, NEW p \in stored
  PROVE  p \in Nodes(stored)
<1>1. p \in Seq({0, 1}) /\ Len(p) \in Nat
  BY DEF IPPrefixes
<1>2. SubSeq(p, 1, Len(p)) = p /\ Len(p) \in 0..Len(p)
  BY <1>1
<1>3. p \in {SubSeq(p, 1, i) : i \in 0..Len(p)}
  BY <1>2
<1>4. \E bits \in {{SubSeq(o, 1, i) : i \in 0..Len(o)} : o \in stored} : p \in bits
  BY <1>3
<1>5. QED
  BY <1>4 DEF Nodes

\* The walk fills a table, bit by bit, and ends with its last entry.
LEMMA WalkExists ==
  ASSUME NEW stored, stored \subseteq IPPrefixes, NEW q \in IPPrefixes
  PROVE  \E f : /\ WalkTable(stored, q, f)
                /\ FindParent(stored, q) = f[Len(q)]
<1>0. Len(q) \in Nat /\ q \in Seq({0, 1})
  BY DEF IPPrefixes
<1> DEFINE V == IPPrefixes \cup {NoParent}
           step == [i \in 1..Len(q) |-> [b \in V |-> Here(stored, q, i, b)]]
           start == Here(stored, q, 0, NoParent)
<1>1. \A i \in 0..Len(q) : First(q, i) \in V
  BY <1>0 DEF First, IPPrefixes
<1>2. start \in V /\ \A i \in 1..Len(q), b \in V : Here(stored, q, i, b) \in V
  BY <1>0, <1>1 DEF Here
<1>3. step \in [1..Len(q) -> [V -> V]]
  BY <1>2
<1>4. \A i \in 1..Len(q), b \in V : step[i][b] = Here(stored, q, i, b)
  OBVIOUS
<1> HIDE DEF step, V, start
<1>5. PICK f : /\ f \in [0..Len(q) -> V] /\ f[0] = start
               /\ \A i \in 1..Len(q) : f[i] = step[i][f[i - 1]]
  <2>1. \E f : Table(f, Len(q), V, start, step)
    BY <1>0, <1>2, <1>3, TableExists
  <2>2. QED
    BY <2>1 DEF Table
<1>6. \A i \in 1..Len(q) : f[i] = Here(stored, q, i, f[i - 1])
  <2>1. \A i \in 1..Len(q) : i - 1 \in 0..Len(q)
    BY <1>0
  <2>2. \A i \in 0..Len(q) : f[i] \in V
    BY <1>5
  <2>3. QED
    BY <1>4, <1>5, <2>1, <2>2
<1>7. \A i \in 1..Len(q) : First(q, i) \notin Nodes(stored) => f[i] = f[i - 1]
  BY <1>6, StoredIsNode DEF Here
<1>8. WalkTable(stored, q, f)
  <2>1. \A i \in 0..Len(q) : f[i] = IF i = 0 THEN start
          ELSE IF First(q, i) \in Nodes(stored)
               THEN Here(stored, q, i, f[i - 1]) ELSE f[i - 1]
    <3>1. \A i \in 0..Len(q) : i = 0 \/ i \in 1..Len(q)
      BY <1>0
    <3>2. QED
      BY <1>5, <1>6, <1>7, <3>1
  <2>2. f = [i \in 0..Len(q) |-> f[i]]
    BY <1>5
  <2>3. QED
    BY <2>1, <2>2 DEF WalkTable, start
<1> DEFINE g == CHOOSE h : WalkTable(stored, q, h)
<1>9. WalkTable(stored, q, g)
  BY <1>8
<1>10. FindParent(stored, q) = g[Len(q)]
  BY DEF FindParent, WalkTable, Here, First
<1>11. QED
  BY <1>9, <1>10

\* After i bits the walk has the longest stored prefix of up to i bits.
LEMMA WalkIsBest ==
  ASSUME NEW stored, stored \subseteq IPPrefixes, NEW q \in IPPrefixes,
         NEW f, WalkTable(stored, q, f)
  PROVE  \A i \in 0..Len(q) : BestUpTo(stored, q, i, f[i])
<1>0. Len(q) \in Nat
  BY DEF IPPrefixes
<1>1. \A i \in 0..Len(q) : f[i] =
         IF i = 0 THEN Here(stored, q, 0, NoParent)
         ELSE IF First(q, i) \in Nodes(stored)
              THEN Here(stored, q, i, f[i - 1]) ELSE f[i - 1]
  BY DEF WalkTable
<1>2. \A i \in 1..Len(q) : f[i] = Here(stored, q, i, f[i - 1])
  <2> SUFFICES ASSUME NEW i \in 1..Len(q) PROVE f[i] = Here(stored, q, i, f[i - 1])
    OBVIOUS
  <2>1. i \in 0..Len(q) /\ i # 0
    BY <1>0
  <2>2. CASE First(q, i) \in Nodes(stored)
    BY <1>1, <2>1, <2>2
  <2>3. CASE First(q, i) \notin Nodes(stored)
    BY <1>1, <2>1, <2>3, StoredIsNode DEF Here
  <2>4. QED
    BY <2>2, <2>3
<1> DEFINE P == {i \in 0..Len(q) : BestUpTo(stored, q, i, f[i])}
<1>3. 0 \in P
  <2>1. 0 \in 0..Len(q) /\ f[0] = Here(stored, q, 0, NoParent)
    BY <1>0, <1>1
  <2>2. Over(stored, q, 0) = IF 0 < Len(q) /\ First(q, 0) \in stored THEN {0} ELSE {}
    BY <1>0 DEF Over
  <2>3. BestUpTo(stored, q, 0, f[0])
    BY <2>1, <2>2 DEF BestUpTo, Here
  <2>4. QED
    BY <2>1, <2>3
<1>4. ASSUME NEW i \in 1..Len(q), i - 1 \in P PROVE i \in P
  <2>1. i \in 0..Len(q) /\ i - 1 \in 0..Len(q) /\ BestUpTo(stored, q, i - 1, f[i - 1])
    BY <1>0, <1>4
  <2>2. CASE i < Len(q) /\ First(q, i) \in stored
    <3>1. f[i] = First(q, i)
      BY <1>2, <2>2 DEF Here
    <3>2. i \in Over(stored, q, i) /\ \A m \in Over(stored, q, i) : m <= i
      BY <1>0, <2>1, <2>2 DEF Over
    <3>3. QED
      BY <2>1, <3>1, <3>2 DEF BestUpTo
  <2>3. CASE ~(i < Len(q) /\ First(q, i) \in stored)
    <3>1. f[i] = f[i - 1]
      BY <1>2, <2>3 DEF Here
    <3>2. Over(stored, q, i) = Over(stored, q, i - 1)
      BY <1>0, <2>1, <2>3 DEF Over
    <3>3. QED
      BY <2>1, <3>1, <3>2 DEF BestUpTo
  <2>4. QED
    BY <2>2, <2>3
<1>5. \A i \in 0..Len(q) : i \in P
  <2> HIDE DEF P
  <2>1. QED
    BY <1>0, <1>3, <1>4, UpTo
<1>6. QED
  BY <1>5

\* What covers q is some first bits of it.
LEMMA CoversIsFirst ==
  ASSUME NEW p \in IPPrefixes, NEW q \in IPPrefixes
  PROVE  Covers(p, q) <=> Len(p) < Len(q) /\ p = First(q, Len(p))
<1>1. p \in Seq({0, 1}) /\ q \in Seq({0, 1}) /\ Len(p) \in Nat /\ Len(q) \in Nat
  BY DEF IPPrefixes
<1>2. SubSeq(p, 1, Len(p)) = p
  BY <1>1
<1>3. QED
  BY <1>1, <1>2 DEF Covers, IsPrefix, First

\* The first bits of a prefix are a prefix.
LEMMA FirstLength ==
  ASSUME NEW q \in IPPrefixes, NEW j \in 0..Len(q)
  PROVE  First(q, j) \in IPPrefixes /\ Len(First(q, j)) = j
BY DEF First, IPPrefixes

\* The walk of the trie finds the most specific of the stored prefixes that
\* cover q, whatever is stored (ParentPrefixTrie.find_parent).
THEOREM ParentFound ==
  ASSUME NEW stored, stored \subseteq IPPrefixes, NEW q \in IPPrefixes
  PROVE  FindParent(stored, q) = MostSpecific(stored, q)
<1>0. Len(q) \in Nat
  BY DEF IPPrefixes
<1>1. PICK f : WalkTable(stored, q, f) /\ FindParent(stored, q) = f[Len(q)]
  BY WalkExists
<1> DEFINE b == FindParent(stored, q)
           over == {p \in stored : Covers(p, q)}
<1>2. BestUpTo(stored, q, Len(q), b)
  BY <1>0, <1>1, WalkIsBest
<1> HIDE DEF b
<1>3. ASSUME NEW p \in over PROVE Len(p) \in Over(stored, q, Len(q)) /\ p = First(q, Len(p))
  <2>1. p \in IPPrefixes /\ Len(p) \in Nat
    BY DEF IPPrefixes
  <2>2. Len(p) < Len(q) /\ p = First(q, Len(p))
    BY <2>1, CoversIsFirst
  <2>3. QED
    BY <1>0, <2>1, <2>2 DEF Over
<1>4. ASSUME NEW j \in Over(stored, q, Len(q)) PROVE First(q, j) \in over /\ Len(First(q, j)) = j
  <2>1. j \in 0..Len(q) /\ j < Len(q) /\ First(q, j) \in stored
    BY DEF Over
  <2>2. First(q, j) \in IPPrefixes /\ Len(First(q, j)) = j
    BY <2>1, FirstLength
  <2>3. QED
    BY <2>1, <2>2, CoversIsFirst
<1>5. CASE Over(stored, q, Len(q)) = {}
  <2>1. b = NoParent
    BY <1>2, <1>5 DEF BestUpTo
  <2>2. over = {}
    BY <1>3, <1>5
  <2>3. QED
    BY <2>1, <2>2 DEF MostSpecific, b
<1>6. CASE Over(stored, q, Len(q)) # {}
  <2>1. PICK j \in Over(stored, q, Len(q)) :
          b = First(q, j) /\ \A m \in Over(stored, q, Len(q)) : m <= j
    BY <1>2, <1>6 DEF BestUpTo
  <2>2. b \in over /\ Len(b) = j /\ \A o \in over : Len(o) <= Len(b)
    BY <1>3, <1>4, <2>1
  <2>3. over # {}
    BY <2>2
  <2> DEFINE Longest(p) == \A o \in over : Len(o) <= Len(p)
  <2>4. ASSUME NEW p \in over, Longest(p) PROVE p = b
    <3>1. Len(b) <= Len(p) /\ Len(p) <= Len(b) /\ Len(p) \in Nat /\ Len(b) \in Nat
      BY <1>3, <2>2, <2>4 DEF Over
    <3>2. Len(p) = Len(b)
      BY <3>1
    <3>3. QED
      BY <1>3, <2>2, <3>2
  <2>5. (CHOOSE p \in over : Longest(p)) = b
    <3> HIDE DEF over
    <3>1. b \in over /\ Longest(b)
      BY <2>2
    <3> HIDE DEF Longest
    <3>2. QED
      BY <2>4, <3>1
  <2>6. QED
    BY <2>3, <2>5 DEF MostSpecific, b
<1>7. QED
  BY <1>5, <1>6

-----------------------------------------------------------------------------
\* The scan: its inductive invariant, and every step that keeps it.

Positions == 1..NumChunks
Alerts    == [Kinds -> Seq(Announcements)]

ScanTypes ==
  /\ way \in Ways /\ snapshot \in Snapshots /\ window \in [Positions -> Chunks]
  /\ requested \subseteq Detectors /\ pc \in {"run", "done", "raised"}
  /\ pos \in 0..NumChunks /\ merged \in 0..NumChunks
  /\ pending \in Seq(Positions) /\ running \in SUBSET Positions
  /\ addr \in [Positions -> Addresses \cup {None}]
  /\ found \in [Positions -> Alerts \cup {Unscored}]
  /\ sample \in [Kinds -> Seq(Announcements)] /\ counted \in [Kinds -> Nat]
  /\ leaks \in [kept : Nat, total : Nat]
  /\ fed \in [Detectors -> Seq(Positions)]

\* The chunks in flight are those between the merged ones and the ones still
\* to be read, in order; there are no more of them than the code allows.
InLine ==
  /\ FirstChunk - 1 <= merged /\ merged <= pos
  /\ way = "batch" => Len(pending) = pos - merged
  /\ way # "batch" => pending = <<>>
  /\ \A n \in 1..Len(pending) : pending[n] = merged + n
  /\ Len(pending) <= InFlight

\* The threads work on chunks in flight that have no alerts yet, and exactly
\* those that have none keep a map alive, each at an address of its own.
Threads ==
  /\ \A i \in running : i \in ToSet(pending) /\ found[i] = Unscored
  /\ IsFiniteSet(running) /\ Cardinality(running) <= Workers
  /\ \A i \in Positions : addr[i] # None <=> i \in ToSet(pending) /\ found[i] = Unscored
  /\ \A i, j \in Positions : addr[i] = addr[j] /\ addr[i] # None => i = j

Tries ==
  /\ DOMAIN cache \subseteq Addresses
  /\ \A a \in DOMAIN cache : cache[a] \subseteq IPPrefixes

\* Alerts are found in the chunks that were read, and only there.
FoundInside ==
  /\ \A i \in Positions : found[i] # Unscored => FirstChunk <= i /\ i <= pos
  /\ way # "shared" => "outage" \notin requested
  /\ way \in {"light", "leak"} => merged = Baseline

\* The sample and the list of leaks respect their bounds.
Bounded ==
  /\ \A k \in Kinds : Len(sample[k]) <= MaxSample
  /\ leaks.kept <= MaxLeaks /\ leaks.kept <= leaks.total

ScanInv == ScanTypes /\ InLine /\ Threads /\ Tries /\ FoundInside /\ Bounded

-----------------------------------------------------------------------------
\* Cutting a sequence leaves its beginning.
LEMMA CutPart ==
  ASSUME NEW R, NEW s \in Seq(R), NEW n \in Nat
  PROVE  /\ Cut(s, n) \in Seq(R)
         /\ Len(Cut(s, n)) = IF n < Len(s) THEN n ELSE Len(s)
         /\ \A i \in 1..Len(Cut(s, n)) : Cut(s, n)[i] = s[i]
<1> DEFINE m == IF n < Len(s) THEN n ELSE Len(s)
<1>1. m \in Nat /\ m <= Len(s) /\ Len(s) \in Nat
  OBVIOUS
<1> HIDE DEF m
<1>2. /\ SubSeq(s, 1, m) \in Seq(R) /\ Len(SubSeq(s, 1, m)) = m
      /\ \A i \in 1..m : SubSeq(s, 1, m)[i] = s[i]
  BY <1>1
<1>3. Cut(s, n) = SubSeq(s, 1, m)
  BY DEF Cut, m
<1>4. QED
  BY <1>2, <1>3 DEF m

\* What a classification returns is alerts: rows it was given, for each kind.
LEMMA DetectTypes ==
  ASSUME NEW map, NEW trie, NEW owned, NEW rows \in Seq(Announcements)
  PROVE  Detect(map, trie, owned, rows) \in Alerts
<1>1. ASSUME NEW wanted PROVE Selected(rows, wanted) \in Seq(Announcements)
  BY SelectedElements
<1>2. <<>> \in Seq(Announcements)
  OBVIOUS
<1>3. QED
  BY <1>1, <1>2 DEF Detect, Alerts

\* A chunk with alerts, even with none of them, is a scored one.
LEMMA AlertsAreScored == ASSUME NEW a \in Alerts PROVE a # Unscored
<1>1. DOMAIN a = Kinds /\ DOMAIN Unscored = {} /\ Kinds # {}
  BY DEF Alerts, Unscored, Kinds
<1>2. QED
  BY <1>1

\* What a chunk of the window is made of.
LEMMA WindowRows ==
  ASSUME ScanTypes, NEW i \in Positions
  PROVE  /\ window[i] \in Seq(Announcements)
         /\ Named(i) \in Seq(Announcements)
         /\ DOMAIN Trimmed(i) \subseteq IPPrefixes
         /\ LeaksOf(i) \in Nat
<1>1. window[i] \in Seq(Announcements)
  BY RowsAssumption DEF ScanTypes
<1>2. Named(i) \in Seq(Announcements)
  BY <1>1, SelectedElements DEF Named
<1>3. DOMAIN Trimmed(i) \subseteq IPPrefixes
  BY RowsAssumption DEF ScanTypes, Trimmed
<1>4. LeaksOf(i) \in Nat
  <2> DEFINE L == {n \in DOMAIN window[i] :
                     Origin(window[i][n]) = Target /\ window[i][n].path \in Leaky}
  <2>1. DOMAIN window[i] = 1..Len(window[i]) /\ Len(window[i]) \in Nat
    BY <1>1
  <2>2. IsFiniteSet(DOMAIN window[i])
    BY <2>1, FS_Interval
  <2>3. L \subseteq DOMAIN window[i]
    OBVIOUS
  <2> HIDE DEF L
  <2>4. IsFiniteSet(L)
    BY <2>2, <2>3, FS_Subset
  <2>5. Cardinality(L) \in Nat
    BY <2>4, FS_CardinalityType
  <2>6. LeaksOf(i) = Cardinality(L)
    BY DEF LeaksOf, L
  <2>7. QED
    BY <2>5, <2>6
<1>5. QED
  BY <1>1, <1>2, <1>3, <1>4

\* What each way of reading finds in a chunk is alerts.
LEMMA AlertTypes ==
  ASSUME ScanTypes, NEW i \in Positions
  PROVE  /\ \A trie : BatchAlerts(i, trie) \in Alerts
         /\ SharedAlerts(i) \in Alerts
         /\ LightAlerts(i) \in Alerts
<1>1. window[i] \in Seq(Announcements) /\ Named(i) \in Seq(Announcements)
  BY WindowRows
<1>2. \A wanted : Selected(window[i], wanted) \in Seq(Announcements)
  BY <1>1, SelectedElements
<1>3. QED
  BY <1>1, <1>2, DetectTypes DEF BatchAlerts, SharedAlerts, LightAlerts

\* Merging keeps the types and the bound of the sample.
LEMMA MergeTypes ==
  ASSUME ScanTypes, Bounded, NEW alerts \in Alerts, Merge(alerts)
  PROVE  /\ sample' \in [Kinds -> Seq(Announcements)] /\ counted' \in [Kinds -> Nat]
         /\ \A k \in Kinds : Len(sample'[k]) <= MaxSample
<1>1. ASSUME NEW k \in Kinds
      PROVE  /\ sample[k] \o Cut(alerts[k], MaxSample - Len(sample[k])) \in Seq(Announcements)
             /\ Len(sample[k] \o Cut(alerts[k], MaxSample - Len(sample[k]))) <= MaxSample
             /\ counted[k] + Len(alerts[k]) \in Nat
  <2>1. /\ sample[k] \in Seq(Announcements) /\ alerts[k] \in Seq(Announcements)
        /\ Len(sample[k]) \in Nat /\ Len(alerts[k]) \in Nat
        /\ Len(sample[k]) <= MaxSample /\ MaxSample \in Nat /\ counted[k] \in Nat
    BY SizesAssumption DEF ScanTypes, Bounded, Alerts
  <2> DEFINE room == MaxSample - Len(sample[k])
             part == Cut(alerts[k], room)
  <2>2. room \in Nat /\ Len(sample[k]) + room = MaxSample
    BY <2>1
  <2> HIDE DEF room
  <2>3. part \in Seq(Announcements) /\ Len(part) <= room /\ Len(part) \in Nat
    BY <2>1, <2>2, CutPart
  <2> HIDE DEF part
  <2>4. sample[k] \o part \in Seq(Announcements)
        /\ Len(sample[k] \o part) = Len(sample[k]) + Len(part)
    BY <2>1, <2>3
  <2>5. sample[k] \o part \in Seq(Announcements)
        /\ Len(sample[k] \o part) <= MaxSample /\ counted[k] + Len(alerts[k]) \in Nat
    BY <2>1, <2>2, <2>3, <2>4
  <2>6. QED
    BY <2>5 DEF part, room
<1>2. QED
  BY <1>1 DEF Merge

\* So does counting the leaks of a chunk.
LEMMA KeepLeaksTypes ==
  ASSUME ScanTypes, Bounded, NEW i \in Positions, KeepLeaks(i)
  PROVE  /\ leaks' \in [kept : Nat, total : Nat]
         /\ leaks'.kept <= MaxLeaks /\ leaks'.kept <= leaks'.total
<1>1. LeaksOf(i) \in Nat
  BY WindowRows
<1>2. leaks.kept \in Nat /\ leaks.total \in Nat /\ MaxLeaks \in Nat
      /\ leaks.kept <= MaxLeaks /\ leaks.kept <= leaks.total
  BY SizesAssumption DEF ScanTypes, Bounded
<1>3. QED
  BY <1>1, <1>2 DEF KeepLeaks

-----------------------------------------------------------------------------
\* A queue without gaps holds an interval.
LEMMA QueueIsInterval ==
  ASSUME NEW line \in Seq(Positions), NEW low \in Nat,
         \A n \in 1..Len(line) : line[n] = low + n
  PROVE  \A i \in Nat : i \in ToSet(line) <=> low < i /\ i <= low + Len(line)
<1>1. DOMAIN line = 1..Len(line) /\ Len(line) \in Nat
  OBVIOUS
<1>2. \A i : i \in ToSet(line) <=> \E n \in 1..Len(line) : i = low + n
  BY <1>1 DEF ToSet
<1>3. ASSUME NEW i \in Nat
      PROVE  (\E n \in 1..Len(line) : i = low + n) <=> low < i /\ i <= low + Len(line)
  <2>1. ASSUME NEW n \in 1..Len(line), i = low + n
        PROVE  low < i /\ i <= low + Len(line)
    BY <1>1, <2>1
  <2>2. ASSUME low < i, i <= low + Len(line) PROVE \E n \in 1..Len(line) : i = low + n
    <3>1. i - low \in 1..Len(line) /\ i = low + (i - low)
      BY <1>1, <2>2
    <3>2. QED
      BY <3>1
  <2>3. QED
    BY <2>1, <2>2
<1>4. QED
  BY <1>2, <1>3

\* The chunks in flight are the read ones that are not merged.
LEMMA InFlightChunks ==
  ASSUME ScanTypes, InLine, NEW i \in Positions
  PROVE  i \in ToSet(pending) <=> way = "batch" /\ merged < i /\ i <= pos
<1>1. pending \in Seq(Positions) /\ merged \in Nat /\ pos \in Nat /\ Len(pending) \in Nat
      /\ i \in Nat
  BY SizesAssumption DEF ScanTypes, Positions
<1>2. i \in ToSet(pending) <=> merged < i /\ i <= merged + Len(pending)
  BY <1>1, QueueIsInterval DEF InLine
<1>3. CASE way = "batch"
  BY <1>1, <1>2, <1>3 DEF InLine
<1>4. CASE way # "batch"
  BY <1>1, <1>2, <1>4 DEF InLine
<1>5. QED
  BY <1>3, <1>4

\* Where the reading starts.
LEMMA FirstChunkType ==
  ASSUME ScanTypes
  PROVE  /\ FirstChunk \in 1..(NumChunks + 1)
         /\ "outage" \notin requested => FirstChunk = Baseline + 1
BY SizesAssumption DEF FirstChunk

\* The scan starts in order.
LEMMA ScanStarts == ScanInit => ScanInv
<1> SUFFICES ASSUME ScanInit PROVE ScanInv
  OBVIOUS
<1>1. NumChunks \in Nat /\ Baseline \in 0..NumChunks /\ MaxSample \in Nat /\ MaxLeaks \in Nat
      /\ Workers \in Nat /\ InFlight \in Nat
  BY SizesAssumption
<1>2. requested \subseteq Detectors
  BY DEF ScanInit, Detectors
<1>3. FirstChunk - 1 \in 0..NumChunks
  BY <1>1 DEF FirstChunk
<1>4. ScanTypes
  BY <1>1, <1>2, <1>3 DEF ScanInit, ScanTypes, Positions
<1>5. InLine
  BY <1>1, <1>3 DEF ScanInit, InLine
<1>6. Threads
  <2>1. IsFiniteSet({}) /\ Cardinality({}) = 0
    BY FS_EmptySet
  <2>2. ToSet(<<>>) = {}
    BY DEF ToSet
  <2>3. QED
    BY <1>1, <2>1, <2>2 DEF ScanInit, Threads, Positions
<1>7. Tries
  BY DEF ScanInit, Tries
<1>8. FoundInside
  BY <1>1 DEF ScanInit, FoundInside, FirstChunk, Positions, Ways
<1>9. Bounded
  BY <1>1 DEF ScanInit, Bounded
<1>10. QED
  BY <1>4, <1>5, <1>6, <1>7, <1>8, <1>9 DEF ScanInv

\* Submitting keeps the order of the queue and gives the map a new address.
LEMMA SubmitStep == ASSUME ScanInv, Submit PROVE ScanInv'
<1>1. ScanTypes /\ InLine /\ Threads /\ Tries /\ FoundInside /\ Bounded
  BY DEF ScanInv
<1>2. /\ NumChunks \in Nat /\ pos \in 0..NumChunks /\ merged \in 0..NumChunks /\ pos < NumChunks
      /\ pos + 1 \in Positions /\ InFlight \in Nat /\ pending \in Seq(Positions)
  BY <1>1, SizesAssumption DEF ScanTypes, Submit, Positions
<1>3. PICK a \in Addresses \ {addr[i] : i \in 1..NumChunks} : addr' = [addr EXCEPT ![pos + 1] = a]
  BY DEF Submit
<1>4. ScanTypes'
  BY <1>1, <1>2, <1>3 DEF ScanTypes, Submit, request
<1>5. /\ Len(pending') = Len(pending) + 1 /\ pending'[Len(pending) + 1] = pos + 1
      /\ \A n \in 1..Len(pending) : pending'[n] = pending[n]
      /\ Len(pending) \in Nat /\ Len(pending) = pos - merged /\ Len(pending) < InFlight
  BY <1>1, <1>2 DEF Submit, InLine
<1>6. InLine'
  <2>1. \A n \in 1..Len(pending') : pending'[n] = merged + n
    <3>1. ASSUME NEW n \in 1..Len(pending) PROVE pending'[n] = merged + n
      BY <1>1, <1>5 DEF InLine
    <3>2. pending'[Len(pending) + 1] = merged + (Len(pending) + 1)
      BY <1>2, <1>5
    <3>3. \A n \in 1..(Len(pending) + 1) : n \in 1..Len(pending) \/ n = Len(pending) + 1
      BY <1>5
    <3>4. QED
      BY <1>5, <3>1, <3>2, <3>3
  <2>2. FirstChunk' = FirstChunk
    BY DEF Submit, request, FirstChunk
  <2>3. FirstChunk \in Nat
    BY <1>1, <1>2, FirstChunkType
  <2>4. QED
    BY <1>1, <1>2, <1>5, <2>1, <2>2, <2>3 DEF InLine, Submit, request
<1>7. Threads'
  <2>1. ToSet(pending') = ToSet(pending) \cup {pos + 1}
    BY <1>2, AppendToSet DEF Submit
  <2>2. found[pos + 1] = Unscored
    BY <1>1, <1>2 DEF FoundInside
  <2>3. pos + 1 \notin ToSet(pending)
    BY <1>1, <1>2, InFlightChunks
  <2>4. addr[pos + 1] = None /\ a # None
    BY <1>1, <1>2, <2>3, SizesAssumption DEF Threads
  <2>5. \A i \in Positions : addr'[i] = (IF i = pos + 1 THEN a ELSE addr[i]) /\ addr[i] # a
    BY <1>1, <1>2, <1>3 DEF ScanTypes, Positions
  <2>6. \A i \in Positions : addr'[i] # None <=> i \in ToSet(pending') /\ found[i] = Unscored
    BY <1>1, <2>1, <2>2, <2>4, <2>5 DEF Threads
  <2>7. \A i, j \in Positions : addr'[i] = addr'[j] /\ addr'[i] # None => i = j
    BY <1>1, <2>5 DEF Threads
  <2>8. QED
    BY <1>1, <2>1, <2>6, <2>7 DEF Threads, Submit
<1>8. FoundInside'
  <2>1. FirstChunk' = FirstChunk
    BY DEF Submit, request, FirstChunk
  <2>2. \A i \in Positions : i <= pos => i <= pos + 1
    BY <1>2 DEF Positions
  <2>3. QED
    BY <1>1, <2>1, <2>2 DEF FoundInside, Submit, request
<1>9. Tries' /\ Bounded'
  BY <1>1 DEF Tries, Bounded, Submit
<1>10. QED
  BY <1>4, <1>6, <1>7, <1>8, <1>9 DEF ScanInv

\* A thread takes a waiting chunk while there is a free thread.
LEMMA TakeChunkStep == ASSUME ScanInv, NEW i \in 1..NumChunks, TakeChunk(i) PROVE ScanInv'
<1>1. ScanTypes /\ InLine /\ Threads /\ Tries /\ FoundInside /\ Bounded
  BY DEF ScanInv
<1>2. i \in ToSet(pending) /\ found[i] = Unscored /\ i \notin running /\ i \in Positions
  BY DEF TakeChunk, Waiting, Positions
<1>3. ScanTypes'
  BY <1>1, <1>2 DEF ScanTypes, TakeChunk, request
<1>4. InLine' /\ FoundInside'
  BY <1>1 DEF InLine, FoundInside, FirstChunk, TakeChunk, request
<1>5. Threads'
  <2>1. IsFiniteSet(running') /\ Cardinality(running') = Cardinality(running) + 1
    BY <1>1, <1>2, FS_AddElement DEF Threads, TakeChunk
  <2>2. Cardinality(running) \in Nat /\ Workers \in Nat /\ Cardinality(running) < Workers
    BY <1>1, SizesAssumption, FS_CardinalityType DEF Threads, TakeChunk
  <2>3. Cardinality(running') <= Workers
    BY <2>1, <2>2
  <2>4. QED
    BY <1>1, <1>2, <2>1, <2>3 DEF Threads, TakeChunk
<1>6. Tries' /\ Bounded'
  BY <1>1 DEF Tries, Bounded, TakeChunk
<1>7. QED
  BY <1>3, <1>4, <1>5, <1>6 DEF ScanInv

\* A finished chunk has alerts, and its map lives no longer.
LEMMA FinishStep == ASSUME ScanInv, NEW i \in 1..NumChunks, Finish(i) PROVE ScanInv'
<1>1. ScanTypes /\ InLine /\ Threads /\ Tries /\ FoundInside /\ Bounded
  BY DEF ScanInv
<1>2. /\ i \in running /\ i \in Positions /\ i \in ToSet(pending) /\ addr[i] \in Addresses
      /\ addr[i] # None /\ found[i] = Unscored
  BY <1>1 DEF Finish, Positions, Threads, ScanTypes
<1>3. PICK trie :
        /\ found' = [found EXCEPT ![i] = BatchAlerts(i, trie)]
        /\ trie = IF addr[i] \in DOMAIN cache THEN cache[addr[i]] ELSE DOMAIN Trimmed(i)
        /\ cache' = IF (Named(i) # <<>> /\ DOMAIN Trimmed(i) # {}) /\ addr[i] \notin DOMAIN cache
                    THEN [a \in DOMAIN cache \cup {addr[i]} |->
                            IF a = addr[i] THEN trie ELSE cache[a]]
                    ELSE cache
  BY DEF Finish
<1>4. BatchAlerts(i, trie) \in Alerts /\ BatchAlerts(i, trie) # Unscored
  BY <1>1, <1>2, AlertTypes, AlertsAreScored
<1>5. trie \subseteq IPPrefixes
  BY <1>1, <1>2, <1>3, WindowRows DEF Tries
<1>6. ScanTypes'
  BY <1>1, <1>2, <1>3, <1>4 DEF ScanTypes, Finish, request
<1>7. InLine'
  BY <1>1 DEF InLine, FirstChunk, Finish, request
<1>8. Threads'
  <2>1. running' = running \ {i} /\ pending' = pending
    BY DEF Finish
  <2>2. IsFiniteSet(running') /\ Cardinality(running') <= Workers
    <3>1. IsFiniteSet(running') /\ Cardinality(running') = Cardinality(running) - 1
      BY <1>1, <1>2, <2>1, FS_RemoveElement DEF Threads
    <3>2. Cardinality(running) \in Nat /\ Workers \in Nat /\ Cardinality(running) <= Workers
      BY <1>1, SizesAssumption, FS_CardinalityType DEF Threads
    <3>3. QED
      BY <3>1, <3>2
  <2>3. \A j \in Positions : /\ addr'[j] = IF j = i THEN None ELSE addr[j]
                             /\ found'[j] = IF j = i THEN BatchAlerts(i, trie) ELSE found[j]
    BY <1>1, <1>2, <1>3 DEF ScanTypes, Finish
  <2>4. \A j \in running' : j \in Positions /\ j # i
    BY <1>1, <2>1 DEF ScanTypes
  <2>5. QED
    BY <1>1, <1>4, <2>1, <2>2, <2>3, <2>4 DEF Threads
<1>9. Tries'
  <2>1. CASE cache' = cache
    BY <1>1, <2>1 DEF Tries
  <2>2. CASE cache' = [a \in DOMAIN cache \cup {addr[i]} |->
                         IF a = addr[i] THEN trie ELSE cache[a]]
    BY <1>1, <1>2, <1>5, <2>2 DEF Tries
  <2>3. QED
    BY <1>3, <2>1, <2>2
<1>10. FoundInside'
  <2>1. \A j \in Positions : j # i => found'[j] = found[j]
    BY <1>1, <1>3 DEF ScanTypes
  <2>2. FirstChunk \in Nat /\ merged \in Nat /\ merged < i /\ i <= pos /\ FirstChunk - 1 <= merged
    <3>1. FirstChunk \in Nat
      BY <1>1, FirstChunkType, SizesAssumption
    <3>2. merged < i /\ i <= pos
      BY <1>1, <1>2, InFlightChunks
    <3>3. merged \in Nat /\ FirstChunk - 1 <= merged
      BY <1>1, SizesAssumption DEF ScanTypes, InLine
    <3>4. QED
      BY <3>1, <3>2, <3>3
  <2>3. FirstChunk <= i /\ i <= pos
    BY <1>2, <2>2 DEF Positions
  <2>4. QED
    BY <1>1, <2>1, <2>3 DEF FoundInside, FirstChunk, Finish, request
<1>11. Bounded'
  BY <1>1 DEF Bounded, Finish
<1>12. QED
  BY <1>6, <1>7, <1>8, <1>9, <1>10, <1>11 DEF ScanInv

-----------------------------------------------------------------------------
\* The end of a scan changes nothing but pc.
LEMMA EndStep ==
  ASSUME ScanInv, pc' \in {"run", "done", "raised"},
         UNCHANGED <<request, pos, threads, found, merged, sample, counted, leaks, fed>>
  PROVE  ScanInv'
<1>1. ScanTypes /\ InLine /\ Threads /\ Tries /\ FoundInside /\ Bounded
  BY DEF ScanInv
<1>2. ScanTypes' /\ InLine' /\ FoundInside'
  BY <1>1 DEF ScanTypes, InLine, FoundInside, FirstChunk, request, threads
<1>3. Threads' /\ Tries' /\ Bounded'
  BY <1>1 DEF Threads, Tries, Bounded, threads
<1>4. QED
  BY <1>2, <1>3 DEF ScanInv

\* Merging the oldest chunk moves the beginning of the queue.
LEMMA MergeOldestStep ==
  ASSUME ScanInv, MergeOldest
  PROVE  ScanInv' /\ merged + 1 \in Positions /\ Head(pending) = merged + 1
<1>1. ScanTypes /\ InLine /\ Threads /\ Tries /\ FoundInside /\ Bounded
  BY DEF ScanInv
<1>2. /\ pending \in Seq(Positions) /\ pending # <<>> /\ way = "batch"
      /\ pos \in 0..NumChunks /\ merged \in 0..NumChunks /\ NumChunks \in Nat
  BY <1>1, SizesAssumption DEF ScanTypes, MergeOldest
<1>3. /\ Len(pending) \in Nat /\ Len(pending) >= 1 /\ Tail(pending) \in Seq(Positions)
      /\ Len(Tail(pending)) = Len(pending) - 1 /\ Head(pending) = pending[1]
      /\ \A n \in 1..Len(Tail(pending)) : Tail(pending)[n] = pending[n + 1]
  BY <1>2
<1>4. Head(pending) = merged + 1 /\ merged + 1 <= pos /\ merged + 1 \in Positions
  BY <1>1, <1>2, <1>3 DEF InLine, Positions
<1>5. found[merged + 1] \in Alerts /\ found[merged + 1] # Unscored /\ Merge(found[merged + 1])
  BY <1>1, <1>4 DEF ScanTypes, MergeOldest
<1>6. /\ sample' \in [Kinds -> Seq(Announcements)] /\ counted' \in [Kinds -> Nat]
      /\ \A k \in Kinds : Len(sample'[k]) <= MaxSample
  BY <1>1, <1>5, MergeTypes
<1>7. merged' = merged + 1 /\ merged' \in 0..NumChunks
  BY <1>2, <1>4 DEF MergeOldest
<1>8. ScanTypes'
  BY <1>1, <1>3, <1>6, <1>7 DEF ScanTypes, MergeOldest, request
<1>9. InLine'
  <2>1. \A n \in 1..Len(pending') : pending'[n] = merged' + n
    <3> SUFFICES ASSUME NEW n \in 1..Len(Tail(pending)) PROVE Tail(pending)[n] = merged + 1 + n
      BY <1>7 DEF MergeOldest
    <3>1. n + 1 \in 1..Len(pending) /\ Tail(pending)[n] = pending[n + 1]
      BY <1>3
    <3>2. pending[n + 1] = merged + (n + 1)
      BY <1>1, <3>1 DEF InLine
    <3>3. QED
      BY <1>2, <3>1, <3>2
  <2>2. FirstChunk' = FirstChunk /\ FirstChunk \in Nat
    BY <1>1, FirstChunkType, SizesAssumption DEF MergeOldest, request, FirstChunk
  <2>3. Len(pending') = Len(pending) - 1 /\ InFlight \in Nat
    BY <1>3, SizesAssumption DEF MergeOldest
  <2>4. UNCHANGED <<way, pos>>
    BY DEF MergeOldest, request
  <2>5. FirstChunk - 1 <= merged' /\ merged' <= pos'
    BY <1>1, <1>2, <1>4, <1>7, <2>2, <2>4 DEF InLine
  <2>6. Len(pending') = pos' - merged' /\ Len(pending') <= InFlight
    BY <1>1, <1>2, <1>3, <1>7, <2>3, <2>4 DEF InLine
  <2>7. QED
    BY <1>2, <2>1, <2>2, <2>4, <2>5, <2>6 DEF InLine
<1>10. Threads'
  <2>1. pending' = Tail(pending) /\ UNCHANGED <<running, addr, found>>
    BY DEF MergeOldest
  <2>2. \A i \in Positions : i \in ToSet(Tail(pending)) <=> i \in ToSet(pending) /\ i # merged + 1
    <3>1. \A n \in 1..Len(Tail(pending)) : Tail(pending)[n] = (merged + 1) + n
      BY <1>1, <1>2, <1>3 DEF InLine
    <3>2. \A i \in Nat : i \in ToSet(Tail(pending))
                           <=> merged + 1 < i /\ i <= (merged + 1) + Len(Tail(pending))
      <4>1. merged + 1 \in Nat
        BY <1>2
      <4>2. QED
        BY <1>3, <3>1, <4>1, QueueIsInterval
    <3>3. \A i \in Nat : i \in ToSet(pending) <=> merged < i /\ i <= merged + Len(pending)
      BY <1>1, <1>2, QueueIsInterval DEF InLine
    <3>4. QED
      BY <1>2, <1>3, <3>2, <3>3 DEF Positions
  <2>3. \A i \in running : i \in Positions /\ i # merged + 1
    BY <1>1, <1>5 DEF Threads, ScanTypes
  <2>4. QED
    BY <1>1, <1>5, <2>1, <2>2, <2>3 DEF Threads
<1>11. FoundInside'
  BY <1>1, <1>2 DEF FoundInside, FirstChunk, MergeOldest, request
<1>12. Tries' /\ Bounded'
  BY <1>1, <1>6 DEF Tries, Bounded, MergeOldest
<1>13. QED
  BY <1>4, <1>8, <1>9, <1>10, <1>11, <1>12 DEF ScanInv

\* No thread works when the scan is not the batch scan.
LEMMA NoThreads ==
  ASSUME ScanInv, way # "batch"
  PROVE  /\ pending = <<>> /\ running = {} /\ \A i \in Positions : i \notin ToSet(pending)
         /\ \A i \in Positions : addr[i] = None
BY InFlightChunks DEF ScanInv, InLine, Threads, ScanTypes

\* Feeding a chunk to the detectors of the shared scan.
LEMMA FeedChunkStep == ASSUME ScanInv, FeedChunk PROVE ScanInv'
<1>1. ScanTypes /\ InLine /\ Threads /\ Tries /\ FoundInside /\ Bounded
  BY DEF ScanInv
<1>2. /\ way = "shared" /\ pos \in 0..NumChunks /\ NumChunks \in Nat /\ merged \in Nat
      /\ pos + 1 \in Positions /\ pos + 1 \in 0..NumChunks
  BY <1>1, SizesAssumption DEF ScanTypes, FeedChunk, Positions
<1>3. \A d \in Detectors : Append(fed[d], pos + 1) \in Seq(Positions)
  BY <1>1, <1>2 DEF ScanTypes
<1>4. fed' \in [Detectors -> Seq(Positions)]
  BY <1>1, <1>3 DEF ScanTypes, FeedChunk
<1>5. found' \in [Positions -> Alerts \cup {Unscored}]
      /\ \A i \in Positions : i # pos + 1 => found'[i] = found[i]
  <2>1. SharedAlerts(pos + 1) \in Alerts
    BY <1>1, <1>2, AlertTypes
  <2>2. QED
    BY <1>1, <1>2, <2>1 DEF ScanTypes, FeedChunk
<1>6. leaks' \in [kept : Nat, total : Nat] /\ leaks'.kept <= MaxLeaks
      /\ leaks'.kept <= leaks'.total
  <2>1. CASE KeepLeaks(pos + 1)
    BY <1>1, <1>2, <2>1, KeepLeaksTypes
  <2>2. CASE UNCHANGED leaks
    BY <1>1, <2>2 DEF ScanTypes, Bounded
  <2>3. QED
    BY <2>1, <2>2 DEF FeedChunk
<1>7. pc' \in {"run", "done", "raised"} /\ pos' = pos + 1
  BY DEF FeedChunk
<1>8. ScanTypes'
  BY <1>1, <1>2, <1>4, <1>5, <1>6, <1>7 DEF ScanTypes, FeedChunk, request, threads
<1>9. FirstChunk' = FirstChunk /\ FirstChunk \in Nat
  BY <1>1, FirstChunkType, SizesAssumption DEF FeedChunk, request, FirstChunk
<1>10. InLine'
  BY <1>1, <1>2, <1>9 DEF InLine, FeedChunk, request, threads
<1>11. Threads'
  BY <1>1, <1>2, NoThreads DEF Threads, FeedChunk, threads
<1>12. FoundInside'
  <2>1. FirstChunk <= pos + 1
    BY <1>1, <1>2, <1>9 DEF InLine
  <2>2. \A i \in Positions : found'[i] # Unscored => FirstChunk <= i /\ i <= pos + 1
    BY <1>1, <1>2, <1>5, <2>1 DEF FoundInside, Positions
  <2>3. QED
    BY <1>1, <1>2, <1>9, <2>2 DEF FoundInside, FeedChunk, request
<1>13. Tries' /\ Bounded'
  BY <1>1, <1>6 DEF Tries, Bounded, FeedChunk, threads
<1>14. QED
  BY <1>8, <1>10, <1>11, <1>12, <1>13 DEF ScanInv

\* Folding the alerts of the next chunk after the shared scan.
LEMMA MergeNextStep == ASSUME ScanInv, MergeNext PROVE ScanInv'
<1>1. ScanTypes /\ InLine /\ Threads /\ Tries /\ FoundInside /\ Bounded
  BY DEF ScanInv
<1>2. /\ way = "shared" /\ pos = NumChunks /\ NumChunks \in Nat /\ merged \in 0..NumChunks
      /\ merged + 1 \in Positions /\ merged' = merged + 1 /\ merged' \in 0..NumChunks
  BY <1>1, SizesAssumption DEF ScanTypes, MergeNext, Positions
<1>3. /\ sample' \in [Kinds -> Seq(Announcements)] /\ counted' \in [Kinds -> Nat]
      /\ \A k \in Kinds : Len(sample'[k]) <= MaxSample
  <2>1. CASE found[merged + 1] = Unscored
    BY <1>1, <2>1 DEF MergeNext, ScanTypes, Bounded
  <2>2. CASE found[merged + 1] # Unscored
    <3>1. found[merged + 1] \in Alerts /\ Merge(found[merged + 1])
      BY <1>1, <1>2, <2>2 DEF ScanTypes, MergeNext
    <3>2. QED
      BY <1>1, <3>1, MergeTypes
  <2>3. QED
    BY <2>1, <2>2
<1>4. ScanTypes'
  BY <1>1, <1>2, <1>3 DEF ScanTypes, MergeNext, request, threads
<1>5. FirstChunk' = FirstChunk /\ FirstChunk \in Nat
  BY <1>1, FirstChunkType, SizesAssumption DEF MergeNext, request, FirstChunk
<1>6. InLine'
  BY <1>1, <1>2, <1>5 DEF InLine, MergeNext, request, threads
<1>7. Threads'
  BY <1>1 DEF Threads, MergeNext, threads
<1>8. FoundInside'
  BY <1>1, <1>2, <1>5 DEF FoundInside, MergeNext, request
<1>9. Tries' /\ Bounded'
  BY <1>1, <1>3 DEF Tries, Bounded, MergeNext, threads
<1>10. QED
  BY <1>4, <1>6, <1>7, <1>8, <1>9 DEF ScanInv

\* The scan of all rows at once.
LEMMA LightScanStep == ASSUME ScanInv, LightScan PROVE ScanInv'
<1>1. ScanTypes /\ InLine /\ Threads /\ Tries /\ FoundInside /\ Bounded
  BY DEF ScanInv
<1>2. /\ way = "light" /\ NumChunks \in Nat /\ Baseline \in Nat /\ pos \in 0..NumChunks
      /\ pos' = NumChunks
  BY <1>1, SizesAssumption DEF ScanTypes, LightScan
<1>3. found' \in [Positions -> Alerts \cup {Unscored}]
      /\ \A i \in Positions : found'[i] # Unscored => Baseline < i
  <2>1. \A i \in Positions : LightAlerts(i) \in Alerts
    BY <1>1, AlertTypes
  <2>2. QED
    BY <2>1 DEF LightScan, Positions, InEvent
<1>4. ScanTypes'
  BY <1>1, <1>2, <1>3 DEF ScanTypes, LightScan, request, threads
<1>5. FirstChunk' = FirstChunk /\ FirstChunk = Baseline + 1
  BY <1>1, <1>2, FirstChunkType DEF FoundInside, LightScan, request, FirstChunk
<1>6. InLine'
  <2>1. merged <= NumChunks /\ merged \in Nat
    BY <1>1, <1>2 DEF ScanTypes
  <2>2. QED
    BY <1>1, <1>2, <1>5, <2>1 DEF InLine, LightScan, request, threads
<1>7. Threads'
  <2>1. \A i \in Positions : i \notin ToSet(pending) /\ addr[i] = None
    BY <1>2, NoThreads
  <2>2. running = {}
    BY <1>2, NoThreads
  <2>3. QED
    BY <1>1, <2>1, <2>2 DEF Threads, LightScan, threads
<1>8. FoundInside'
  BY <1>1, <1>2, <1>3, <1>5 DEF FoundInside, LightScan, request, Positions
<1>9. Tries' /\ Bounded'
  BY <1>1 DEF Tries, Bounded, LightScan, threads
<1>10. QED
  BY <1>4, <1>6, <1>7, <1>8, <1>9 DEF ScanInv

\* A chunk of the leak detector on its own.
LEMMA LeakChunkStep == ASSUME ScanInv, LeakChunk PROVE ScanInv'
<1>1. ScanTypes /\ InLine /\ Threads /\ Tries /\ FoundInside /\ Bounded
  BY DEF ScanInv
<1>2. /\ way = "leak" /\ NumChunks \in Nat /\ pos \in 0..NumChunks /\ pos' = pos + 1
      /\ pos + 1 \in Positions /\ pos' \in 0..NumChunks /\ merged \in Nat
  BY <1>1, SizesAssumption DEF ScanTypes, LeakChunk, Positions
<1>3. leaks' \in [kept : Nat, total : Nat] /\ leaks'.kept <= MaxLeaks
      /\ leaks'.kept <= leaks'.total
  <2>1. CASE KeepLeaks(pos + 1)
    BY <1>1, <1>2, <2>1, KeepLeaksTypes
  <2>2. CASE UNCHANGED leaks
    BY <1>1, <2>2 DEF ScanTypes, Bounded
  <2>3. QED
    BY <2>1, <2>2 DEF LeakChunk
<1>4. pc' \in {"run", "done", "raised"}
  BY DEF LeakChunk
<1>5. ScanTypes'
  BY <1>1, <1>2, <1>3, <1>4 DEF ScanTypes, LeakChunk, request, threads
<1>6. FirstChunk' = FirstChunk /\ FirstChunk \in Nat
  BY <1>1, FirstChunkType, SizesAssumption DEF LeakChunk, request, FirstChunk
<1>7. InLine'
  BY <1>1, <1>2, <1>6 DEF InLine, LeakChunk, request, threads
<1>8. Threads'
  BY <1>1 DEF Threads, LeakChunk, threads
<1>9. FoundInside'
  BY <1>1, <1>2, <1>6 DEF FoundInside, LeakChunk, request, Positions
<1>10. Tries' /\ Bounded'
  BY <1>1, <1>3 DEF Tries, Bounded, LeakChunk, threads
<1>11. QED
  BY <1>5, <1>7, <1>8, <1>9, <1>10 DEF ScanInv

\* ScanInv is inductive: one case for each action of the four ways to read.
THEOREM ScanStep == ScanInv /\ [ScanNext]_scanVars => ScanInv'
<1> SUFFICES ASSUME ScanInv, [ScanNext]_scanVars PROVE ScanInv'
  OBVIOUS
<1>1. CASE UNCHANGED scanVars
  <2>1. UNCHANGED <<request, pos, threads, found, merged, sample, counted, leaks, fed>>
        /\ pc' = pc
    BY <1>1 DEF scanVars, request, threads
  <2>2. pc \in {"run", "done", "raised"}
    BY DEF ScanInv, ScanTypes
  <2>3. QED
    BY <2>1, <2>2, EndStep
<1>2. CASE BatchEnds \/ SharedEnds \/ LeakEnds
  BY <1>2, EndStep DEF BatchEnds, SharedEnds, LeakEnds
<1>3. QED
  BY <1>1, <1>2, SubmitStep, TakeChunkStep, FinishStep, MergeOldestStep, FeedChunkStep,
     MergeNextStep, LightScanStep, LeakChunkStep DEF ScanNext, Terminated

\* The inductive invariant holds all through the scan.
THEOREM ScanIsSound == ScanSpec => []ScanInv
<1>1. QED
  BY ScanStarts, ScanStep, PTL DEF ScanSpec

\* The variables of the scan keep their types; no more chunks are in flight
\* than CHUNK_INFLIGHT, no more threads at work than chunk_workers, and no two
\* living maps share an address (detect_hijacks_batch and the other readers).
THEOREM ScanTypeCorrect == ScanSpec => []ScanTypeOK
<1>1. ScanInv => ScanTypeOK
  BY SizesAssumption DEF ScanInv, ScanTypeOK, ScanTypes, InLine, Threads, Tries, Bounded,
     Positions
<1>2. QED
  BY <1>1, ScanIsSound, PTL

-----------------------------------------------------------------------------
\* What the alerts say of the target.

\* How alerts come to a chunk: those of merged chunks stay as they are.
FoundGrows ==
  \A i \in Positions :
    \/ found'[i] = found[i]
    \/ /\ merged < i /\ merged' = merged
       /\ \/ way = "batch" /\ \E trie : found'[i] = BatchAlerts(i, trie)
          \/ way = "shared" /\ found'[i] = SharedAlerts(i)
          \/ way = "light" /\ found'[i] = LightAlerts(i)

\* Every step of the scan brings alerts in that way and leaves the request alone.
LEMMA AlertsCome ==
  ASSUME ScanInv, [ScanNext]_scanVars
  PROVE  FoundGrows /\ UNCHANGED request
<1>1. ScanTypes /\ InLine /\ Threads /\ FoundInside
  BY DEF ScanInv
<1>2. ASSUME UNCHANGED found PROVE FoundGrows
  BY <1>2 DEF FoundGrows
<1>3. ASSUME NEW i \in 1..NumChunks, Finish(i) PROVE FoundGrows
  <2>1. i \in ToSet(pending) /\ i \in Positions
    BY <1>1, <1>3 DEF Threads, Finish, Positions
  <2>2. way = "batch" /\ merged < i
    BY <1>1, <2>1, InFlightChunks
  <2>3. PICK trie : found' = [found EXCEPT ![i] = BatchAlerts(i, trie)]
    BY <1>3 DEF Finish
  <2>4. \A j \in Positions : found'[j] = IF j = i THEN BatchAlerts(i, trie) ELSE found[j]
    BY <1>1, <2>3 DEF ScanTypes
  <2>5. merged' = merged
    BY <1>3 DEF Finish
  <2>6. QED
    BY <2>2, <2>4, <2>5 DEF FoundGrows
<1>4. ASSUME FeedChunk PROVE FoundGrows
  <2>1. \A j \in Positions : found'[j] = found[j] \/ (j = pos + 1 /\ found'[j] = SharedAlerts(j))
    <3>1. \/ found' = [found EXCEPT ![pos + 1] = SharedAlerts(pos + 1)]
          \/ found' = found
      BY <1>4 DEF FeedChunk
    <3>2. QED
      BY <1>1, <3>1 DEF ScanTypes
  <2>2. merged < pos + 1 /\ merged' = merged /\ way = "shared"
    BY <1>1, <1>4, SizesAssumption DEF FeedChunk, InLine, ScanTypes
  <2>3. QED
    BY <2>1, <2>2 DEF FoundGrows
<1>5. ASSUME LightScan PROVE FoundGrows
  <2>1. way = "light" /\ merged = Baseline /\ merged' = merged /\ FirstChunk = Baseline + 1
    BY <1>1, <1>5, FirstChunkType DEF LightScan, FoundInside
  <2>2. \A j \in Positions : found'[j] = IF j > Baseline THEN LightAlerts(j) ELSE Unscored
    BY <1>5 DEF LightScan, InEvent, Positions
  <2>3. \A j \in Positions : ~(j > Baseline) => found[j] = Unscored
    BY <1>1, <2>1, SizesAssumption DEF FoundInside, Positions
  <2>4. QED
    BY <2>1, <2>2, <2>3, SizesAssumption DEF FoundGrows, Positions
<1>6. FoundGrows
  BY <1>2, <1>3, <1>4, <1>5 DEF ScanNext, Submit, TakeChunk, MergeOldest, BatchEnds, MergeNext,
     SharedEnds, LeakChunk, LeakEnds, Terminated, scanVars
<1>7. UNCHANGED request
  BY DEF ScanNext, Submit, TakeChunk, Finish, MergeOldest, BatchEnds, FeedChunk, MergeNext,
     SharedEnds, LightScan, LeakChunk, LeakEnds, Terminated, scanVars, request
<1>8. QED
  BY <1>6, <1>7
-----------------------------------------------------------------------------
\* What the target is accused of, for whatever map, trie and rows.
LEMMA AccusedOfForeign ==
  ASSUME NEW map, NEW trie, NEW rows \in Seq(Announcements),
         NEW row \in ToSet(Detect(map, trie, Owned(map), rows)["origin_hijacking"])
  PROVE  Origin(row) = Target /\ row.prefix \in DOMAIN map /\ Target \notin map[row.prefix]
<1>0. "origin_hijacking" \in Kinds
  BY DEF Kinds
<1>1. CASE DOMAIN map = {}
  <2>1. Detect(map, trie, Owned(map), rows)["origin_hijacking"] = <<>>
    BY <1>0, <1>1 DEF Detect
  <2>2. QED
    BY <2>1 DEF ToSet
<1>2. CASE DOMAIN map # {}
  <2> DEFINE wanted == {r \in ToSet(rows) : Hijacking(map, trie, Owned(map), r)}
  <2>1. Detect(map, trie, Owned(map), rows)["origin_hijacking"] = Selected(rows, wanted)
    BY <1>0, <1>2 DEF Detect
  <2>2. ToSet(Selected(rows, wanted)) = {x \in ToSet(rows) : x \in wanted}
    BY SelectedElements
  <2>3. Hijacking(map, trie, Owned(map), row)
    BY <2>1, <2>2
  <2>4. QED
    BY <2>3 DEF Hijacking, ForeignExact, Owned
<1>3. QED
  BY <1>1, <1>2

AccusedAt(i, alerts) ==
  \A row \in ToSet(alerts["origin_hijacking"]) :
    /\ Origin(row) = Target
    /\ row.prefix \in DOMAIN snapshot
    /\ Target \notin snapshot[row.prefix]

\* Whichever way a chunk is scored, the target is accused of foreign prefixes only.
LEMMA AccusedInChunk ==
  ASSUME ScanTypes, NEW i \in Positions
  PROVE  /\ \A trie : AccusedAt(i, BatchAlerts(i, trie))
         /\ AccusedAt(i, SharedAlerts(i))
         /\ AccusedAt(i, LightAlerts(i))
<1>1. window[i] \in Seq(Announcements) /\ Named(i) \in Seq(Announcements)
  BY WindowRows
<1>2. \A wanted : Selected(window[i], wanted) \in Seq(Announcements)
  BY <1>1, SelectedElements
<1>3. ASSUME NEW trie PROVE AccusedAt(i, BatchAlerts(i, trie))
  <2>1. \A p \in DOMAIN Trimmed(i) : p \in DOMAIN snapshot /\ Trimmed(i)[p] = snapshot[p]
    BY DEF Trimmed
  <2>2. QED
    BY <1>1, <2>1, AccusedOfForeign DEF AccusedAt, BatchAlerts
<1>4. AccusedAt(i, SharedAlerts(i))
  BY <1>2, AccusedOfForeign DEF AccusedAt, SharedAlerts
<1>5. AccusedAt(i, LightAlerts(i))
  BY <1>1, AccusedOfForeign DEF AccusedAt, LightAlerts
<1>6. QED
  BY <1>3, <1>4, <1>5

\* AccusedOnlyOfForeign is inductive relative to ScanInv: the alerts of a chunk
\* are written once, and hold whatever the trie was.
THEOREM AccusedStep ==
  ScanInv /\ AccusedOnlyOfForeign /\ [ScanNext]_scanVars => AccusedOnlyOfForeign'
<1> SUFFICES ASSUME ScanInv, AccusedOnlyOfForeign, [ScanNext]_scanVars,
                    NEW i \in Positions, NEW row \in ToSet(AlertsOf(i)'["origin_hijacking"])
             PROVE  /\ Origin(row) = Target /\ row.prefix \in DOMAIN snapshot'
                    /\ Target \notin snapshot'[row.prefix]
  BY DEF AccusedOnlyOfForeign, Positions
<1>1. ScanTypes /\ FoundGrows /\ UNCHANGED request
  BY AlertsCome DEF ScanInv
<1>2. snapshot' = snapshot
  BY <1>1 DEF request
<1>3. CASE found'[i] = found[i]
  <2>1. AlertsOf(i)' = AlertsOf(i)
    BY <1>3 DEF AlertsOf, NoAlerts
  <2>2. QED
    BY <1>2, <2>1 DEF AccusedOnlyOfForeign, Positions
<1>4. CASE found'[i] # found[i]
  <2>1. found'[i] \in Alerts /\ AccusedAt(i, found'[i])
    BY <1>1, <1>4, AlertTypes, AccusedInChunk DEF FoundGrows
  <2>2. AlertsOf(i)' = found'[i]
    BY <2>1, AlertsAreScored DEF AlertsOf
  <2>3. QED
    BY <1>2, <2>1, <2>2 DEF AccusedAt
<1>5. QED
  BY <1>3, <1>4

\* In each of the ways to read a window the target is accused only of
\* announcing an exact prefix the snapshot gives to others
\* (detect_origin_hijacks).
THEOREM AccusedOnlyOfOthers == ScanSpec => []AccusedOnlyOfForeign
<1>1. ScanInit => AccusedOnlyOfForeign
  BY DEF ScanInit, AccusedOnlyOfForeign, AlertsOf, NoAlerts, ToSet, Kinds
<1>2. QED
  BY <1>1, AccusedStep, ScanIsSound, PTL DEF ScanSpec
-----------------------------------------------------------------------------
\* The announcements of an exact prefix of the target by somebody else.
Victims(i) ==
  {row \in ToSet(window[i]) :
     Names(row) /\ Origin(row) # Target /\ row.prefix \in Owned(snapshot)}

\* A row the worker looks at has its prefix in the trimmed map if it is in the
\* map at all, with the same owners.
LEMMA TrimmingIsExact ==
  ASSUME NEW i, NEW row \in ToSet(window[i])
  PROVE  /\ row.prefix \in DOMAIN Trimmed(i) <=> row.prefix \in DOMAIN snapshot
         /\ row.prefix \in Owned(Trimmed(i)) <=> row.prefix \in Owned(snapshot)
BY DEF Trimmed, PrefixesIn, Owned, ToSet

\* The victim's alerts of the batch scan, for whatever trie it was given.
LEMMA BatchVictims ==
  ASSUME ScanTypes, NEW i \in Positions, NEW trie
  PROVE  BatchAlerts(i, trie)["origin_hijacked"] = Selected(window[i], Victims(i))
<1>1. window[i] \in Seq(Announcements) /\ Named(i) \in Seq(Announcements)
  BY WindowRows
<1>2. \A n \in 1..Len(window[i]) : window[i][n] \in ToSet(window[i])
  <2>1. DOMAIN window[i] = 1..Len(window[i])
    BY <1>1
  <2>2. QED
    BY <2>1 DEF ToSet
<1> DEFINE named == {row \in ToSet(window[i]) : Names(row)}
           hit(row) == Hijacked(Trimmed(i), trie, Owned(Trimmed(i)), row)
           hits == {row \in ToSet(Named(i)) : hit(row)}
<1>3. "origin_hijacked" \in Kinds
  BY DEF Kinds
<1>4. CASE DOMAIN Trimmed(i) = {}
  <2>1. BatchAlerts(i, trie)["origin_hijacked"] = <<>>
    BY <1>3, <1>4 DEF BatchAlerts, Detect
  <2>2. Victims(i) = {}
    BY <1>4, TrimmingIsExact DEF Victims, Owned
  <2>3. Selected(window[i], {}) \in Seq(Announcements) /\ ToSet(Selected(window[i], {})) = {}
    BY <1>1, SelectedElements
  <2>4. \A s \in Seq(Announcements) : ToSet(s) = {} => s = <<>>
    <3> SUFFICES ASSUME NEW s \in Seq(Announcements), s # <<>> PROVE ToSet(s) # {}
      OBVIOUS
    <3>1. 1 \in DOMAIN s
      OBVIOUS
    <3>2. QED
      BY <3>1 DEF ToSet
  <2>5. QED
    BY <2>1, <2>2, <2>3, <2>4
<1>5. CASE DOMAIN Trimmed(i) # {}
  <2>1. BatchAlerts(i, trie)["origin_hijacked"] = Selected(Named(i), hits)
    BY <1>3, <1>5 DEF BatchAlerts, Detect
  <2>2. Selected(Named(i), hits) = Selected(window[i], named \cap hits)
    <3>1. \A A, B : Selected(Selected(window[i], A), B) = Selected(window[i], A \cap B)
      BY <1>1, SelectedTwice
    <3>2. QED
      BY <3>1 DEF Named
  <2>3. ToSet(Named(i)) = named
    BY <1>1, SelectedElements DEF Named
  <2>4. ASSUME NEW row \in named PROVE hit(row) <=> row \in Victims(i)
    <3>1. Names(row) /\ row \in ToSet(window[i]) /\ ~(~Customer(row) /\ ~Transit(row))
      BY DEF Transit
    <3>2. OwnedExact(Trimmed(i), row) <=> row.prefix \in Owned(snapshot)
      BY <3>1, TrimmingIsExact DEF OwnedExact
    <3>3. QED
      BY <3>1, <3>2 DEF Hijacked, Victims
  <2>5. \A n \in 1..Len(window[i]) :
          window[i][n] \in named \cap hits <=> window[i][n] \in Victims(i)
    BY <1>2, <2>3, <2>4 DEF Victims
  <2>6. Selected(window[i], named \cap hits) = Selected(window[i], Victims(i))
    <3> HIDE DEF named, hits
    <3>1. QED
      BY <1>1, <2>5, SelectedSame
  <2>7. QED
    BY <2>1, <2>2, <2>6
<1>6. QED
  BY <1>4, <1>5

\* VictimsSurviveTrimming is inductive relative to ScanInv.
THEOREM VictimsStep ==
  ScanInv /\ VictimsSurviveTrimming /\ [ScanNext]_scanVars => VictimsSurviveTrimming'
<1> SUFFICES ASSUME ScanInv, VictimsSurviveTrimming, [ScanNext]_scanVars
             PROVE  VictimsSurviveTrimming'
  OBVIOUS
<1>1. ScanTypes /\ FoundGrows /\ UNCHANGED request
  BY AlertsCome DEF ScanInv
<1>2. snapshot' = snapshot /\ window' = window /\ way' = way
  BY <1>1 DEF request
<1>3. ASSUME way = "batch", NEW i \in Positions, found'[i] # Unscored
      PROVE  found'[i]["origin_hijacked"] = Selected(window[i], Victims(i))
  <2>1. CASE found'[i] = found[i]
    BY <1>3, <2>1 DEF VictimsSurviveTrimming, Victims, Positions
  <2>2. CASE found'[i] # found[i]
    BY <1>1, <1>3, <2>2, BatchVictims DEF FoundGrows
  <2>3. QED
    BY <2>1, <2>2
<1>4. QED
  BY <1>2, <1>3 DEF VictimsSurviveTrimming, Victims, Positions

\* Neither the trimmed map nor a trie found under the address of an earlier map
\* hides or adds a victim in the batch scan (detect_hijacks_batch,
\* process_chunk_worker).
THEOREM VictimsAreKept == ScanSpec => []VictimsSurviveTrimming
<1>1. ScanInit => VictimsSurviveTrimming
  BY DEF ScanInit, VictimsSurviveTrimming
<1>2. QED
  BY <1>1, VictimsStep, ScanIsSound, PTL DEF ScanSpec
-----------------------------------------------------------------------------
\* In every state the walk of the trie is right for the map of the scan and for
\* every trie the workers have cached (ParentPrefixTrie, _trie_cache).
THEOREM ParentsAreFound == ScanSpec => []ParentIsMostSpecific
<1>1. ASSUME ScanInv PROVE ParentIsMostSpecific
  <2>1. \A stored \in {DOMAIN snapshot} \cup {cache[a] : a \in DOMAIN cache} :
          stored \subseteq IPPrefixes
    BY <1>1, RowsAssumption DEF ScanInv, ScanTypes, Tries
  <2>2. \A i \in Positions : PrefixesIn(window[i]) \subseteq IPPrefixes
    <3> SUFFICES ASSUME NEW i \in Positions, NEW n \in DOMAIN window[i]
                 PROVE  window[i][n].prefix \in IPPrefixes
      BY DEF PrefixesIn
    <3>1. window[i] \in Seq(Announcements)
      BY <1>1, WindowRows DEF ScanInv
    <3>2. window[i][n] \in Announcements
      BY <3>1
    <3>3. QED
      BY <3>2 DEF Announcements
  <2>3. QED
    BY <2>1, <2>2, ParentFound DEF ParentIsMostSpecific, Positions
<1>2. QED
  BY <1>1, ScanIsSound, PTL

-----------------------------------------------------------------------------
\* Flattening and cutting sequences.

\* f[n] is the first n of the sequences, one after the other.
Joins(seqs, f) ==
  f[0] = <<>> /\ \A n \in 1..Len(seqs) : f[n] = f[n - 1] \o seqs[n]

FlattenTable(seqs, f) ==
  f = [i \in 1..Len(seqs) |-> IF i = 1 THEN seqs[i] ELSE f[i - 1] \o seqs[i]]

\* Flattening is the last entry of its table.
LEMMA FlattenJoins ==
  ASSUME NEW R, NEW seqs \in Seq(Seq(R))
  PROVE  \E f : /\ f \in [0..Len(seqs) -> Seq(R)] /\ Joins(seqs, f)
                /\ FlattenSeq(seqs) = f[Len(seqs)]
<1>0. Len(seqs) \in Nat /\ \A n \in 1..Len(seqs) : seqs[n] \in Seq(R)
  OBVIOUS
<1> DEFINE step == [n \in 1..Len(seqs) |-> [v \in Seq(R) |-> v \o seqs[n]]]
<1>1. step \in [1..Len(seqs) -> [Seq(R) -> Seq(R)]]
  BY <1>0
<1>2. \A n \in 1..Len(seqs), v \in Seq(R) : step[n][v] = v \o seqs[n]
  OBVIOUS
<1> HIDE DEF step
<1>3. PICK f : f \in [0..Len(seqs) -> Seq(R)] /\ f[0] = <<>>
                 /\ \A n \in 1..Len(seqs) : f[n] = step[n][f[n - 1]]
  <2>1. <<>> \in Seq(R)
    OBVIOUS
  <2>2. \E f : Table(f, Len(seqs), Seq(R), <<>>, step)
    BY <1>0, <1>1, <2>1, TableExists
  <2>3. QED
    BY <2>2 DEF Table
<1>4. \A n \in 1..Len(seqs) : f[n - 1] \in Seq(R)
  <2>1. \A n \in 1..Len(seqs) : n - 1 \in 0..Len(seqs)
    BY <1>0
  <2>2. \A n \in 0..Len(seqs) : f[n] \in Seq(R)
    BY <1>3
  <2>3. QED
    BY <2>1, <2>2
<1>5. Joins(seqs, f)
  BY <1>2, <1>3, <1>4 DEF Joins
<1>9. 1 \in 1..Len(seqs) => f[1] = seqs[1]
  <2>1. ASSUME 1 \in 1..Len(seqs) PROVE f[1] = f[0] \o seqs[1]
    <3>1. f[1] = f[1 - 1] \o seqs[1]
      BY <1>5, <2>1 DEF Joins
    <3>2. 1 - 1 = 0
      OBVIOUS
    <3>3. QED
      BY <3>1, <3>2
  <2>2. \A t \in Seq(R) : <<>> \o t = t
    OBVIOUS
  <2>3. QED
    BY <1>0, <1>3, <2>1, <2>2
<1>6. CASE Len(seqs) = 0
  <2>1. seqs = <<>>
    BY <1>6
  <2>2. FlattenSeq(seqs) = <<>>
    BY <1>6, <2>1 DEF FlattenSeq
  <2>3. QED
    BY <1>3, <1>5, <1>6, <2>2
<1>7. CASE Len(seqs) # 0
  <2> DEFINE e == [i \in 1..Len(seqs) |-> f[i]]
             g == CHOOSE h : FlattenTable(seqs, h)
  <2>1. FlattenTable(seqs, e)
    <3>1. ASSUME NEW i \in 1..Len(seqs)
          PROVE  f[i] = IF i = 1 THEN seqs[i] ELSE e[i - 1] \o seqs[i]
      <4>1. CASE i = 1
        <5>1. QED
          BY <1>9, <4>1
      <4>2. CASE i # 1
        <5>1. i - 1 \in 1..Len(seqs)
          BY <1>0, <4>2
        <5>2. QED
          BY <1>5, <4>2, <5>1 DEF Joins
      <4>3. QED
        BY <4>1, <4>2
    <3>2. QED
      BY <3>1 DEF FlattenTable
  <2>2. FlattenTable(seqs, g)
    BY <2>1
  <2>3. FlattenSeq(seqs) = g[Len(seqs)]
    BY <1>7 DEF FlattenSeq, FlattenTable
  <2> HIDE DEF g, e
  <2>4. \A i \in 1..Len(seqs) : g[i] = IF i = 1 THEN seqs[i] ELSE g[i - 1] \o seqs[i]
    BY <2>2 DEF FlattenTable
  <2> DEFINE P == {n \in 0..Len(seqs) : n = 0 \/ g[n] = f[n]}
  <2>5. 0 \in P
    BY <1>0
  <2>6. ASSUME NEW n \in 1..Len(seqs), n - 1 \in P PROVE n \in P
    <3>1. CASE n = 1
      <4>1. g[1] = seqs[1] /\ f[1] = seqs[1]
        BY <1>0, <1>9, <2>4, <3>1
      <4>2. QED
        BY <1>0, <3>1, <4>1
    <3>2. CASE n # 1
      <4>1. g[n - 1] = f[n - 1]
        BY <1>0, <2>6, <3>2
      <4>2. g[n] = f[n]
        BY <1>5, <2>4, <3>2, <4>1 DEF Joins
      <4>3. QED
        BY <1>0, <4>2
    <3>3. QED
      BY <3>1, <3>2
  <2>7. \A n \in 0..Len(seqs) : n \in P
    <3> HIDE DEF P
    <3>1. QED
      BY <1>0, <2>5, <2>6, UpTo
  <2>8. g[Len(seqs)] = f[Len(seqs)]
    BY <1>0, <1>7, <2>7
  <2>9. QED
    BY <1>3, <1>5, <2>3, <2>8
<1>8. QED
  BY <1>6, <1>7

\* Flattening with one more sequence at the end.
LEMMA FlattenGrows ==
  ASSUME NEW R, NEW seqs \in Seq(Seq(R)), NEW more \in Seq(Seq(R)),
         Len(more) = Len(seqs) + 1, \A n \in 1..Len(seqs) : more[n] = seqs[n]
  PROVE  /\ FlattenSeq(seqs) \in Seq(R)
         /\ FlattenSeq(more) = FlattenSeq(seqs) \o more[Len(seqs) + 1]
<1>0. Len(seqs) \in Nat /\ Len(more) \in Nat
  OBVIOUS
<1>1. PICK f : /\ f \in [0..Len(seqs) -> Seq(R)] /\ Joins(seqs, f)
               /\ FlattenSeq(seqs) = f[Len(seqs)]
  BY FlattenJoins
<1>2. PICK g : /\ g \in [0..Len(more) -> Seq(R)] /\ Joins(more, g)
               /\ FlattenSeq(more) = g[Len(more)]
  BY FlattenJoins
<1> DEFINE P == {n \in 0..Len(seqs) : g[n] = f[n]}
<1>3. 0 \in P
  BY <1>0, <1>1, <1>2 DEF Joins
<1>4. ASSUME NEW n \in 1..Len(seqs), n - 1 \in P PROVE n \in P
  <2>1. f[n] = f[n - 1] \o seqs[n]
    BY <1>1 DEF Joins
  <2>2. n \in 1..Len(more) /\ n \in 0..Len(seqs)
    BY <1>0
  <2>3. g[n] = g[n - 1] \o more[n]
    BY <1>2, <2>2 DEF Joins
  <2>4. g[n - 1] = f[n - 1]
    BY <1>4
  <2>5. QED
    BY <2>1, <2>2, <2>3, <2>4
<1>5. \A n \in 0..Len(seqs) : n \in P
  <2> HIDE DEF P
  <2>1. QED
    BY <1>0, <1>3, <1>4, UpTo
<1>6. g[Len(seqs)] = f[Len(seqs)] /\ f[Len(seqs)] \in Seq(R)
  <2>1. Len(seqs) \in 0..Len(seqs)
    BY <1>0
  <2>2. QED
    BY <1>1, <1>5, <2>1
<1>7. g[Len(more)] = g[Len(seqs)] \o more[Len(seqs) + 1]
  <2>1. Len(more) \in 1..Len(more) /\ Len(more) - 1 = Len(seqs)
    BY <1>0
  <2>2. g[Len(more)] = g[Len(more) - 1] \o more[Len(more)]
    BY <1>2, <2>1 DEF Joins
  <2>3. QED
    BY <2>1, <2>2
<1>8. QED
  BY <1>1, <1>2, <1>6, <1>7

\* Nothing flattens to nothing.
LEMMA FlattenNothing ==
  ASSUME NEW R, NEW seqs \in Seq(Seq(R)), \A n \in 1..Len(seqs) : seqs[n] = <<>>
  PROVE  FlattenSeq(seqs) = <<>>
<1>0. Len(seqs) \in Nat
  OBVIOUS
<1>1. PICK f : /\ f \in [0..Len(seqs) -> Seq(R)] /\ Joins(seqs, f)
               /\ FlattenSeq(seqs) = f[Len(seqs)]
  BY FlattenJoins
<1> DEFINE P == {n \in 0..Len(seqs) : f[n] = <<>>}
<1>2. 0 \in P
  BY <1>0, <1>1 DEF Joins
<1>3. ASSUME NEW n \in 1..Len(seqs), n - 1 \in P PROVE n \in P
  <2>1. f[n] = f[n - 1] \o seqs[n]
    BY <1>1 DEF Joins
  <2>2. f[n - 1] = <<>> /\ seqs[n] = <<>> /\ n \in 0..Len(seqs)
    BY <1>0, <1>3
  <2>3. <<>> \o <<>> = <<>>
    OBVIOUS
  <2>4. QED
    BY <2>1, <2>2, <2>3
<1>4. \A n \in 0..Len(seqs) : n \in P
  <2> HIDE DEF P
  <2>1. QED
    BY <1>0, <1>2, <1>3, UpTo
<1>5. Len(seqs) \in 0..Len(seqs)
  BY <1>0
<1>6. QED
  BY <1>1, <1>4, <1>5

\* The elements of a concatenation.
LEMMA Concat ==
  ASSUME NEW R, NEW s \in Seq(R), NEW t \in Seq(R)
  PROVE  /\ s \o t \in Seq(R) /\ Len(s \o t) = Len(s) + Len(t)
         /\ \A i \in 1..Len(s) : (s \o t)[i] = s[i]
         /\ \A i \in 1..Len(t) : (s \o t)[Len(s) + i] = t[i]
OBVIOUS

\* Sequences with the same elements are equal.
LEMMA SameSeq ==
  ASSUME NEW R, NEW s \in Seq(R), NEW t \in Seq(R), Len(s) = Len(t),
         \A i \in 1..Len(s) : s[i] = t[i]
  PROVE  s = t
OBVIOUS

\* Filling up what was cut is cutting the whole.
LEMMA CutConcat ==
  ASSUME NEW R, NEW s \in Seq(R), NEW t \in Seq(R), NEW m \in Nat
  PROVE  Cut(s, m) \o Cut(t, m - Len(Cut(s, m))) = Cut(s \o t, m)
<1> DEFINE a == Cut(s, m)
           room == m - Len(a)
           b == Cut(t, room)
           w == s \o t
           c == Cut(w, m)
           d == a \o b
<1>1. Len(s) \in Nat /\ Len(t) \in Nat
  OBVIOUS
<1>2. a \in Seq(R) /\ Len(a) = (IF m < Len(s) THEN m ELSE Len(s))
      /\ \A i \in 1..Len(a) : a[i] = s[i]
  BY CutPart
<1> HIDE DEF a
<1>3. room \in Nat /\ Len(a) \in Nat /\ room = m - Len(a)
  BY <1>1, <1>2
<1> HIDE DEF room
<1>4. b \in Seq(R) /\ Len(b) = (IF room < Len(t) THEN room ELSE Len(t))
      /\ \A i \in 1..Len(b) : b[i] = t[i]
  BY <1>3, CutPart
<1> HIDE DEF b
<1>5. /\ w \in Seq(R) /\ Len(w) = Len(s) + Len(t)
      /\ \A i \in 1..Len(s) : w[i] = s[i]
      /\ \A i \in 1..Len(t) : w[Len(s) + i] = t[i]
  BY Concat
<1> HIDE DEF w
<1>6. c \in Seq(R) /\ Len(c) = (IF m < Len(w) THEN m ELSE Len(w))
      /\ \A i \in 1..Len(c) : c[i] = w[i]
  BY <1>5, CutPart
<1> HIDE DEF c
<1>7. /\ d \in Seq(R) /\ Len(d) = Len(a) + Len(b)
      /\ \A i \in 1..Len(a) : d[i] = a[i]
      /\ \A i \in 1..Len(b) : d[Len(a) + i] = b[i]
  <2>1. a \in Seq(R) /\ b \in Seq(R)
    BY <1>2, <1>4
  <2>2. QED
    BY <2>1, Concat
<1> HIDE DEF d
<1>8. Len(d) = Len(c) /\ Len(b) \in Nat /\ Len(c) \in Nat
  <2>1. Len(b) \in Nat /\ Len(c) \in Nat
    BY <1>4, <1>6
  <2>2. Len(b) = IF room < Len(t) THEN room ELSE Len(t)
    BY <1>4
  <2>3. Len(a) = IF m < Len(s) THEN m ELSE Len(s)
    BY <1>2
  <2>4. Len(c) = IF m < Len(s) + Len(t) THEN m ELSE Len(s) + Len(t)
    BY <1>5, <1>6
  <2>5. Len(d) = Len(a) + Len(b)
    BY <1>7
  <2>6. Len(a) + Len(b) = Len(c)
    <3>1. CASE m < Len(s)
      <4>1. Len(a) = m /\ Len(c) = m
        BY <1>1, <2>3, <2>4, <3>1
      <4>2. room = 0
        BY <1>3, <4>1
      <4>3. Len(b) = 0
        BY <1>1, <2>2, <4>2
      <4>4. QED
        BY <4>1, <4>3
    <3>2. CASE ~(m < Len(s))
      <4>1. Len(a) = Len(s)
        BY <2>3, <3>2
      <4>2. room = m - Len(s)
        BY <1>3, <4>1
      <4>3. QED
        BY <1>1, <2>1, <2>2, <2>4, <3>2, <4>1, <4>2
    <3>3. QED
      BY <3>1, <3>2
  <2>7. QED
    BY <2>1, <2>5, <2>6
<1>9. ASSUME NEW i \in 1..Len(c) PROVE d[i] = c[i]
  <2>1. i \in Nat /\ c[i] = w[i] /\ i <= m
    BY <1>1, <1>5, <1>6, <1>8
  <2>2. CASE i <= Len(a)
    <3>1. i \in 1..Len(a) /\ i \in 1..Len(s)
      BY <1>1, <1>2, <1>3, <2>1, <2>2
    <3>2. QED
      BY <1>2, <1>5, <1>7, <2>1, <3>1
  <2>3. CASE ~(i <= Len(a))
    <3>1. Len(a) = Len(s)
      BY <1>1, <1>2, <1>3, <2>1, <2>3
    <3>2. i - Len(a) \in 1..Len(b)
      BY <1>3, <1>7, <1>8, <2>1, <2>3
    <3>3. i - Len(a) \in 1..Len(t) /\ i = Len(a) + (i - Len(a))
      BY <1>1, <1>3, <1>4, <1>8, <2>1, <3>2
    <3> DEFINE j == i - Len(a)
    <3>4. j \in 1..Len(b) /\ j \in 1..Len(t) /\ i = Len(a) + j
      BY <3>2, <3>3
    <3> HIDE DEF j
    <3>5. d[i] = b[j] /\ b[j] = t[j] /\ w[i] = t[j]
      BY <1>4, <1>5, <1>7, <3>1, <3>4
    <3>6. QED
      BY <2>1, <3>5
  <2>4. QED
    BY <2>2, <2>3
<1>10. d = c
  BY <1>6, <1>7, <1>8, <1>9, SameSeq
<1>11. QED
  BY <1>10 DEF a, b, c, d, room, w

-----------------------------------------------------------------------------
\* The sample of the merged alerts.

\* The alerts of kind k of the merged chunks, chunk by chunk.
MergedAlerts(k) == [i \in 1..merged |-> AlertsOf(i)[k]]

\* The alerts of a chunk, scored or not, are sequences of announcements.
LEMMA AlertsTyped ==
  ASSUME ScanTypes
  PROVE  /\ \A i \in Positions : AlertsOf(i) \in Alerts
         /\ \A k \in Kinds : /\ MergedAlerts(k) \in Seq(Seq(Announcements))
                             /\ Len(MergedAlerts(k)) = merged
<1>1. ASSUME NEW i \in Positions PROVE AlertsOf(i) \in Alerts
  <2>1. NoAlerts \in Alerts
    <3>1. <<>> \in Seq(Announcements)
      OBVIOUS
    <3>2. QED
      BY <3>1 DEF NoAlerts, Alerts
  <2>2. QED
    BY <2>1 DEF AlertsOf, ScanTypes
<1>2. ASSUME NEW k \in Kinds
      PROVE  MergedAlerts(k) \in Seq(Seq(Announcements)) /\ Len(MergedAlerts(k)) = merged
  <2>1. merged \in Nat /\ \A i \in 1..merged : i \in Positions
    BY SizesAssumption DEF ScanTypes, Positions
  <2>2. \A i \in 1..merged : AlertsOf(i)[k] \in Seq(Announcements)
    BY <1>1, <2>1 DEF Alerts
  <2>3. QED
    BY <2>1, <2>2 DEF MergedAlerts
<1>3. QED
  BY <1>1, <1>2

\* What the invariant says of one kind of alert.
InOrder(k) == /\ sample[k] = Cut(FlattenSeq(MergedAlerts(k)), MaxSample)
              /\ counted[k] = Len(FlattenSeq(MergedAlerts(k)))

\* SampleInOrder, kind by kind.
LEMMA InOrderForAll == SampleInOrder <=> \A k \in Kinds : InOrder(k)
BY DEF SampleInOrder, InOrder, MergedAlerts

\* Merging the alerts of the next chunk in order keeps the sample in order.
LEMMA MergeKeepsOrder ==
  ASSUME ScanInv, ScanInv', SampleInOrder, UNCHANGED found,
         merged + 1 \in Positions, merged' = merged + 1, Merge(AlertsOf(merged + 1))
  PROVE  SampleInOrder'
<1> SUFFICES ASSUME NEW k \in Kinds PROVE InOrder(k)'
  BY DEF SampleInOrder, InOrder, MergedAlerts
<1>1. ScanTypes /\ ScanTypes' /\ Bounded /\ InOrder(k)
  BY InOrderForAll DEF ScanInv
<1> DEFINE seqs == MergedAlerts(k)
           more == MergedAlerts(k)'
           next == AlertsOf(merged + 1)[k]
<1>2. seqs \in Seq(Seq(Announcements)) /\ Len(seqs) = merged /\ merged \in Nat
  BY <1>1, AlertsTyped, SizesAssumption DEF ScanTypes
<1>4. next \in Seq(Announcements)
  BY <1>1, AlertsTyped DEF Alerts
<1>5. \A i : AlertsOf(i)' = AlertsOf(i)
  BY DEF AlertsOf
<1>6. more = [i \in 1..(merged + 1) |-> AlertsOf(i)[k]]
      /\ seqs = [i \in 1..merged |-> AlertsOf(i)[k]]
  BY <1>5 DEF MergedAlerts
<1>3. /\ more \in Seq(Seq(Announcements)) /\ Len(more) = merged + 1
      /\ more[merged + 1] = next /\ \A i \in 1..merged : more[i] = seqs[i]
  <2>1. \A i \in 1..(merged + 1) : i \in Positions
    BY <1>2, SizesAssumption DEF Positions
  <2>2. \A i \in 1..(merged + 1) : AlertsOf(i)[k] \in Seq(Announcements)
    BY <1>1, <2>1, AlertsTyped DEF Alerts
  <2> HIDE DEF seqs, more
  <2>3. QED
    BY <1>2, <1>6, <2>2
<1> HIDE DEF seqs, more, next
<1>7. FlattenSeq(seqs) \in Seq(Announcements)
      /\ FlattenSeq(more) = FlattenSeq(seqs) \o more[Len(seqs) + 1]
  BY <1>2, <1>3, FlattenGrows
<1> DEFINE all == FlattenSeq(seqs)
<1>8. all \in Seq(Announcements) /\ FlattenSeq(more) = all \o next
  BY <1>2, <1>3, <1>7
<1> HIDE DEF all
<1>9. sample[k] = Cut(all, MaxSample) /\ counted[k] = Len(all)
  BY <1>1 DEF InOrder, all, seqs
<1>10. /\ sample'[k] = sample[k] \o Cut(next, MaxSample - Len(sample[k]))
       /\ counted'[k] = counted[k] + Len(next)
  BY DEF Merge, next
<1>11. sample'[k] = Cut(all \o next, MaxSample)
  <2>1. Cut(all, MaxSample) \o Cut(next, MaxSample - Len(Cut(all, MaxSample)))
          = Cut(all \o next, MaxSample)
    BY <1>4, <1>8, SizesAssumption, CutConcat
  <2>2. QED
    BY <1>9, <1>10, <2>1
<1>12. counted'[k] = Len(all \o next)
  BY <1>4, <1>8, <1>9, <1>10, Concat
<1>13. sample'[k] = Cut(FlattenSeq(more), MaxSample) /\ counted'[k] = Len(FlattenSeq(more))
  BY <1>8, <1>11, <1>12
<1>14. QED
  BY <1>13 DEF InOrder, more

\* A chunk without alerts is merged by doing nothing.
LEMMA MergeNothing ==
  ASSUME ScanInv, UNCHANGED <<sample, counted>>
  PROVE  Merge(NoAlerts)
<1>1. ScanTypes /\ Bounded
  BY DEF ScanInv
<1>2. ASSUME NEW k \in Kinds
      PROVE  /\ sample[k] \o Cut(NoAlerts[k], MaxSample - Len(sample[k])) = sample[k]
             /\ counted[k] + Len(NoAlerts[k]) = counted[k]
  <2>1. sample[k] \in Seq(Announcements) /\ counted[k] \in Nat
        /\ MaxSample - Len(sample[k]) \in Nat
    BY <1>1, SizesAssumption DEF ScanTypes, Bounded
  <2>2. NoAlerts[k] = <<>> /\ Len(<<>>) = 0 /\ <<>> \in Seq(Announcements)
    BY DEF NoAlerts
  <2>3. \A n \in Nat : Cut(<<>>, n) = <<>>
    <3>1. \A n \in Nat : Cut(<<>>, n) \in Seq(Announcements) /\ Len(Cut(<<>>, n)) = 0
      <4>1. \A n \in Nat : Cut(<<>>, n) \in Seq(Announcements)
              /\ Len(Cut(<<>>, n)) = IF n < Len(<<>>) THEN n ELSE Len(<<>>)
        BY <2>2, CutPart
      <4>2. \A n \in Nat : ~(n < 0)
        OBVIOUS
      <4>3. QED
        BY <2>2, <4>1, <4>2
    <3>2. \A s \in Seq(Announcements) : Len(s) = 0 => s = <<>>
      OBVIOUS
    <3>3. QED
      BY <3>1, <3>2
  <2>4. \A s \in Seq(Announcements) : s \o <<>> = s
    OBVIOUS
  <2>5. Cut(NoAlerts[k], MaxSample - Len(sample[k])) = <<>>
    BY <2>1, <2>2, <2>3
  <2>6. sample[k] \o Cut(NoAlerts[k], MaxSample - Len(sample[k])) = sample[k]
    BY <2>1, <2>4, <2>5
  <2>7. Len(NoAlerts[k]) = 0 /\ counted[k] + 0 = counted[k]
    BY <2>1, <2>2
  <2>8. QED
    BY <2>6, <2>7
<1>3. /\ sample = [k \in Kinds |-> sample[k] \o Cut(NoAlerts[k], MaxSample - Len(sample[k]))]
      /\ counted = [k \in Kinds |-> counted[k] + Len(NoAlerts[k])]
  BY <1>1, <1>2 DEF ScanTypes
<1>4. QED
  BY <1>3 DEF Merge

\* As long as nothing is merged, what was merged stays as it is.
LEMMA NothingMerged ==
  ASSUME ScanInv, SampleInOrder, FoundGrows, UNCHANGED <<merged, sample, counted>>
  PROVE  SampleInOrder'
<1> SUFFICES ASSUME NEW k \in Kinds PROVE InOrder(k)'
  BY DEF SampleInOrder, InOrder, MergedAlerts
<1>1. InOrder(k) /\ ScanTypes
  BY InOrderForAll DEF ScanInv
<1>2. \A i \in 1..merged : AlertsOf(i)' = AlertsOf(i)
  <2>1. \A i \in 1..merged : i \in Positions /\ ~(merged < i)
    BY <1>1, SizesAssumption DEF ScanTypes, Positions
  <2>2. \A i \in 1..merged : found'[i] = found[i]
    BY <2>1 DEF FoundGrows
  <2>3. QED
    BY <2>2 DEF AlertsOf
<1>3. MergedAlerts(k)' = MergedAlerts(k)
  BY <1>2 DEF MergedAlerts
<1>4. QED
  BY <1>1, <1>3 DEF InOrder

\* Every step of the scan keeps the sample in order.
THEOREM SampleStep ==
  ScanInv /\ SampleInOrder /\ [ScanNext]_scanVars => SampleInOrder'
<1> SUFFICES ASSUME ScanInv, SampleInOrder, [ScanNext]_scanVars PROVE SampleInOrder'
  OBVIOUS
<1>1. ScanInv' /\ FoundGrows /\ ScanTypes
  BY ScanStep, AlertsCome DEF ScanInv
<1>2. CASE MergeOldest
  <2>1. merged + 1 \in Positions /\ Head(pending) = merged + 1
    BY <1>2, MergeOldestStep
  <2>2. AlertsOf(merged + 1) = found[merged + 1] /\ Merge(found[merged + 1])
        /\ merged' = merged + 1 /\ UNCHANGED found
    BY <1>2, <2>1 DEF MergeOldest, AlertsOf
  <2>3. QED
    BY <1>1, <2>1, <2>2, MergeKeepsOrder
<1>3. CASE MergeNext
  <2>1. merged + 1 \in Positions /\ merged' = merged + 1 /\ UNCHANGED found
    BY <1>1, <1>3, SizesAssumption DEF MergeNext, ScanTypes, Positions
  <2>2. Merge(AlertsOf(merged + 1))
    <3>1. CASE found[merged + 1] = Unscored
      BY <1>3, <3>1, MergeNothing DEF MergeNext, AlertsOf
    <3>2. CASE found[merged + 1] # Unscored
      BY <1>3, <3>2 DEF MergeNext, AlertsOf
    <3>3. QED
      BY <3>1, <3>2
  <2>3. QED
    BY <1>1, <2>1, <2>2, MergeKeepsOrder
<1>4. CASE UNCHANGED <<merged, sample, counted>>
  BY <1>1, <1>4, NothingMerged
<1>5. MergeOldest \/ MergeNext \/ UNCHANGED <<merged, sample, counted>>
  BY DEF ScanNext, Submit, TakeChunk, Finish, BatchEnds, FeedChunk, SharedEnds, LightScan,
     LeakChunk, LeakEnds, Terminated, scanVars
<1>6. QED
  BY <1>2, <1>3, <1>4, <1>5

\* An empty sample is in order.
LEMMA SampleStarts == ScanInit => SampleInOrder
<1> SUFFICES ASSUME ScanInit, NEW k \in Kinds PROVE InOrder(k)
  BY InOrderForAll
<1>1. ScanTypes /\ Bounded
  BY ScanStarts DEF ScanInv
<1> DEFINE seqs == MergedAlerts(k)
<1>2. seqs \in Seq(Seq(Announcements)) /\ Len(seqs) = merged
  BY <1>1, AlertsTyped
<1>3. \A i \in 1..merged : seqs[i] = <<>>
  <2>1. \A i \in 1..merged : i \in 1..NumChunks
    BY <1>1, SizesAssumption DEF ScanTypes
  <2>2. \A i \in 1..merged : AlertsOf(i)[k] = <<>>
    BY <2>1 DEF ScanInit, AlertsOf, NoAlerts
  <2>3. QED
    BY <2>2 DEF MergedAlerts
<1> HIDE DEF seqs
<1>4. FlattenSeq(seqs) = <<>>
  BY <1>2, <1>3, FlattenNothing
<1>5. Cut(<<>>, MaxSample) = <<>> /\ Len(<<>>) = 0
  BY SizesAssumption DEF Cut
<1>6. sample[k] = <<>> /\ counted[k] = 0
  BY DEF ScanInit
<1>7. QED
  BY <1>4, <1>5, <1>6 DEF InOrder, seqs

\* Whatever the order in which the worker threads finish, the sample of each
\* kind is the beginning of its alerts in the order of the chunks, and every
\* alert of a merged chunk is counted once (detect_hijacks_batch,
\* finalize_hijack and merge_chunk_alerts).
THEOREM AlertsStayInOrder == ScanSpec => []SampleInOrder
<1>1. QED
  BY SampleStarts, SampleStep, ScanIsSound, PTL DEF ScanSpec

-----------------------------------------------------------------------------
\* The leaks of the shared scan.

LeakTable(n, chunks, f) ==
  f = [i \in 0..n |-> IF i = 0 THEN 0
                      ELSE f[i - 1] + (IF i \in chunks THEN LeaksOf(i) ELSE 0)]

\* f[i] is the number of leaks in those of the first i chunks that are counted.
LeakSums(n, chunks, f) ==
  /\ f[0] = 0
  /\ \A i \in 1..n : f[i] = f[i - 1] + (IF i \in chunks THEN LeaksOf(i) ELSE 0)

\* The number of leaks is the last entry of its table.
LEMMA LeaksAreSummed ==
  ASSUME ScanTypes, NEW n \in 0..NumChunks, NEW chunks
  PROVE  \E f \in [0..n -> Nat] :
           LeakSums(n, chunks, f) /\ LeaksUpTo(n, chunks) = f[n]
<1>0. n \in Nat /\ \A i \in 1..n : LeaksOf(i) \in Nat
  <2>1. n \in Nat /\ \A i \in 1..n : i \in Positions
    BY SizesAssumption DEF Positions
  <2>2. QED
    BY <2>1, WindowRows
<1> DEFINE more(i) == IF i \in chunks THEN LeaksOf(i) ELSE 0
           step == [i \in 1..n |-> [v \in Nat |-> v + more(i)]]
<1>1. \A i \in 1..n : more(i) \in Nat
  BY <1>0
<1>2. step \in [1..n -> [Nat -> Nat]]
  <2> HIDE DEF more
  <2>1. QED
    BY <1>1
<1>3. \A i \in 1..n, v \in Nat : step[i][v] = v + more(i)
  OBVIOUS
<1> HIDE DEF step
<1>4. PICK f : f \in [0..n -> Nat] /\ f[0] = 0
                 /\ \A i \in 1..n : f[i] = step[i][f[i - 1]]
  <2>1. \E f : Table(f, n, Nat, 0, step)
    BY <1>0, <1>2, TableExists
  <2>2. QED
    BY <2>1 DEF Table
<1>5. LeakSums(n, chunks, f)
  <2>1. \A i \in 1..n : f[i - 1] \in Nat
    <3>1. \A i \in 1..n : i - 1 \in 0..n
      BY <1>0
    <3>2. QED
      BY <1>4, <3>1
  <2>2. QED
    BY <1>3, <1>4, <2>1 DEF LeakSums
<1>6. LeakTable(n, chunks, f)
  <2>1. \A i \in 0..n : f[i] = IF i = 0 THEN 0 ELSE f[i - 1] + more(i)
    <3>1. \A i \in 0..n : i = 0 \/ i \in 1..n
      BY <1>0
    <3>2. QED
      BY <1>5, <3>1 DEF LeakSums
  <2>2. f = [i \in 0..n |-> f[i]]
    BY <1>4
  <2>3. QED
    BY <2>1, <2>2 DEF LeakTable
<1> DEFINE g == CHOOSE h : LeakTable(n, chunks, h)
<1>7. LeakTable(n, chunks, g)
  BY <1>6
<1>8. LeaksUpTo(n, chunks) = g[n]
  BY DEF LeaksUpTo, LeakTable
<1> HIDE DEF g
<1>9. \A i \in 0..n : g[i] = IF i = 0 THEN 0 ELSE g[i - 1] + more(i)
  BY <1>7 DEF LeakTable
<1> DEFINE P == {i \in 0..n : g[i] = f[i]}
<1>10. 0 \in P
  BY <1>0, <1>4, <1>9
<1>11. ASSUME NEW i \in 1..n, i - 1 \in P PROVE i \in P
  <2>1. i \in 0..n /\ i # 0 /\ g[i - 1] = f[i - 1]
    BY <1>0, <1>11
  <2>2. g[i] = g[i - 1] + more(i) /\ f[i] = f[i - 1] + more(i)
    BY <1>5, <1>9, <2>1 DEF LeakSums
  <2>3. QED
    BY <2>1, <2>2
<1>12. \A i \in 0..n : i \in P
  <2> HIDE DEF P
  <2>1. QED
    BY <1>0, <1>10, <1>11, UpTo
<1>13. n \in 0..n
  BY <1>0
<1>14. QED
  BY <1>4, <1>5, <1>8, <1>12, <1>13

\* No leak is counted where no chunk is.
LEMMA NoLeaks ==
  ASSUME ScanTypes, NEW n \in 0..NumChunks, NEW chunks, \A i \in 1..n : i \notin chunks
  PROVE  LeaksUpTo(n, chunks) = 0
<1>0. n \in Nat
  BY SizesAssumption
<1>1. PICK f \in [0..n -> Nat] : LeakSums(n, chunks, f) /\ LeaksUpTo(n, chunks) = f[n]
  BY LeaksAreSummed
<1> DEFINE P == {i \in 0..n : f[i] = 0}
<1>2. 0 \in P
  BY <1>0, <1>1 DEF LeakSums
<1>3. ASSUME NEW i \in 1..n, i - 1 \in P PROVE i \in P
  <2>1. f[i] = f[i - 1] + 0 /\ f[i - 1] = 0 /\ i \in 0..n
    BY <1>0, <1>1, <1>3 DEF LeakSums
  <2>2. QED
    BY <2>1
<1>4. \A i \in 0..n : i \in P
  <2> HIDE DEF P
  <2>1. QED
    BY <1>0, <1>2, <1>3, UpTo
<1>5. n \in 0..n
  BY <1>0
<1>6. QED
  BY <1>1, <1>4, <1>5

\* Counting one chunk more.
LEMMA LeaksGrow ==
  ASSUME ScanTypes, NEW n \in 0..NumChunks, n + 1 \in 0..NumChunks, NEW A, NEW B,
         \A i \in 1..n : i \in A <=> i \in B
  PROVE  /\ LeaksUpTo(n, A) \in Nat
         /\ LeaksUpTo(n + 1, B) =
              LeaksUpTo(n, A) + (IF n + 1 \in B THEN LeaksOf(n + 1) ELSE 0)
<1>0. n \in Nat /\ n \in 0..n /\ n + 1 \in 1..(n + 1) /\ n \in 0..(n + 1)
  BY SizesAssumption
<1>1. PICK f \in [0..n -> Nat] : LeakSums(n, A, f) /\ LeaksUpTo(n, A) = f[n]
  BY LeaksAreSummed
<1>2. PICK g \in [0..(n + 1) -> Nat] :
        LeakSums(n + 1, B, g) /\ LeaksUpTo(n + 1, B) = g[n + 1]
  BY LeaksAreSummed
<1> DEFINE P == {i \in 0..n : g[i] = f[i]}
<1>3. 0 \in P
  BY <1>0, <1>1, <1>2 DEF LeakSums
<1>4. ASSUME NEW i \in 1..n, i - 1 \in P PROVE i \in P
  <2>1. i \in 1..(n + 1) /\ i \in 0..n /\ g[i - 1] = f[i - 1]
    BY <1>0, <1>4
  <2>2. g[i] = g[i - 1] + (IF i \in B THEN LeaksOf(i) ELSE 0)
    BY <1>2, <2>1 DEF LeakSums
  <2>3. f[i] = f[i - 1] + (IF i \in A THEN LeaksOf(i) ELSE 0)
    BY <1>1 DEF LeakSums
  <2>4. QED
    BY <2>1, <2>2, <2>3
<1>5. \A i \in 0..n : i \in P
  <2> HIDE DEF P
  <2>1. QED
    BY <1>0, <1>3, <1>4, UpTo
<1>6. g[n] = f[n]
  BY <1>0, <1>5
<1>7. g[n + 1] = g[n] + (IF n + 1 \in B THEN LeaksOf(n + 1) ELSE 0)
  <2>1. g[n + 1] = g[(n + 1) - 1] + (IF n + 1 \in B THEN LeaksOf(n + 1) ELSE 0)
    BY <1>0, <1>2 DEF LeakSums
  <2>2. (n + 1) - 1 = n
    BY <1>0
  <2>3. QED
    BY <2>1, <2>2
<1>8. QED
  BY <1>0, <1>1, <1>2, <1>6, <1>7

\* The leaks of a chunk are those of its window.
LEMMA SameLeaks ==
  ASSUME UNCHANGED window, NEW n, NEW chunks
  PROVE  LeaksUpTo(n, chunks)' = LeaksUpTo(n, chunks)
BY DEF LeaksUpTo, LeaksOf

-----------------------------------------------------------------------------
\* The chunks from the first to the last, in order.
Slice(first, last) == [n \in 1..last - first + 1 |-> first + n - 1]

FirstFor(d) == IF d = "outage" THEN 1 ELSE Baseline + 1

\* A slice with one chunk more, and the slices that are empty.
LEMMA SliceGrows ==
  ASSUME NEW first \in Nat, NEW last \in Nat
  PROVE  /\ last + 1 >= first => Slice(first, last + 1) = Append(Slice(first, last), last + 1)
         /\ last + 1 < first => Slice(first, last) = <<>> /\ Slice(first, last + 1) = <<>>
         /\ last + 1 = first => Slice(first, last) = <<>>
         /\ last + 1 \notin ToSet(Slice(first, last))
<1> DEFINE s == Slice(first, last)
           t == Slice(first, last + 1)
<1>1. /\ DOMAIN s = 1..(last - first + 1) /\ DOMAIN t = 1..((last + 1) - first + 1)
      /\ s = [n \in 1..(last - first + 1) |-> first + n - 1]
      /\ t = [n \in 1..((last + 1) - first + 1) |-> first + n - 1]
  BY DEF Slice
<1>2. \A n \in DOMAIN s : s[n] # last + 1
  BY <1>1
<1>3. ASSUME last + 1 >= first PROVE t = Append(s, last + 1)
  <2>1. PICK k \in Nat : k = last - first + 1
    BY <1>3
  <2>2. s = [n \in 1..k |-> first + n - 1] /\ t = [n \in 1..(k + 1) |-> first + n - 1]
    <3>1. (last + 1) - first + 1 = k + 1
      BY <2>1
    <3>2. QED
      BY <1>1, <2>1, <3>1
  <2>3. s \in Seq(Nat) /\ Len(s) = k /\ t \in Seq(Nat) /\ Len(t) = k + 1
    <3>1. \A n \in 1..k : first + n - 1 \in Nat
      BY <2>1
    <3>2. \A n \in 1..(k + 1) : first + n - 1 \in Nat
      BY <2>1
    <3> HIDE DEF s, t
    <3>3. QED
      BY <2>1, <2>2, <3>1, <3>2
  <2>4. \A n \in 1..k : t[n] = s[n]
    BY <2>1, <2>2
  <2>5. t[k + 1] = last + 1
    BY <2>1, <2>2
  <2> DEFINE u == Append(s, last + 1)
  <2>6. u \in Seq(Nat) /\ Len(u) = k + 1 /\ u[k + 1] = last + 1 /\ \A n \in 1..k : u[n] = s[n]
    <3> HIDE DEF s
    <3>1. last + 1 \in Nat
      OBVIOUS
    <3>2. QED
      BY <2>3, <3>1
  <2> HIDE DEF s, t, u
  <2>7. \A n \in 1..(k + 1) : n \in 1..k \/ n = k + 1
    BY <2>1
  <2>8. \A n \in 1..(k + 1) : t[n] = u[n]
    BY <2>4, <2>5, <2>6, <2>7
  <2>9. t = u
    BY <2>3, <2>6, <2>8, SameSeq
  <2>10. QED
    BY <2>9 DEF u
<1>4. ASSUME last + 1 < first PROVE s = <<>> /\ t = <<>>
  BY <1>1, <1>4
<1>5. ASSUME last + 1 = first PROVE s = <<>>
  BY <1>1, <1>5
<1>6. QED
  BY <1>2, <1>3, <1>4, <1>5 DEF ToSet

\* What the detectors were given, as slices of the window.
FedInOrder == \A d \in Detectors :
                fed[d] = IF d \in requested THEN Slice(FirstFor(d), pos) ELSE <<>>

LeaksAreRight ==
  /\ leaks.total = LeaksUpTo(pos, ToSet(fed["leak"]))
  /\ leaks.kept = IF leaks.total < MaxLeaks THEN leaks.total ELSE MaxLeaks

\* SharingIsInvisible, part by part.
LEMMA SharingInParts ==
  SharingIsInvisible <=>
    (way = "shared" /\ pc # "raised" /\ requested # {} => FedInOrder /\ LeaksAreRight)
BY DEF SharingIsInvisible, FedInOrder, LeaksAreRight, Slice, FirstFor

\* Feeding a chunk to those that want it keeps the slices.
LEMMA FeedKeepsOrder ==
  ASSUME ScanInv, FeedChunk, pc' # "raised", FedInOrder
  PROVE  /\ FedInOrder'
         /\ \A d \in Detectors :
              fed'[d] = IF Feeds(d, pos + 1) THEN Append(fed[d], pos + 1) ELSE fed[d]
         /\ \A d \in Detectors : pos + 1 \notin ToSet(fed[d])
<1>1. ScanTypes /\ pos \in Nat /\ Baseline \in Nat /\ pos' = pos + 1 /\ requested' = requested
  BY SizesAssumption DEF ScanInv, ScanTypes, FeedChunk, request
<1>2. ASSUME NEW d \in Detectors
      PROVE  fed'[d] = IF Feeds(d, pos + 1) THEN Append(fed[d], pos + 1) ELSE fed[d]
  <2>1. ~(Quiet(pos + 1) /\ Feeds("leak", pos + 1))
    BY DEF FeedChunk
  <2>2. QED
    BY <2>1 DEF FeedChunk
<1>3. ASSUME NEW d \in Detectors
      PROVE  fed'[d] = IF d \in requested THEN Slice(FirstFor(d), pos + 1) ELSE <<>>
  <2>1. FirstFor(d) \in Nat
    BY <1>1 DEF FirstFor
  <2>2. Feeds(d, pos + 1) <=> d \in requested /\ pos + 1 >= FirstFor(d)
    BY <1>1 DEF Feeds, InEvent, FirstFor
  <2>3. CASE d \notin requested
    BY <1>2, <2>2, <2>3 DEF FedInOrder
  <2>4. CASE d \in requested /\ pos + 1 >= FirstFor(d)
    BY <1>1, <1>2, <2>1, <2>2, <2>4, SliceGrows DEF FedInOrder
  <2>5. CASE d \in requested /\ ~(pos + 1 >= FirstFor(d))
    <3>1. pos + 1 < FirstFor(d)
      BY <1>1, <2>1, <2>5
    <3>2. Slice(FirstFor(d), pos) = <<>> /\ Slice(FirstFor(d), pos + 1) = <<>>
      BY <1>1, <2>1, <3>1, SliceGrows
    <3>3. QED
      BY <1>2, <2>2, <2>5, <3>2 DEF FedInOrder
  <2>6. QED
    BY <2>3, <2>4, <2>5
<1>4. ASSUME NEW d \in Detectors PROVE pos + 1 \notin ToSet(fed[d])
  <2>1. FirstFor(d) \in Nat
    BY <1>1 DEF FirstFor
  <2>2. pos + 1 \notin ToSet(Slice(FirstFor(d), pos)) /\ pos + 1 \notin ToSet(<<>>)
    BY <1>1, <2>1, SliceGrows DEF ToSet
  <2>3. QED
    BY <2>2 DEF FedInOrder
<1>5. FedInOrder'
  BY <1>1, <1>3 DEF FedInOrder, Slice, FirstFor
<1>6. QED
  BY <1>2, <1>4, <1>5

\* And the leaks counted are those of the chunks that were given.
LEMMA FeedKeepsLeaks ==
  ASSUME ScanInv, FeedChunk, pc' # "raised", FedInOrder, LeaksAreRight
  PROVE  LeaksAreRight'
<1>1. /\ ScanTypes /\ pos \in 0..NumChunks /\ pos + 1 \in 0..NumChunks /\ pos + 1 \in Positions
      /\ pos' = pos + 1 /\ window' = window /\ "leak" \in Detectors
  BY SizesAssumption DEF ScanInv, ScanTypes, FeedChunk, request, Detectors, Positions
<1> DEFINE i == pos + 1
           A == ToSet(fed["leak"])
           B == ToSet(fed'["leak"])
           n == LeaksOf(i)
           given == Feeds("leak", i)
<1>2. B = (IF given THEN A \cup {i} ELSE A) /\ i \notin A
  <2>1. fed["leak"] \in Seq(Positions)
    BY <1>1 DEF ScanTypes
  <2>2. ToSet(Append(fed["leak"], i)) = A \cup {i}
    BY <1>1, <2>1, AppendToSet
  <2>3. QED
    BY <1>1, <2>2, FeedKeepsOrder
<1>3. \A j \in 1..pos : j \in A <=> j \in B
  <2>1. \A j \in 1..pos : j # i
    BY <1>1, SizesAssumption
  <2> HIDE DEF A, B, i, given
  <2>2. QED
    BY <1>2, <2>1
<1>4. n \in Nat
  BY <1>1, WindowRows
<1>5. /\ LeaksUpTo(pos, A) \in Nat
      /\ LeaksUpTo(pos + 1, B) = LeaksUpTo(pos, A) + (IF pos + 1 \in B THEN n ELSE 0)
  <2> HIDE DEF A, B
  <2>1. \A C, D : (\A j \in 1..pos : j \in C <=> j \in D) =>
          /\ LeaksUpTo(pos, C) \in Nat
          /\ LeaksUpTo(pos + 1, D) = LeaksUpTo(pos, C)
                                       + (IF pos + 1 \in D THEN LeaksOf(pos + 1) ELSE 0)
    BY <1>1, LeaksGrow
  <2>2. QED
    BY <1>3, <2>1
<1>6. LeaksUpTo(pos, ToSet(fed["leak"]))' = LeaksUpTo(pos + 1, B)
  BY <1>1 DEF LeaksUpTo, LeaksOf
<1>7. leaks.total = LeaksUpTo(pos, A)
      /\ leaks.kept = IF leaks.total < MaxLeaks THEN leaks.total ELSE MaxLeaks
  BY DEF LeaksAreRight
<1>8. IF given
      THEN leaks' = [kept  |-> leaks.kept + (IF n < MaxLeaks - leaks.kept
                                             THEN n ELSE MaxLeaks - leaks.kept),
                     total |-> leaks.total + n]
      ELSE leaks' = leaks
  <2>1. ~(Quiet(i) /\ given)
    BY DEF FeedChunk
  <2>2. QED
    BY <2>1 DEF FeedChunk, KeepLeaks
<1> HIDE DEF A, B, i, n, given
<1>9. i \in B <=> given
  BY <1>2
<1>10. MaxLeaks \in Nat
  BY SizesAssumption
<1>11. /\ leaks'.total = LeaksUpTo(pos + 1, B)
       /\ leaks'.kept = IF leaks'.total < MaxLeaks THEN leaks'.total ELSE MaxLeaks
  <2>1. CASE given
    BY <1>4, <1>5, <1>7, <1>8, <1>9, <1>10, <2>1 DEF i
  <2>2. CASE ~given
    BY <1>4, <1>5, <1>7, <1>8, <1>9, <1>10, <2>2 DEF i
  <2>3. QED
    BY <2>1, <2>2
<1>12. QED
  BY <1>6, <1>11 DEF LeaksAreRight

\* Every step of the scan keeps the detectors apart.
THEOREM SharingStep ==
  ScanInv /\ SharingIsInvisible /\ [ScanNext]_scanVars => SharingIsInvisible'
<1> SUFFICES ASSUME ScanInv, SharingIsInvisible, [ScanNext]_scanVars,
                    way' = "shared", pc' # "raised", requested' # {}
             PROVE  FedInOrder' /\ LeaksAreRight'
  BY DEF SharingIsInvisible, FedInOrder, LeaksAreRight, Slice, FirstFor
<1>1. UNCHANGED request
  BY AlertsCome
<1>2. way = "shared" /\ requested # {}
  BY <1>1 DEF request
<1>3. CASE FeedChunk
  <2>1. pc # "raised"
    BY <1>3 DEF FeedChunk
  <2>2. FedInOrder /\ LeaksAreRight
    BY <1>2, <2>1, SharingInParts
  <2>3. QED
    BY <1>3, <2>2, FeedKeepsOrder, FeedKeepsLeaks
<1>4. CASE UNCHANGED <<pos, fed, leaks>> /\ (pc = pc' \/ pc = "run")
  <2>1. FedInOrder /\ LeaksAreRight
    BY <1>2, <1>4, SharingInParts
  <2>2. FedInOrder'
    BY <1>1, <1>4, <2>1 DEF FedInOrder, Slice, FirstFor, request
  <2>3. LeaksUpTo(pos, ToSet(fed["leak"]))' = LeaksUpTo(pos, ToSet(fed["leak"]))
    BY <1>1, <1>4 DEF LeaksUpTo, LeaksOf, request
  <2>4. LeaksAreRight'
    BY <1>4, <2>1, <2>3 DEF LeaksAreRight
  <2>5. QED
    BY <2>2, <2>4
<1>5. FeedChunk \/ (UNCHANGED <<pos, fed, leaks>> /\ (pc = pc' \/ pc = "run"))
  BY <1>2 DEF ScanNext, Submit, TakeChunk, Finish, MergeOldest, BatchEnds, MergeNext,
     SharedEnds, LightScan, LeakChunk, LeakEnds, Terminated, scanVars
<1>6. QED
  BY <1>3, <1>4, <1>5

\* The detectors start with nothing.
LEMMA SharingStarts == ScanInit => SharingIsInvisible
<1> SUFFICES ASSUME ScanInit, requested # {} PROVE FedInOrder /\ LeaksAreRight
  BY SharingInParts
<1>1. ScanTypes
  BY ScanStarts DEF ScanInv
<1>2. pos \in Nat /\ Baseline \in Nat /\ pos = FirstChunk - 1 /\ fed = [d \in Detectors |-> <<>>]
      /\ pos \in 0..NumChunks
  BY <1>1, SizesAssumption DEF ScanInit, ScanTypes
<1>3. ASSUME NEW d \in Detectors, d \in requested PROVE Slice(FirstFor(d), pos) = <<>>
  <2>1. FirstFor(d) \in Nat /\ (pos + 1 = FirstFor(d) \/ pos + 1 < FirstFor(d))
    BY <1>2, <1>3, SizesAssumption DEF FirstFor, FirstChunk
  <2>2. QED
    BY <1>2, <2>1, SliceGrows
<1>4. FedInOrder
  BY <1>2, <1>3 DEF FedInOrder
<1>5. fed["leak"] = <<>>
  BY <1>2 DEF Detectors
<1>6. \A n : n \notin ToSet(fed["leak"])
  BY <1>5 DEF ToSet
<1>7. LeaksUpTo(pos, ToSet(fed["leak"])) = 0
  <2>1. \A C : (\A j \in 1..pos : j \notin C) => LeaksUpTo(pos, C) = 0
    BY <1>1, <1>2, NoLeaks
  <2>2. QED
    BY <1>6, <2>1
<1>8. leaks.kept = 0 /\ leaks.total = 0
  BY DEF ScanInit
<1>9. LeaksAreRight
  BY <1>7, <1>8, SizesAssumption DEF LeaksAreRight
<1>10. QED
  BY <1>4, <1>9

\* Sharing the reading is invisible: each detector is given the chunks of its
\* own window, in order, and the leaks counted and kept are those of the chunks
\* the leak detector was given (SharedUpdateScan.run and its consumers).
THEOREM SharingStaysInvisible == ScanSpec => []SharingIsInvisible
<1>1. QED
  BY SharingStarts, SharingStep, ScanIsSound, PTL DEF ScanSpec
=============================================================================
