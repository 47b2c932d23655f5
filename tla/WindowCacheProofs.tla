-------------------------- MODULE WindowCacheProofs --------------------------
(* The theorems about WindowCache, for every set of processes and every number *)
(* of deaths.                                                                  *)
EXTENDS WindowCache, TLAPS

Contents == {"absent", "empty", "part", "whole"}
Locals == [pc : Places, job : Jobs, src : Sources,
           held : {"absent", "empty", "hollow", "part", "announced", "whole"}]
Metas == [version : {"none", "old", "current"}, source : Sources,
          fresh : BOOLEAN, rows : {"unknown", "zero", "some"}]

\* What p has read is what its place lets it read.
Fits(r) ==
  /\ r.pc \in {"decoding", "unpacking"} => r.held \notin {"hollow", "announced"}
  /\ r.pc = "publish" => r.held \in {"part", "whole"}
HeldOK == \A p \in Procs : Fits(proc[p])

\* The type invariant in three parts, made inductive.
ProcInv == proc \in [Procs -> Locals] /\ HeldOK
FileInv == file \in [Sources -> Contents] /\ writer \in [Sources -> Procs \cup {None}]
Rows == {"absent", "hollow", "part", "announced", "whole"}
CacheInv == /\ parquet \in Rows /\ meta \in Metas
            /\ crashes \in 0..MaxCrashes /\ disturbed \in BOOLEAN
TypeInv == ProcInv /\ FileInv /\ CacheInv

LEMMA TypeInvIsTypeOK == TypeInv => TypeOK
  BY DEF TypeInv, ProcInv, FileInv, CacheInv, TypeOK, Locals, Metas, Contents, Rows

\* The places that let p hold anything.
Free == Places \ {"publish", "decoding", "unpacking"}

LEMMA GotoTyped ==
  ASSUME ProcInv, NEW p \in Procs, NEW to \in Free \cup {"stamp"}, Goto(p, to)
  PROVE  ProcInv'
<1> DEFINE r == IF to = "idle" THEN Idle ELSE [proc[p] EXCEPT !.pc = to]
<1>1. r \in Locals /\ Fits(r)
  BY DEF ProcInv, Locals, Idle, Places, Jobs, Sources, Fits, Free
<1>2. proc' = [proc EXCEPT ![p] = r]
  BY DEF Goto
<1> QED BY <1>1, <1>2 DEF ProcInv, HeldOK

LEMMA UseTyped ==
  ASSUME ProcInv, NEW p \in Procs, NEW s \in Sources, NEW to \in Free, Use(p, s, to)
  PROVE  ProcInv'
<1> DEFINE r == [proc[p] EXCEPT !.pc = to, !.src = s]
<1>1. r \in Locals /\ Fits(r)
  BY DEF ProcInv, Locals, Fits, Free
<1>2. proc' = [proc EXCEPT ![p] = r]
  BY DEF Use
<1> QED BY <1>1, <1>2 DEF ProcInv, HeldOK

LEMMA HoldTyped ==
  ASSUME ProcInv, NEW p \in Procs, NEW c \in Contents,
         NEW to \in {"decoding", "unpacking", "publish"}, Hold(p, c, to),
         to = "publish" => c \in {"part", "whole"}
  PROVE  ProcInv'
<1> DEFINE r == [proc[p] EXCEPT !.pc = to, !.held = c]
<1>1. r \in Locals /\ Fits(r)
  BY DEF ProcInv, Locals, Fits, Places, Contents
<1>2. proc' = [proc EXCEPT ![p] = r]
  BY DEF Hold
<1> QED BY <1>1, <1>2 DEF ProcInv, HeldOK

LEMMA TouchTyped ==
  ASSUME FileInv, CacheInv, NEW s \in Sources, NEW c \in Contents,
         NEW w \in Procs \cup {None}, Touch(s, c, w)
  PROVE  FileInv' /\ meta' \in Metas
<1>1. FileInv'
  BY DEF FileInv, Touch
<1>2. meta' \in Metas
  BY DEF CacheInv, Metas, Touch
<1> QED BY <1>1, <1>2

LEMMA WriteMetaTyped ==
  ASSUME CacheInv, NEW s \in Sources, NEW c \in {"zero", "some"}, WriteMeta(s, c)
  PROVE  meta' \in Metas
<1>1. (file[s] # "absent") \in BOOLEAN
  OBVIOUS
<1>2. \A f \in BOOLEAN :
        [version |-> "current", source |-> s, fresh |-> f, rows |-> c] \in Metas
  BY DEF Metas
<1> QED BY <1>1, <1>2 DEF CacheInv, WriteMeta

LEMMA CallersTyped ==
  ASSUME NEW p \in Procs
  PROVE  Without(p) \in Free /\ With(p) \in Free /\ Fetched(p) \in Free
  BY DEF Without, With, Fetched, Free, Places

LEMMA InitTyped == Init => TypeInv
<1> SUFFICES ASSUME Init PROVE TypeInv
  OBVIOUS
<1>1. ProcInv
  BY DEF Init, ProcInv, HeldOK, Fits, Idle, Locals, Places, Jobs, Sources
<1>2. FileInv
  BY DEF Init, FileInv, Contents
<1>3. NoMeta \in Metas
  BY DEF NoMeta, Metas, Sources
<1>5. [version : {"old", "current"}, source : Sources, fresh : BOOLEAN,
       rows : {"unknown", "zero", "some"}] \subseteq Metas
  BY DEF Metas
<1>6. parquet \in Rows /\ meta \in Metas
  BY <1>3, <1>5 DEF Init, Rows
<1>7. crashes \in 0..MaxCrashes
  BY CacheAssumption DEF Init
<1>8. disturbed \in BOOLEAN
  BY DEF Init
<1>4. CacheInv
  BY <1>6, <1>7, <1>8 DEF CacheInv
<1> QED BY <1>1, <1>2, <1>4 DEF TypeInv

LEMMA StepTyped == TypeInv /\ [Next]_vars => TypeInv'
<1> SUFFICES ASSUME TypeInv, [Next]_vars PROVE TypeInv'
  OBVIOUS
<1>a. ProcInv /\ FileInv /\ CacheInv
  BY DEF TypeInv
<1>b. Free \subseteq Places
  BY DEF Free
<1>c. /\ "txt" \in Sources /\ "gz" \in Sources
      /\ Contents = {"absent", "empty", "part", "whole"}
      /\ \A w \in {"idle", "probe", "load", "build", "fetch", "decode", "unpack", "parse",
                   "fetching", "none", "stamp", "rebuild", "other", "evict", "unlink",
                   "count", "note", "sweep", "delete"} : w \in Free
  BY DEF Sources, Contents, Free, Places
<1> USE DEF files, cache
<1>1. CASE UNCHANGED vars
  BY <1>1, <1>a DEF vars, TypeInv, ProcInv, HeldOK, FileInv, CacheInv
<1>2. ASSUME NEW p \in Procs, NEW j \in Jobs, Begin(p, j) PROVE TypeInv'
  <2> DEFINE to == CASE j = "purge" -> "sweep" [] j = "repair" -> "evict"
                     [] j = "record" -> "count" [] OTHER -> "probe"
             r == [proc[p] EXCEPT !.job = j, !.pc = to]
  <2>1. to \in Free
    BY <1>c
  <2>2. r \in Locals /\ Fits(r)
    BY <2>1, <1>a DEF ProcInv, Locals, Fits, Free
  <2>3. proc' = [proc EXCEPT ![p] = r]
    BY <1>2 DEF Begin
  <2>4. ProcInv'
    BY <2>2, <2>3, <1>a DEF ProcInv, HeldOK
  <2> QED BY <2>4, <1>2, <1>a DEF Begin, TypeInv, FileInv, CacheInv
<1>3. ASSUME NEW p \in Procs, Crash(p) PROVE TypeInv'
  <2>1. ProcInv'
    BY <1>3, <1>a, <1>c, GotoTyped DEF Crash
  <2>2. FileInv'
    BY <1>3, <1>a DEF Crash, FileInv
  <2>3. CacheInv'
    BY <1>3, <1>a, CacheAssumption DEF Crash, CacheInv
  <2> QED BY <2>1, <2>2, <2>3 DEF TypeInv
<1>4. ASSUME NEW p \in Procs, Step(p) PROVE TypeInv'
  <2>a. proc[p] \in Locals /\ Fits(proc[p]) /\ proc[p].src \in Sources
    BY <1>a DEF ProcInv, HeldOK, Locals
  <2>b. file["gz"] \in Contents /\ file["txt"] \in Contents
    BY <1>a, <1>c DEF FileInv
  <2>1. ProcInv'
    <3>1. CASE Probe(p) \/ Fetch(p) \/ FetchMore(p) \/ FetchEnd(p) \/ FetchFail(p)
      BY <3>1, <1>a, <1>c, GotoTyped, UseTyped, CallersTyped
         DEF Probe, Fetch, FetchMore, FetchEnd, FetchFail, ProcInv, HeldOK
    <3>2. CASE DecodeOpen(p)
      BY <3>2, <1>a, <2>b, HoldTyped DEF DecodeOpen
    <3>3. CASE DecodeMore(p) \/ DecodeEnd(p) \/ DecodeFail(p)
      BY <3>3, <1>a, <1>c, GotoTyped, UseTyped
         DEF DecodeMore, DecodeEnd, DecodeFail, ProcInv, HeldOK
    <3>4. CASE Build(p) \/ NoFrame(p) \/ Publish(p) \/ Stamp(p)
      BY <3>4, <1>a, <1>c, GotoTyped, CallersTyped DEF Build, NoFrame, Publish, Stamp
    <3>5. CASE Parse(p)
      BY <3>5, <1>a, <2>b, HoldTyped, GotoTyped, CallersTyped DEF Parse, Filled
    <3>6. CASE Load(p)
      <4>1. CASE Goto(p, "idle")
        BY <4>1, <1>a, <1>c, GotoTyped
      <4>2. CASE proc' = [proc EXCEPT ![p].pc = "rebuild", ![p].job = "again"]
        <5> DEFINE r == [proc[p] EXCEPT !.pc = "rebuild", !.job = "again"]
        <5>1. r \in Locals /\ Fits(r)
          BY <2>a DEF Locals, Fits, Places, Jobs
        <5>2. proc' = [proc EXCEPT ![p] = r]
          BY <4>2
        <5> QED BY <5>1, <5>2, <1>a DEF ProcInv, HeldOK
      <4> QED BY <3>6, <4>1, <4>2 DEF Load
    <3>7. CASE Rebuild(p) \/ EvictMeta(p) \/ EvictCache(p)
      BY <3>7, <1>a, <1>c, GotoTyped, UseTyped
         DEF Rebuild, EvictMeta, EvictCache, Origin
    <3>8. CASE Count(p)
      <4>1. CASE Goto(p, "idle")
        BY <4>1, <1>a, <1>c, GotoTyped
      <4>2. CASE proc' = [proc EXCEPT ![p].pc = "note", ![p].src = meta.source,
                                     ![p].held = parquet]
        <5> DEFINE r == [proc[p] EXCEPT !.pc = "note", !.src = meta.source, !.held = parquet]
        <5>0. meta.source \in Sources
          BY <1>a DEF CacheInv, Metas
        <5>1. r \in Locals /\ Fits(r)
          BY <5>0, <2>a, <1>a DEF Locals, Fits, Places, CacheInv, Rows
        <5>2. proc' = [proc EXCEPT ![p] = r]
          BY <4>2
        <5> QED BY <5>1, <5>2, <1>a DEF ProcInv, HeldOK
      <4> QED BY <3>8, <4>1, <4>2 DEF Count
    <3>9. CASE Note(p) \/ Sweep(p) \/ Delete(p)
      BY <3>9, <1>a, <1>c, GotoTyped DEF Note, Sweep, Delete
    <3> QED BY <1>4, <3>1, <3>2, <3>3, <3>4, <3>5, <3>6, <3>7, <3>8, <3>9 DEF Step
  <2>2. FileInv' /\ meta' \in Metas
    <3>1. CASE UNCHANGED <<files, meta>>
      BY <3>1, <1>a DEF FileInv, CacheInv
    <3>2. CASE \E s \in Sources, c \in Contents, w \in {p, None} : Touch(s, c, w)
      BY <3>2, <1>a, TouchTyped
    <3>3. CASE UNCHANGED files /\ \E s \in Sources, c \in {"zero", "some"} : WriteMeta(s, c)
      BY <3>3, <1>a, WriteMetaTyped DEF FileInv
    <3>4. CASE UNCHANGED files /\ meta' = NoMeta
      BY <3>4, <1>a, <1>c DEF FileInv, NoMeta, Metas
    <3>5. CASE Fetch(p) \/ FetchMore(p) \/ FetchEnd(p) \/ FetchFail(p)
      BY <3>5, <3>1, <3>2, <1>c DEF Fetch, FetchMore, FetchEnd, FetchFail
    <3>6. CASE DecodeOpen(p) \/ DecodeMore(p) \/ DecodeFail(p) \/ Delete(p)
      BY <3>6, <3>1, <3>2, <1>c DEF DecodeOpen, DecodeMore, DecodeFail, Delete
    <3>7. CASE DecodeEnd(p)
      <4>1. proc[p].held \in Contents
        BY <3>7, <2>a, <1>c DEF DecodeEnd, Decoding, At, Locals, Fits
      <4> QED BY <4>1, <3>7, <3>1, <3>2, <1>c DEF DecodeEnd
    <3>8. CASE Stamp(p) \/ Note(p)
      BY <3>8, <3>3, <2>a DEF Stamp, Note
    <3>9. CASE EvictMeta(p)
      BY <3>9, <3>1, <3>4 DEF EvictMeta
    <3>10. CASE Probe(p) \/ Build(p) \/ Parse(p) \/ NoFrame(p) \/ Publish(p) \/ Load(p)
                \/ Rebuild(p) \/ EvictCache(p) \/ Count(p) \/ Sweep(p)
      BY <3>10, <3>1
         DEF Probe, Build, Parse, NoFrame, Publish, Load, Rebuild, EvictCache, Count, Sweep
    <3> QED BY <1>4, <3>5, <3>6, <3>7, <3>8, <3>9, <3>10 DEF Step
  <2>3. parquet' \in Rows /\ UNCHANGED <<crashes, disturbed>>
    <3>1. CASE Publish(p)
      BY <3>1, <2>a DEF Publish, At, Fits, Rows
    <3>2. CASE EvictCache(p)
      BY <3>2 DEF EvictCache, Rows
    <3>3. CASE UNCHANGED <<parquet, crashes, disturbed>>
      BY <3>3, <1>a DEF CacheInv
    <3> QED
      BY <1>4, <3>1, <3>2, <3>3
         DEF Step, Probe, Fetch, FetchMore, FetchEnd, FetchFail, DecodeOpen, DecodeMore,
             DecodeEnd, DecodeFail, Build, Parse, NoFrame, Stamp, Load, Rebuild, EvictMeta,
             Count, Note, Sweep, Delete
  <2> QED BY <2>1, <2>2, <2>3, <1>a DEF TypeInv, CacheInv
<1> QED BY <1>1, <1>2, <1>3, <1>4 DEF Next

\* The files, the cache and the processes keep their types.
THEOREM TypeCorrect == Spec => []TypeOK
<1>1. Init => TypeInv
  BY InitTyped
<1>2. TypeInv /\ [Next]_vars => TypeInv'
  BY StepTyped
<1>3. TypeInv => TypeOK
  BY TypeInvIsTypeOK
<1> QED BY <1>1, <1>2, <1>3, PTL DEF Spec
-----------------------------------------------------------------------------
\* A hollow cache comes into being nowhere: what is published has rows.
THEOREM NothingHollow == Spec => NeverHollowed
<1>1. TypeInv /\ [Next]_vars => (parquet' = "hollow" => parquet = "hollow")
  <2> SUFFICES ASSUME TypeInv, [Next]_vars, parquet' = "hollow" PROVE parquet = "hollow"
    OBVIOUS
  <2>1. CASE UNCHANGED parquet
    BY <2>1
  <2>2. ASSUME NEW p \in Procs, Publish(p) PROVE FALSE
    <3>1. proc[p].held \in {"part", "whole"}
      BY <2>2 DEF TypeInv, ProcInv, HeldOK, Fits, Publish, At
    <3> QED BY <3>1, <2>2 DEF Publish
  <2>3. ASSUME NEW p \in Procs, EvictCache(p) PROVE FALSE
    BY <2>3 DEF EvictCache
  <2> QED
    BY <2>1, <2>2, <2>3
       DEF Next, Step, vars, cache, Begin, Crash, Probe, Fetch, FetchMore, FetchEnd, FetchFail,
           DecodeOpen, DecodeMore, DecodeEnd, DecodeFail, Build, Parse, NoFrame, Stamp, Load,
           Rebuild, EvictMeta, Count, Note, Sweep, Delete
<1>2. Init => TypeInv
  BY InitTyped
<1>3. TypeInv /\ [Next]_vars => TypeInv'
  BY StepTyped
<1> QED BY <1>1, <1>2, <1>3, PTL DEF Spec, NeverHollowed

-----------------------------------------------------------------------------
\* A step of p leaves the others where they are.
LEMMA OthersStay ==
  ASSUME TypeInv, NEW p \in Procs, Step(p)
  PROVE  \A q \in Procs \ {p} : proc'[q] = proc[q]
<1>1. proc \in [Procs -> Locals]
  BY DEF TypeInv, ProcInv
<1>2. UNCHANGED proc \/ \E r : proc' = [proc EXCEPT ![p] = r]
  BY DEF Step, Probe, Fetch, FetchMore, FetchEnd, FetchFail, DecodeOpen, DecodeMore, DecodeEnd,
         DecodeFail, Build, Parse, NoFrame, Publish, Stamp, Load, Rebuild, EvictMeta,
         EvictCache, Count, Note, Sweep, Delete, Goto, Use, Hold
<1> QED BY <1>1, <1>2

\* What a move of p makes of p's own state.
LEMMA Moves ==
  ASSUME TypeInv, NEW p \in Procs
  PROVE  /\ \A to : Goto(p, to) =>
              /\ proc'[p].pc = to
              /\ to # "idle" => proc'[p].held = proc[p].held /\ proc'[p].src = proc[p].src
         /\ \A to, s : Use(p, s, to) => proc'[p].pc = to /\ proc'[p].src = s
         /\ \A to, c : Hold(p, c, to) => proc'[p].pc = to /\ proc'[p].held = c
<1>1. proc \in [Procs -> [pc : Places, job : Jobs, src : Sources,
                          held : {"absent", "empty", "hollow", "part", "announced", "whole"}]]
  BY DEF TypeInv, ProcInv, Locals
<1>2. ASSUME NEW to, Goto(p, to)
      PROVE  /\ proc'[p].pc = to
             /\ to # "idle" => proc'[p].held = proc[p].held /\ proc'[p].src = proc[p].src
  <2>1. CASE to = "idle"
    BY <1>1, <1>2, <2>1 DEF Goto, Idle
  <2>2. CASE to # "idle"
    BY <1>1, <1>2, <2>2 DEF Goto
  <2> QED BY <2>1, <2>2
<1>3. \A to, s : Use(p, s, to) => proc'[p].pc = to /\ proc'[p].src = s
  BY <1>1 DEF Use
<1>4. \A to, c : Hold(p, c, to) => proc'[p].pc = to /\ proc'[p].held = c
  BY <1>1 DEF Hold
<1> QED BY <1>2, <1>3, <1>4

\* A cache without withdrawals never passes the version check, its metadata are
\* those of the old schema as long as its fingerprint counts, and nobody stands
\* where a cache is read or vouched for.
SchemaInv ==
  parquet = "announced" =>
    /\ meta.version # "current" /\ (meta.fresh => meta.version = "old")
    /\ \A p \in Procs : ~At(p, {"load", "stamp", "note"})

LEMMA InitSchema == Init => SchemaInv
  BY DEF Init, SchemaInv, At, Idle

\* Nobody makes such a cache, and who comes to one turns away from it.
LEMMA StepSchema == TypeInv /\ SchemaInv /\ [Next]_vars => SchemaInv'
<1> SUFFICES ASSUME TypeInv, SchemaInv, [Next]_vars, parquet' = "announced"
             PROVE  /\ meta'.version # "current" /\ (meta'.fresh => meta'.version = "old")
                    /\ \A p \in Procs : ~At(p, {"load", "stamp", "note"})'
  BY DEF SchemaInv
<1> DEFINE Turned == {"load", "stamp", "note"}
<1>a. proc \in [Procs -> Locals] /\ meta \in Metas
  BY DEF TypeInv, ProcInv, CacheInv
<1>1. parquet = "announced"
  <2>1. ASSUME NEW p \in Procs, Publish(p) PROVE FALSE
    BY <2>1 DEF TypeInv, ProcInv, HeldOK, Fits, Publish, At
  <2>2. ASSUME NEW p \in Procs, EvictCache(p) PROVE FALSE
    BY <2>2 DEF EvictCache
  <2> QED
    BY <2>1, <2>2
       DEF Next, Step, vars, cache, Begin, Crash, Probe, Fetch, FetchMore, FetchEnd, FetchFail,
           DecodeOpen, DecodeMore, DecodeEnd, DecodeFail, Build, Parse, NoFrame, Stamp, Load,
           Rebuild, EvictMeta, Count, Note, Sweep, Delete
<1>2. /\ ~VersionMatches /\ (meta.fresh => meta.version = "old")
      /\ \A p \in Procs : proc[p].pc \notin Turned
  BY <1>1 DEF SchemaInv, VersionMatches, At
<1>3. \A s \in Sources : ~CacheValid(s)
  BY <1>2 DEF CacheValid
<1>4. ASSUME NEW p \in Procs, Step(p)
      PROVE  /\ proc'[p].pc \notin Turned /\ \A q \in Procs \ {p} : proc'[q] = proc[q]
             /\ meta'.version # "current" /\ (meta'.fresh => meta'.version = "old")
  <2>1. \A q \in Procs \ {p} : proc'[q] = proc[q]
    BY <1>4, OthersStay
  <2>2. ~Load(p) /\ ~Stamp(p) /\ ~Note(p)
    BY <1>2 DEF Load, Stamp, Note, At
  <2>3. /\ meta.version # "current" /\ proc[p].src \in Sources
    BY <1>1, <1>a DEF SchemaInv, Locals
  <2>4. proc'[p].pc \notin Turned
    <3>1. CASE UNCHANGED proc
      BY <3>1, <1>2
    <3>2. CASE \E to \in Free \ Turned : Goto(p, to) \/ \E s \in Sources : Use(p, s, to)
      BY <3>2, Moves
    <3>3. CASE \E c : \E to \in {"decoding", "unpacking", "publish"} : Hold(p, c, to)
      BY <3>3, Moves
    <3>a. /\ "txt" \in Sources /\ "gz" \in Sources
          /\ \A w \in {"idle", "probe", "build", "fetch", "decode", "unpack", "parse", "other",
                       "fetching", "none", "rebuild", "evict", "unlink", "sweep", "delete"} :
                w \in Free \ Turned
          /\ Fetched(p) \in Free \ Turned /\ Without(p) \in Free \ Turned
      BY DEF Sources, Free, Places, Fetched, Without
    <3>4. CASE Probe(p)
      BY <3>4, <3>2, <3>a, <1>2 DEF Probe
    <3>5. CASE Fetch(p)
      BY <3>5, <3>2, <3>a DEF Fetch
    <3>6. CASE FetchMore(p) \/ FetchEnd(p) \/ FetchFail(p)
      BY <3>6, <3>1, <3>2, <3>a DEF FetchMore, FetchEnd, FetchFail
    <3>7. CASE DecodeOpen(p)
      BY <3>7, <3>3 DEF DecodeOpen
    <3>8. CASE DecodeMore(p) \/ DecodeEnd(p) \/ DecodeFail(p)
      BY <3>8, <3>1, <3>2, <3>a DEF DecodeMore, DecodeEnd, DecodeFail
    <3>9. CASE Build(p)
      BY <3>9, <3>2, <3>a, <1>3, <2>3 DEF Build
    <3>10. CASE Parse(p)
      BY <3>10, <3>2, <3>3, <3>a DEF Parse
    <3>11. CASE NoFrame(p) \/ Rebuild(p) \/ EvictCache(p) \/ Sweep(p) \/ Delete(p)
      BY <3>11, <3>2, <3>a DEF NoFrame, Rebuild, EvictCache, Sweep, Delete
    <3>12. CASE EvictMeta(p)
      BY <3>12, <3>2, <3>a DEF EvictMeta, Origin
    <3>13. CASE Count(p)
      BY <3>13, <3>2, <3>a, <1>2 DEF Count
    <3>14. ~Publish(p)
      BY <1>a DEF TypeInv, ProcInv, HeldOK, Fits, Publish, At
    <3> QED
      BY <1>4, <2>2, <3>4, <3>5, <3>6, <3>7, <3>8, <3>9, <3>10, <3>11, <3>12, <3>13, <3>14
         DEF Step
  <2>5. meta'.version # "current" /\ (meta'.fresh => meta'.version = "old")
    <3>1. CASE UNCHANGED meta
      BY <3>1, <1>2, <2>3
    <3>2. CASE \E s, c, w : Touch(s, c, w)
      BY <3>2, <1>2, <2>3, <1>a DEF Touch, Metas
    <3>3. CASE meta' = NoMeta
      BY <3>3 DEF NoMeta
    <3> QED
      BY <1>4, <2>2, <3>1, <3>2, <3>3
         DEF Step, files, cache, Probe, Fetch, FetchMore, FetchEnd, FetchFail, DecodeOpen,
             DecodeMore, DecodeEnd, DecodeFail, Build, Parse, NoFrame, Publish, Rebuild,
             EvictMeta, EvictCache, Count, Sweep, Delete
  <2> QED BY <2>1, <2>4, <2>5
<1>5. ASSUME NEW p \in Procs, NEW j \in Jobs, Begin(p, j)
      PROVE  /\ \A q \in Procs : proc'[q].pc \notin Turned
             /\ UNCHANGED meta
  BY <1>5, <1>a, <1>2 DEF Begin, Locals, cache
<1>6. ASSUME NEW p \in Procs, Crash(p)
      PROVE  /\ \A q \in Procs : proc'[q].pc \notin Turned
             /\ UNCHANGED meta
  BY <1>6, <1>a, <1>2 DEF Crash, Goto, Idle, cache
<1> QED
  BY <1>1, <1>2, <1>4, <1>5, <1>6 DEF Next, At, vars, SchemaInv

\* No reader takes a cache without withdrawals for the window, in whatever
\* interleaving of readers, rebuilds, repairs and row counts, and deaths.
THEOREM OldCachesAreNotRead == Spec => WithdrawalsAreRead
<1>1. Init => TypeInv /\ SchemaInv
  BY InitTyped, InitSchema
<1>2. TypeInv /\ SchemaInv /\ [Next]_vars => (TypeInv /\ SchemaInv)'
  BY StepTyped, StepSchema
<1>3. SchemaInv => \A p \in Procs : Load(p) => parquet # "announced"
  BY DEF SchemaInv, Load, At
<1> QED BY <1>1, <1>2, <1>3, PTL DEF Spec, WithdrawalsAreRead

-----------------------------------------------------------------------------
\* What an undisturbed window is like.  At most one process is at work on it, a
\* source is there in part only while that process writes it, and nothing that
\* has been read of one in part is ever on its way to the cache.
Alone == \A p, q \in Procs : ~At(p, {"idle"}) /\ ~At(q, {"idle"}) => p = q
Writing(p) ==
  /\ At(p, {"fetching"}) => writer["gz"] = p
  /\ Decoding(p) => writer["txt"] = p
Clean(p) ==
  /\ Decoding(p) => proc[p].held # "part"
  /\ At(p, {"publish"}) => proc[p].held = "whole"
  /\ At(p, {"stamp"}) => parquet = "whole"
  /\ At(p, {"delete"}) => \/ parquet = "whole"
                          \/ parquet = "announced" /\ meta.version = "old"
  /\ At(p, {"note"}) => (parquet = "hollow" => proc[p].src = "gz")
PartsOwned ==
  /\ file["gz"] = "part" => \E p \in Procs : At(p, {"fetching"})
  /\ file["txt"] = "part" => \E p \in Procs : Decoding(p)
Sound == parquet # "part" /\ (parquet = "hollow" => meta.source = "gz")
Calm == Alone /\ PartsOwned /\ Sound /\ \A p \in Procs : Writing(p) /\ Clean(p)

CalmInv == TypeInv /\ SchemaInv /\ (~disturbed => Calm)

LEMMA InitCalm == Init => Calm
  BY DEF Init, Calm, Alone, PartsOwned, Sound, Writing, Clean, At, Decoding, Idle, Sources, NoMeta

\* While the others are idle, what holds of p is all there is to say.
CalmAt(p) ==
  /\ Sound /\ Writing(p) /\ Clean(p)
  /\ file["gz"] = "part" => At(p, {"fetching"})
  /\ file["txt"] = "part" => Decoding(p)

LEMMA OnlyOne ==
  ASSUME NEW p \in Procs, \A q \in Procs \ {p} : proc[q].pc = "idle"
  PROVE  Calm <=> CalmAt(p)
  BY DEF Calm, CalmAt, Alone, PartsOwned, Writing, Clean, At, Decoding

\* What a write to a source makes of the files.
LEMMA Touches ==
  ASSUME TypeInv, NEW s \in Sources, NEW c, NEW w, Touch(s, c, w)
  PROVE  /\ file'[s] = c /\ writer'[s] = w /\ meta'.source = meta.source
         /\ \A t \in Sources \ {s} : file'[t] = file[t] /\ writer'[t] = writer[t]
  BY DEF TypeInv, FileInv, CacheInv, Metas, Touch

LEMMA StepCalm ==
  ASSUME TypeInv, SchemaInv, Calm, NEW p \in Procs, Step(p)
  PROVE  Calm'
<1>a. /\ proc \in [Procs -> Locals] /\ Fits(proc[p])
      /\ file \in [Sources -> Contents] /\ writer \in [Sources -> Procs \cup {None}]
      /\ "gz" \in Sources /\ "txt" \in Sources /\ meta \in Metas
  BY DEF TypeInv, ProcInv, HeldOK, FileInv, CacheInv, Sources
<1>b. ~At(p, {"idle"})
  BY DEF Step, Probe, Fetch, FetchMore, FetchEnd, FetchFail, DecodeOpen, DecodeMore, DecodeEnd,
         DecodeFail, Decoding, Build, Parse, NoFrame, Publish, Stamp, Load, Rebuild, EvictMeta,
         EvictCache, Count, Note, Sweep, Delete, At
<1>c. \A q \in Procs \ {p} : proc[q].pc = "idle" /\ proc'[q].pc = "idle"
  BY <1>b, OthersStay DEF Calm, Alone, At
<1>d. CalmAt(p)
  BY <1>c, OnlyOne
<1> SUFFICES CalmAt(p)'
  BY <1>c, OnlyOne DEF Calm, CalmAt, Alone, PartsOwned, Sound, Writing, Clean, At, Decoding
<1> HIDE DEF Calm
<1>e. "gz" # "txt" /\ "gz" \in Sources /\ "txt" \in Sources
  BY DEF Sources
<1> USE <1>a, <1>b, <1>d, <1>e, Moves, Touches
<1> USE DEF CalmAt, Sound, Writing, Clean, At, Decoding, files, cache
<1>1. CASE Probe(p)
  BY <1>1 DEF Probe, Job
<1>2. CASE Fetch(p)
  BY <1>2, CallersTyped DEF Fetch, Fetched
<1>3. CASE FetchMore(p)
  BY <1>3 DEF FetchMore
<1>4. CASE FetchEnd(p)
  BY <1>4 DEF FetchEnd, Fetched
<1>5. CASE FetchFail(p)
  BY <1>5 DEF FetchFail
<1>6. CASE DecodeOpen(p)
  BY <1>6 DEF DecodeOpen
<1>7. CASE DecodeMore(p)
  BY <1>7 DEF DecodeMore
<1>8. CASE DecodeEnd(p)
  BY <1>8 DEF DecodeEnd
<1>9. CASE DecodeFail(p)
  BY <1>9 DEF DecodeFail
<1>10. CASE Build(p)
  BY <1>10 DEF Build, With, Without
<1>11. CASE Parse(p)
  BY <1>11 DEF Parse, Without, Filled
<1>12. CASE NoFrame(p)
  BY <1>12 DEF NoFrame, Without
<1>13. CASE Publish(p)
  BY <1>13 DEF Publish
<1>14. CASE Stamp(p)
  BY <1>14 DEF Stamp, With, Without, WriteMeta
<1>15. CASE Load(p)
  BY <1>15 DEF Load, Locals
<1>16. CASE Rebuild(p)
  BY <1>16 DEF Rebuild
<1>17. CASE EvictMeta(p)
  BY <1>17 DEF EvictMeta, NoMeta
<1>18. CASE EvictCache(p)
  BY <1>18 DEF EvictCache
<1>19. CASE Count(p)
  BY <1>19 DEF Count, Locals
<1>20. CASE Note(p)
  BY <1>20 DEF Note, WriteMeta
<1>21. CASE Sweep(p)
  BY <1>21 DEF Sweep, TypeInv, CacheInv, Rows, SchemaInv
<1>22. CASE Delete(p)
  BY <1>22 DEF Delete
<1> QED
  BY <1>1, <1>2, <1>3, <1>4, <1>5, <1>6, <1>7, <1>8, <1>9, <1>10, <1>11, <1>12, <1>13, <1>14,
     <1>15, <1>16, <1>17, <1>18, <1>19, <1>20, <1>21, <1>22 DEF Step

LEMMA StepCalmInv == CalmInv /\ [Next]_vars => CalmInv'
<1> SUFFICES ASSUME CalmInv, [Next]_vars, ~disturbed' PROVE Calm'
  BY StepTyped, StepSchema DEF CalmInv
<1>1. CASE UNCHANGED vars
  BY <1>1 DEF vars, CalmInv, Calm, Alone, PartsOwned, Sound, Writing, Clean, At, Decoding
<1>2. ASSUME NEW p \in Procs, NEW j \in Jobs, Begin(p, j) PROVE Calm'
  <2>1. /\ Calm /\ TypeInv /\ \A q \in Procs : At(q, {"idle"})
    BY <1>2 DEF Begin, CalmInv
  <2>2. proc'[p].pc \in {"sweep", "evict", "count", "probe"}
    BY <1>2, <2>1 DEF Begin, TypeInv, ProcInv, Locals
  <2>3. \A q \in Procs \ {p} : proc[q].pc = "idle" /\ proc'[q].pc = "idle"
    BY <1>2, <2>1 DEF Begin, TypeInv, ProcInv, At
  <2>4. CalmAt(p)
    BY <2>1, <2>3, OnlyOne
  <2>5. CalmAt(p)'
    BY <1>2, <2>1, <2>2, <2>4 DEF CalmAt, Sound, Writing, Clean, At, Decoding, Begin, files, cache
  <2> QED
    BY <2>3, <2>5 DEF Calm, CalmAt, Alone, PartsOwned, Sound, Writing, Clean, At, Decoding
<1>3. ASSUME NEW p \in Procs, Crash(p) PROVE Calm'
  BY <1>3 DEF Crash
<1>4. ASSUME NEW p \in Procs, Step(p) PROVE Calm'
  <2>1. UNCHANGED disturbed
    BY <1>4
       DEF Step, Probe, Fetch, FetchMore, FetchEnd, FetchFail, DecodeOpen, DecodeMore,
           DecodeEnd, DecodeFail, Build, Parse, NoFrame, Publish, Stamp, Load, Rebuild,
           EvictMeta, EvictCache, Count, Note, Sweep, Delete
  <2> QED BY <1>4, <2>1, StepCalm DEF CalmInv
<1> QED BY <1>1, <1>2, <1>3, <1>4 DEF Next

\* Alone and without a death, whatever fails, the cache never holds a part of
\* the window.
THEOREM Whole == Spec => []UndisturbedIsWhole
<1>1. Init => CalmInv
  BY InitTyped, InitSchema, InitCalm DEF CalmInv
<1>2. CalmInv /\ [Next]_vars => CalmInv'
  BY StepCalmInv
<1>3. CalmInv => UndisturbedIsWhole
  BY DEF CalmInv, Calm, Sound, UndisturbedIsWhole
<1> QED BY <1>1, <1>2, <1>3, PTL DEF Spec

\* Alone and without a death, the cache has every announcement of the text a
\* purge deletes, and every withdrawal unless it is of the old schema.
THEOREM PurgeIsSafe == Spec => PurgeKeepsAnnouncements
<1>1. Init => CalmInv
  BY InitTyped, InitSchema, InitCalm DEF CalmInv
<1>2. CalmInv /\ [Next]_vars => CalmInv'
  BY StepCalmInv
<1>3. CalmInv => \A p \in Procs : Delete(p) /\ ~disturbed =>
                   \/ parquet = "whole"
                   \/ parquet = "announced" /\ meta.version = "old"
  BY DEF CalmInv, Calm, Clean, At, Delete
<1> QED BY <1>1, <1>2, <1>3, PTL DEF Spec, PurgeKeepsAnnouncements
=============================================================================
