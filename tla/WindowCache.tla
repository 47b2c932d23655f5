----------------------------- MODULE WindowCache -----------------------------
(***************************************************************************)
(* The files of one five-minute window (data/parquet_cache.py, with the    *)
(* download and the decoder of data/updates_loader.py) under several       *)
(* processes: readers, the scripts that warm, repair and annotate the      *)
(* cache, and the purge of decoded text.                                   *)
(*                                                                         *)
(* The archive file gz and the decoded text txt are written in place; the  *)
(* parquet file and its metadata are each replaced atomically, one after   *)
(* the other.  No process locks anything and any may die between two       *)
(* steps.  Two writers of one file follow one rule: the file is whole when *)
(* the process that truncated it last has finished, because whatever was   *)
(* written before is gone or overwritten with the same bytes.              *)
(***************************************************************************)
EXTENDS Naturals, FiniteSets

CONSTANTS
  Procs,       \* processes at work on the window
  MaxCrashes,  \* bound: deaths of processes
  None         \* nobody

ASSUME CacheAssumption ==
  /\ IsFiniteSet(Procs) /\ None \notin Procs
  /\ MaxCrashes \in Nat

Sources == {"txt", "gz"}
Jobs == {"read", "again", "warm", "repair", "record", "purge"}
NoMeta == [version |-> "none", source |-> "gz", fresh |-> FALSE, rows |-> "unknown"]
Idle == [pc |-> "idle", job |-> "read", src |-> "gz", held |-> "absent"]

VARIABLES
  file,     \* file[s]: "absent", "empty", "part", "whole"
  writer,   \* writer[s]: who truncated s last and may still be writing it
  parquet,  \* the rows in the parquet file: "absent", "hollow", "part", "whole",
            \* "announced": all announcements and no withdrawal (schema 1)
  meta,     \* its metadata; fresh: the fingerprint is the source's present one
  proc,     \* proc[p]: where p is, at which job ("again": a read that found no
            \* rows), the source it builds from, what it has read of a file
  crashes,  \* deaths so far
  disturbed \* history: a process has died, or two have been at work at once

files == <<file, writer>>
cache == <<parquet, meta>>
vars == <<file, writer, parquet, meta, proc, crashes, disturbed>>

\* A window as past versions have left it: nothing, a source, a good cache, one
\* of the old schema, without withdrawals and without a row count, or a hollow
\* one that passes the version check.
Init ==
  /\ file \in [Sources -> {"absent", "whole"}]
  /\ writer = [s \in Sources |-> None]
  /\ \/ parquet = "absent" /\ meta = NoMeta
     \/ /\ meta \in [version : {"old", "current"}, source : Sources,
                     fresh : BOOLEAN, rows : {"unknown", "zero", "some"}]
        /\ parquet \in {"hollow", IF meta.version = "old" THEN "announced" ELSE "whole"}
        /\ meta.fresh => file[meta.source] = "whole"
        /\ meta.version = "old" => meta.rows = "unknown"
        /\ IF parquet = "hollow" THEN meta.source = "gz" /\ meta.rows # "some"
                                 ELSE meta.rows # "zero"
  /\ proc = [p \in Procs |-> Idle]
  /\ crashes = 0 /\ disturbed = FALSE

At(p, places) == proc[p].pc \in places
Job(p) == proc[p].job
\* p goes on; one that has nothing left to do forgets what it held.
Goto(p, to) ==
  proc' = [proc EXCEPT ![p] = IF to = "idle" THEN Idle ELSE [@ EXCEPT !.pc = to]]
Use(p, s, to) == proc' = [proc EXCEPT ![p] = [@ EXCEPT !.pc = to, !.src = s]]
Hold(p, content, to) == proc' = [proc EXCEPT ![p] = [@ EXCEPT !.pc = to, !.held = content]]

Filled(s) == file[s] \in {"part", "whole"}
\* parquet.exists() and parquet_version_matches(parquet)
VersionMatches == parquet # "absent" /\ meta.version = "current"
\* parquet_is_hollow: the recorded count, if there is one, is believed.
LooksHollow ==
  IF meta.version # "none" /\ meta.rows # "unknown"
    THEN meta.rows = "zero" ELSE parquet \in {"absent", "hollow"}
\* A mutated form: the fingerprint is enough.
CacheValidAnyVersion(s) ==
  parquet # "absent" /\ file[s] # "absent" /\ meta.fresh /\ meta.source = s

\* is_cache_valid
CacheValid(s) == VersionMatches /\ file[s] # "absent" /\ meta.fresh /\ meta.source = s

\* A write to a source, or its removal, gives it a new fingerprint.
Touch(s, content, who) ==
  /\ file' = [file EXCEPT ![s] = content]
  /\ writer' = [writer EXCEPT ![s] = who]
  /\ meta' = [meta EXCEPT !.fresh = @ /\ meta.source # s]
\* write_meta takes the source's fingerprint now; it is best effort.
WriteMeta(s, count) ==
  meta' \in {meta, [version |-> "current", source |-> s,
                    fresh |-> file[s] # "absent", rows |-> count]}

-----------------------------------------------------------------------------
\* A process takes the window up; a repair when its scan finds the cache hollow
\* and built from the archive file.
Begin(p, j) ==
  /\ At(p, {"idle"}) /\ j # "again"
  /\ j = "repair" => /\ parquet # "absent" /\ meta.version # "none"
                     /\ meta.source = "gz" /\ LooksHollow
  /\ proc' = [proc EXCEPT ![p] = [@ EXCEPT !.job = j,
                !.pc = CASE j = "purge" -> "sweep" [] j = "repair" -> "evict"
                         [] j = "record" -> "count" [] OTHER -> "probe"]]
  /\ disturbed' = (disturbed \/ \E q \in Procs : ~At(q, {"idle"}))
  /\ UNCHANGED <<files, cache, crashes>>

\* iter_window_chunks and the warming script look for something usable.
Probe(p) ==
  /\ At(p, {"probe"})
  /\ \/ /\ VersionMatches
        /\ Goto(p, IF Job(p) = "warm" THEN "idle" ELSE "load")
     \/ ~VersionMatches /\ Filled("txt") /\ Use(p, "txt", "build")
     \/ ~VersionMatches /\ ~Filled("txt") /\ Filled("gz") /\ Use(p, "gz", "build")
     \/ /\ ~VersionMatches /\ ~Filled("txt") /\ ~Filled("gz")
        /\ Goto(p, "fetch")
  /\ UNCHANGED <<files, cache, crashes, disturbed>>

\* ensure_underlying_source and fetch: use what has come up meanwhile, or let
\* wget write the archive file in place; what is there in part is dropped.
Fetched(p) == IF Job(p) = "warm" THEN "build" ELSE "decode"
Fetch(p) ==
  /\ At(p, {"fetch"})
  /\ \/ /\ Job(p) # "warm" /\ Filled("txt")
        /\ Use(p, "txt", "build") /\ UNCHANGED <<files, meta>>
     \/ /\ Job(p) = "warm" \/ ~Filled("txt")
        /\ Filled("gz")
        /\ Use(p, "gz", Fetched(p)) /\ UNCHANGED <<files, meta>>
     \/ /\ Job(p) = "warm" \/ ~Filled("txt")
        /\ file["gz"] # "whole"
        /\ Touch("gz", "empty", p) /\ Goto(p, "fetching")
  /\ UNCHANGED <<parquet, crashes, disturbed>>

\* wget has written a part.
FetchMore(p) ==
  /\ At(p, {"fetching"}) /\ writer["gz"] = p /\ file["gz"] = "empty"
  /\ Touch("gz", "part", p)
  /\ UNCHANGED <<parquet, proc, crashes, disturbed>>

\* It ends well: whole, unless somebody has started the file afresh; one that
\* has been removed meanwhile ends the job.
FetchEnd(p) ==
  /\ At(p, {"fetching"}) /\ (writer["gz"] = p \/ file["gz"] # "empty")
  /\ IF writer["gz"] = p THEN Touch("gz", "whole", None) ELSE UNCHANGED <<files, meta>>
  /\ IF file'["gz"] # "absent" THEN Use(p, "gz", Fetched(p)) ELSE Goto(p, "idle")
  /\ UNCHANGED <<parquet, crashes, disturbed>>

\* It ends badly, or too late: the file is removed, whoever wrote it; another
\* attempt follows, or the job is over.
FetchFail(p) ==
  /\ At(p, {"fetching"})
  /\ \/ Touch("gz", "absent", None) /\ Goto(p, "idle")
     \/ Touch("gz", "empty", p) /\ UNCHANGED proc
  /\ UNCHANGED <<parquet, crashes, disturbed>>

\* decode_gz_to_txt, before a build ("decode") or inside one ("unpack").
DecodeOpen(p) ==
  /\ At(p, {"decode", "unpack"})
  /\ Touch("txt", "empty", p)
  /\ Hold(p, file["gz"], IF At(p, {"decode"}) THEN "decoding" ELSE "unpacking")
  /\ UNCHANGED <<parquet, crashes, disturbed>>

Decoding(p) == At(p, {"decoding", "unpacking"})

DecodeMore(p) ==
  /\ Decoding(p) /\ writer["txt"] = p /\ file["txt"] = "empty"
  /\ proc[p].held \in {"part", "whole"}
  /\ Touch("txt", "part", p)
  /\ UNCHANGED <<parquet, proc, crashes, disturbed>>

\* bgpdump ends with 0, which it may do on an archive file cut short.
DecodeEnd(p) ==
  /\ Decoding(p) /\ proc[p].held # "absent"
  /\ IF writer["txt"] = p THEN Touch("txt", proc[p].held, None)
                          ELSE UNCHANGED <<files, meta>>
  /\ IF At(p, {"unpacking"}) THEN Goto(p, "parse")
     ELSE Use(p, IF file'["txt"] = "absent" THEN "gz" ELSE "txt", "build")
  /\ UNCHANGED <<parquet, crashes, disturbed>>

\* A mutated form: a decoder that fails leaves its text behind.
DecodeFailKeepsText(p) ==
  /\ Decoding(p)
  /\ UNCHANGED <<files, meta>>
  /\ IF At(p, {"unpacking"}) THEN Goto(p, "none") ELSE Use(p, "gz", "build")
  /\ UNCHANGED <<parquet, crashes, disturbed>>

\* Anything else: the text is removed, whoever wrote it.
DecodeFail(p) ==
  /\ Decoding(p)
  /\ Touch("txt", "absent", None)
  /\ IF At(p, {"unpacking"}) THEN Goto(p, "none") ELSE Use(p, "gz", "build")
  /\ UNCHANGED <<parquet, crashes, disturbed>>

-----------------------------------------------------------------------------
\* Where the caller of ensure_parquet goes on with None or an exception: a
\* rebuild tries the archive file after the text.
Without(p) == IF Job(p) = "again" /\ proc[p].src = "txt" THEN "other" ELSE "idle"
\* ... and with the path: a read reads it, a rebuild unless it looks hollow.
With(p) ==
  CASE Job(p) = "read" -> "load"
    [] Job(p) = "again" -> IF LooksHollow' THEN Without(p) ELSE "load"
    [] OTHER -> "idle"

\* ensure_parquet: a cache whose fingerprint is the source's is returned as it is.
Build(p) ==
  /\ At(p, {"build"})
  /\ UNCHANGED <<files, cache, crashes, disturbed>>
  /\ Goto(p, IF CacheValid(proc[p].src) THEN With(p)
             ELSE IF proc[p].src = "gz" /\ ~Filled("txt") THEN "unpack" ELSE "parse")

\* A mutated form: the empty frame of a text without rows is written, too.
ParseAnything(p) ==
  /\ At(p, {"parse"})
  /\ \/ Filled("txt") /\ Hold(p, file["txt"], "publish")
     \/ file["txt"] # "whole" /\ Hold(p, "hollow", "publish")
  /\ UNCHANGED <<files, cache, crashes, disturbed>>

\* The text is read; one without rows, or without a file, gives no frame.
Parse(p) ==
  /\ At(p, {"parse"})
  /\ \/ Filled("txt") /\ Hold(p, file["txt"], "publish")
     \/ file["txt"] # "whole" /\ Goto(p, Without(p))
  /\ UNCHANGED <<files, cache, crashes, disturbed>>

\* The decoder inside a build failed.
NoFrame(p) ==
  /\ At(p, {"none"})
  /\ Goto(p, Without(p))
  /\ UNCHANGED <<files, cache, crashes, disturbed>>

\* tmp.replace(parquet)
Publish(p) ==
  /\ At(p, {"publish"})
  /\ parquet' = proc[p].held
  /\ Goto(p, "stamp")
  /\ UNCHANGED <<files, meta, crashes, disturbed>>

Stamp(p) ==
  /\ At(p, {"stamp"})
  /\ WriteMeta(proc[p].src, "some")
  /\ UNCHANGED parquet
  /\ Goto(p, With(p))
  /\ UNCHANGED <<files, crashes, disturbed>>

-----------------------------------------------------------------------------
\* pl.read_parquet; a read that finds no rows tries to rebuild the cache, once.
Load(p) ==
  /\ At(p, {"load"})
  /\ IF parquet = "hollow" /\ Job(p) = "read"
       THEN proc' = [proc EXCEPT ![p].pc = "rebuild", ![p].job = "again"]
       ELSE Goto(p, "idle")
  /\ UNCHANGED <<files, cache, crashes, disturbed>>

\* rebuild_hollow: the text if there is any, and the archive file after it.
Rebuild(p) ==
  /\ At(p, {"rebuild", "other"})
  /\ IF At(p, {"rebuild"}) /\ Filled("txt") THEN Use(p, "txt", "build")
     ELSE IF Filled("gz") THEN Use(p, "gz", "build")
     ELSE Goto(p, "idle")
  /\ UNCHANGED <<files, cache, crashes, disturbed>>

\* The repair script finds a source, the one of the metadata if it is there, and
\* removes the metadata and then the cache, or gives up without one.
Origin == {s \in Sources : IF file[meta.source] # "absent" THEN s = meta.source
                           ELSE Filled(s) /\ (s = "gz" \/ ~Filled("gz"))}
EvictMeta(p) ==
  /\ At(p, {"evict"})
  /\ \/ /\ meta.version # "none"
        /\ \E s \in Origin : Use(p, s, "unlink")
        /\ meta' = NoMeta
     \/ /\ meta.version = "none" \/ Origin = {}
        /\ Goto(p, "idle") /\ UNCHANGED meta
  /\ UNCHANGED <<files, parquet, crashes, disturbed>>

EvictCache(p) ==
  /\ At(p, {"unlink"})
  /\ parquet' = "absent"
  /\ Goto(p, "build")
  /\ UNCHANGED <<files, meta, crashes, disturbed>>

\* record_cache_row_counts: a cache of the present schema without a count is
\* read, and its metadata written anew.
Count(p) ==
  /\ At(p, {"count"})
  /\ IF VersionMatches /\ meta.rows = "unknown"
       THEN proc' = [proc EXCEPT ![p].pc = "note", ![p].src = meta.source,
                                 ![p].held = parquet]
       ELSE Goto(p, "idle")
  /\ UNCHANGED <<files, cache, crashes, disturbed>>

Note(p) ==
  /\ At(p, {"note"})
  /\ WriteMeta(proc[p].src, IF proc[p].held = "hollow" THEN "zero" ELSE "some")
  /\ Goto(p, "idle")
  /\ UNCHANGED <<files, parquet, crashes, disturbed>>

\* A mutated form: a cache of the window is enough, built from whatever.
SweepAnyCache(p) ==
  /\ At(p, {"sweep"})
  /\ Goto(p, IF file["txt"] # "absent" /\ parquet # "absent" THEN "delete" ELSE "idle")
  /\ UNCHANGED <<files, cache, crashes, disturbed>>

\* purge_decoded_txt: the text is a candidate if the cache was built from it, by
\* whatever version of the builder,
Sweep(p) ==
  /\ At(p, {"sweep"})
  /\ Goto(p, IF /\ file["txt"] # "absent" /\ parquet # "absent"
                /\ meta.fresh /\ meta.source = "txt" THEN "delete" ELSE "idle")
  /\ UNCHANGED <<files, cache, crashes, disturbed>>

\* ... and is deleted when the scan is over.
Delete(p) ==
  /\ At(p, {"delete"})
  /\ Touch("txt", "absent", None)
  /\ Goto(p, "idle")
  /\ UNCHANGED <<parquet, crashes, disturbed>>

Crash(p) ==
  /\ ~At(p, {"idle"}) /\ crashes < MaxCrashes
  /\ crashes' = crashes + 1 /\ disturbed' = TRUE
  /\ Goto(p, "idle")
  /\ writer' = [s \in Sources |-> IF writer[s] = p THEN None ELSE writer[s]]
  /\ UNCHANGED <<file, cache>>

Step(p) ==
  \/ Probe(p) \/ Fetch(p) \/ FetchMore(p) \/ FetchEnd(p) \/ FetchFail(p)
  \/ DecodeOpen(p) \/ DecodeMore(p) \/ DecodeEnd(p) \/ DecodeFail(p)
  \/ Build(p) \/ Parse(p) \/ NoFrame(p) \/ Publish(p) \/ Stamp(p)
  \/ Load(p) \/ Rebuild(p) \/ EvictMeta(p) \/ EvictCache(p)
  \/ Count(p) \/ Note(p) \/ Sweep(p) \/ Delete(p)

Next == \E p \in Procs : Step(p) \/ Crash(p) \/ \E j \in Jobs : Begin(p, j)

Spec == Init /\ [][Next]_vars
-----------------------------------------------------------------------------
Places == {"idle", "probe", "fetch", "fetching", "decode", "decoding", "unpack",
           "unpacking", "build", "parse", "none", "publish", "stamp", "load", "rebuild",
           "other", "evict", "unlink", "count", "note", "sweep", "delete"}

TypeOK ==
  /\ file \in [Sources -> {"absent", "empty", "part", "whole"}]
  /\ writer \in [Sources -> Procs \cup {None}]
  /\ parquet \in {"absent", "hollow", "part", "announced", "whole"}
  /\ meta \in [version : {"none", "old", "current"}, source : Sources,
               fresh : BOOLEAN, rows : {"unknown", "zero", "some"}]
  /\ proc \in [Procs -> [pc : Places, job : Jobs, src : Sources,
                         held : {"absent", "empty", "hollow", "part",
                                 "announced", "whole"}]]
  /\ crashes \in 0..MaxCrashes /\ disturbed \in BOOLEAN

\* As long as nobody has died and nobody has worked alongside, the cache never
\* holds a part of what its builder keeps of the window: all error paths of
\* download, decoder and builder clean up behind themselves.
UndisturbedIsWhole == ~disturbed => parquet # "part"

\* "a hollow build is never written, and a source the builder cannot read never
\* replaces a good cache with an empty one" (test_parquet_cache_integrity.py),
\* whatever processes run and die.
NeverHollowed == [][parquet' = "hollow" => parquet = "hollow"]_vars

\* A cache of the old schema lacks "exactly what the outage detector needs"
\* (is_cache_valid): whatever processes run, die, rebuild, repair and count rows
\* of it, none of them reads it as the window.
WithdrawalsAreRead == [][\A p \in Procs : Load(p) => parquet # "announced"]_vars

\* What the purge keeps as long as the window is undisturbed: every announcement
\* of the text it deletes is in the cache, and the withdrawals too unless the
\* cache is still the one of the old schema.
PurgeKeepsAnnouncements ==
  [][\A p \in Procs : Delete(p) /\ ~disturbed =>
       \/ parquet = "whole"
       \/ parquet = "announced" /\ meta.version = "old"]_vars

\* "Reclaim disk by deleting decoded/*.txt once their parquet mirror exists"
\* (purge_decoded_txt): nobody interferes, and what is deleted is mirrored.
\* The code does not keep it.
PurgeLeavesMirror ==
  [][\A p \in Procs : Delete(p) /\ ~disturbed => parquet = "whole"]_vars

\* "Only delete when the parquet was generated from THIS txt (the fingerprint
\* check guards against mismatched regeneration)" (purge_decoded_txt).  The code
\* does not keep it.
PurgeGuardsRegeneration ==
  [][\A p \in Procs : Delete(p) /\ file["txt"] # "absent" =>
       parquet # "absent" /\ meta.fresh /\ meta.source = "txt"]_vars

\* "The parquet cache must never claim to hold a window it does not hold"
\* (test_parquet_cache_integrity.py).
CacheIsHonest == VersionMatches => parquet # "part"

=============================================================================
