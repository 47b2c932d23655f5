------------------------------- MODULE TwoPhase -------------------------------
(***************************************************************************)
(* The two-phase runs of the chief agent (chief_agent.py) on one window:   *)
(* several invocations of the program, in the modes quick, auto and deep.  *)
(* Phase 1 measures without the language model and leaves its result in a  *)
(* cache file named after the window alone; phase 2, a detached process or *)
(* a later invocation, reads the file and runs the model.                  *)
(*                                                                         *)
(* The file is written beside the cache under one fixed name and moved     *)
(* over it.  Two runs therefore write the same file without a lock: each   *)
(* at its own position, and still after the other has moved it away.  A    *)
(* file is the sequence of its pieces, each the bytes of one run; a large  *)
(* result takes two pieces and a small one a single piece.                 *)
(***************************************************************************)
EXTENDS Naturals, FiniteSets

CONSTANTS
  Runs,        \* invocations of the program; also names of the files they make
  ModesOf(_),  \* the modes in which each may be started
  None         \* no file, or no bytes

Modes == {"quick", "auto", "deep", "follow"} \* follow: deep with --quick-cache

ASSUME TwoPhaseAssumption ==
  /\ IsFiniteSet(Runs) /\ None \notin Runs
  /\ \A r \in Runs : ModesOf(r) \subseteq Modes

Pieces == 1..2
Empty == [k \in Pieces |-> None]
Off == [pc |-> "off", mode |-> "quick", ok |-> FALSE, large |-> FALSE,
        fd |-> None, read |-> Empty, outcome |-> "none"]

VARIABLES
  run,     \* run[r]: where r is, its mode, whether its measurements succeeded,
           \* the size of its result, the file it has open, the bytes phase 2
           \* goes by, and what has come of it all
  body,    \* body[f]: whose bytes the pieces of file f hold
  tmp,     \* the file under the temporary name, or None
  cached,  \* the file under the name of the cache, or None
  last,    \* history: the run that opened the temporary file last
  crossed  \* history: the runs that wrote while another was writing

files == <<body, tmp, cached>>
history == <<last, crossed>>
phaseVars == <<run, files, history>>

PhaseInit ==
  /\ run = [r \in Runs |-> Off]
  /\ body = [f \in Runs |-> Empty]
  /\ tmp = None /\ cached = None
  /\ last = None /\ crossed = {}

At(r, places) == run[r].pc \in places
Goto(r, to) == run' = [run EXCEPT ![r].pc = to]
\* r is over; its bytes may live on.
Leave(r, to, outcome) ==
  run' = [run EXCEPT ![r] = [Off EXCEPT !.pc = to, !.outcome = outcome,
                               !.ok = run[r].ok, !.large = run[r].large]]
Writing(r) == At(r, {"write", "close", "publish"})
Own(r) == [k \in Pieces |-> IF k = 1 \/ run[r].large THEN r ELSE None]
Whole(b) == \E r \in Runs : b = Own(r)
\* Two large results with a seam where their bytes agree are one JSON text.
Seamless(b) == \A k \in Pieces : b[k] # None /\ run[b[k]].large

-----------------------------------------------------------------------------
\* The command line: phase 1, or the cache somebody names.
Begin(r) ==
  /\ At(r, {"off"})
  /\ \E m \in ModesOf(r) :
       run' = [run EXCEPT ![r].mode = m,
                 ![r].pc = IF m = "follow" THEN "load" ELSE "measure"]
  /\ UNCHANGED <<files, history>>

\* The traffic and the routing agent answer or fail; one of them is enough, and
\* two failures leave little to write.
Measure(r) ==
  /\ At(r, {"measure"})
  /\ \E ok, large \in BOOLEAN :
       /\ large => ok
       /\ run' = [run EXCEPT ![r].ok = ok, ![r].large = large, ![r].pc = "open"]
  /\ UNCHANGED <<files, history>>

\* Mutant: open(tmp_path, "x").
MutOpenTmp(r) ==
  /\ At(r, {"open"})
  /\ IF tmp = None
       THEN /\ run' = [run EXCEPT ![r].fd = r, ![r].pc = "write"]
            /\ tmp' = r /\ last' = r
       ELSE Leave(r, "end", "lost") /\ UNCHANGED <<tmp, last>>
  /\ UNCHANGED <<body, cached, crossed>>

\* open(tmp_path, "w"): a file that is there is emptied, whoever has it open.
OpenTmp(r) ==
  LET f == IF tmp = None THEN r ELSE tmp
      others == {q \in Runs \ {r} : Writing(q)}
  IN  /\ At(r, {"open"})
      /\ run' = [run EXCEPT ![r].fd = f, ![r].pc = "write"]
      /\ body' = [body EXCEPT ![f] = Empty]
      /\ tmp' = f
      /\ last' = r
      /\ crossed' = crossed \cup others \cup {q \in {r} : others # {}}
      /\ UNCHANGED cached

\* Mutant: the file is moved before it is closed.
MutWrite(r) ==
  /\ At(r, {"write"})
  /\ body' = [body EXCEPT ![run[r].fd][1] = r]
  /\ Goto(r, "publish")
  /\ UNCHANGED <<tmp, cached, history>>

\* json.dump writes from the start of the file on,
Write(r) ==
  /\ At(r, {"write"})
  /\ body' = [body EXCEPT ![run[r].fd][1] = r]
  /\ Goto(r, "close")
  /\ UNCHANGED <<tmp, cached, history>>

\* and the rest of a large result follows before the file is closed.
Close(r) ==
  /\ At(r, {"close"})
  /\ body' = IF run[r].large THEN [body EXCEPT ![run[r].fd][2] = r] ELSE body
  /\ Goto(r, "publish")
  /\ UNCHANGED <<tmp, cached, history>>

\* What follows phase 1: phase 2 in the same process, from the result in memory;
\* the detached process of an auto run that knows its cache_path; or the end.
Proceed(r, path) ==
  LET to(pc) == run' = [run EXCEPT ![r].fd = None, ![r].pc = pc,
                          ![r].read = IF pc = "deep" THEN Own(r) ELSE @]
  IN  IF run[r].mode = "deep" THEN to("deep")
      ELSE IF run[r].mode = "auto" /\ path = "known" THEN to("load")
      ELSE Leave(r, "end", path)

\* os.replace moves what is under the temporary name, be it another's; when
\* nothing is, the error is caught and the run goes on without a cache_path.
Publish(r) ==
  /\ At(r, {"publish"})
  /\ \/ tmp # None /\ cached' = tmp /\ tmp' = None /\ Proceed(r, "known")
     \/ tmp = None /\ Proceed(r, "lost") /\ UNCHANGED <<tmp, cached>>
  /\ UNCHANGED <<body, history>>

\* Any of these steps meets an error of the file system; the temporary file
\* stays as it is.
DiskFails(r) ==
  /\ At(r, {"open", "write", "close", "publish"})
  /\ Proceed(r, "failed")
  /\ UNCHANGED <<files, history>>

\* load_quick_cache: a text that does not parse counts as none.
Load(r) ==
  /\ At(r, {"load"})
  /\ LET b == IF cached = None THEN Empty ELSE body[cached]
     IN  \/ /\ Whole(b) \/ Seamless(b)
            /\ run' = [run EXCEPT ![r].read = b, ![r].pc = "deep"]
         \/ /\ ~Whole(b)
            /\ Leave(r, "end", "refused")
  /\ UNCHANGED <<files, history>>

\* analyze_deep_from_quick: a result without success is turned away, any
\* other is analysed with the model.  "success" stands in the first piece.
Deep(r) ==
  /\ At(r, {"deep"})
  /\ Leave(r, "end", IF run[run[r].read[1]].ok THEN "analysed" ELSE "invalid")
  /\ UNCHANGED <<files, history>>

\* A process is killed, or ends with an error nobody catches (only an
\* AttributeError of an agent is caught), the parent or the detached one.
Die(r) ==
  /\ ~At(r, {"off", "end", "dead"})
  /\ Leave(r, "dead", "none")
  /\ UNCHANGED <<files, history>>

Step(r) == \/ Measure(r) \/ OpenTmp(r) \/ Write(r) \/ Close(r) \/ Publish(r)
           \/ DiskFails(r) \/ Load(r) \/ Deep(r)
PhaseNext == \E r \in Runs : Begin(r) \/ Step(r) \/ Die(r)

\* A process that can go on does; nothing makes anybody start one.
PhaseSpec == PhaseInit /\ [][PhaseNext]_phaseVars /\ \A r \in Runs : WF_phaseVars(Step(r))

-----------------------------------------------------------------------------
\* "Atomic write": however many runs have died over their files or met a full
\* disk, whoever reads the cache reads the whole result of one run, until two
\* have been writing at the same time; and the phase 2 of an auto run reads the
\* measurements of that run, unless another has crossed its writing or begun to
\* write after it.  Neither name says whose the file is (tmp_path, os.replace,
\* --quick-cache), so this needs every other run to have left it alone.
PhaseTwoReadsTheTruth ==
  [][\A r \in Runs : Load(r) =>
       /\ crossed = {} /\ cached # None => Whole(run'[r].read)
       /\ run[r].mode = "auto" /\ last = r /\ r \notin crossed
            => run'[r].read = Own(r)]_phaseVars

\* The same without the exception for runs that cross: what stands under the name
\* of the cache is the whole result of one run.  The code does not keep it.
CacheWriteIsAtomic == cached # None => Whole(body[cached])

\* "Phase 1 sync + Phase 2 background": an auto run gets its phase 2, which
\* comes to an answer, unless a process dies, the disk fails it, or two runs
\* have crossed (which may leave a run without its cache_path, or tear it).
PhaseTwoComes ==
  \A r \in {q \in Runs : "auto" \in ModesOf(q)} :
    run[r].mode = "auto" /\ At(r, {"measure"}) ~>
      \/ run[r].outcome \in {"analysed", "invalid", "failed"}
      \/ At(r, {"dead"}) \/ crossed # {}

==============================================================================
