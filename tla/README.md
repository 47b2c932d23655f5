# BGP Tracer: formal models

BGP Tracer diagnoses one incident of one autonomous system: it looks for
traffic anomalies and for routing anomalies in the same window, decides whether
one explains the other, lets a language model reason over the evidence and
writes a report. This directory holds TLA+ models of the parts of it that are
hard to test: what happens when stages fail, when time runs out, when the
process dies, when threads and agents share state, and when a stage is switched
off for an ablation campaign.

Line numbers below and in `PROJECT.json` refer to this commit of the
repository.

## 1. The system

| Component | State it keeps | Operations | Talks to | What makes it hard |
|---|---|---|---|---|
| Analysis engine, `workflow_engine.py` | `WorkflowContext` (current state, transition log, results, stage audit, errors), engine metrics, optional checkpoint store | `run_workflow`, `execute` and its loop, ten state handlers, salvage after a timeout, checkpoints | agents, blackboard, LLM client, checkpoint store | a clock that may run out before any stage, handlers that raise half-way, saves that raise, crashes, optional stages |
| Ablation switches, `agents/ablation_switches.py` | process environment | `ablation_switches`, `ablation_campaign_active` | engine, blackboard, tools | each reader must honour the switch, and no stage may be lost because another is off |
| Evidence blackboard, `agents/core.py` | keyed sections, seven typed record lists, ablation flag, one lock | `write`, `update_section`, `add_*`, `merge_evidence`, `read_evidence_board`, `clear` | every agent and stage | writers in any order, bulk updates, list objects shared with snapshots |
| LLM client, `llm/llm_factory.py` | request budget, 429 circuit breaker (two singletons), token counter | `complete`, `chat`, `stream_*`, retries | provider, response cache, budget file | threads that prune, compare and record without one lock around it, late 429s, renewals of the cool-off |
| Response cache, `agents/llm_cache.py` | a JSON-lines file | `cache_get`, `cache_put` | LLM client | several processes, torn lines |
| Shared budget file, `llm/llm_factory.py`, `scripts/run_4mode_batch.py` | timestamps on disk | append, rotate, load | LLM clients of several processes | rotation races with appends, stale loads |
| Chief agent, `chief_agent.py` | mode, token totals, quick cache | `coordinate_analysis`, quick and deep phases, legacy fallback | engine, agents, itself in other processes | result mapping of partial runs, a detached second phase that finds its input by the name of a file all runs of a window share |
| Traffic and routing agents, `agents/traffic_agent.py`, `agents/routing_agent.py` | none beyond the board | `step` | detectors, board | failures turned into results |
| Reasoning and hypothesis agents | rounds, claims | rounds of LLM calls, up to four in a thread pool | LLM client, board | concurrent calls |
| Report agent, `agents/report_agent.py` | none | `step`, LLM report or deterministic one, auto probes | LLM client, board | two timers over one call, probes that stop the event loop, which fallback is allowed when |
| Evidence arbitration, `detectors/evidence_chain_builder.py` | verdict, arbitration and rejected classes on the board | `build_evidence_chain`, called twice in a run | engine, board, reasoning agent | two axes read the same inputs with different defaults, the second build writes over the first |
| PADDLE, `agents/paddle_attribution.py` | none | four vetoes over paired series | engine | numeric edges, abstention |
| Investigation supervisor, `agents/investigation_supervisor.py` | tool statuses | trigger rules, concurrent batches | tools | exceptions inside a gather |
| ReAct agent and tools | session | bounded loop of model and tool calls | LLM client, tools | order of calls |
| Update stream, `data/updates_loader.py`, `data/parquet_cache.py` | gz, decoded text, parquet and metadata files; a bounded queue | download, decode, build, read, purge, prefetch thread | detectors | builders in several processes, crashes between file and metadata, an abandoned consumer |
| Detectors, `detectors/` | a trie cache keyed by `id()`, samples, counters | scans of series and update streams: batch with threads, shared scan, standalone | agents | chunks in flight, recycled addresses, one detector's error in a shared loop |
| Token budget, loaders, scripts, docs | small | accumulation, file reading, batch driving | | |

The engine owns the run: it calls the handlers one after the other, the handlers
call agents, the agents read and write the one blackboard of the run and call
the LLM client, and the report handler reads everything back. Only the LLM
client and the caches are shared between runs and threads.

What makes each component correct:

* engine: the log tells the truth about the stages behind a result; a run has
  one verdict; nothing but a completed run is complete or banked; every run
  ends; an arm of an ablation campaign misses exactly its stage, and the run's
  own audit says so;
* board: an earlier measurement survives later writers; the evidence trail is
  append-only; an ablated surface leaves no trail;
* LLM client: the quota is respected, an open breaker stops traffic and closes
  again; over processes and restarts, the shared file forgets no call that still
  counts, and the batch does not start a child into an exhausted budget;
* update stream: windows arrive in order and once, none is lost between thread,
  queue and caller, nobody waits for ever;
* window cache: what is published has rows, and all of them as long as nobody
  interferes; caches of the first schema are not read; decoded text is deleted only
  when the cache holds it;
* ReAct agent: a written report ends the run and could read all the evidence; a
  run with completed evidence attempts a report; the chief agent always replies;
* two-phase runs: phase 2 reasons over a whole result, and over that of the run that
  started it; it comes to an answer;
* scans: alerts neither depend on the order in which threads finish nor on how a
  map was trimmed or found again by its address; detectors that share a reading
  get what they would read alone;
* evidence arbitration: a verdict other than the rule's is an eligible proposal
  of the agent; confidence never decides the cause; every class is answered for;
* report step: the board and the result agree about the page; a required page is
  the model's; a silent provider cannot hold the run up.

## 2. Modules

| Module | Kind | Models |
|---|---|---|
| `WriteOnce` | abstract | what the board promises for critical telemetry keys |
| `RunContract` | abstract | what a caller of `run_workflow` may rely on |
| `Blackboard` | detailed | class `Blackboard`; implements `WriteOnce` |
| `Workflow` | detailed | `run_workflow` and `WorkflowEngine`; implements `RunContract` |
| `CallBudget` | detailed | the request budget of one process under its threads |
| `LLMClient` | detailed | the calls behind the budget and the circuit breaker they share |
| `LLMCalls` | composition | a call through `CallBudget` and `LLMClient`, under one clock |
| `OrderedStream` | abstract | what the reader of an update stream may rely on |
| `UpdateStream` | detailed | `get_updates_streaming`; implements `OrderedStream` |
| `WindowCache` | detailed | the files of one window under readers, scripts and the purge |
| `SharedBudget` | detailed | the budget file of several processes and the batch that paces itself by it |
| `ReactLoop` | detailed | `ReactAgent.run` inside the chief agent's `react_analysis_flow` |
| `OriginHijack` | operators | prefix trie and classification of `detect_origin_hijacks` |
| `UpdateScan` | detailed | one scan of a window, in four modes; EXTENDS `OriginHijack` |
| `Verdict` | detailed | verdict, cause and arbitration through both builds of the evidence chain |
| `TwoPhase` | detailed | runs in the modes quick, auto and deep of several processes on one window |
| `ReportStep` | detailed | one step of the report agent, with its timers, and the delivery of its page |
| `MCBlackboard`, `MCWorkflow`, `MCLLMCalls`, `MCUpdateStream`, `MCWindowCache`, `MCSharedBudget`, `MCReactLoop`, `MCUpdateScan`, `MCVerdict`, `MCReportStep`, `MCTwoPhase` | instances | constants for TLC |
| `BlackboardProofs`, `WorkflowProofs`, `LLMClientProofs`, `UpdateProofs`, `WindowCacheProofs`, `SharedBudgetProofs`, `EvidenceProofs`, `ChiefProofs` | proofs | theorems, checked by TLAPS |

Definitions under a comment that begins "A mutated form" or "Mutant" are
deliberately wrong versions of the definition that follows them. No specification
uses them. They show that a property can fail: with the mutated form in place TLC
finds the property violated (`PROJECT.json`, "mutants").

### Blackboard

`cell` holds the value of each `<<section, key>>`; `Critical` are the pairs under
the write-once rule, `Plain` others in the sections `clear` resets, `Stray` pairs
of sections that `write` creates on demand (`reasoning`, `verdict`), which
`clear` does not know. A value is a member of `Values` with two attributes, the
signature of its event lists and its semantic fingerprint, because
`fingerprints_equivalent` compares nothing else. `maybe_slim` maps a payload to a
payload before the lock is taken; a value of the model is what it returned.

`read_evidence_board` copies the dictionary of record lists and not the lists.
The model therefore names list objects: `lists[k][g]` is the list of kind `k`
created by the `g`-th `clear`, `gen` the generation the board holds, `held[c]`
the generation client `c`'s snapshot points to. A merge may add the very object
the board holds, which doubles it, or one the board has dropped.

Each method holds the lock and contains no await inside it, so each is one
action: `Write`, `UpdateSection` (several keys judged one by one), `AddRecord`
(all `add_*` methods), `Snapshot`, `Merge`, `Clear`. `waived` and `origin` are
history: how often a caller gave the rule up for a key (`_allow_overwrite` or
`clear`) and the first value since then.

### Workflow

`proc` is the control point of the call under way: `idle`, in the `loop`, in the
`salvage` after a timeout, about to `exit`, `done`. `state`, `log`, `errors` are
the fields of the context; `ctx` keeps of the other fields what the control flow
reads: whether traffic and routing results exist and show anomalies, whether
routing is needed, whether the joint tier reaches the minimum, which HTML came
out. `"uncounted"` is a routing result whose events are nested or lack evidence,
so that the flags are unset although the joint analysis sees the events. `ran`
is history, the stages whose computation produced a result; `audit` is
`context.stage_execution`, the run's own account of it. `late` says that the
clock has passed the limit, `timedOut` that the loop has noticed.

Each handler is one action ending in `Advance`, which does the tail of the loop
body: next state, log entry, checkpoint. Handlers that swallow failures do so in
the action (traffic and routing agents, PADDLE), and `Raise` is the exception
that leaves a handler, after part of its work has been done and recorded
(`PartialWork`). `JointEvidence` is the normal path of that handler;
`JointEvidenceBroken` the path on which an `ImportError` or `AttributeError`
leaves its block and PADDLE runs again in a second one.

`TimeUp` is the check at the head of the loop: it jumps to the report stage, and
if the run is already there it leaves the loop, after which `Salvage` calls the
report handler once. Since the budget stays used up, every timed-out run takes
that way. `Finish` and `Fail` are the two ends of `execute`; both may be overtaken
by a save that raises, because only `AttributeError` is caught there. `Start` is
`run_workflow` with its one lookup in the store; `Crash` throws everything away
but the store.

The checkpoint store (`checkpoint.has`, `load`, `save`) is not part of the
repository, and no caller in it passes one; it is modelled from how
`workflow_engine.py` uses it: durable, and able to fail on a save.

### CallBudget

`check_and_record` as a thread meets it. It takes the lock only to append; the loop
of `window_len` tests and pops the shared deque without it. `place[t]` is where a
thread is: `clock` with the clock read, `prune` before the test of a further turn,
`pop` between that test and its pop, `charge` with the quota compared and the call not
yet recorded. These are the points at which CPython may switch threads: after the pop
and at the backward jump of the loop, which comes behind the test of every turn but the
first. The first test and its pop, and the last test and `len()`, are one step each.

Time is relative: `calls` holds the ages of the entries, oldest first, and
`BudgetTick` adds one to each; an age beyond the window stays there, which changes
nothing the code can see. Each thread prunes against the clock reading it came in with:
`stale[t]` is how many entries in front are older than that, and every pop, whoever
makes it, takes one away. A pop whose test another thread has overtaken takes what is
in front by then (`Pop`), be it a call of the window, or raises `IndexError`
(`PopEmpty`). `made[a]` is history: the calls recorded in the last `a` ticks, whatever
has become of their entries.

`record_call` and `remaining_budget` have no caller. The process shares its budget with
no other; `SharedBudget` has the file.

### LLMClient and LLMCalls

A thread walks through the control points of one call that the budget has admitted:
`idle`, `guard` (breaker not yet consulted), `ready`, `waiting`. The budget may admit
any call here (`Begin`), which leaves more behaviours than the program has; `LLMCalls`
joins the two. There a thread begins a call by being charged for it (`Charged` is the
recording and the beginning in one), and `PassTime` lets a tick pass for both.
`complete` passes both guards and may retry; `stream_chat` passes the budget only and
counts no 429. `chat` and `stream_complete` take the steps of a `complete` that does
not retry and are not separate actions.

Time is relative as in `CallBudget`: `hits` holds ages, `cooldown` what is left of the
cool-off. The breaker's methods, its pruning included, hold its lock, so a clock
reading and the critical section behind it fall into one tick.

The response cache's own file is not modelled (`CacheHit` is what a hit does to a call).
`report_agent.py` also has a streaming call of its own (`stream_and_wait`, 5857)
that passes neither guard; it is outside the properties below, which speak of
guarded methods.

### UpdateStream

`archive[w]` says what reading the `w`-th window of the period can do:
`cached` gives a chunk, `void` gives nothing (no rows, no usable source, no row in
the window), `remote` has to be downloaded and may give a chunk, nothing or an
exception, `unreadable` raises. `iter_window_chunks` reads one window per step, at
`cursor`. A period whose end is before its start is the empty archive.

`mode` chooses between the two ways through the function: the generator reads
for itself (`ReadInline`), or a thread reads (`Read`, `Put`, `PutSentinel`) and the
generator takes from the queue (`Get`). A chunk in the queue is the number of its
window. The caller starts the generator with its first `next()`, asks again
(`Resume`), stops asking, or closes it (`Abandon`). `Join` is the end of the
generator's finally clause, by the thread's death or by the timeout of a second.
`delivered` and `outcome` are history.

The download of missing buckets at the head of the function is left out:
`list_window_files` lists existing files that are not empty, so its list of
missing ones is empty. Other processes that change the archive meanwhile are the subject of
`WindowCache`; here a window is what its one reading finds.

### WindowCache

The five-minute window as its four files. `file[s]` is the archive file `gz` or the
decoded text `txt`: absent, empty, there in part, whole; both are written in place,
and `writer[s]` is who truncated the file last and may still be writing. One rule
stands for all overlaps of two writers: what a writer finishes is whole if nobody
has truncated the file after it. `parquet` and `meta` are each replaced atomically,
one after the other; `meta.fresh` says that the recorded fingerprint is the
source's present one, and every write to a source makes it stale (`Touch`).

`parquet` says what the cache holds: it is absent, hollow, a part of the window,
`announced` (all announcements and no withdrawal, as the first schema stored them) or
whole. Initially a window may have been left by a past version of the program: a cache
of the first schema is `announced` or hollow. Its fingerprint may be right, and only
`is_cache_valid` asks for the schema version; `purge_decoded_txt` does not. No caller
of the purge is in the repository; it is exported, and the model lets anybody run it.

A process takes up one of five jobs (`Begin`): a read, which turns into the job
`again` when it finds a hollow cache and rebuilds it once; the warming script; the
repair script; the script that records row counts; the purge. From there on it goes
through the code's steps, one action per access to a shared file: `Probe`, the
download (`Fetch`, `FetchMore`, `FetchEnd`, `FetchFail`), the decoder (`DecodeOpen`
to `DecodeFail`), `ensure_parquet` (`Build`, `Parse`, `NoFrame`, `Publish`, `Stamp`),
`Load`, `Rebuild`, and the steps of the scripts. Every step that can fail has its
failing branch, with the clean-up the code does; writing the metadata is best effort,
as in `write_meta`. `Crash` ends a process anywhere. `disturbed` is history: a
process has died, or two have been at work at once.

### SharedBudget

`lines` is the file named by `LLM_BUDGET_SHARED_FILE`, `tmp` the temporary file of a
rotation, one for all processes, `mine[p]` the deque of a process. A process loads
the file once, when it starts, and never again; `Check`, `Record` and `Append` are
`check_and_record`, and every `RotateEvery`-th append goes through `RotateRead`,
`RotateWrite`, `RotateReplace`. `Stop` is its end or its death at any of these
places. The batch (`run_4mode_batch.py`) launches a child, waits for its end, and
between events looks at the file and waits until its oldest call has left the
window. `company` is history: nobody but the batch has started a process, no two
have run at once, or some have.

A call counts as spent when its `check_and_record` returns, which is behind the
append and before the rotation.

### ReactLoop

One run of `ReactAgent.run` and the flow around it. `pc` goes through the steps of a
round: `think`, `act`, `rethink` after a call that raised, and the two ends, an
`answer` and the rounds `exhausted`, both with a last attempt at a report. The
model's choice is free: any tool, a name that is no tool, nothing that parses (then
`PickFallback` takes the next tool of the pipeline), an answer, or an exception. A
tool returns one of the dictionaries it can return, is stopped by an
`AttributeError` (a result that is not kept), or raises anything else. Dictionaries
are records looked up with the path the code uses (`Get`), because several readers
look at another level than the writer (see Disagreements). `covers` and `calm` are
history: the evidence the last report call could read; whether the model has only
refused and no tool has failed.

`ChiefReplies`, `ChiefCatches` and `Legacy` are the end of `react_analysis_flow`. Its
reply calls a name the module does not bind; the model evaluates the same condition
on the names of the module and goes the way the code goes, to the legacy analysis.

### OriginHijack and UpdateScan

A prefix is the sequence of its bits, so that covering is being a proper initial
part. `FindParent` is the walk of the trie, node by node; `Hijacked` and `Hijacking`
are the branches of `detect_origin_hijacks`, and `Selected` is its filtering of rows,
which keeps their order.

A scan is one of four: `batch` (`detect_hijacks_batch`: a window of chunks in flight
to a thread pool, merged oldest first), `shared` (`SharedUpdateScan.run`: every chunk
to the hijack, leak and outage detectors, each in its own window), `light`
(`light_origin_hijack` of the chief agent) and `leak` (`analyze_leak_surface`). In
the batch scan each chunk gets a map trimmed to its prefixes, and the trie is cached
under `id()` of that map: `addr` gives a living map an address no other living map
has, an address is free again when its map dies, and `cache` keeps what was built
under it. A chunk with withdrawals only makes the leak detector's unpacking fail
(`FeedChunk`, `LeakChunk`). Whether a path leaks is looked up in the external PathProb
table (`Leaky`).

### Verdict

`BuildEvidenceChain` is one call of `build_evidence_chain` and what it leaves on the
board; a run makes two of them, when routing is cross-validated and after the
reasoning agent has judged (`CrossValidate`, `Reason`), and either may fail before
it writes (`BuildFails`). The verdict axis (`RuleOnlyVerdict`, `DetermineVerdict`,
`RecordArbitration`, `EnumerateRejectedVerdicts`) and the cause axis
(`DetermineCause`, with its vetoes in order) are operators over what the detectors
reported. The inputs distinguish what the code distinguishes: four kinds of traffic
result (two defaults read the absent key differently), who a hijack record names,
five sorts of leak record, and the counts.

### ReportStep

One call of `ReportAgent.step`: `BeginAttempt`, the probes in a thread of their own
(`ProbesReturn`, `ProbesTimeOut`, and `blocked`, because leaving the pool waits for
its thread with the event loop stopped), the call of the model, and two timers over
it (`CallTimesOut`, `WatchdogFires`). A call that is given up lives on in its thread
(`live`, `AbandonedCallEnds`). `Raise` retries a transient error after a pause that
grows with the attempt, or falls to the branch of its kind; each of the five branches
writes the board as the code does, or leaves a field as it is, and a renderer may
raise in it. `Deliver` is `run_legacy_report`, which hands the page to the engine.
`clock` and `elapsed` count ticks; `elapsed` and `live` stop one above the bounds the
properties speak of.

### TwoPhase

`Begin` is the command line (`follow` is the mode deep with `--quick-cache`). Phase 1
(`run_quick_analysis_async`) is `Measure`, whose two agents succeed or not, followed
by the writing of its cache: `OpenTmp`, `Write`, `Close`, `Publish`, each of which
`DiskFails` may replace. Files are kept apart from their names: `tmp` and `cached` are
the files under the two names, `run[r].fd` the one that r has open, so that a run goes
on writing a file that another has emptied or moved. `Proceed` is what each mode does
after phase 1: an auto run without a `cache_path` ends, with one it starts the detached
process, which is the same r from then on; a deep run keeps its result in memory. A
file is two pieces long at most, enough for a text that is empty, cut off, whole, with
a hole, followed by the rest of a longer one, or made of two. A text whose pieces fit by
chance may parse (`Seamless`). `Die` ends either process at any step. `last` and
`crossed` are history variables.

## 3. Runs

| Run | Module | Shows |
|---|---|---|
| `blackboard` | `MCBlackboard` | `NoRecordLost`, `RecordsOnlyAppended`, and that the board implements `WriteOnce` |
| `workflow` | `MCWorkflow` | `OneVerdictPerRun`, `AblationSingleVariable`, `AuditIsTruthful`, `RunTerminates`, and that the engine implements `RunContract` |
| `llm_calls` | `MCLLMCalls` | `OverdraftBounded`, `LeakBounded`, `BreakerCloses` |
| `update_stream` | `MCUpdateStream` | `CallerIsServed`, `FittingRestEnds`, and that both modes implement `OrderedStream` |
| `window_cache` | `MCWindowCache` | `UndisturbedIsWhole`, `NeverHollowed`, `WithdrawalsAreRead`, `PurgeKeepsAnnouncements` |
| `shared_budget` | `MCSharedBudget` | `QuotaAcrossRestarts`, `NothingForgotten`, `PacedChildHasRoom` |
| `react_loop` | `MCReactLoop` | `ReportIsLast`, `CompletedIsReported`, `RefusalsReachReport`, `RunEnds` |
| `update_scan` | `MCUpdateScan` | type invariant, `SampleInOrder`, `VictimsSurviveTrimming`, `AccusedOnlyOfForeign`, `ParentIsMostSpecific`, `SharingIsInvisible`, `ScanEnds` |
| `verdict` | `MCVerdict` | `ConfidenceIsNoVote`, `EveryClassAnswered`, `CauseMovesOnlyOnRecord` |
| `report_step` | `MCReportStep` | `BoardMatchesResult`, `TimeIsBounded`, `StepReturns` |
| `two_phase` | `MCTwoPhase` | `PhaseTwoReadsTheTruth`, `PhaseTwoComes` |
| `cache_honest` | `MCWindowCache` | refutes `CacheIsHonest` |

The last states what a test of the repository says and the code does not do;
`PROJECT.json` quotes both under "findings". TLC finds a reader that comes upon the text
of a window while another process is still writing it, or has died over it, and builds a
cache of a part of the window with a valid fingerprint.

Six more sentences of the repository are stated beside the models and are no property of
a run, because they do not hold: with the constants of the run of their module TLC finds
a trace against each.

* `OffEverywhere` (`Workflow`; `workflow_engine.py`, 301: "must be off *everywhere*"):
  the joint analysis fails, and the second attribution block computes PADDLE in the arm
  that ablates it.
* `OnlyExhaustionIsRaised` (`CallBudget`; `llm_factory.py`, 409): two threads prune
  the same two stale calls, and the one that has tested for its second pop finds the
  deque empty. The administrative reset leads to the same.
* `PurgeLeavesMirror` (`WindowCache`; `parquet_cache.py`, 392): the purge, alone,
  deletes text beside a cache of the first schema, and with it the only copy of the
  withdrawals.
* `PurgeGuardsRegeneration` (`WindowCache`; `parquet_cache.py`, 425): after the purge has
  looked, another process decodes the text anew; the purge deletes what no cache was
  generated from.
* `RotationIsLocked` (`SharedBudget`; `llm_factory.py`, 356): one process reads the file
  to rotate it, another appends a call, the first replaces the file.
* `CacheWriteIsAtomic` (`TwoPhase`; `chief_agent.py`, 1760): a second run opens the
  temporary file of the first, which empties it, and the first moves it over the cache.

The type invariants of the modules that have proofs, and `KeepsFirstMeasurement`,
`AblatedSurfaceIsSilent`, `LogFollowsPipeline`, `CooldownNeverDoubles`,
`ChangeIsTheAgents` and `RequiredPageIsTheModels`, are proved for every value of the constants (section 4) and take part in no run.

### Bounds

* `MCBlackboard`: two clients (identical, hence symmetric), one key of each sort,
  four values: two with the same event list and different fingerprints, one with
  another list, one without a list and with the fingerprint of the first. That
  is every case the comparison distinguishes. `MaxRecords`, `MaxLength` = 2 and
  `MaxWaivers` = 1 allow a list to be doubled and a snapshot to outlive a
  `clear`. Deadlock is not checked: a board at its bounds has nothing to do.
* `MCWorkflow`: nine deployments (see the module), two calls of `run_workflow`,
  so that a crash, a failure or a banked result can precede the second.
  `MaxLog` = 12 is the length of the whole pipeline's log and is never reached
  by a longer one (`LogFollowsPipeline`). Deadlock is not checked: after the last
  call nothing happens.
* `MCLLMCalls`: two threads. A quota of two calls and a window of two
  ticks, so that the quota can be used up before the first call leaves the window, and
  both can meet over the last stale entry; the bound of `OverdraftBounded` is reached:
  with one call less TLC finds it violated. A threshold of two hits, so that
  one hit is a throttle and two a trip; a base cool-off of two ticks and a cap
  of four, so that doubling would be visible, and a hit window no shorter than the
  cool-off (as in the defaults, 60 s and 5 s), so that hits could survive a
  recovery; three attempts per call, the default. Both bounds count by thread, and are
  proved for any number of them. Deadlock is checked.
* `MCUpdateStream`: a queue of four places, the smallest the code makes, and every
  archive of up to six windows: one with the caller, four in the queue, one with
  the blocked producer. Deadlock is not checked: a closed stream does nothing.
* `MCWindowCache`: two processes, identical and hence symmetric, one death, and a
  window in every state a past version may have left. Two are enough for a writer
  and a reader or two writers to overlap; jobs are unbounded in number, so a third
  actor's effect is what one of the two does next. Deadlock is checked.
* `MCSharedBudget`: two processes, a quota of two, a window of one tick, a rotation
  on every second append, four calls within three ticks: a window can be filled,
  left, and filled again, with a rotation in the middle of either. `MaxTime` and
  `MaxCalls` bound the clock and the calls. Deadlock is checked.
* `MCReactLoop`: five rounds, one more than the pipeline of fallbacks needs, one
  retry, one tool besides those the loop names. Deadlock is checked.
* `MCUpdateScan`: windows of four chunks, one before the event; six kinds of chunk
  (withdrawals only, others inside the block, the target's own announcements, the
  target on the path); four snapshots; two workers, two chunks in flight, two
  addresses, so that an address is used again within a window; samples of two and
  one leak, so that both fill. Deadlock is checked.
* `MCVerdict`: every count and share at and just below its threshold (0, 1, 2
  anomalies; drops of 0, 49, 50 per cent; withdrawals around 100, 1000 and one in a
  hundred; confidences 59 and 60). Deadlock is not checked: a judged run is over.
* `MCReportStep`: three attempts, so that there is a first, a middle and a last; a
  window of 4 ticks, a margin of 1, probes given up after 3 and running up to 7, so
  that probes may end in time, late, or later than the watchdog; pauses of 2 and 4.
  Deadlock is not checked: a delivered page is the end.
* `MCTwoPhase`: three invocations, an auto run, a quick one and one in either deep
  mode. Three can write the file, so that one may publish what the second has moved
  into its place while the third is writing, and two can read it. Every run may fail
  once, by dying or by an error of the disk. Deadlock is not checked: runs end.

### Fairness

* `Workflow`: weak fairness of `Engine`, the disjunction of everything the loop
  does by itself. It says that an awaited handler returns or raises; handlers
  are bounded by the timeouts of the calls they make. Nothing is assumed of
  `Tick`, `Crash` or `Start`: the clock may never run out, and `RunTerminates`
  holds all the same.
* `LLMCalls`: weak fairness of `PassTime` alone, that time passes. A thread may
  stop anywhere, a request may never be answered, `reset` may never be called.
* `UpdateStream`: weak fairness of the producer's steps and of the generator's,
  because reading a window ends and a thread that can run does; none of the
  caller's, who may never ask again.
* `ReactLoop`: weak fairness of `Next`: each step is one awaited call, of the model
  or of a tool, with a time limit of its own.
* `UpdateScan`: weak fairness of the pool's threads together and of the scanning
  thread; neither depends on the order the pool chooses.
* `ReportStep`: weak fairness of `Clockwork`, the timers and the event loop's own
  steps. The provider and the network need never answer, and a call that was given
  up may run for ever; only the probing thread is assumed to end by `ProbeMax`.
* `TwoPhase`: weak fairness of each started process's steps; errors of the disk are
  among them, and neither a start nor a death is ever forced. Calls of the model have
  time limits of their own, hence `Deep` ends.
* `Blackboard`, `WindowCache`, `SharedBudget`, `Verdict`: none; they have no liveness
  property.

## 4. Theorems

All theorems hold for every value of the constants that satisfies the named
assumptions of the modules (`WorkflowAssumption`, `BoardAssumption`,
`ClientAssumption`, `NoneIsNoMethod`, `StreamAssumption`, `CacheAssumption`,
`BudgetAssumption`, `SameThreads`, `VerdictAssumption`, `ReportAssumption`, `RoundsAssumption`,
`RetriesAssumption`, `NamesAssumption`, `TwoPhaseAssumption`, `SizesAssumption`,
`RowsAssumption`), which only give the constants their sorts, say that the processes are
finitely many and the probes' limit is no longer than the probes can take, that there
are addresses for the maps in flight and that the threads of `LLMCalls` are the same to
both its parts, and keep `None`, `Sentinel` and the names of the
tools apart from what they must not be confused with.

**WorkflowProofs.** `LogFollowsPipeline` and `OneVerdictPerRun` are not inductive:
the first needs to know which state belongs to which length of the log, the
second what the counters are while the run is still going on. `ControlInv` adds
both: in the loop and before a timeout the state is the pipeline's entry behind
the last logged one; the counters are 0 until the run ends; routing is always
asked for once screening is behind; a banked store has seen a complete run.
`InitControl` and `NextControl` establish it (`ControlCorrect`), and `TypeCorrect`,
`LogCorrect` and `VerdictCorrect` follow. `StageInv` rests on it and relates `ran`
to `audit`: stages whose handler is still ahead are untouched, and in an arm
under test every stage behind ran if and only if the arm has it. It gives
`AblationCorrect`, `AuditCorrect` and `OnlyPaddleEscapes`, which says that PADDLE,
which does escape its switch after a failed joint analysis (see Disagreements), is
the only stage that can.
`ContractKept` is the refinement of `RunContract`, step by step.

**BlackboardProofs.** With `TypeOK`, `KeepsFirstMeasurement` and
`AblatedSurfaceIsSilent` are inductive; `RecordsOnlyAppended` and the refinement
of `WriteOnce` (`PromiseKept`) follow step by step from the type invariant.
`NoRecordLost` is inductive with it (`NextLosesNothing`): a record is given its number
in the step that gives it a place, and no list object ever gets shorter, those of
earlier generations that a snapshot still holds included; `MergeKeeps` is the case in
which a merge extends a list by itself or by what another generation holds.

**LLMClientProofs.** `CooldownNeverDoubles` needs `BreakerInv`: a closed breaker
has seen fewer hits than the threshold, so that the hit that trips it makes
exactly `Threshold`. `LeakBounded` needs `LeakInv`: while the breaker is
open, a thread has leaked at most the attempts it has made in the call it is
in, a thread that is not in a guarded call any more cannot leak again, and the
thread whose 429 opened the breaker, or renewed it, has left.

`OverdraftBounded` needs `BudgetInv`. The entries of the deque and the threads between
comparison and record are together fewer than the quota plus the number of threads
(`QuotaInv`). That would do if the deque held every call of the window. `CountInv` says
how far it does, for every age `a` up to the window: either it holds every call of the
last `a` ticks, or calls of them have been popped, and then nothing older than `a` is
left in it (a pop takes the oldest), so that no thread tests any more, and those lost
and those still to be lost are fewer than the threads. One is spared, because not all
threads can have tested without one of them having taken what was stale (`PopInv`). The
two terms are the two summands of the bound, `MaxCalls + (N - 1)` and `N - 1`. Ageing
moves each case from `a - 1` to `a`, which is why `CountInv` speaks of all ages.
`CallsCorrect` carries both bounds over to `LLMCalls`: each step of a call is a step of
the budget or of the client, or of both, or leaves either as it was (`CallSteps`).

**UpdateProofs**, the stream. The refinement is not inductive by itself, because what the
caller gets next has been decided by the producer long before. `IInv` follows the
pipe from the caller to the producer: `Behind(0)` is the caller's last window and
`Behind(i)` the `i`-th in the queue; each follows the one before it with nothing
readable between (`ChunksFollow`), the producer's cursor follows the last
(`ProducerFollows`), and the sentinel stands at the end, put by a producer that
has seen the end or a failure (`SentinelLast`). `Get` shifts the pipe by one place.
`PipeCorrect` is this invariant, `StreamKept` the refinement that follows from it.

**UpdateProofs**, the scan. What the alerts are is computed by recursion over the rows
of a chunk, the bits of a prefix and the chunks of a window, so the proof begins with
induction. A set of naturals that is not empty has a least element (`LeastOf`, from the
library's `WFMin`); hence what holds of 0 and goes from each number to the next holds
of all (`UpTo`, for a property given as a set), and a table that is filled entry by
entry exists (`TableExists`), which is what it takes to open a recursive function. From
there:

* `SelectedElements`, `SelectedAppend`, `SelectedSame`, `SelectedTwice` say what a
  filter over rows keeps; `FlattenGrows`, `CutConcat` that filling a cut sample from the
  next chunk is cutting the whole; `LeaksGrow` what one chunk more adds to the leaks.
* `ParentFound`: after `i` bits the walk of the trie holds the longest stored prefix of
  up to `i` bits (`WalkIsBest`). The trie never leaves a node out on the way to a stored
  prefix, so that stopping where there is no node loses nothing (`StoredIsNode`).
* `ScanInv` is the invariant of the scan. `InLine`: the chunks in flight are those
  between the merged ones and the ones still to be read, in order. `Threads`: threads
  work on chunks in flight without alerts, and exactly those keep a map alive, each at
  an address of its own. `FoundInside`: alerts are found in chunks that were read.
  `ScanTypeCorrect` follows from it.
* `AlertsCome` says how a step may bring alerts to a chunk, and that those of merged
  chunks stay as they are. With it each of the four properties is inductive.
  `AlertsStayInOrder` merges by `InLine` the chunk that is next in order, whichever
  thread came first. `VictimsAreKept` and `AccusedOnlyOfOthers` hold for whatever trie
  an address brings up, because the exact owner is looked up in the chunk's own map,
  which agrees with the snapshot on the chunk's prefixes (`TrimmingIsExact`).
  `SharingStaysInvisible` relates what each detector was given to a slice of the
  window.

**WindowCacheProofs.** `NeverHollowed` is a property of single steps: only `Publish`
makes a cache, of what `Parse` has read, and `HeldOK` (part of the inductive
`TypeInv`) says that what a process holds there has rows. `WithdrawalsAreRead`
needs `SchemaInv`: the metadata beside a cache without withdrawals is never of the
present version, and of the old one if its fingerprint is right, and no process is on its
way to load, stamp or note it, because a process goes there only from a cache of the
present version or from one it has published. `UndisturbedIsWhole` and
`PurgeKeepsAnnouncements` need `CalmInv`: while nobody has died and nobody has worked
alongside, at most one process is at work (`Alone`), a source that is there in part
is being written by it (`PartsOwned`, `Writing`), nothing that has been read of a
part is on its way to the cache (`Clean`), and a hollow cache is one of the archive
file (`Sound`), which the purge leaves alone.

**SharedBudgetProofs.** The three safety properties rest on what a running process
knows. `ApartInv`: as long as no two have run at once, a process counts every call
of the window that has been spent, and the file holds them all; what a rotation under way
has read, or written, is nothing less.
`BatchInv` adds the batch: while only it starts processes, its child is the only
one, and after its wait the window has room.

**EvidenceProofs.** `IInv` joins the type invariant with the shape of the first build
and with what the board holds after each: every class is answered for, the recorded
verdict is the chain's, and a changed verdict has a proposal behind it. The cause
properties follow from lemmas about `DetermineCause`: the cause of observed traffic
does not depend on the verdict (`ObservedCauseIgnoresVerdict`), and a judgement
without a record behind it moves nothing (`UnbackedJudgementMovesNothing`).

The run of the ReAct agent is in the same module. `RefusalsReachReport` is not
inductive: `CalmRun` follows a model that only refuses through the pipeline, round by
round: what it collected are successes, each round has taken it one stage further
(`Piped`), its action is the next tool of the pipeline, and past the rounds the report
has been tried. `RunInv` joins it with the types, `ReportIsLast` and
`CompletedIsReported`, and with the result being empty until the run ends.

**ChiefProofs.** `IInv` adds to the type invariant that the board stays blank
while the step runs (`BlankWhileRunning`), so that a branch that leaves a field
alone leaves it unset, and that a running attempt is one of those allowed
(`AttemptLeft`). `TimeIsBounded` needs `TimeInv`, an account of the time: attempts
that are over have used their longest time each and the growing pauses between them
(`Longest`, with the pauses as triangular numbers), the present one what its clock
shows, and each left at most one call behind.

`PhaseTwoReadsTheTruth` speaks of the step in which a run loads a file, and needs
`PhaseInv`, about files and their names: the cache and the temporary name never lead
to one file (`Apart`); a run that has opened nothing has left no piece anywhere
(`NoTrace`); two that write at once have crossed, and who opened the temporary file
last and has not crossed is alone (`OverlapIsCrossed`, `LastIsAlone`); so it writes to
the file under the temporary name and has there what it wrote (`OwnPieces`), which is
what an auto run finds when it comes to load (`OwnCached`, `WholeCached`).

Every invariant and every action property of the runs is proved. Only model-checked are
the liveness properties (`RunTerminates`, `BreakerCloses`, `CallerIsServed`,
`FittingRestEnds`, `RunEnds`, `ScanEnds`, `StepReturns`, `PhaseTwoComes`): they rest on
fairness and on which actions are enabled, and the prover reasons about neither.

## 5. Disagreements

What the documents, comments or tests say and the code does otherwise, as met while
modelling. Section 3 names a property for seven of them. The models contain the behaviour of the
code in each case that lies within them.

Engine and board:

* A second write to a critical key with another fingerprint is accepted when the
  event lists agree (`agents/core.py`, `fingerprints_equivalent`);
  `tests/test_blackboard_conformance.py` (8-10) speaks of the first one kept.
* PADDLE runs in the arm that ablates it once the joint analysis has failed, although
  a stage that is switched off "must be off *everywhere*" (`workflow_engine.py`, 301;
  `OffEverywhere`).
* `run_legacy_report` renders the deterministic page before it reads
  `REPORT_REQUIRE_LLM` (docstring at 2429).
* Nothing resumes from a saved failure (`workflow_engine.py`, 469): the one lookup of
  the store accepts completed runs only.
* `shared_evidence()` after `finalize_run` makes an empty bucket for a run that is over.

Client and streams:

* Two threads can both take the last call of the quota, and two that prune can drop a
  call of the window from the count, although the quota is a hard one
  (`llm/llm_factory.py`, 303). `OverdraftBounded` says how much this can cost.
* A thread whose test another overtakes pops an empty deque: `IndexError`, where the
  docstring knows `BudgetExhausted` only (409; `OnlyExhaustionIsRaised`).
* The rotation takes no lock against other processes (356: "We use a file lock";
  `RotationIsLocked`).
* The purge does not look at the schema version, nor again at the fingerprint before it
  deletes (`data/parquet_cache.py`, 392 and 425; `PurgeLeavesMirror` and
  `PurgeGuardsRegeneration`).
* Text that is being written is taken for a whole window
  (`tests/test_parquet_cache_integrity.py`, 1; run `cache_honest`).
* The read timeout of the client falls back to 180 s for the variable whose default is
  1500 s elsewhere (515).
* A download that fails ends the stream instead of skipping its window
  (`data/parquet_cache.py`, 598).
* A producer whose caller has stopped stays blocked on its full queue
  (`data/updates_loader.py`, 392).
* `rebuild_hollow` may return the hollow cache it was to replace
  (`data/parquet_cache.py`, 516).

ReAct agent and chief agent:

* The reply of `react_analysis_flow` calls `extract_react_token_count`, which is bound
  as a method only; the `NameError` sends every run that ended by itself to the legacy
  analysis, which analyses again.
* `run_supervisor_enrichment` and the joint stage look for anomalies one level above
  where the live tools put them, so that a live anomaly never triggers the one nor
  correlates in the other.
* `analyze_routing` reports success even if its detector failed; a failed repetition
  of a tool replaces its good evidence; a failed early report keeps the last attempt
  from being made.
* Two runs of one window, at the same time, can tear the cache of phase 1, publish the
  file of the other, or leave one without its `cache_path` and so without a phase 2,
  although the write is called atomic (`chief_agent.py`, 1760 and 1764;
  `CacheWriteIsAtomic`). In `TwoPhase` this is why the other two properties except runs that
  have crossed. A later run of the window also replaces the result the detached phase 2
  of an earlier one is about to read (2184).
* `run_auto_mode` returns 0 whenever the cache was written, also when both agents have
  failed, which the cached result says and phase 2 turns away (docstring at 2146:
  "0 = quick phase succeeded"); it returns 1 when only the write failed.

Scans and arbitration:

* The shared and the batch scan classify the same window differently: the batch passes
  trimmed maps and only rows that name the target (`hijack_chunk_api.py` says they
  agree).
* A chunk with withdrawals only makes `filter_target_announcements` return four values
  where five are unpacked, and the error leaves the shared scan.
* The trie cache is keyed by `id()` and never emptied. `VictimsSurviveTrimming` and
  `AccusedOnlyOfForeign` show why a foreign trie does no harm as long as the parent is
  looked up in the ownership of the chunk's own map.
* A prefix that belongs to somebody else makes the target a victim all the same when
  the target owns a block around it (`tests/test_origin_hijack_classification.py`, 83:
  "so the target is not the victim").
* The leak total covers what was read up to the chunk after the one that filled the
  list (`leak_detector.py`, 613: "true count, uncapped").
* `agent_overrode_rule` is true in a run whose committed verdict is the rule's, when a
  missing input has set the agent aside (`evidence_chain_builder.py`, 1469).
* Hijack "is asserted only when the routing layer actually recorded a hijack event"
  (904), but it is the default when traffic changed and nothing else explains it.
* The two axes read a traffic result without `data_available` and `success`
  differently; for it alone the stated confidence can move the cause, through the
  verdict (`ConfidenceIsNoVote` excludes it by name).

Report step:

* The watchdog of an attempt covers the probes as well as the call, with a margin of five
  seconds: after longer probes a call is cut short of its configured window
  (`report_agent.py`, 1138; comment at 1112: "never cut short here").
* The reason `llm_timeout` is written for a page that is no document; two branches write
  no reason; `BGP_TRACER_DISABLE_LLM_REPORT` overrides `REPORT_REQUIRE_LLM`.
* Probes that time out are retried and reported as a time-out of a model that was never
  asked; the inner time-out of a call is not retried while the outer one is; a budget
  message that contains "429" counts as transient.

Supervisor (not modelled): a tool that raises anything but an `AttributeError` stays
"running" and is counted nowhere (`agents/investigation_supervisor.py`, 415); the
registry answers most errors itself, so that `failed_tools` is practically empty; the
comment that one condition "overrides" others stands over rules that are OR-ed, so that
two rules may call the same tool and both raise the confidence.

## 6. Plan

Done: the modules of section 2 with their runs and proofs. What is left, in order:

1. `ToolOrchestrator`: trigger rules and batches of the investigation supervisor.
2. The response cache under several processes, with torn lines.
3. The token budget around `Workflow`, and what phase 2 does with the result it reads.
4. `compute_top_cause` of the report agent, as operators: its ranking against the cause
   of `Verdict`.
5. Theorems behind the liveness properties: measures that every step of a scan, a run of
   the ReAct agent and a run of the engine makes smaller.

## 7. Not modelled

* Numeric analysis (detectors over traffic series, PADDLE's statistics, periodicity, the
  outage score, the PathProb table): inputs are long series; a small instance would say
  nothing about them.
* Text: prompts, HTML rendering and scrubbing, parsing of answers.
* Pure file reading (AS organisation, relations, prefixes, RPKI) and the
  evaluation scripts and documents.
* The investigation supervisor, the response cache, the token budget and the chief
  agent's batches (see the plan).
* Within the modelled parts: the payloads behind the flags of `ctx`, slimming
  and record normalisation on the board, token counting in the LLM client, the
  enhanced mode of the ReAct agent and the work of its single tools, the
  items and the confidence of the evidence chain, the bucket downloads of the archive,
  and cancellation of the engine's task from outside, which is `Crash` to the engine.
