# Veeksha: specification, model checking and proofs

Veeksha benchmarks LLM inference servers. It generates sessions (directed acyclic graphs of
requests), schedules them, sends their requests through pools of threads, and scores the answers.
This directory holds TLA+ models of its parts, the TLC runs that check them on small instances, and
TLAPS proofs: about the three traffic schedulers, the whole run, and the parts around it that have
threads, tasks or failures of their own.
Paths below are relative to `src/veeksha/`.

    tlc -workers 2 -config ct_ramp.cfg ConcurrentTraffic.tla       # one run
    tlapm ConcurrentTraffic_proofs.tla                             # the proofs: also
                                  # TrafficScheduler_proofs, RateTraffic_proofs, LaunchShutdown_proofs,
                                  # BenchmarkRun_proofs, ServersAndClients_proofs,
                                  # WorkloadsAndMeasures_proofs, TrackingRuns_proofs

`PROJECT.json` lists every run, the mutant that shows each property can fail, the source lines each
definition models, the hazards, the findings and the theorems. Definitions whose comment starts
with `BUG:` are those mutants: plausible errors in the definition that follows them. No
specification uses them.


## 1. Inventory

### The system in one picture

    session generator --> prefetch worker --> traffic scheduler <------------- notify_completion
                                               |        ^                             |
                                  wait_for_ready|       | has_pending_work            |
                                               v        |                             |
                                          dispatchers   monitor (main thread)         |
                                register |     |                                      |
                       evaluator <-------+     v                                      |
                          ^            client queues --> client workers --> LLM server|
                          |                              (asyncio loop,     answer    |
                          |                               tracker)            |       |
                          |                                                   v       |
                          +------ record <------ completion workers <---- output queue

The main thread (`benchmark.py`) builds this, starts the pools, watches for the end, and shuts
everything down through one `stop_event` that each thread reads at its own point of its loop. Around
a benchmark stand the commands that run many of them: a sweep, a capacity search, a microbenchmark,
each with managed servers on GPUs that the resource manager grants; and what looks at a finished
run: health checks, SLOs, the verification of audio.

### Components

| Component | State | Operations | Hard behaviour | What makes it correct |
|---|---|---|---|---|
| Session graph (`core/session_graph.py`) | nodes, edges with a history mark, per-node wait | `add_edge`, `ready_at`, `topological_order` | fan-in | acyclic; a node is ready when its last parent is |
| Closed-loop scheduler (`traffic/concurrent.py`) | waiting sessions, active session states, ready heap, request map, ramp latch | `schedule_session`, `wait_for_ready`, `pop_ready`, `notify_completion` | completions out of order, cancel in mid-session, a target that a clock raises | no early, double or lost request; load below the target; no place idle; ends |
| Open-loop scheduler (`traffic/rate.py`) | as above without waiting line; next start time | same | arrivals while others run | arrival order and time do not depend on answers |
| Sequential-launch scheduler, dispatch tracker (`traffic/sequential_launch.py`, `dispatch_tracker.py`) | tickets, counter | same, `wait_for_turn`, `advance` | a turn passes between tasks, threads and callbacks | ticket order; every turn comes |
| Client workers (`workers/client_runner.py`) | input queue, event loop, its executor, active tasks | read, gate, send, put the result, cancel | shared executor threads; cancel while waiting | nothing lost before the stop; the loop closes |
| Prefetch, dispatch, completion workers (`workers/`) | what each thread holds | loops, drains | stop at any point of a loop | what is dispatched is recorded |
| Main loop and monitor (`benchmark.py`, `benchmark_utils.py`, `core/thread_pool.py`) | timeout snapshot, what is left in flight | monitor, timeout, grace, ordered joins | reads two components one after the other while both move | does not end early; ends; reports what it promised |
| Evaluators (`evaluator/`) | request and session counters, per-session statistics, streamed files | `register_request`, `record_request_completed`, `finalize`, the streamer's flush | results in any order, runs cut off, a flush that fails | counters equal the history; files are a faithful prefix |
| Channel evaluators and metrics (`evaluator/performance/`, `evaluator/accuracy/`) | rows, files of audio, sketches | `record_...`, `get_request_level_metrics`, playback, word visibility, decode windows | two workers score at once; snapshots that repeat; stalls | a row per answer; metrics are those of the timeline |
| LLM clients (`client/`) | connections, websocket state, clip cache | `send_request` with two callbacks | errors before a callback, cut streams, hang-ups, tasks of one event loop | each callback once before the result; the outcome is what happened |
| Trace recorder (`core/trace_recorder.py`) | queue, buffer, writer thread | `start`, `stop`, `record_dispatch` | a stop between two tests of the loop | in order, once, in time, nothing lost |
| Capacity search (`capacity_search.py`) | probe, bounds, best, budget | probe, bisect | rounding, contradictory benchmarks, budget | unwarned result is the maximum |
| GPU resource manager (`orchestration/resource_manager.py`) | free GPUs per node, allocations by job | `allocate_resources`, `release_resources`, `wait_for_resources`, `add_node` | look at the free count, then allocate | a GPU has one owner; the grant is the best there is |
| Server orchestration (`orchestration/`, `cli/benchmarks.py`) | process or container, log files, allocated GPUs, groups of configurations | `launch`, `wait_for_ready`, `shutdown`, `managed_server` | failure of any step, a death during the start | nothing is left behind; each configuration runs once on its own server |
| Session generators (`generator/session*`) | counters, trace cursor, epoch | `generate_session`, `prepare_session`, `topological_order` | trace wrap-around, wrong rows, branching graphs | graphs meet the assumptions of `SessionGraph`; a trace is replayed as written |
| Channel, length and interval generators (`generator/channel`, `trace/`) | shared-prefix cache, corpus cursor | `generate`, `build` | prefixes that grow by text of about the right length | prefixes share; lengths are what was asked |
| Microbenchmarks (`microbench/`) | levels probed, results on disk | stress sweep, resume, prefill and decode validation | resume, close-enough levels, chunked prefill | the range announced is covered; a sound engine passes |
| Health checks (`health.py`) | the report on disk | one check per aspect, `run_health_checks` again | a run that is healthy at its limits | a healthy run passes, again and again |
| SLO evaluation (`slo/`) | samples per metric | percentile, verdict | missing values, lists of gaps | the verdict is that of the samples |
| Verification of audio (`verification/`) | rows, chunks, alignment, buckets | transcribe, align, attribute, summarise | chunks without words, shares of a word | each error is counted once and in its place |
| Experiment tracking (`wandb_integration.py`, `sweep_summary.py`) | one active run per process | init, log, finish, summary | a job in a job, failures | a directory, run and row per benchmark |
| Preparation of audio traces (`src/scripts/`) | clips, manifest, copies on disk and hub | build, fetch, publish, validate | killed or failing between two steps | what passes for sound is of one build; words are heard in their clip |
| Configuration, command line | data | field validation | none | not modelled |

### Interactions

* Shared state under a lock: the scheduler (one `Condition`), the evaluator (one lock, and one per
  channel), the tracker (one `Condition`), the resource manager (one reentrant lock), the clip cache
  (one lock per clip and one for the table). A method is one step of the models where it runs under
  its lock throughout.
* Queues: one input queue per client worker, one output queue, the recorder's queue.
* Callbacks: `on_request_dispatched` and `on_request_sent`, called by a client in the middle of
  `send_request`, advance the tracker.
* `stop_event`: set by the main thread only; read by every loop.
* Two-step reads: the monitor reads the prefetch thread, then the scheduler; a completion worker
  notifies the scheduler, then the evaluator; a timeout takes a snapshot of the registered requests,
  then reads the in-flight ones, again and again; a wait for GPUs looks, then allocates.
* Files: the metric files that the streamer appends to and the end rewrites are what health checks,
  SLOs and verification read.

The hazards that follow from this are listed with their lines in `PROJECT.json`.


## 2. Plan

Order of the work, most important behaviour first. All of it is done.

| # | Modules | Composes | Abstract specification | Checked by |
|---|---|---|---|---|
| 1 | `SessionGraph`, `TrafficScheduler`, `ConcurrentTraffic` | - | `TrafficContract` | `ct_ramp`, proofs |
| 2 | `RateTraffic` | `TrafficScheduler` | `TrafficContract` | `rt_join`, proofs |
| 3 | `LaunchShutdown` | scheduler, tracker, dispatchers, client loops | `TrafficContract` | `ls_stop`, `td_chat`, `ls_exit`, proofs |
| 4 | `BenchmarkRun` | `RateTraffic`, all pools, the monitor | `RateTraffic` | `br_run`, `br_late`, proofs |
| 5 | `ResourceManager` | - | "a GPU has one owner" | `servers_clients`, proofs |
| 6 | `ServerSweep`, `SttStream`, `TtsStream`, `ClipCache`, `HttpClients` | - | - | `servers_clients`, `stt_clips`, proofs |
| 7 | `MetricStreamer`, `TraceRecorder` | - | the files are a prefix of what was put | `servers_clients`, `recorder_stop`, proofs |
| 8 | `SessionAccounting`, `CapacitySearch`, `MicroBenchmarks` | - | the history; the true maximum | `workloads_measures`, `capacity_ceiling`, proofs |
| 9 | `GraphGenerators`, `TraceReplay`, `PromptSources` | - | the assumptions of `SessionGraph` | `workloads_measures` |
| 10 | `AudioMetrics`, `SloVerdicts`, `HealthChecks`, `SpeechVerification` | - | the run or recording that is measured | `workloads_measures` |
| 11 | `TrackingRuns`, `AudioTraces`, `TraceFiles` | - | - | `workloads_measures`, proofs |

`ServersAndClients` and `WorkloadsAndMeasures` check parts that share no state in one run each:
the variable `part` says which of them a behaviour is of, and the others rest. A run of its own for
each would ask the same question of the same states.

Proofs still worth having: `AnswerMatches` of the HTTP clients and `SweepIsComplete`, whose folds over
lines and groups are induction over data.


## 3. The modules and the code

### The run

**SessionGraph.** Node ids are local to a session, and `session.requests` maps them one to one to
requests; the model identifies the two, so that all graphs together are one relation `Edge` on
`Request`. Its assumptions are what `add_edge` enforces and the generators guarantee, which
`GraphGenerators` checks.

**TrafficScheduler.** The fields of the session states (`pending_nodes`, `queued_nodes`,
`completions`, `node_histories`) are unions over sessions; the heap is a set of `[at, req]` whose
pops take any least item, which covers every tie-break. `CompleteAndActivate` is all of
`notify_completion`: history, cancel, release of children, deletion of the session, and whatever
the concrete scheduler activates afterwards. A completion carries the client's time of the answer,
up to `MaxLag` ticks old, and completions are processed in any order.

**ConcurrentTraffic** adds the deque of waiting sessions and the ramp. `WaitForReady` is one round of
the method: admit, then pop what is due. `rampComplete` is latched by the first look past the ramp,
as in the code, so that a look and a stored flag can differ.

**RateTraffic** activates each session when it is handed over, one `Interval` after the one before.

**TrafficContract** is the abstract specification: each request is idle, sent, done or dropped, each
session open or not. It has no clocks, heaps or node sets.

**LaunchShutdown** starts with the sequential-launch scheduler, which numbers the roots with
tickets in any order within a session (the code iterates over a set of nodes), and composes it with
dispatchers, client queues, each event loop's default executor (`jobs`: the read of the queue and
every `wait_for_turn` compete for `Slots` threads, first come first served), the tracker, and the
client's callbacks. `FiresOnReturn` says whether the client calls back before it returns in any case
(`client/stt.py`) or only at its events (`client/openai_chat.py`). Then come the steps of the stop:
loops end, tasks are cancelled, executor threads live on. `td_chat` runs without a stop.

**BenchmarkRun** has the whole run with the rate scheduler. Every step between two accesses to
shared state is an action. The monitor's iteration is split where it reads the prefetch thread and
where it reads the scheduler. `Prompt` says whether a thread ends within its one-second join.
Client queues are sets: the order in which a worker reads does not matter to any property here.
`owed` is a history variable for `ReportIsComplete`.

### Servers and clients

**ResourceManager** has one action per method; `wait_for_resources` looks, lets go of the lock, and
allocates or sleeps, `Patience` polls long. `Grant` is the code's choice: adjacent GPUs of one node,
then any of one node, then of several. A host may be added again: `add_node` then calls all of its GPUs
free, whoever holds them, and `overwritten` remembers the hosts this happened to while a job held one.
A host's number of GPUs is fixed by the model.

**ServerSweep** follows the main thread through the groups of a sweep and through every step of a
server's life, as a subprocess or as a container. Each step may fail, and the server may die or hang
by itself at any time; `finally` clauses and the second `stop()` are steps. When docker neither stops
nor removes the container in time, the runner goes on as if it had (`unremoved`).

**SttStream, TtsStream.** The tasks of one request change places at each await. A transcript is a
sequence of pieces: a blank or a whole control token leaves none, half a token leaves one. The server says any
sequence of events; time-outs, closed connections and errors of a callback come at any await.
`TtsStream` has the task group's rule that a second task may raise before it is cancelled, and the
close of the websocket after the group, still under the request's timeout: a timeout there
(`CloseTimesOut`) replaces whatever was on its way out, a hang-up or a success.

**HttpClients.** The three HTTP clients read an answer whose chunks need not end where a line ends;
`cut` is a last line without its end, which the chat client's own splitting drops and httpx's
`aiter_lines`, which `client/tts.py` uses, hands over.

**ClipCache** has the lock objects as objects, since the table may drop one that a thread still holds
a reference to. Its finding is `stt_clips`.

**MetricStreamer** has completion workers, the streamer thread and the main thread, with the steps
between count, row, trigger, flush and final save. A flush may fail at each of its writes.

**TraceRecorder** has the writer loop in three steps (test, get, look at `should_flush`), since a
stop may come between any two of them.

### Workloads

**GraphGenerators.** The branching, linear and single generators over drawn widths, fans and
distances, and the topology of a trace: its rows in any order, some wrong, are checked, ordered, and
visited along lineages.

**TraceReplay.** Epochs of a trace, each in an order of its own (a RAG trace is shuffled before its
warm-up too), with remapped hash ids, warm-up
sessions of a RAG trace, rows that cannot be prepared, and the interleaving of lm-eval documents.

**PromptSources.** The growing shared prefix and its cache, samples of a corpus, turns of recorded
conversations, and texts cut to a length. Tokens are numbers; a text's token count is only near what
was asked (`Slack`).

**AudioTraces** builds clips from their source, through repetition to a length, word times and cuts,
to the manifest; each clip remembers the tick of its source it starts at, so that "its words are heard in
it" can be said.

**TraceFiles** has what builds, fetches and publications leave on disk and on the hub; each may fail,
or be killed between two steps, and a later command finds what is there. A copy has a manifest, at most
one filtered variant of it, and the audio that both name; each is known by the build it is of. A build
replaces manifest and audio and leaves the variant (`outdated`).

### Searches, measures and verdicts

**CapacitySearch** counts values in grid steps and configuration values in fractions of a step, so
that rounding (half to even) is exact. A benchmark is its outcome: met or not met.

**MicroBenchmarks.** The stress sweep doubles the load, takes the range from what was measured, fills
it with levels and reuses near ones. A level is its throughput and interactivity; the directories of a
resume are symbolic links (`linked`), which the search for the results to report does not enter. The
prefill and decode benchmarks run on the engine that `microbench/decode.py` reasons about (external),
with the decode windows of `evaluator/performance/text.py`. All are checked under `MeasuresAreSound`.

**SessionAccounting** has the counters under the evaluator's lock, then `finalize()`.

**AudioMetrics** has two completion workers in the audio evaluator, which takes its lock twice and
scores in between without it, and the metrics of playback and of visible words, computed from a
timeline that is taken down first.

**HealthChecks** lets a closed-loop or open-loop run of the kind the schedulers promise happen, and
evaluates the checks on its rows. **SloVerdicts** judges rows. **SpeechVerification** has the
verification of saved audio and the pipeline of long recordings from chunks to buckets and summary;
words are counted in fractions of `Unit`, so that shares are exact.

**TrackingRuns** follows a job of one or several benchmarks through directories, tracked runs and the
summary.

The session graphs of the runs of a scheduler or of `BenchmarkRun`, and the values of its constants, are
at the end of its module. `ServersAndClients` and `WorkloadsAndMeasures` put parts side by side that share
nothing; they leave the constants of the parts that are proved about open, and their `.cfg` files
give them values.


## 4. Runs

Passing runs:

| Run | Configuration | Shows |
|---|---|---|
| `ct_ramp` | diamond graph and two single requests, one of them delayed, ramp to two places, cancel on failure, answers up to 2 ticks late | lookups never raise `KeyError`; nothing is sent early; a finished session is really done; the load follows the ramp up without completions and never exceeds it; places do not stay free; in-flight ids are exact; no session gets stuck; if answers come, all work ends; every step is allowed by the contract |
| `rt_join` | two roots that join and go on as a conversation, a single request, intervals 0 and 2, no cancel, text-less and failed answers | arrivals keep their order; every root arrives though no answer need come; histories are the ancestry, with an answer for a turn exactly if its parent succeeded with text; every step is allowed by the contract |
| `ls_stop` | two dispatchers, two client workers, ordering `prefill`, a stop at any moment | turns in ticket order to the end; a request is in one hand; every turn comes; every root is launched; both loops close without answers |
| `br_run` | a run without timeout or with grace period, Ctrl-C at any moment | it ends only when done; nothing is lost before the stop; what was answered by the stop, or declared included, is in the report; it ends even if the server hangs and a grace period is set |
| `servers_clients` | eight parts with threads or a peer of their own | a GPU has one owner, but on a host added again while in use, and the grant is the best there is; a sweep leaves nothing behind that docker agreed to remove; the outcome and callbacks of a request are what happened, wherever the stream is cut; files are a faithful prefix; each part comes to its end |
| `workloads_measures` | seventeen sequential parts, 600,000 states | searches return the maximum; counts are exact; graphs, replays and prompts are as configured; metrics are those of the timeline; a healthy run passes and verdicts are right; each benchmark is tracked once |

Runs that find a disagreement (see section 7), each of one property: `td_chat`, `ls_exit`, `br_late`, and
of the parts, with the constants of the runs above, `stt_clips`, `recorder_stop`, `capacity_ceiling`.
Runs of parts have `CHECK_DEADLOCK FALSE`, since a part comes to an end.

### Bounds, and why they are enough

* **Graphs.** Fan-out, fan-in, several roots, delayed and undelayed nodes, a history chain and a
  second session all occur; the graphs are the smallest with those shapes. A property about a
  request and its parents is violated by a graph of at most two levels if at all, and about two
  sessions by two; three compete for two places in `ct_ramp`, a chain of three turns is in `rt_join`. The proofs lift this for all three
  schedulers. `GraphGenerators` draws up to five nodes in three layers, and traces of three rows with
  every parent list of up to two, wrong ones included.
* **Time.** `Horizon` bounds free ticking; after it the clock moves only to reach a queued item,
  so that no behaviour is cut off. `MaxLag` of 2 lets two completions be processed in either order of
  their answers. `LaunchShutdown` and `BenchmarkRun` use `Horizon = 0`: their properties are
  about the order of steps, not about durations.
* **Threads.** `ls_stop` has two of each, as overtaking needs two. `br_run` has one of each: its
  properties concern threads of different pools, and threads of one pool share nothing but
  lock-protected operations and queues. Three threads share two clips: a holder, a waiter and a
  newcomer. Two jobs wait for GPUs: one can take what the other saw.
* **Executor.** `Slots = 3` holds the read and both waits of the instance. The default executor has
  `min(32, cpus + 4)` threads; section 7 says what happens when they do not suffice.
* **GPUs.** Nodes of 3 and 2, jobs that want 2 adjacent and 3 any: fragments, a grant over two nodes,
  a request that must wait, and a host added again while in use all occur.
* **Sweep.** Three configurations of two servers, in mixed order, so that a group has two members.
* **Streams.** One chunk and two events of speech-to-text, two segments and two events of synthesis,
  two lines of an answer: an event before, between and after the last send, a token split over two
  events, a line split over two chunks.
* **Files.** Two requests and two failures of the streamer; three trace entries with a batch of 2
  for 100: a batch that is empty, partial and full, and a second batch.
* **Capacity.** Ceilings of 3 to 20 sessions, two of them off the grid, with growth 5/4: expansions that round to nothing, overshoot the
  ceiling and hit it; 11 iterations: enough to finish some searches and not others.
* **Stress sweep.** Three possible measurements, four probes, two resumable levels: growth, its end
  and a level without a point.
* **Measures.** Up to three messages, snapshots or rows: the second of three has both a predecessor
  and a successor. Decode batches of one to three with prompts shorter and longer than a chunk; the
  values in `WorkloadsAndMeasures` put stalls, gaps and scores on both sides of each threshold.
* **Health.** Three sessions, two at once, each request up to two ticks late: the third must wait.
* **Replay and files.** Eight sessions from three groups: nearly three epochs. Three builds: one that is
  replaced, one that replaces, one after a failure. One variant: it is of the build or of an older one.

### Fairness

Weak fairness of a thread's next step stands for: the loop polls with a timeout and nothing else
holds its lock for ever. It is assumed per thread (or per kind of step where an executor thread is
meant), never of the choice within a step. `BenchmarkRun` assumes less: that some thread, or time,
goes on while one can, and that the monitor does. Time passes (`Tick`) where deadlines or ready times need it.
*Answers* are assumed only where the property is about answers: `AllWorkEnds` and `RunEnds` have
`AnswersCome` as a premise, since clients have request timeouts; `RampKeepsPace`, `RootsArrive`, the
grace-period case of `RunEnds` and `LoopsClose` hold without it. In `LaunchShutdown` the answers of
an open loop are fair, as the turns of others depend on them; a stop closes the loop regardless.

In `servers_clients` the k-th thread of the part at work is fair: a waiting job, a herd's thread, the
client's event loop (which includes its own time-out), the main thread of a sweep, the streamer, the
writer, and the main thread that joins them. Servers owe nothing. The recorder's flush has strong
fairness: the interval restarts at each flush and is over again and again, while looks at it come
and go. The stop is never fair in `LaunchShutdown` and `TraceRecorder`: properties hold whether it
comes or not. `workloads_measures` has no liveness.


## 5. Proofs

`TrafficScheduler_proofs` has the part of the argument that does not depend on how sessions become
active, and what a scheduler with a place for every session owes to the contract;
`ConcurrentTraffic_proofs`, `RateTraffic_proofs` and `LaunchShutdown_proofs` finish it for the three
schedulers, the last with all the threads that carry the tickets out.

| Theorem | Property | Module | For every |
|---|---|---|---|
| `Invariance` | the inductive invariant `IInv` | all three schedulers | set of sessions and acyclic graphs, delays, outcome set, lag; target and ramp, or intervals, or workers, dispatchers, executor threads, ordering and kind of client |
| `TypeCorrect` | `TypeOK` | closed loop | same |
| `LookupsSafe` | `LookupsNeverFail` | closed loop | same |
| `InFlightExact` | `InFlightIsQueuedOrSent` | closed loop | same |
| `NeverStuck` | `NoStuckSession` | closed loop | same |
| `LoadBounded` | `ConcurrencyHeld` | closed loop | same |
| `PlacesFilled` | `PlacesStayTaken` | closed loop | same |
| `NothingLost` | `FinishedAreDone` | closed loop | same |
| `HistoriesRight` | `HistoryIsAncestry` | closed loop | same |
| `SentInTime` | `NeverEarly` | closed and open loop | same |
| `KeepsContract` | `ImplementsContract` | all three | same |
| `ArrivalsOrdered` | `ArrivalsInOrder` | open loop | same |
| `NeverRaisesNorSticks` | `LookupsNeverFail`, `NoStuckSession` | open loop | same |
| `TurnsKept` | `TurnsInOrderToTheEnd` | sequential launch | same |
| `SentInTimeAndMapped` | `NeverEarly`, `LookupsNeverFail`, `NoStuckSession` | sequential launch | same |
| `OneHand` | `InOneHandUntilStop` | sequential launch | same |
| `Invariance`, `TypeCorrect` | `IInv`, `TypeOK` | whole run (`BenchmarkRun`) | sessions, graphs, intervals, threads of each pool, time-outs, joins |
| `FinishedIsDone` | `EndsOnlyWhenDone` | whole run | same |
| `NothingLost` | `NothingLostBeforeStop` | whole run | same |
| `ReportComplete`, `IncludedReported` | `ReportIsComplete`, `IncludedAreReported` | whole run | same, if joins outlast their threads (`Prompt`) |
| `DrivesScheduler` | the run implements `RateTraffic` | whole run | same |
| `EveryGpuHasOneOwner` | `OneOwner` | resource manager | nodes, widths, jobs, needs, patience |
| `GrantsAreBest` | `GrantIsBest` | resource manager | same |
| `SweepLeavesNothing` | `NothingLeftBehind`, half of `SweepIsSound` | server sweep | configurations, engines, ends of every step |
| `Transcription` | `TranscriptionIsSound` | speech-to-text client and clip cache | chunks, events, providers; threads, clips, caps |
| `Synthesis` | `SynthesisIsSound` | streamed synthesis | segments, events, providers |
| `Files` | `FilesAreFaithful` | metric streamer, trace recorder | requests, workers, failures; entries, batch size |
| `SearchIsRight` | `SearchFindsMaximum` | capacity search | starts, ceilings, growth, grid, budget, capacities |
| `SessionsAreCounted` | `CountsAreExact` | session counters | sessions, requests, results |
| `TracesStayWhole` | `FilesAreWhole`, part of `WorkloadsAreExact` | audio traces on disk | builds, files of words |
| `JobsAreTracked`, `TrackingSound` | `TrackingIsSound` | experiment tracking | jobs, configurations, orders, failures, seconds |

Few of these are inductive by themselves. The invariant of the closed loop is `TypeOK`, `CoreInv`, and
three facts of the waiting line:

* `CoreInv`: the request map is exactly the queued nodes (`MapExact`), which are the queued and the
  sent requests (`QueuedExact`); the heap has a request once, unsent (`HeapOnce`); a pending request
  is unsent (`PendingUnsent`) and has an incomplete parent (`PendingBlocked`); pending and queued
  requests belong to active sessions (`HeldByActive`), every active session has one
  (`ActiveHasWork`), a canceled one has none pending (`CanceledDropped`), and of one that is not
  canceled each request is pending, queued or complete (`ActiveCovered`); times lie in the past
  (`TimesPast`).
* `WaitOnce`: a session waits once and is no longer to be scheduled; `FreshUntouched`: nothing of a
  session that waits or is unscheduled has happened. Without them an activation could revive
  completed requests.
* `ConcurrencyHeld` itself: admission stops at the target, and the target does not shrink
  (`TargetGrows`, integer division is monotonic).

`NeverStuck` is where the graph matters. An active session has a pending or queued request. If only
pending ones were left, each would have an incomplete parent; that parent is pending itself, by
`ActiveCovered`; so the pending set would have no member without a parent in it, which
`AcyclicAssumption` excludes. A cancel empties the pending set, so `ActiveHasWork` leaves a queued one.
`LoadBounded` needs that there are finitely many sessions, for their cardinality.

Three more invariants rest on it, each kept by a lemma per operation:

* `Conversation`: what waits in the heap is due no earlier than its parents and its delay allow
  (`QueuedTimely`), what is complete has recorded its turn (`TurnsRecorded`), and what was sent was
  sent in time and with the right history. `SentInTime` and `HistoriesRight` are two of its parts.
* `AllAccounted`: a session that is neither fresh nor active has every request complete or dropped
  unsent, which is `NothingLost`.
* `PlacesStayTaken`: an admission stops only because the line is empty or the target is reached
  (`AdmissionFills`), and a completion frees a place and admits in one step (`PlacesStep`).

`KeepsContract` maps a state to the fate of each request (`FateIs`) and to the open sessions. The
lemmas `FateOfPop` and `FateOfCompletion` say that a pop changes the fate of one request, idle to
sent, and a completion that of its own request and, under a cancel, of the unsent ones behind it
(`BlockedWith`, by the acyclicity of the graph: what a failure drops is what it blocks). So each step
is a step of `TrafficContract` or a stutter; `ContractStep` has one case for each operation.

The open loop adds three facts to the shared invariant: a session that was handed over has its start
time, which is no later than any to come (`StartsKnown`), its unsent roots are in the heap
(`RootsQueued`), and a root is there at its session's start plus its own delay (`RootTimes`). The pop takes a
least item, so roots leave in the order of their due times.

`TurnsKept` needs no fact about the executor: a turn is passed at the gate by a request whose ticket
has come up. What it needs is that the counter never passes the ticket of a root that is not launched
(`CounterBehind`), and that what is past the gate had its turn (`HadItsTurn`). The counter moves only
at the ticket it shows, and tickets are unique among roots (`TicketsGiven`). That would fail for
the requests that wait for others, which all keep ticket 0 and advance the counter from 0 to 1 if it
still is 0, as a failed first root may leave it (finding `td_chat`). `RootsFirst` closes the gap: the
first request to complete is a root (`RootBefore`, by `NeverEarly`), so some root is processed and
past the gate, at counter 0 its ticket is 0 too, and it is the only one. `QueuesHoldQueued` keeps a
client loop from sending a request back to the gate, and `StagesAgree` ties the carriers' stages to
what the scheduler knows. A stop changes none of this: a cancelled task leaves stage, ticket and
counter as they are.

`OneHand` adds the executor. Until the stop a job is the loop's own read, of which a worker has one,
or the wait of a request at the gate, which has one wait in all (`JobsHoldGates`); the lemma `Without`
says which jobs are left, and in which order, when one is taken out.

**The whole run.** `IInv` of `BenchmarkRun` is the scheduler's own invariant and what each thread still
holds. `StopComesFirst` and `PrefetchThrough` order what the main thread does: nothing ends before the
stop, and the prefetch worker is through when the monitor has seen it. That is why the monitor may read
two components one after the other: once prefetch is through, the scheduler's work only shrinks.
`RegisteredWereSent`, `IncludedHaveCompleted`, `ResultsKept` and `OwedAhead` follow a result to the
evaluator: it is in a hand, in the output queue before every sentinel, or recorded. `DrivesScheduler`
maps each step to a step of `RateTraffic` or a stutter, so what is proved of the open loop holds in
every run, with any number of threads and any stop.

**Servers and clients** (`ServersAndClients_proofs`). One invariant per part; a step of one leaves the
others alone (`OnlyItsPart`).

* `OwnersInv` of the resource manager is `OneOwner` with `TypeOK`: a node that is added for the first time
  brings nothing that is held (`NewNodeIsApart`), one that is added again while in use is `overwritten`
  from then on, and its GPUs are all that `OneOwner` gives up; every strategy grants from what is free (`GrantIsFree`).
  `GrantIsBest` compares the grant with the free GPUs of the same step (`NodesApart`: what a node has
  free is of that node), so it does not matter what the waiting thread saw before.
* `SweepInv` is `NothingLeftBehind` and what the steps in between hold: a server of the subprocess
  flavour that runs has a handle, and only a container has a log stream. So what a sweep leaves, but for
  a process that outlived SIGKILL, is the container that docker did not remove, and nothing else.
* `Called` of speech-to-text says which callbacks have come at each point, `Expected` which events a
  provider's stream can still have. `TextTimed` says that while there was no text nothing is
  assembled: `Clean` is a fold, and texts of at most one piece are unfolded.
* `ClipsInv`: if the cap is at least the number of clips, each path has one lock object (`LocksOfPaths`),
  so that two threads that look or decode are of different paths, and a clip is decoded when it is not
  cached and nobody else decodes it (`DecodedOnce`). It never evicts, since distinct cached paths are no
  more than there are. Without that premise the lock objects part, which is the finding `stt_clips`.
* `TtsInv`: what the sender, the receiver and the watchdog each leave when they end (`TasksTell`), that
  a trigger is noted before the server may answer it (`TriggerNoted`), and that a hang-up was meant
  (`HangUpsAreMeant`). The timeout strikes once, in a task or in the close (`expired`), and only the
  latter makes an error of a hang-up.
* `MetricsInv`: the file is a prefix of the rows but while an append is torn (`Streamed`), rows and
  summary are counted before they are written, and the final save mends a torn file (`SavedAfter`).
* `RecorderInv`: each move of an entry keeps file, buffer and queue together in order (`MoveHead`); the
  writer ends only with an empty queue after the last put (`EndedDrained`) and less than a batch in its
  buffer (`BufferRoom`), which bounds the loss.

**Workloads and measures** (`WorkloadsAndMeasures_proofs`).

* `SearchInv` of the capacity search: the last passing value is the greatest that passed, and the engine's
  capacity, unless the benchmarks contradict each other, is never outside of the gap (`Bisecting`).
  Rounding keeps the order of values (`OnGridKeepsOrder`), and the midpoint of a gap of two is inside
  of it.
* `AccountsInv` of the counters: an open session has some of its requests and its entries count them
  (`OpenSessions`); each counter is the cardinality of a set of sessions (`Counted`), and a result moves
  at most one session between these sets.
* `FilesInv` of the audio traces: at which steps the audio, the manifest and the variant of a copy may be of
  different builds (`CopiesWhole`: `Mixed` after a build that stopped, `Stale` after audio or a publication
  came to an older variant), and when the words on disk are all there (`WordsWhole`).
* `TrackingInv` of the jobs is proved in `TrackingRuns_proofs`, of that module alone (`TrackingSound`);
  `JobsAreTracked` carries it over, definition by definition, to the instance in the run. Every benchmark
  up to now has one run with all of its results, and no other run names it (`RunPerBenchmark`); what the
  one at work has logged is known at each step (`WorkLogged`); the active run is its own, the
  microbenchmark's or user code's (`ActiveRun`). Those whose turn came have different names of their
  configurations (`DirsNamed`): one more number than there are names is always enough for a new one
  (`NamesAreNew`, a pigeonhole argument). The summary is written after the last benchmark, as things are
  then (`RowsFollow`), and has the windows of each length and batch (`WindowsKept`).

The proofs use the named assumptions of the modules (`SessionAssumption`, `EdgeAssumption`,
`AcyclicAssumption`, `HistoryAssumption`, `WaitAssumption`, `ConfigAssumption`, `RampAssumption`,
`IntervalAssumption`, `DispatchAssumption`, `RunAssumption`, `ManagerAssumption`, `RecorderAssumption`,
`ClipsAssumption`, `SearchAssumption`, `AccountingAssumption`, `TrackingAssumption`), which say that
sets are finite, bounds are numbers, a session has a request, a job has a list of configurations, and
what `add_edge` enforces; TLC evaluates each of them in the runs.

Only model-checked: liveness, and everything under fairness (the prover has no support for it or for
`ENABLED`); `SweepIsComplete`, whose groups are built recursively, and `HttpAnswersAreRight`, whose lines
are cut by folds (induction over data); and the sequential computations of `MeasuresAreSound`, `VerdictsAreRight`, `GraphsAreSound` and the rest of `WorkloadsAreExact`, which
run through recursive definitions over rows and tokens.


## 6. Left out

Within the modelled components: the content of prompts and answers; logging; the wall-clock length
of polls; the pre-generation and warm-up before a run, which are sequential; failed writes of the
trace file, which the code logs and drops; an item that a client worker reads after the stop (its
task is cancelled before it runs); the parts of `finalize()` that compute statistics; sketches and
sums of the channel evaluators; charts and tables. `BenchmarkRun` uses the rate scheduler; the others
have the same interface and refine the same contract. No module has a client's request, the clip
cache and the event loop's executor at once: `LaunchShutdown` has a client as its callbacks only.

Not modelled at all: configuration and the command line (validation of fields and arguments, pure
functions of their input; the models take what they guarantee as assumptions on constants), the
tables of the text normaliser, tokenisers, and the draws of random lengths and intervals.
External, modelled by how the code uses them: LLM servers, engines and containers, the models that
transcribe and score speech, the aligner, the tracker's service and the hub.


## 7. Findings and observations

Each of the first six has a run whose counterexample TLC prints.

* `td_chat`: with ordering `dispatch` or `prefill`, a chat or completions request that fails before
  its callback returns a failed result and leaves the tracker at its ticket: all later roots wait
  for ever (`client/openai_chat.py:403`). The STT client has the fallback.
* `ls_exit`: a task cancelled at the stop does not give up its ticket; a `wait_for_turn` behind it
  stays in its executor thread, which the interpreter joins at exit (`workers/client_runner.py:92`).
* `br_late`: completion workers are joined for one second each; a slower one loses its results to the
  report (`benchmark.py:216`).
* `stt_clips`: the clip cache drops an evicted clip's lock when nobody holds it at that instant; a
  thread that has fetched the lock and waits keeps the old one, a newcomer makes a new one, and both
  decode the clip, though the comment promises one decode for a herd (`client/stt.py:314`). While
  the cache holds all clips asked for, the promise is kept (`HerdDecodesOnce`).
* `recorder_stop`: `TraceRecorder.stop` promises to "flush remaining items" (`core/trace_recorder.py:59`).
  If the stop comes after the look at `should_flush` and before the loop test at line 114, with an empty
  queue and a partial batch, the batch is lost. `StopLosesNoBatch` states what does hold: less than a batch.
* `capacity_ceiling`: "Expansion will not exceed this value" (`config/capacity_search.py:30`), but a ceiling
  off the grid may be rounded up (`capacity_search.py:197`). One that is rounded down is reached by no
  probe, and a search that passes everywhere repeats its last probe until the budget ends
  (`ProbesGrow` excepts it).

Seen while modelling, without a run of their own:

*The run*

* If the waits for a turn take every thread of an event loop's executor while the request whose turn
  it is has not been read from the queue, no launch goes on, and the loop cannot close either, since
  its read needs a thread (`workers/client_runner.py:112`). It takes a root with a
  `wait_after_ready`, which keeps its early ticket until it is due, and as many roots of later
  sessions as there are threads. `ls_stop` with `Slots = 1` instead of 3 ends in that deadlock.
* `set_included_requests` promises that only these "will be counted in the final summary metrics", and
  stores a set that nothing reads: requests registered after the timeout are counted if they are answered
  (`evaluator/performance/base.py:208`). `IncludedAreReported` is the other half, which holds.
* A failed result with an error code and an empty `error_msg` makes no exception for the evaluator
  (`workers/completion.py:59`): it counts as an errored request of a successful session
  (`evaluator/performance/base.py:239`). `SessionAccounting` has it as the result `mute`.
* A session's start counts when its first result is recorded (`evaluator/performance/base.py:319`), so
  the observed dispatch rate spans the sessions in the order of their results.
* The streamer clears its event after a flush; an update set in between waits for the next interval.
  An append that is torn half way makes duplicate rows until the final save.
* A result that cannot be scored raises and ends its completion worker.

*Clients*

* The early returns of `client/tts.py` and `client/streaming_tts.py` for a request without a TEXT
  channel call nobody back; a streamed synthesis that fails to connect calls `on_request_sent` though
  it dispatched nothing. A chat answer without text never calls `on_request_sent`
  (`client/openai_chat.py:430`).
* The last line of an event stream is dropped when it lacks its newline (`client/openai_chat.py`; httpx's
  lines in `client/tts.py` keep it).
* The docstring at `client/stt.py:157` has two first-text times differ when a control token is split over
  deltas; the code stops both at the token's first half, which is visible text until the second comes
  (line 465). `FirstTextAgrees` says that they are equal on the streams where the docstring has them equal
  too, and nothing of the others, which the run has.
* A timeout while the websocket of `client/streaming_tts.py:843` closes is still a timeout of the request: a
  deliberate hang-up, "not a server or transport error" by its docstring, or a complete stream is then
  reported as an error. `OutcomeIsRight` excepts the hang-up of that moment, and no other.
* In `client/stt.py` a `done` event may overtake the sender, and the success then has no final time.
* Failed requests never reach the channel evaluators (`evaluator/performance/base.py:239`), so the
  row that a comment in `evaluator/performance/audio.py:232` keeps for them is never made. Several
  channel evaluators write the same file of request metrics, the last one wins, and SLOs read it:
  a run of which most requests failed can meet all its SLOs.

*Servers and commands*

* `config/server.py:52` requires contiguous GPUs; the manager takes the first node with room and, if that one
  has no run of adjacent GPUs, any of its free ones (`orchestration/resource_manager.py:338`), even when
  another node has a run. `GrantIsBest` promises adjacent GPUs on the nodes that have them, and nothing of
  the others.
* A docker engine whose `docker stop` times out and whose `docker rm -f` fails drops its handle and releases its
  GPUs without a word, and the container runs on (`orchestration/managed_engines.py:327`).
  `NothingLeftBehind` excepts that container alone.
* `add_node` for a known host warns and calls all of its GPUs free while jobs hold some
  (`orchestration/resource_manager.py:177`); the next grant gives them a second owner, and the release of
  either frees them for a third. `OneOwner` excepts such a host, and nothing in `src/veeksha` calls
  `add_node`; tests do, once for each host. A second allocation for one job id overwrites the first (line 202).
* A `docker run` that fails leaves its container; allocated ids are written into the configuration,
  so a relaunch takes them for given.
* A microbenchmark's tracked run is finished by its first child, and so is a run that the user
  started. `decode_stats.json` keeps the last of several runs of one length and batch; the CSV has all.
* The lower bound of the stress sweep is "the highest c" whose interactivity is near the best, says the
  comment at `microbench/stress.py:791`; the loop stops at the lowest. A level that gave no point is
  run again after a resume, through the symbolic link of the old one.
* The levels of a resumed stress sweep are symbolic links, which `Path.glob("**")` does not enter: the search
  relies on them, and the table, files and plots lack them (`microbench/stress.py:712`), though
  `_collect_results` speaks of "all run directories". `RangeIsCovered` says of the results what the code does.

*Workloads and verdicts*

* A session with a failed request counts as active to the end in the concurrency check
  (`health.py:487`), which then may fail for a scheduler that kept its limit: `HealthyRunsPass` has
  "no request failed" as its premise, and `ConcurrencyCheckIsRight` of `HealthChecks`, which has not,
  does not hold. A dispatch within a session that is too early is never flagged. A rerun with empty
  metrics overwrites the report.
* A document of lm-eval without instances gives an empty session; tasks of unequal size give fewer than
  `max_sessions`. The uniform length generator never returns its maximum. A tokenizer that splits at
  words makes ShareGPT's cut return token ids as text (`trace/sharegpt.py:198`).
* A build of an audio trace that finds too few clips has already overwritten the audio that the old
  manifest names, and `validate_trace_dir` (`scripts/audio_trace_hub.py:94`) takes the mixture for
  sound; `FilesAreWhole` exempts it (`stopped`). A build that ends well leaves the filtered variants of an older
  one, which name the new clips by the old names; they pass validation and are published too
  (`outdated`). An extraction that was killed leaves a part that later
  builds take for the whole. A fetch with `--force` validates after it has replaced.
* A strict verification of audio passes an empty metrics file. Long recordings: audio shorter than
  a window has no similarity and no note; a note that no score was finite is only in the summary.
