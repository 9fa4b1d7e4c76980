---------------------------- MODULE TrackingRuns ----------------------------
(***************************************************************************)
(* What a job of one or several benchmarks leaves behind: a directory for  *)
(* each benchmark (benchmark_utils.py), the runs of the experiment tracker *)
(* (wandb_integration.py), and the summary of a sweep (sweep_summary.py).  *)
(* A job is a single benchmark, a sweep (cli/benchmarks.py), a capacity    *)
(* search (capacity_search.py) or a microbenchmark (microbench/runner.py)  *)
(* whose benchmarks are a sweep.  The tracker has one active run for the   *)
(* whole process; everybody logs to that one.                              *)
(*                                                                         *)
(* The state is the record k.  Its benchmarks are numbered in the order of *)
(* their configurations, 0 is the job itself, and run 0 is no run.         *)
(***************************************************************************)
EXTENDS Naturals, Sequences, FiniteSets, SequencesExt

CONSTANTS
    Jobs,          \* [kind, configs]: a configuration is [length, users, varied]
    MaxSeconds     \* bound: ticks of the clock that names directories

VARIABLE k

\* What the jobs are.
TrackingAssumption ==
    \A job \in Jobs :
        /\ job.kind \in {"benchmark", "sweep", "capacity", "microbench"}
        /\ job.configs \in Seq([length : Nat, users : Nat, varied : BOOLEAN])

Count == Len(k.job.configs)
Benchmarks == 1 .. Count
Foreign == Count + 1    \* the owner of a run that user code had started
NewRun(owner) == [owner |-> owner, logged |-> {}, tags |-> {}]

\* A sweep's benchmarks run grouped by their servers; the others in order.
OrdersOf(job) ==
    LET all == 1 .. Len(job.configs)
    IN  IF job.kind = "sweep" THEN {o \in [all -> all] : IsInjective(o)} ELSE {[i \in all |-> i]}

Init == \E job \in Jobs : \E order \in OrdersOf(job), tracked, foreign \in BOOLEAN :
    LET n == Len(job.configs)
    IN  k = [job |-> job, order |-> order, tracked |-> tracked, foreign |-> foreign, pc |-> "begin",
             at |-> 1, second |-> 0, dirs |-> [i \in 1 .. n |-> <<>>],
             run |-> IF foreign THEN 1 ELSE 0,
             runs |-> IF foreign THEN <<NewRun(n + 1)>> ELSE <<>>,
             info |-> [i \in 1 .. n |-> 0], windowed |-> {},
             passed |-> {}, best |-> 0, rows |-> <<>>, windows |-> <<>>, error |-> FALSE]

\* The benchmark that is run, its tracker enabled or not: a microbenchmark gives
\* its benchmarks no tracker of their own.
Current == k.order[k.at]
ChildTracked == k.tracked /\ k.job.kind # "microbench"

\* Whoever logs, logs to the active run.
LoggedBy(owner, what) == IF k.run = 0 THEN k.runs
    ELSE [k.runs EXCEPT ![k.run].logged = @ \cup {<<w, owner>> : w \in what}]

\* Start a run, unless there is an active one.
Started(owner, enabled) ==
    IF enabled /\ k.run = 0
    THEN [k EXCEPT !.runs = Append(@, NewRun(owner)), !.run = Len(k.runs) + 1] ELSE k

-----------------------------------------------------------------------------
\* run(): a microbenchmark starts its own run first.
Begin ==
    /\ k.pc = "begin"
    /\ k' = [Started(0, k.tracked /\ k.job.kind = "microbench") EXCEPT
               !.pc = IF Count = 0 THEN "report" ELSE "directory"]

Tick ==
    /\ k.pc = "directory" /\ k.second < MaxSeconds
    /\ k' = [k EXCEPT !.second = @ + 1]

\* BUG: the second and the configuration are taken for a name of their own.
NameAt(taken, base) == Append(base, 1)

\* _init_output_dir(): named by the second and the configuration, with the
\* first number that makes a new name.
NewName(taken, base) ==
    Append(base, CHOOSE s \in 1 .. Cardinality(taken) + 1 :
                     /\ Append(base, s) \notin taken
                     /\ \A r \in 1 .. s - 1 : Append(base, r) \in taken)

InitOutputDir ==
    /\ k.pc = "directory"
    /\ LET base == <<k.second, k.job.configs[Current]>>
       IN  k' = [k EXCEPT !.pc = "init", !.dirs[Current] = NewName(ToSet(k.dirs), base)]

\* maybe_init_wandb_run(), which may fail: before the try.
InitRun ==
    /\ k.pc = "init"
    /\ \/ k' = [Started(Current, ChildTracked) EXCEPT !.pc = "run"]
       \/ /\ ChildTracked /\ k.run = 0
          /\ k' = [k EXCEPT !.pc = "unwind", !.error = TRUE]

\* _run_benchmark(): the evaluators log their plots.  Whether there is a file of
\* decode windows, and whether the objectives are met, is up to the benchmark.
RunBenchmark ==
    /\ k.pc = "run"
    /\ \/ \E windowed, passed \in SUBSET {Current} :
            /\ windowed # {} => k.job.kind = "sweep"
            /\ passed # {} => k.job.kind = "capacity"
            /\ k' = [k EXCEPT !.pc = "log", !.windowed = @ \cup windowed, !.passed = @ \cup passed,
                              !.runs = LoggedBy(Current, {"plots"})]
       \/ k' = [k EXCEPT !.pc = "finish", !.error = TRUE]

\* BUG: the results of a benchmark are logged after its run is finished.
LogNothing == k.pc = "log" /\ k' = [k EXCEPT !.pc = "finish"]

\* maybe_log_benchmark_scalars() and maybe_log_benchmark_artifacts().
LogBenchmark ==
    /\ k.pc = "log"
    /\ \/ k' = [k EXCEPT !.pc = "finish",
                    !.runs = LoggedBy(Current, {"scalars"} \cup
                                               IF ChildTracked THEN {"artifacts"} ELSE {})]
       \/ /\ k.run # 0
          /\ k' = [k EXCEPT !.pc = "finish", !.error = TRUE]

\* BUG: only after a success.
FinishRunUnlessFailed ==
    /\ k.pc = "finish"
    /\ LET ended == IF k.run = 0 \/ k.error THEN k ELSE [k EXCEPT !.info[Current] = k.run, !.run = 0]
       IN  k' = [ended EXCEPT !.pc = IF k.error THEN "unwind"
                                     ELSE IF k.at < Count THEN "directory" ELSE "report",
                              !.at = IF k.error THEN @ ELSE @ + 1]

\* maybe_finish_wandb_run(): in any case, and whoever started the active run;
\* its identity is written into the benchmark's directory.
FinishRun ==
    /\ k.pc = "finish"
    /\ LET ended == IF k.run = 0 THEN k ELSE [k EXCEPT !.info[Current] = k.run, !.run = 0]
       IN  k' = [ended EXCEPT !.pc = IF k.error THEN "unwind"
                                     ELSE IF k.at < Count THEN "directory" ELSE "report",
                              !.at = IF k.error THEN @ ELSE @ + 1]

-----------------------------------------------------------------------------
(* The summary of a sweep.                                                  *)

\* The prompt length: the one group of the prefill statistics, or the length
\* that the configuration fixes; 0 is unknown.
LengthOf(i) == IF k.job.configs[i].varied THEN 0 ELSE k.job.configs[i].length
BatchOf(i) == k.job.configs[i].users
Row(i) == [dir |-> k.dirs[i], length |-> LengthOf(i), batch |-> BatchOf(i), met |-> i \in k.passed]

\* BUG: the rows are those of the runs as they went.
RowsAsRun == [j \in Benchmarks |-> Row(k.order[j])]
Rows == [i \in Benchmarks |-> Row(i)]

\* decode_stats.json has an entry for a length and batch: the later run's.
HasWindow(i) == LengthOf(i) # 0 /\ i \in k.windowed
Windows ==
    LET keys == {<<LengthOf(i), BatchOf(i)>> : i \in {j \in Benchmarks : HasWindow(j)}}
    IN  [key \in keys |-> CHOOSE i \in Benchmarks :
            /\ HasWindow(i) /\ <<LengthOf(i), BatchOf(i)>> = key
            /\ \A j \in i + 1 .. Count : ~(HasWindow(j) /\ <<LengthOf(j), BatchOf(j)>> = key)]

WriteSweepSummary ==
    /\ k.pc = "report" /\ k.job.kind \in {"sweep", "microbench"} /\ k.rows = <<>>
    /\ Count > 1
    /\ k' = [k EXCEPT !.rows = Rows, !.windows = Windows]

\* The search's best value passed; its run is found by its directory.
MayReport == k.pc = "report" /\ (k.job.kind \in {"sweep", "microbench"} /\ Count > 1 => k.rows # <<>>)
TagBest ==
    /\ MayReport /\ k.job.kind = "capacity" /\ k.passed # {} /\ k.best = 0
    /\ \E b \in k.passed :
         k' = [k EXCEPT !.best = b,
                 !.runs = IF k.info[b] = 0 THEN @ ELSE [@ EXCEPT ![k.info[b]].tags = {"BEST_CONFIG"}]]

\* maybe_log_sweep_summary(), maybe_log_capacity_search_summary(): a run of its
\* own, started, filled and finished; it may fail on the way.
LogSummary ==
    /\ MayReport
    /\ \/ k.job.kind = "sweep"
       \/ k.job.kind = "capacity" /\ (k.passed # {} => k.best # 0)
    /\ \E items \in {{}, {"table"}, {"table", "files"}} :
         k' = [k EXCEPT !.pc = IF items = {"table", "files"} \/ ~k.tracked THEN "done" ELSE "failed",
                        !.runs = IF k.tracked
                                 THEN Append(@, [NewRun(0) EXCEPT !.logged = items \X {0}]) ELSE @,
                        !.run = IF k.tracked THEN 0 ELSE @]

\* A microbenchmark logs its results to the active run, if there is one still,
\* and finishes it.
LogResults ==
    /\ MayReport /\ k.job.kind = "microbench"
    /\ k' = [k EXCEPT !.pc = "done",
                      !.runs = IF k.tracked THEN LoggedBy(0, {"results"}) ELSE @,
                      !.run = IF k.tracked THEN 0 ELSE @]

ReportSingle ==
    /\ MayReport /\ k.job.kind = "benchmark"
    /\ k' = [k EXCEPT !.pc = "done"]

\* An error goes up through the job.
Unwind ==
    /\ k.pc = "unwind"
    /\ k' = [k EXCEPT !.pc = "failed",
                      !.run = IF k.tracked /\ k.job.kind = "microbench" THEN 0 ELSE @]

Next == \/ Begin \/ Tick \/ InitOutputDir \/ InitRun \/ RunBenchmark \/ LogBenchmark \/ FinishRun
        \/ WriteSweepSummary \/ TagBest \/ LogSummary \/ LogResults \/ ReportSingle \/ Unwind
Spec == Init /\ [][Next]_k

-----------------------------------------------------------------------------
\* The tracked benchmarks of a job, unless user code had a run active.  (A
\* benchmark finishes whatever run is active: user code's, and also that of its
\* microbenchmark, which then logs its results nowhere.)
OwnRuns == k.tracked /\ ~k.foreign /\ k.job.kind # "microbench"

\* No run holds what another benchmark logged, and every finished benchmark has
\* one run, with all of its results, that its directory names.
RunsAreOwn ==
    OwnRuns =>
        /\ \A r \in DOMAIN k.runs : \A item \in k.runs[r].logged : item[2] = k.runs[r].owner
        /\ \A r, q \in DOMAIN k.runs : r # q => k.runs[r].owner # k.runs[q].owner
        /\ \A i \in Benchmarks : k.info[i] # 0 => k.runs[k.info[i]].owner = i
        /\ k.pc = "done" => \A i \in Benchmarks :
             /\ k.info[i] # 0
             /\ k.runs[k.info[i]].logged = {"plots", "scalars", "artifacts"} \X {i}

\* Without a benchmark in between a microbenchmark keeps its run.
ResultsAreLogged ==
    k.pc = "done" /\ k.job.kind = "microbench" /\ k.tracked /\ ~k.foreign /\ Count = 0 =>
        \E r \in DOMAIN k.runs : k.runs[r] = [NewRun(0) EXCEPT !.logged = {<<"results", 0>>}]

\* Whatever failed, the job leaves no run of its own active; and with the
\* tracker off it starts none.
NothingLeftActive ==
    /\ k.pc \in {"done", "failed"} /\ k.run # 0 => k.runs[k.run].owner = Foreign
    /\ ~k.tracked => Len(k.runs) = IF k.foreign THEN 1 ELSE 0

\* Only the best run of a finished capacity search has the tag.
BestIsTagged ==
    OwnRuns => \A r \in DOMAIN k.runs :
        (k.runs[r].tags = {"BEST_CONFIG"}) <=> (k.best # 0 /\ k.runs[r].owner = k.best)

\* No two benchmarks share a directory; row i of the summary is that of
\* configuration i, in whatever order the servers had them run, and its
\* decode windows, or a later run's of the same length and batch, are kept.
DirsAndRowsMatch ==
    /\ \A i, j \in Benchmarks : i # j /\ k.dirs[i] # <<>> => k.dirs[i] # k.dirs[j]
    /\ \A i \in DOMAIN k.rows :
         /\ k.rows[i].dir[2] = k.job.configs[i]
         /\ k.rows[i].dir = k.dirs[i]
    /\ k.rows # <<>> => \A i \in k.windowed : k.rows[i].length # 0 =>
         \E key \in DOMAIN k.windows :
             /\ k.windows[key] >= i
             /\ key = <<k.rows[i].length, k.rows[i].batch>>

TrackingIsSound ==
    /\ RunsAreOwn /\ ResultsAreLogged /\ NothingLeftActive /\ BestIsTagged /\ DirsAndRowsMatch
=============================================================================
