------------------------- MODULE TrackingRuns_proofs -------------------------
(***************************************************************************)
(* For any jobs: what the runs of the experiment tracker, the directories  *)
(* and the summary of a job promise (TrackingRuns).  TrackingInv is the    *)
(* inductive invariant.                                                    *)
(***************************************************************************)
EXTENDS TrackingRuns, FiniteSetTheorems, FunctionTheorems, SequenceTheorems,
        WellFoundedInduction, TLAPS

TrackingFields == {"job", "order", "tracked", "foreign", "pc", "at", "second", "dirs", "run", "runs",
                   "info", "windowed", "passed", "best", "rows", "windows", "error"}

\* The job, and its benchmark that is its turn.
JobTyped ==
    /\ DOMAIN k = TrackingFields
    /\ k.job \in Jobs /\ Count \in Nat
    /\ k.order \in Injection(Benchmarks, Benchmarks)
    /\ k.tracked \in BOOLEAN
    /\ k.foreign \in BOOLEAN
    /\ k.pc \in {"begin", "directory", "init", "run", "log", "finish", "report", "unwind",
                 "done", "failed"}
    /\ k.at \in 1 .. Count + 1
    /\ k.pc = "begin" => k.at = 1
    /\ k.pc \in {"directory", "init", "run", "log", "finish", "unwind"} =>
         k.at <= Count
    /\ k.pc \in {"report", "done"} => k.at = Count + 1
    /\ k.windowed \subseteq Benchmarks
    /\ k.passed \subseteq Benchmarks
    /\ k.best \in 0 .. Count

\* A run's owner is a benchmark, the job itself or user code.
Logs == {"plots", "scalars", "artifacts", "results", "table", "files"} \X (0 .. Count + 1)
RunRec == [owner : 0 .. Count + 1, logged : SUBSET Logs, tags : SUBSET {"BEST_CONFIG"}]

RunsTyped ==
    /\ k.runs \in Seq(RunRec) /\ Len(k.runs) \in Nat
    /\ k.run \in 0 .. Len(k.runs)
    /\ k.info \in [Benchmarks -> 0 .. Len(k.runs)]
    /\ ~k.tracked => Len(k.runs) = IF k.foreign THEN 1 ELSE 0

AtWork == k.pc \in {"run", "log", "finish"}

\* The place j in the order came, or is to come.
Named(j) == (j < k.at) \/ (j = k.at /\ (AtWork \/ k.pc = "init"))
ToCome(j) == (j > k.at) \/ (j = k.at /\ k.pc \notin {"unwind", "failed"})

\* A benchmark that had its turn has a name of its own, of its configuration.
DirsNamed ==
    /\ DOMAIN k.dirs = Benchmarks
    /\ \A i, j \in Benchmarks : i # j /\ k.dirs[i] # <<>> =>
         k.dirs[i] # k.dirs[j]
    /\ \A i \in Benchmarks : k.dirs[i] # <<>> =>
         k.dirs[i][2] = k.job.configs[i]
    /\ \A j \in Benchmarks :
         Named(j) => k.dirs[k.order[j]] # <<>>

\* The summary is written after the last benchmark, as things are then.
RowsFollow ==
    /\ k.rows # <<>> =>
         /\ k.rows = Rows /\ k.windows = Windows
         /\ k.at = Count + 1
         /\ k.pc \in {"report", "done", "failed"}
    /\ k.best # 0 => k.pc \in {"report", "done", "failed"}

OwnerOf(r) == k.runs[r].owner

\* The active run is user code's, a microbenchmark's, or that of the benchmark
\* at work.
ActiveRun ==
    k.run # 0 =>
        \/ OwnerOf(k.run) = Foreign
        \/ /\ OwnerOf(k.run) = 0 /\ k.job.kind = "microbench" /\ k.tracked
           /\ k.pc \notin {"done", "failed"}
        \/ OwnerOf(k.run) = Current /\ AtWork

Everything(i) == {"plots", "scalars", "artifacts"} \X {i}

\* A run belongs to one benchmark, that names it; only the summary's is nobody's.
RunsBelong ==
    /\ \A r \in DOMAIN k.runs :
         /\ OwnerOf(r) # Foreign
         /\ OwnerOf(r) = 0 => k.pc \in {"done", "failed"}
         /\ OwnerOf(r) # 0 =>
              \/ k.info[OwnerOf(r)] = r
              \/ r = k.run /\ OwnerOf(r) = Current
         /\ \A item \in k.runs[r].logged : item[2] = OwnerOf(r)
    /\ \A r, q \in DOMAIN k.runs : r # q => OwnerOf(r) # OwnerOf(q)
    /\ \A i \in Benchmarks : k.info[i] # 0 => OwnerOf(k.info[i]) = i

\* A benchmark that had its turn has its results in its run; one to come has none.
RunsHoldAll ==
    \A j \in Benchmarks :
        /\ j < k.at =>
             /\ k.info[k.order[j]] # 0
             /\ k.runs[k.info[k.order[j]]].logged = Everything(k.order[j])
        /\ ToCome(j) => k.info[k.order[j]] = 0

\* Every benchmark up to now has one run, with all of its results.
RunPerBenchmark == RunsBelong /\ RunsHoldAll

\* What the benchmark at work has logged.
WorkLogged ==
    /\ ~AtWork => k.run = 0
    /\ k.error => k.pc \in {"finish", "unwind", "failed"}
    /\ AtWork =>
         /\ k.run # 0 /\ OwnerOf(k.run) = Current
         /\ k.pc = "run" => k.runs[k.run].logged = {}
         /\ k.pc = "log" =>
              k.runs[k.run].logged = {<<w, Current>> : w \in {"plots"}}
         /\ k.pc = "finish" /\ ~k.error =>
              k.runs[k.run].logged = Everything(Current)

\* A microbenchmark without benchmarks goes straight to its report.
RunOfNone ==
    k.job.kind = "microbench" /\ k.tracked /\ ~k.foreign /\ Count = 0 =>
        /\ k.pc = "begin" => k.runs = <<>> /\ k.run = 0
        /\ k.pc = "report" => k.runs = <<NewRun(0)>> /\ k.run = 1
        /\ k.pc = "done" => \E r \in DOMAIN k.runs :
             k.runs[r] = [NewRun(0) EXCEPT !.logged = {<<"results", 0>>}]

TrackingInv ==
    /\ JobTyped /\ RunsTyped /\ DirsNamed /\ RowsFollow /\ ActiveRun /\ RunOfNone
    /\ OwnRuns => RunPerBenchmark /\ WorkLogged /\ BestIsTagged

\* What each step changes.
TheJob == <<k.job, k.order, k.tracked, k.foreign>>
TheRuns == <<k.run, k.runs, k.info>>
TheNames == <<k.dirs, k.rows, k.windows>>
TheVerdicts == <<k.windowed, k.passed, k.best>>
Goes(pc) == DOMAIN k' = TrackingFields /\ UNCHANGED TheJob /\ k'.pc = pc

\* A run that owner starts, unless there is an active one.
Starts(owner, enabled) ==
    /\ UNCHANGED k.info
    /\ IF enabled /\ k.run = 0
       THEN /\ k'.runs = Append(k.runs, NewRun(owner))
            /\ k'.run = Len(k.runs) + 1
       ELSE UNCHANGED <<k.runs, k.run>>

-----------------------------------------------------------------------------
(* What each action does to the fields of the job.                         *)

LEMMA BeginSets ==
    ASSUME JobTyped, Begin
    PROVE  /\ k.pc = "begin"
           /\ Goes(IF Count = 0 THEN "report" ELSE "directory")
           /\ UNCHANGED <<TheNames, TheVerdicts, k.at, k.error>>
           /\ Starts(0, k.tracked /\ k.job.kind = "microbench")
<1>1. CASE k.tracked /\ k.job.kind = "microbench" /\ k.run = 0
  BY <1>1 DEF Begin, Started, JobTyped, TrackingFields, Goes, Starts, TheJob, TheNames, TheVerdicts
<1>2. CASE ~(k.tracked /\ k.job.kind = "microbench" /\ k.run = 0)
  BY <1>2 DEF Begin, Started, JobTyped, TrackingFields, Goes, Starts, TheJob, TheNames, TheVerdicts
<1> QED
  BY <1>1, <1>2

LEMMA TickSets ==
    ASSUME JobTyped, Tick
    PROVE  /\ Goes(k.pc)
           /\ UNCHANGED <<TheNames, TheVerdicts, TheRuns, k.at, k.error>>
  BY DEF Tick, JobTyped, TrackingFields, Goes, TheJob, TheNames, TheVerdicts, TheRuns

LEMMA DirectorySets ==
    ASSUME JobTyped, InitOutputDir
    PROVE  /\ k.pc = "directory" /\ Goes("init")
           /\ k'.dirs = [k.dirs EXCEPT ![Current] =
                 NewName(ToSet(k.dirs), <<k.second, k.job.configs[Current]>>)]
           /\ UNCHANGED <<k.rows, k.windows, TheVerdicts, TheRuns, k.at,
                          k.error>>
  BY DEF InitOutputDir, JobTyped, TrackingFields, Goes, TheJob, TheVerdicts, TheRuns

LEMMA InitRunSets ==
    ASSUME JobTyped, InitRun
    PROVE  /\ k.pc = "init" /\ UNCHANGED <<TheNames, TheVerdicts, k.at>>
           /\ \/ /\ Goes("run") /\ UNCHANGED k.error
                 /\ Starts(Current, ChildTracked)
              \/ Goes("unwind") /\ UNCHANGED TheRuns /\ k'.error = TRUE
<1>1. CASE k' = [Started(Current, ChildTracked) EXCEPT !.pc = "run"]
  <2>1. CASE ChildTracked /\ k.run = 0
    BY <1>1, <2>1 DEF InitRun, Started, JobTyped, TrackingFields, Goes, Starts, TheJob, TheNames, TheVerdicts
  <2>2. CASE ~(ChildTracked /\ k.run = 0)
    BY <1>1, <2>2 DEF InitRun, Started, JobTyped, TrackingFields, Goes, Starts, TheJob, TheNames, TheVerdicts
  <2> QED
    BY <2>1, <2>2
<1>2. CASE k' = [k EXCEPT !.pc = "unwind", !.error = TRUE]
  BY <1>2 DEF InitRun, JobTyped, TrackingFields, Goes, TheJob, TheNames, TheVerdicts, TheRuns
<1> QED
  BY <1>1, <1>2 DEF InitRun

LEMMA RunSets ==
    ASSUME JobTyped, RunBenchmark
    PROVE  /\ k.pc = "run" /\ UNCHANGED <<TheNames, k.best, k.run, k.info, k.at>>
           /\ \/ /\ Goes("log") /\ UNCHANGED k.error
                 /\ k'.runs = LoggedBy(Current, {"plots"})
                 /\ k'.windowed \subseteq k.windowed \cup {Current}
                 /\ k'.passed \subseteq k.passed \cup {Current}
              \/ Goes("finish") /\ UNCHANGED <<k.runs, TheVerdicts>> /\ k'.error = TRUE
<1>1. k.pc = "run"
  BY DEF RunBenchmark
<1>2. CASE k' = [k EXCEPT !.pc = "finish", !.error = TRUE]
  BY <1>1, <1>2 DEF JobTyped, TrackingFields, Goes, TheJob, TheNames, TheVerdicts
<1>3. CASE \E windowed, passed \in SUBSET {Current} :
             k' = [k EXCEPT !.pc = "log", !.windowed = @ \cup windowed, !.passed = @ \cup passed,
                            !.runs = LoggedBy(Current, {"plots"})]
  <2>1. PICK windowed \in SUBSET {Current}, passed \in SUBSET {Current} :
          k' = [k EXCEPT !.pc = "log", !.windowed = @ \cup windowed, !.passed = @ \cup passed,
                         !.runs = LoggedBy(Current, {"plots"})]
    BY <1>3
  <2> DEFINE runs == LoggedBy(Current, {"plots"})
  <2> HIDE DEF runs
  <2>2. k' = [k EXCEPT !.pc = "log", !.windowed = @ \cup windowed, !.passed = @ \cup passed,
                       !.runs = runs]
    BY <2>1 DEF runs
  <2>3. /\ Goes("log") /\ UNCHANGED <<TheNames, k.best, k.run, k.info, k.at, k.error>>
        /\ k'.runs = runs
        /\ k'.windowed = k.windowed \cup windowed /\ k'.passed = k.passed \cup passed
    BY <2>2 DEF JobTyped, TrackingFields, Goes, TheJob, TheNames
  <2> QED
    BY <1>1, <2>3 DEF runs
<1> QED
  BY <1>2, <1>3 DEF RunBenchmark

LEMMA LogSets ==
    ASSUME JobTyped, LogBenchmark
    PROVE  /\ k.pc = "log" /\ Goes("finish")
           /\ UNCHANGED <<TheNames, TheVerdicts, k.run, k.info, k.at>>
           /\ \/ /\ UNCHANGED k.error
                 /\ k'.runs = LoggedBy(Current,
                       {"scalars"} \cup IF ChildTracked THEN {"artifacts"} ELSE {})
              \/ UNCHANGED k.runs /\ k'.error = TRUE
<1> DEFINE runs == LoggedBy(Current,
                       {"scalars"} \cup IF ChildTracked THEN {"artifacts"} ELSE {})
<1>1. /\ k.pc = "log"
      /\ \/ k' = [k EXCEPT !.pc = "finish", !.runs = runs]
         \/ k' = [k EXCEPT !.pc = "finish", !.error = TRUE]
  BY DEF LogBenchmark
<1> HIDE DEF runs
<1>2. CASE k' = [k EXCEPT !.pc = "finish", !.runs = runs]
  <2>1. /\ Goes("finish") /\ UNCHANGED <<TheNames, TheVerdicts, k.run, k.info, k.at, k.error>>
        /\ k'.runs = runs
    BY <1>2 DEF JobTyped, TrackingFields, Goes, TheJob, TheNames, TheVerdicts
  <2> QED
    BY <1>1, <2>1 DEF runs
<1>3. CASE k' = [k EXCEPT !.pc = "finish", !.error = TRUE]
  BY <1>1, <1>3 DEF JobTyped, TrackingFields, Goes, TheJob, TheNames, TheVerdicts
<1> QED
  BY <1>1, <1>2, <1>3

LEMMA FinishSets ==
    ASSUME JobTyped, FinishRun
    PROVE  /\ k.pc = "finish"
           /\ Goes(IF k.error THEN "unwind" ELSE IF k.at < Count THEN "directory" ELSE "report")
           /\ UNCHANGED <<TheNames, TheVerdicts, k.runs, k.error>>
           /\ k'.run = 0
           /\ k'.info = IF k.run = 0 THEN k.info
                               ELSE [k.info EXCEPT ![Current] = k.run]
           /\ k'.at = IF k.error THEN k.at ELSE k.at + 1
<1>1. CASE k.run = 0
  BY <1>1 DEF FinishRun, JobTyped, TrackingFields, Goes, TheJob, TheNames, TheVerdicts
<1>2. CASE k.run # 0
  BY <1>2 DEF FinishRun, JobTyped, TrackingFields, Goes, TheJob, TheNames, TheVerdicts
<1> QED
  BY <1>1, <1>2

LEMMA SummarySets ==
    ASSUME JobTyped, WriteSweepSummary
    PROVE  /\ k.pc = "report" /\ Goes("report")
           /\ k'.rows = Rows /\ k'.windows = Windows
           /\ k.job.kind # "capacity"
           /\ UNCHANGED <<k.dirs, TheVerdicts, TheRuns, k.at, k.error>>
<1> DEFINE rows == Rows
           windows == Windows
<1>1. /\ k.pc = "report" /\ k.job.kind # "capacity"
      /\ k' = [k EXCEPT !.rows = rows, !.windows = windows]
  BY DEF WriteSweepSummary
<1> HIDE DEF rows, windows
<1>2. /\ Goes("report") /\ k'.rows = rows /\ k'.windows = windows
      /\ UNCHANGED <<k.dirs, TheVerdicts, TheRuns, k.at, k.error>>
  BY <1>1 DEF JobTyped, TrackingFields, Goes, TheJob, TheVerdicts, TheRuns
<1> QED
  BY <1>1, <1>2 DEF rows, windows

LEMMA TagSets ==
    ASSUME JobTyped, TagBest
    PROVE  /\ k.pc = "report" /\ Goes("report") /\ k.job.kind = "capacity"
           /\ k.best = 0 /\ k'.best \in k.passed
           /\ UNCHANGED <<TheNames, k.windowed, k.passed, k.run, k.info,
                          k.at, k.error>>
           /\ k'.runs = IF k.info[k'.best] = 0 THEN k.runs
                  ELSE [k.runs EXCEPT ![k.info[k'.best]].tags = {"BEST_CONFIG"}]
<1>1. /\ k.pc = "report" /\ k.job.kind = "capacity" /\ k.best = 0
  BY DEF TagBest, MayReport
<1>2. PICK b \in k.passed :
        k' = [k EXCEPT !.best = b,
                       !.runs = IF k.info[b] = 0 THEN @ ELSE [@ EXCEPT ![k.info[b]].tags = {"BEST_CONFIG"}]]
  BY DEF TagBest
<1> DEFINE runs == IF k.info[b] = 0 THEN k.runs
                   ELSE [k.runs EXCEPT ![k.info[b]].tags = {"BEST_CONFIG"}]
<1>3. k' = [k EXCEPT !.best = b, !.runs = runs]
  BY <1>2 DEF JobTyped, TrackingFields
<1> HIDE DEF runs
<1>4. /\ Goes("report") /\ k'.best = b /\ k'.runs = runs
      /\ UNCHANGED <<TheNames, k.windowed, k.passed, k.run, k.info,
                     k.at, k.error>>
  BY <1>1, <1>3 DEF JobTyped, TrackingFields, Goes, TheJob, TheNames
<1> QED
  BY <1>1, <1>4 DEF runs

LEMMA LogSummarySets ==
    ASSUME JobTyped, LogSummary
    PROVE  /\ k.pc = "report" /\ (Goes("done") \/ Goes("failed"))
           /\ k.job.kind # "microbench"
           /\ UNCHANGED <<TheNames, TheVerdicts, k.info, k.at, k.error>>
           /\ IF k.tracked
              THEN /\ \E items \in SUBSET {"table", "files"} :
                        k'.runs = Append(k.runs, [NewRun(0) EXCEPT !.logged = items \X {0}])
                   /\ k'.run = 0
              ELSE UNCHANGED TheRuns
<1>1. k.pc = "report" /\ k.job.kind # "microbench"
  BY DEF LogSummary, MayReport
<1>2. PICK items \in {{}, {"table"}, {"table", "files"}} :
         k' = [k EXCEPT !.pc = IF items = {"table", "files"} \/ ~k.tracked THEN "done" ELSE "failed",
                        !.runs = IF k.tracked
                                 THEN Append(@, [NewRun(0) EXCEPT !.logged = items \X {0}]) ELSE @,
                        !.run = IF k.tracked THEN 0 ELSE @]
  BY DEF LogSummary
<1> DEFINE sum == [NewRun(0) EXCEPT !.logged = items \X {0}]
           pc == IF items = {"table", "files"} \/ ~k.tracked THEN "done" ELSE "failed"
<1> HIDE DEF sum, pc
<1>3. k' = [k EXCEPT !.pc = pc, !.runs = IF k.tracked THEN Append(@, sum) ELSE @,
                     !.run = IF k.tracked THEN 0 ELSE @]
  BY <1>2 DEF sum, pc
<1>4. /\ Goes(pc) /\ UNCHANGED <<TheNames, TheVerdicts, k.info, k.at, k.error>>
      /\ k'.runs = IF k.tracked THEN Append(k.runs, sum) ELSE k.runs
      /\ k'.run = IF k.tracked THEN 0 ELSE k.run
  BY <1>3 DEF JobTyped, TrackingFields, Goes, TheJob, TheNames, TheVerdicts
<1>5. items \in SUBSET {"table", "files"}
  OBVIOUS
<1>6. Goes("done") \/ Goes("failed")
  BY <1>4 DEF pc
<1> QED
  BY <1>1, <1>4, <1>5, <1>6 DEF sum, TheRuns

LEMMA ResultsSets ==
    ASSUME JobTyped, LogResults
    PROVE  /\ k.pc = "report" /\ Goes("done") /\ k.job.kind = "microbench"
           /\ UNCHANGED <<TheNames, TheVerdicts, k.info, k.at, k.error>>
           /\ IF k.tracked
              THEN k'.runs = LoggedBy(0, {"results"}) /\ k'.run = 0
              ELSE UNCHANGED TheRuns
<1> DEFINE runs == LoggedBy(0, {"results"})
<1>1. /\ k.pc = "report" /\ k.job.kind = "microbench"
      /\ k' = [k EXCEPT !.pc = "done", !.runs = IF k.tracked THEN runs ELSE @,
                        !.run = IF k.tracked THEN 0 ELSE @]
  BY DEF LogResults, MayReport
<1> HIDE DEF runs
<1>2. /\ Goes("done") /\ UNCHANGED <<TheNames, TheVerdicts, k.info, k.at, k.error>>
      /\ k'.runs = IF k.tracked THEN runs ELSE k.runs
      /\ k'.run = IF k.tracked THEN 0 ELSE k.run
  BY <1>1 DEF JobTyped, TrackingFields, Goes, TheJob, TheNames, TheVerdicts
<1> QED
  BY <1>1, <1>2 DEF runs, TheRuns

LEMMA ReportSets ==
    ASSUME JobTyped, ReportSingle
    PROVE  /\ k.pc = "report" /\ Goes("done") /\ k.job.kind = "benchmark"
           /\ UNCHANGED <<TheNames, TheVerdicts, TheRuns, k.at, k.error>>
  BY DEF ReportSingle, MayReport, JobTyped, TrackingFields, Goes, TheJob, TheNames, TheVerdicts, TheRuns

LEMMA UnwindSets ==
    ASSUME JobTyped, Unwind
    PROVE  /\ k.pc = "unwind" /\ Goes("failed")
           /\ UNCHANGED <<TheNames, TheVerdicts, k.runs, k.info, k.at, k.error>>
           /\ k'.run = IF k.tracked /\ k.job.kind = "microbench" THEN 0 ELSE k.run
  BY DEF Unwind, JobTyped, TrackingFields, Goes, TheJob, TheNames, TheVerdicts

-----------------------------------------------------------------------------
(* The job and the place in it.                                            *)

LEMMA SameJob ==
    UNCHANGED TheJob =>
        /\ Count' = Count /\ Benchmarks' = Benchmarks
        /\ Foreign' = Foreign /\ RunRec' = RunRec
        /\ OwnRuns' = OwnRuns /\ ChildTracked' = ChildTracked
  BY DEF TheJob, Count, Benchmarks, Foreign, RunRec, Logs, OwnRuns,
     ChildTracked

\* The benchmarks have their turns in the order, each of them once.
LEMMA Turns ==
    ASSUME JobTyped
    PROVE  /\ k.order \in [Benchmarks -> Benchmarks]
           /\ \A i, j \in Benchmarks : k.order[i] = k.order[j] => i = j
           /\ \A i \in Benchmarks : \E j \in Benchmarks : k.order[j] = i
           /\ k.at <= Count =>
                k.at \in Benchmarks /\ Current \in Benchmarks
<1>1. k.order \in Injection(Benchmarks, Benchmarks)
  BY DEF JobTyped
<1>2. /\ k.order \in [Benchmarks -> Benchmarks]
      /\ \A i, j \in Benchmarks : k.order[i] = k.order[j] => i = j
  BY <1>1, Fun_IsInj DEF Injection, IsInjective
<1>3. \A i \in Benchmarks : \E j \in Benchmarks : k.order[j] = i
  <2>1. 1 \in Int /\ Count \in Int
    BY DEF JobTyped
  <2>2. IsFiniteSet(Benchmarks)
    BY <2>1, FS_Interval DEF Benchmarks
  <2>3. k.order \in Surjection(Benchmarks, Benchmarks)
    BY <1>1, <2>2, FS_Injection
  <2> QED
    BY <2>3 DEF Surjection
<1>4. k.at <= Count => k.at \in Benchmarks
  BY DEF JobTyped, Benchmarks
<1> QED
  BY <1>2, <1>3, <1>4 DEF Current

\* What a step does to the parts of JobTyped that it changes.
LEMMA JobStays ==
    ASSUME JobTyped, DOMAIN k' = TrackingFields, UNCHANGED TheJob,
           k'.pc \in {"directory", "init", "run", "log", "finish", "report", "unwind", "done",
                      "failed"},
           k'.at \in 1 .. Count + 1,
           k'.pc \in {"directory", "init", "run", "log", "finish", "unwind"} =>
             k'.at <= Count,
           k'.pc \in {"report", "done"} => k'.at = Count + 1,
           k'.windowed \subseteq Benchmarks,
           k'.passed \subseteq Benchmarks,
           k'.best \in 0 .. Count
    PROVE  JobTyped'
  BY SameJob DEF JobTyped, TheJob

LEMMA JobInductive == JobTyped /\ [Next]_k => JobTyped'
<1> SUFFICES ASSUME JobTyped, [Next]_k PROVE JobTyped'
  OBVIOUS
<1> DEFINE N == Count
<1>1. /\ N \in Nat /\ k.at \in 1 .. N + 1
      /\ k.pc = "begin" => k.at = 1
      /\ k.pc \in {"directory", "init", "run", "log", "finish", "unwind"} => k.at <= N
      /\ k.pc \in {"report", "done"} => k.at = N + 1
      /\ k.windowed \subseteq Benchmarks
      /\ k.passed \subseteq Benchmarks
      /\ k.best \in 0 .. N
  BY DEF JobTyped
<1>2. CASE UNCHANGED k
  BY <1>2 DEF JobTyped, Count, Benchmarks
<1> USE DEF Goes, TheVerdicts
<1> HIDE DEF N
<1>3. CASE Begin
  BY <1>1, <1>3, BeginSets, JobStays DEF N
<1>4. CASE Tick
  <2>1. CASE k.pc # "begin"
    BY <1>1, <1>4, <2>1, TickSets, JobStays DEF N, JobTyped
  <2>2. CASE k.pc = "begin"
    BY <1>4, <2>2 DEF Tick
  <2> QED
    BY <2>1, <2>2
<1>5. CASE InitOutputDir
  BY <1>1, <1>5, DirectorySets, JobStays DEF N
<1>6. CASE InitRun
  BY <1>1, <1>6, InitRunSets, JobStays DEF N
<1>7. CASE RunBenchmark
  <2>1. Current \in Benchmarks
    BY <1>1, <1>7, RunSets, Turns DEF N
  <2>2. /\ k'.windowed \subseteq Benchmarks
        /\ k'.passed \subseteq Benchmarks
    BY <1>1, <1>7, <2>1, RunSets
  <2>3. /\ k.pc = "run" /\ DOMAIN k' = TrackingFields /\ UNCHANGED TheJob
        /\ k'.pc \in {"log", "finish"} /\ UNCHANGED <<k.best, k.at>>
    BY <1>7, RunSets
  <2> QED
    BY <1>1, <2>2, <2>3, JobStays DEF N
<1>8. CASE LogBenchmark
  BY <1>1, <1>8, LogSets, JobStays DEF N
<1>9. CASE FinishRun
  <2>1. /\ k.pc = "finish" /\ DOMAIN k' = TrackingFields /\ UNCHANGED <<TheJob, TheVerdicts>>
        /\ k'.pc = IF k.error THEN "unwind" ELSE IF k.at < N THEN "directory" ELSE "report"
        /\ k'.at = IF k.error THEN k.at ELSE k.at + 1
    BY <1>9, FinishSets DEF N
  <2>2. k.at \in 1 .. N
    BY <1>1, <2>1
  <2>3. CASE k.error
    BY <1>1, <2>1, <2>2, <2>3, JobStays DEF N
  <2>4. CASE ~k.error
    BY <1>1, <2>1, <2>2, <2>4, JobStays DEF N
  <2> QED
    BY <2>3, <2>4
<1>10. CASE WriteSweepSummary
  BY <1>1, <1>10, SummarySets, JobStays DEF N
<1>11. CASE TagBest
  <2>1. k'.best \in 0 .. N
    BY <1>1, <1>11, TagSets DEF N, Benchmarks
  <2> QED
    BY <1>1, <1>11, <2>1, TagSets, JobStays DEF N
<1>12. CASE LogSummary
  BY <1>1, <1>12, LogSummarySets, JobStays DEF N
<1>13. CASE LogResults
  BY <1>1, <1>13, ResultsSets, JobStays DEF N
<1>14. CASE ReportSingle
  BY <1>1, <1>14, ReportSets, JobStays DEF N
<1>15. CASE Unwind
  BY <1>1, <1>15, UnwindSets, JobStays DEF N
<1> QED
  BY <1>2, <1>3, <1>4, <1>5, <1>6, <1>7, <1>8, <1>9, <1>10, <1>11, <1>12, <1>13, <1>14, <1>15
  DEF Next

LEMMA JobInitially == TrackingAssumption /\ Init => JobTyped
<1> SUFFICES ASSUME TrackingAssumption, Init PROVE JobTyped
  OBVIOUS
<1>1. PICK job \in Jobs : \E order \in OrdersOf(job), tracked, foreign \in BOOLEAN :
        /\ DOMAIN k = TrackingFields
        /\ k.job = job /\ k.order = order /\ k.tracked = tracked
        /\ k.foreign = foreign /\ k.pc = "begin" /\ k.at = 1
        /\ k.windowed = {} /\ k.passed = {} /\ k.best = 0
  BY DEF Init, TrackingFields
<1>2. PICK order \in OrdersOf(job), tracked \in BOOLEAN, foreign \in BOOLEAN :
        /\ DOMAIN k = TrackingFields
        /\ k.job = job /\ k.order = order /\ k.tracked = tracked
        /\ k.foreign = foreign /\ k.pc = "begin" /\ k.at = 1
        /\ k.windowed = {} /\ k.passed = {} /\ k.best = 0
  BY <1>1
<1>3. Count \in Nat
  <2>1. job.configs \in Seq([length : Nat, users : Nat, varied : BOOLEAN])
    BY DEF TrackingAssumption
  <2> QED
    BY <1>2, <2>1, LenProperties DEF Count
<1>4. order \in Injection(Benchmarks, Benchmarks)
  <2>1. Benchmarks = 1 .. Len(job.configs)
    BY <1>2 DEF Benchmarks, Count
  <2> DEFINE all == 1 .. Len(job.configs)
  <2>2. /\ order \in [all -> all]
        /\ \A i, j \in all : order[i] = order[j] => i = j
    BY DEF OrdersOf, IsInjective
  <2> HIDE DEF all
  <2>3. order \in Injection(all, all)
    BY <2>2 DEF Injection, IsInjective
  <2> QED
    BY <2>1, <2>3 DEF all
<1> QED
  BY <1>2, <1>3, <1>4 DEF JobTyped

-----------------------------------------------------------------------------
(* The runs: who owns them and what they hold.                             *)

\* Whoever logs adds to the active run and to no other.
LEMMA LoggedAdds ==
    ASSUME JobTyped, RunsTyped, NEW owner \in 0 .. Count + 1,
           NEW what \in SUBSET {"plots", "scalars", "artifacts", "results", "table", "files"}
    PROVE  LET runs == LoggedBy(owner, what) IN
           /\ runs \in Seq(RunRec) /\ Len(runs) = Len(k.runs)
           /\ \A r \in 1 .. Len(k.runs) :
                /\ runs[r].owner = OwnerOf(r) /\ runs[r].tags = k.runs[r].tags
                /\ runs[r].logged = IF r # k.run THEN k.runs[r].logged
                                    ELSE k.runs[r].logged \cup {<<w, owner>> : w \in what}
<1> DEFINE runs == LoggedBy(owner, what)
           add == {<<w, owner>> : w \in what}
           n == Len(k.runs)
           a == k.run
<1>1. k.runs \in Seq(RunRec) /\ n \in Nat /\ a \in 0 .. n
  BY DEF RunsTyped
<1>2. add \in SUBSET Logs
  BY DEF Logs
<1>3. CASE a = 0
  BY <1>1, <1>3 DEF LoggedBy, OwnerOf
<1>4. CASE a # 0
  <2>1. a \in 1 .. n /\ k.runs[a] \in RunRec
    BY <1>1, <1>4, LenProperties
  <2> DEFINE new == [k.runs[a] EXCEPT !.logged = @ \cup add]
  <2>2. /\ new \in RunRec /\ new.owner = k.runs[a].owner /\ new.tags = k.runs[a].tags
        /\ new.logged = k.runs[a].logged \cup add
    <3> HIDE DEF add
    <3> QED
      BY <1>2, <2>1 DEF RunRec
  <2>3. runs = [k.runs EXCEPT ![a] = new]
    BY <1>4 DEF LoggedBy
  <2> HIDE DEF new, runs, add
  <2>4. runs \in Seq(RunRec) /\ Len(runs) = n
    BY <1>1, <2>1, <2>2, <2>3, ExceptSeq
  <2>5. \A r \in 1 .. n : runs[r] = IF r = a THEN new ELSE k.runs[r]
    BY <1>1, <2>3
  <2> QED
    BY <2>2, <2>4, <2>5 DEF OwnerOf, runs, add
<1> QED
  BY <1>3, <1>4

\* A new run has logged nothing and has no tag.
LEMMA NewRunsAre ==
    ASSUME NEW owner \in 0 .. Count + 1
    PROVE  NewRun(owner) \in RunRec
  BY DEF NewRun, RunRec

LEMMA StartAdds ==
    ASSUME JobTyped, RunsTyped, NEW owner \in 0 .. Count + 1, NEW enabled \in BOOLEAN,
           Starts(owner, enabled)
    PROVE  /\ k'.runs \in Seq(RunRec)
           /\ Len(k'.runs) = Len(k.runs) + IF enabled /\ k.run = 0 THEN 1 ELSE 0
           /\ \A r \in 1 .. Len(k.runs) : k'.runs[r] = k.runs[r]
           /\ enabled /\ k.run = 0 =>
                k'.runs[Len(k.runs) + 1] = NewRun(owner)
<1>1. k.runs \in Seq(RunRec) /\ NewRun(owner) \in RunRec
  BY NewRunsAre DEF RunsTyped
<1>2. CASE enabled /\ k.run = 0
  BY <1>1, <1>2, AppendProperties, SMTT(40) DEF Starts
<1>3. CASE ~(enabled /\ k.run = 0)
  <2>1. k'.runs = k.runs
    BY <1>3 DEF Starts
  <2>2. Len(k.runs) \in Nat
    BY DEF RunsTyped
  <2>3. (IF enabled /\ k.run = 0 THEN 1 ELSE 0) = 0
    BY <1>3
  <2>4. Len(k'.runs) = Len(k.runs) + 0
    BY <2>1, <2>2
  <2> QED
    BY <1>1, <1>3, <2>1, <2>3, <2>4
<1> QED
  BY <1>2, <1>3

LEMMA TagKeeps ==
    ASSUME JobTyped, RunsTyped, TagBest
    PROVE  /\ k'.runs \in Seq(RunRec) /\ Len(k'.runs) = Len(k.runs)
           /\ k'.best \in Benchmarks
           /\ \A r \in 1 .. Len(k.runs) :
                /\ k'.runs[r].owner = OwnerOf(r)
                /\ k'.runs[r].logged = k.runs[r].logged
                /\ k'.runs[r].tags = IF r = k.info[k'.best] THEN {"BEST_CONFIG"}
                                            ELSE k.runs[r].tags
<1> DEFINE n == Len(k.runs)
           a == k.info[k'.best]
<1>1. /\ k.runs \in Seq(RunRec) /\ n \in Nat
      /\ k.info \in [Benchmarks -> 0 .. n]
  BY DEF RunsTyped
<1>2. k'.best \in Benchmarks
  BY TagSets DEF JobTyped
<1>3. a \in 0 .. n
  BY <1>1, <1>2
<1>4. k'.runs = IF a = 0 THEN k.runs
                       ELSE [k.runs EXCEPT ![a].tags = {"BEST_CONFIG"}]
  BY TagSets
<1> HIDE DEF a
<1>5. CASE a = 0
  BY <1>1, <1>2, <1>4, <1>5 DEF OwnerOf, a
<1>6. CASE a # 0
  <2>1. a \in 1 .. n /\ k.runs[a] \in RunRec
    BY <1>1, <1>3, <1>6, LenProperties
  <2> DEFINE new == [k.runs[a] EXCEPT !.tags = {"BEST_CONFIG"}]
  <2>2. /\ new \in RunRec /\ new.owner = k.runs[a].owner
        /\ new.logged = k.runs[a].logged /\ new.tags = {"BEST_CONFIG"}
    BY <2>1 DEF RunRec
  <2>3. k'.runs = [k.runs EXCEPT ![a] = new]
    BY <1>4, <1>6
  <2> HIDE DEF new
  <2>4. k'.runs \in Seq(RunRec) /\ Len(k'.runs) = n
    BY <1>1, <2>1, <2>2, <2>3, ExceptSeq
  <2>5. \A r \in 1 .. n : k'.runs[r] = IF r = a THEN new ELSE k.runs[r]
    BY <1>1, <2>3
  <2> QED
    BY <1>2, <2>2, <2>4, <2>5 DEF OwnerOf, a
<1> QED
  BY <1>5, <1>6

LEMMA SummaryAdds ==
    ASSUME JobTyped, RunsTyped, LogSummary, k.tracked
    PROVE  /\ k'.runs \in Seq(RunRec) /\ Len(k'.runs) = Len(k.runs) + 1
           /\ \A r \in 1 .. Len(k.runs) : k'.runs[r] = k.runs[r]
           /\ LET sum == k'.runs[Len(k.runs) + 1]
              IN  /\ sum.owner = 0 /\ sum.tags = {}
                  /\ \A item \in sum.logged : item[2] = 0
<1>1. PICK items \in SUBSET {"table", "files"} :
        k'.runs = Append(k.runs, [NewRun(0) EXCEPT !.logged = items \X {0}])
  BY LogSummarySets
<1> DEFINE sum == [NewRun(0) EXCEPT !.logged = items \X {0}]
           new == items \X {0}
<1>2. \A item \in new : item[2] = 0
  OBVIOUS
<1>3. 0 \in 0 .. Count + 1
  BY DEF JobTyped
<1>4. new \in SUBSET Logs
  BY <1>3 DEF Logs
<1>5. sum \in RunRec /\ sum.owner = 0 /\ sum.tags = {} /\ sum.logged = new
  <2> HIDE DEF new
  <2> QED
    BY <1>3, <1>4 DEF RunRec, NewRun, new
<1>6. k.runs \in Seq(RunRec)
  BY DEF RunsTyped
<1> HIDE DEF sum, new
<1>7. k'.runs = Append(k.runs, sum)
  BY <1>1 DEF sum
<1>8. /\ k'.runs \in Seq(RunRec) /\ Len(k'.runs) = Len(k.runs) + 1
      /\ \A r \in 1 .. Len(k.runs) : k'.runs[r] = k.runs[r]
      /\ k'.runs[Len(k.runs) + 1] = sum
  BY <1>5, <1>6, <1>7, AppendProperties
<1> QED
  BY <1>2, <1>5, <1>8

LEMMA RunsStay ==
    ASSUME RunsTyped, UNCHANGED TheJob, k'.runs \in Seq(RunRec),
           Len(k'.runs) \in Nat, Len(k'.runs) >= Len(k.runs),
           k'.run \in 0 .. Len(k'.runs), UNCHANGED k.info,
           ~k.tracked => Len(k'.runs) = Len(k.runs)
    PROVE  RunsTyped'
<1>1. /\ Benchmarks' = Benchmarks /\ RunRec' = RunRec
      /\ UNCHANGED <<k.tracked, k.foreign>>
  BY SameJob DEF TheJob
<1>2. k'.info \in [Benchmarks -> 0 .. Len(k'.runs)]
  BY DEF RunsTyped
<1>3. ~k.tracked => Len(k'.runs) = IF k.foreign THEN 1 ELSE 0
  BY DEF RunsTyped
<1> QED
  BY <1>1, <1>2, <1>3 DEF RunsTyped

LEMMA RunsInductive == JobTyped /\ RunsTyped /\ [Next]_k => RunsTyped'
<1> SUFFICES ASSUME JobTyped, RunsTyped, [Next]_k PROVE RunsTyped'
  OBVIOUS
<1> DEFINE n == Len(k.runs)
<1>1. /\ k.runs \in Seq(RunRec) /\ n \in Nat /\ k.run \in 0 .. n
      /\ 0 \in 0 .. Count + 1
  BY DEF RunsTyped, JobTyped
<1>2. CASE UNCHANGED k
  BY <1>2 DEF RunsTyped, RunRec, Logs, Count, Benchmarks
<1>3. CASE UNCHANGED TheRuns /\ UNCHANGED TheJob
  BY <1>1, <1>3, RunsStay DEF TheRuns
<1>4. ASSUME UNCHANGED TheJob, NEW owner \in 0 .. Count + 1, NEW enabled \in BOOLEAN,
             Starts(owner, enabled), enabled => k.tracked
      PROVE  RunsTyped'
  <2>1. /\ k'.runs \in Seq(RunRec)
        /\ Len(k'.runs) = n + IF enabled /\ k.run = 0 THEN 1 ELSE 0
    BY <1>4, StartAdds
  <2>2. CASE enabled /\ k.run = 0
    <3>1. Len(k'.runs) = n + 1 /\ k'.run = n + 1 /\ UNCHANGED k.info
      BY <1>4, <2>1, <2>2 DEF Starts
    <3> QED
      BY <1>1, <1>4, <2>1, <2>2, <3>1, RunsStay
  <2>3. CASE ~(enabled /\ k.run = 0)
    BY <1>3, <1>4, <2>3 DEF Starts, TheRuns
  <2> QED
    BY <2>2, <2>3
<1> HIDE DEF n
<1>5. CASE Begin
  BY <1>1, <1>4, <1>5, BeginSets DEF Goes
<1>8. k.at <= Count => Current \in 0 .. Count + 1
  <2>1. k.at <= Count => Current \in 1 .. Count
    BY Turns DEF Benchmarks
  <2>2. Count \in Nat
    BY DEF JobTyped
  <2> QED
    BY <2>1, <2>2
<1>6. CASE InitRun
  <2>1. CASE Starts(Current, ChildTracked)
    <3>1. k.pc = "init" /\ UNCHANGED TheJob
      BY <1>6, InitRunSets DEF Goes
    <3>2. Current \in 0 .. Count + 1
      BY <1>8, <3>1 DEF JobTyped
    <3>3. ChildTracked \in BOOLEAN /\ (ChildTracked => k.tracked)
      BY DEF ChildTracked
    <3> QED
      BY <1>4, <2>1, <3>1, <3>2, <3>3
  <2>2. CASE UNCHANGED TheRuns
    BY <1>3, <1>6, <2>2, InitRunSets DEF Goes
  <2> QED
    BY <1>6, <2>1, <2>2, InitRunSets
<1>7. ASSUME UNCHANGED <<TheJob, k.info>>, k'.run \in {0, k.run},
             NEW owner \in 0 .. Count + 1,
             NEW what \in SUBSET {"plots", "scalars", "artifacts", "results", "table", "files"},
             k'.runs = LoggedBy(owner, what)
      PROVE  RunsTyped'
  <2>1. k'.runs \in Seq(RunRec) /\ Len(k'.runs) = n
    BY <1>7, LoggedAdds DEF n
  <2> QED
    BY <1>1, <1>7, <2>1, RunsStay DEF n
<1>9. CASE RunBenchmark
  <2>1. /\ UNCHANGED <<TheJob, k.info, k.run>>
        /\ Current \in 0 .. Count + 1
    BY <1>8, <1>9, RunSets DEF Goes, JobTyped
  <2>2. \/ k'.runs = LoggedBy(Current, {"plots"})
        \/ UNCHANGED k.runs
    BY <1>9, RunSets
  <2> QED
    BY <1>3, <1>7, <2>1, <2>2 DEF TheRuns
<1>10. CASE LogBenchmark
  <2>1. /\ UNCHANGED <<TheJob, k.info, k.run>>
        /\ Current \in 0 .. Count + 1
    BY <1>8, <1>10, LogSets DEF Goes, JobTyped
  <2> DEFINE what == {"scalars"} \cup IF ChildTracked THEN {"artifacts"} ELSE {}
  <2>2. k'.runs = LoggedBy(Current, what) \/ UNCHANGED k.runs
    BY <1>10, LogSets
  <2>3. what \in SUBSET {"plots", "scalars", "artifacts", "results", "table", "files"}
    OBVIOUS
  <2> HIDE DEF what
  <2> QED
    BY <1>3, <1>7, <2>1, <2>2, <2>3 DEF TheRuns
<1>11. CASE FinishRun
  <2>1. /\ UNCHANGED <<TheJob, k.runs>> /\ k'.run = 0 /\ k.pc = "finish"
        /\ k'.info = IF k.run = 0 THEN k.info
                            ELSE [k.info EXCEPT ![Current] = k.run]
    BY <1>11, FinishSets DEF Goes
  <2>2. k'.info \in [Benchmarks -> 0 .. n]
    <3>1. k.info \in [Benchmarks -> 0 .. n]
      BY DEF RunsTyped, n
    <3> QED
      BY <1>1, <2>1, <3>1
  <2>3. /\ Benchmarks' = Benchmarks /\ RunRec' = RunRec
        /\ UNCHANGED <<k.tracked, k.foreign>>
    BY <2>1, SameJob DEF TheJob
  <2>4. 0 \in 0 .. n
    BY <1>1
  <2> QED
    BY <2>1, <2>2, <2>3, <2>4 DEF RunsTyped, n
<1>12. CASE TagBest
  <2>1. /\ UNCHANGED <<TheJob, k.run, k.info>>
        /\ k'.runs \in Seq(RunRec) /\ Len(k'.runs) = n
    BY <1>12, TagSets, TagKeeps DEF Goes, n
  <2> QED
    BY <1>1, <2>1, RunsStay DEF n
<1>13. CASE LogSummary
  <2>1. UNCHANGED <<TheJob, k.info>>
    BY <1>13, LogSummarySets DEF Goes
  <2>2. CASE k.tracked
    <3>1. /\ k'.runs \in Seq(RunRec) /\ Len(k'.runs) = n + 1 /\ k'.run = 0
      BY <1>13, <2>2, LogSummarySets, SummaryAdds DEF n
    <3> QED
      BY <1>1, <2>1, <2>2, <3>1, RunsStay DEF n
  <2>3. CASE ~k.tracked
    BY <1>3, <1>13, <2>1, <2>3, LogSummarySets
  <2> QED
    BY <2>2, <2>3
<1>14. CASE LogResults
  <2>1. UNCHANGED <<TheJob, k.info>>
    BY <1>14, ResultsSets DEF Goes
  <2>2. CASE k.tracked
    BY <1>1, <1>7, <1>14, <2>1, <2>2, ResultsSets
  <2>3. CASE ~k.tracked
    BY <1>3, <1>14, <2>1, <2>3, ResultsSets
  <2> QED
    BY <2>2, <2>3
<1>15. CASE Unwind
  <2>1. UNCHANGED <<TheJob, k.info, k.runs>> /\ k'.run \in {0, k.run}
    BY <1>15, UnwindSets DEF Goes
  <2> QED
    BY <1>1, <2>1, RunsStay DEF n
<1>16. Tick \/ InitOutputDir \/ WriteSweepSummary \/ ReportSingle =>
         UNCHANGED TheRuns /\ UNCHANGED TheJob
  BY TickSets, DirectorySets, SummarySets, ReportSets DEF Goes
<1> QED
  BY <1>2, <1>3, <1>5, <1>6, <1>9, <1>10, <1>11, <1>12, <1>13, <1>14, <1>15, <1>16 DEF Next

LEMMA RunsInitially == Init /\ JobTyped => RunsTyped
<1> SUFFICES ASSUME Init, JobTyped PROVE RunsTyped
  OBVIOUS
<1>1. /\ k.run = IF k.foreign THEN 1 ELSE 0
      /\ k.runs = IF k.foreign THEN <<NewRun(Len(k.job.configs) + 1)>> ELSE <<>>
      /\ k.info = [i \in 1 .. Len(k.job.configs) |-> 0]
  BY DEF Init
<1>2. NewRun(Count + 1) \in RunRec
  BY NewRunsAre DEF JobTyped
<1> QED
  BY <1>1, <1>2 DEF RunsTyped, Benchmarks, Count, JobTyped

-----------------------------------------------------------------------------
(* The directories: a new name is always found.                            *)

\* A set of natural numbers has a least one, and below a bound a greatest one.
LEMMA LeastMember ==
    ASSUME NEW S \in SUBSET Nat, S # {}
    PROVE  \E m \in S : \A n \in S : m <= n
<1>1. PICK m \in S : \A n \in S : <<n, m>> \notin OpToRel(<, Nat)
  BY NatLessThanWellFounded, WFMin
<1>2. \A n \in S : ~(n < m)
  BY <1>1 DEF OpToRel
<1> QED
  BY <1>2

LEMMA GreatestMember ==
    ASSUME NEW b \in Nat, NEW S \in SUBSET (1 .. b), S # {}
    PROVE  \E m \in S : \A n \in S : n <= m
<1> DEFINE T == {t \in 0 .. b : b - t \in S}
<1>1. T \in SUBSET Nat /\ T # {}
  <2>1. PICK n \in S : TRUE
    OBVIOUS
  <2>2. b - n \in 0 .. b /\ b - (b - n) = n
    OBVIOUS
  <2>3. b - n \in T
    BY <2>1, <2>2
  <2>4. T \in SUBSET Nat
    OBVIOUS
  <2> QED
    BY <2>3, <2>4
<1>2. PICK t \in T : \A u \in T : t <= u
  BY <1>1, LeastMember
<1>3. b - t \in S /\ t \in 0 .. b
  BY <1>2
<1>4. ASSUME NEW n \in S PROVE n <= b - t
  <2>1. b - n \in 0 .. b /\ b - (b - n) = n
    OBVIOUS
  <2>2. t <= b - n
    BY <1>2, <2>1
  <2> QED
    BY <1>3, <2>2
<1> QED
  BY <1>3, <1>4

LEMMA PairLonger ==
    ASSUME NEW c, NEW S, NEW pair \in Seq(S), c \in S, Len(pair) = 2
    PROVE  /\ Len(Append(pair, c)) = 3
           /\ Append(pair, c)[2] = pair[2] /\ Append(pair, c)[3] = c
<1>1. Len(Append(pair, c)) = Len(pair) + 1
  BY AppendProperties, ZenonT(60)
<1>2. Append(pair, c)[2] = pair[2]
  BY SMTT(40)
<1>3. Append(pair, c)[3] = c
  BY <1>1, AppendProperties
<1> QED
  BY <1>1, <1>2, <1>3

\* The number that is put to a name makes it a new one.
LEMMA NamesAreNew ==
    ASSUME NEW T, IsFiniteSet(T), NEW second, NEW config
    PROVE  LET name == NewName(T, <<second, config>>)
           IN  name \notin T /\ name # <<>> /\ name[2] = config
<1> DEFINE base == <<second, config>>
           N == Cardinality(T) + 1
           At(s) == Append(base, s)
           Free == {s \in 1 .. N : At(s) \notin T}
<1>1. \A s \in Nat : Len(At(s)) = 3 /\ At(s)[2] = config /\ At(s)[3] = s
  <2> TAKE s \in Nat
  <2> DEFINE S == {second, config, s}
  <2>1. base \in Seq(S) /\ s \in S /\ Len(base) = 2 /\ base[2] = config
    OBVIOUS
  <2> HIDE DEF base, S
  <2> HIDE DEF At, N, Free
  <2> QED
    BY <2>1, PairLonger DEF At, base
<1>2. Cardinality(T) \in Nat /\ N \in Nat
  BY FS_CardinalityType
<1>3. Free # {}
  <2> SUFFICES ASSUME Free = {} PROVE FALSE
    OBVIOUS
  <2> DEFINE f == [s \in 1 .. N |-> At(s)]
  <2>1. f \in [1 .. N -> T]
    OBVIOUS
  <2>2. IsFiniteSet(1 .. N) /\ Cardinality(1 .. N) = N
    <3>1. 1 \in Int /\ N \in Int /\ ~(1 > N) /\ N - 1 + 1 = N
      BY <1>2
    <3> QED
      BY <3>1, FS_Interval
  <2>3. Cardinality(T) < Cardinality(1 .. N)
    BY <1>2, <2>2
  <2>4. \E x, y \in 1 .. N : x # y /\ f[x] = f[y]
    <3> DEFINE S == 1 .. N
    <3>1. IsFiniteSet(S) /\ Cardinality(T) < Cardinality(S) /\ f \in [S -> T]
      BY <2>1, <2>2, <2>3
    <3> HIDE DEF f, S, N
    <3>2. \E x, y \in S : x # y /\ f[x] = f[y]
      BY <3>1, FS_PigeonHole
    <3> QED
      BY <3>2 DEF S
  <2>5. PICK x \in 1 .. N, y \in 1 .. N : x # y /\ f[x] = f[y]
    BY <2>4
  <2>6. x \in Nat /\ y \in Nat /\ At(x) = At(y)
    BY <1>2, <2>5
  <2> HIDE DEF f, At
  <2> QED
    BY <1>1, <2>5, <2>6
<1>4. Free \in SUBSET Nat
  BY <1>2
<1>5. PICK m \in Free : \A n \in Free : m <= n
  BY <1>3, <1>4, LeastMember
<1>6. \A r \in 1 .. m - 1 : At(r) \in T
  <2> TAKE r \in 1 .. m - 1
  <2>1. r \in 1 .. N /\ r < m
    BY <1>2
  <2> QED
    BY <1>5, <2>1
<1> DEFINE P(s) == At(s) \notin T /\ \A r \in 1 .. s - 1 : At(r) \in T
           s == CHOOSE x \in 1 .. N : P(x)
<1>7. s \in 1 .. N /\ P(s)
  <2>1. \E x \in 1 .. N : P(x)
    BY <1>5, <1>6
  <2> HIDE DEF P
  <2> QED
    BY <2>1
<1>8. NewName(T, base) = At(s)
  BY DEF NewName
<1>9. s \in Nat
  BY <1>2, <1>7
<1> HIDE DEF s, At
<1> QED
  BY <1>1, <1>7, <1>8, <1>9

LEMMA DirsInductive ==
    JobTyped /\ DirsNamed /\ [Next]_k => DirsNamed'
<1> SUFFICES ASSUME JobTyped, DirsNamed, [Next]_k PROVE DirsNamed'
  OBVIOUS
<1>1. /\ Count \in Nat /\ k.at \in 1 .. Count + 1
      /\ k.pc = "begin" => k.at = 1
  BY DEF JobTyped
<1>2. CASE UNCHANGED k
  BY <1>2 DEF DirsNamed, Named, AtWork, Benchmarks, Count
<1>3. ASSUME UNCHANGED <<TheJob, k.dirs>>,
             \A j \in Benchmarks : Named(j)' => Named(j)
      PROVE  DirsNamed'
  <2>1. Benchmarks' = Benchmarks /\ UNCHANGED <<k.order, k.job, k.dirs>>
    BY <1>3, SameJob DEF TheJob
  <2>2. \A j \in Benchmarks : Named(j)' => k'.dirs[k'.order[j]] # <<>>
    BY <1>3, <2>1 DEF DirsNamed
  <2> QED
    BY <2>1, <2>2 DEF DirsNamed
<1>4. CASE InitOutputDir
  <2> DEFINE C == Current
             B == Benchmarks
             T == ToSet(k.dirs)
             name == NewName(T, <<k.second, k.job.configs[C]>>)
  <2>1. /\ k.pc = "directory" /\ k'.pc = "init" /\ k'.at = k.at
        /\ UNCHANGED <<TheJob, k.order, k.job>>
        /\ k'.dirs = [k.dirs EXCEPT ![C] = name]
    BY <1>4, DirectorySets DEF Goes, TheJob
  <2>2. /\ C \in B /\ k.at \in B /\ C = k.order[k.at]
        /\ k.order \in [B -> B]
    <3>1. k.at <= Count
      BY <2>1 DEF JobTyped
    <3> QED
      BY <3>1, Turns DEF Current
  <2>3. DOMAIN k.dirs = B
    BY DEF DirsNamed
  <2>4. T = {k.dirs[i] : i \in B}
    BY <2>3 DEF ToSet
  <2>5. IsFiniteSet(T)
    <3>1. IsFiniteSet(B)
      <4>1. 1 \in Int /\ Count \in Int
        BY <1>1
      <4> QED
        BY <4>1, FS_Interval DEF Benchmarks
    <3> DEFINE D == [i \in B |-> k.dirs[i]]
    <3>2. D \in Surjection(B, T)
      BY <2>4 DEF Surjection
    <3> HIDE DEF D, B, T
    <3> QED
      BY <3>1, <3>2, FS_Surjection
  <2>6. name \notin T /\ name # <<>> /\ name[2] = k.job.configs[C]
    BY <2>5, NamesAreNew
  <2>7. B' = B
    BY <2>1, SameJob
  <2> HIDE DEF name, T, C, B
  <2>8. /\ DOMAIN k'.dirs = B
        /\ \A i \in B : k'.dirs[i] = IF i = C THEN name ELSE k.dirs[i]
    BY <2>1, <2>2, <2>3
  <2>9. \A i, j \in B : i # j /\ k'.dirs[i] # <<>> => k'.dirs[i] # k'.dirs[j]
    <3>1. \A i, j \in B : i # j /\ k.dirs[i] # <<>> => k.dirs[i] # k.dirs[j]
      BY DEF DirsNamed, B
    <3>2. \A i \in B : k.dirs[i] # name
      BY <2>4, <2>6
    <3> QED
      BY <2>8, <3>1, <3>2
  <2>10. \A i \in B : k'.dirs[i] # <<>> => k'.dirs[i][2] = k'.job.configs[i]
    <3>1. \A i \in B : k.dirs[i] # <<>> => k.dirs[i][2] = k.job.configs[i]
      BY DEF DirsNamed, B
    <3> QED
      BY <2>1, <2>6, <2>8, <3>1
  <2>11. \A j \in B : Named(j)' => k'.dirs[k'.order[j]] # <<>>
    <3>1. \A j \in B : Named(j) => k.dirs[k.order[j]] # <<>>
      BY DEF DirsNamed, B
    <3>2. \A j \in B : Named(j)' => Named(j) \/ j = k.at
      BY <2>1 DEF Named, AtWork
    <3> QED
      BY <2>1, <2>2, <2>6, <2>8, <3>1, <3>2
  <2> QED
    BY <2>7, <2>8, <2>9, <2>10, <2>11 DEF DirsNamed, B
<1> USE DEF Named, AtWork, Goes, TheNames
<1>5. CASE Begin
  <2>1. \A j \in Benchmarks : ~Named(j)'
    BY <1>1, <1>5, BeginSets DEF Benchmarks
  <2> QED
    BY <1>3, <1>5, <2>1, BeginSets
<1>6. CASE Tick
  BY <1>3, <1>6, TickSets
<1>7. CASE InitRun
  BY <1>3, <1>7, InitRunSets
<1>8. CASE RunBenchmark
  BY <1>3, <1>8, RunSets
<1>9. CASE LogBenchmark
  BY <1>3, <1>9, LogSets
<1>10. CASE FinishRun
  <2>1. /\ k.pc = "finish" /\ UNCHANGED <<TheJob, k.dirs>>
        /\ k'.pc \in {"unwind", "directory", "report"}
        /\ k'.at \in {k.at, k.at + 1}
    BY <1>10, FinishSets
  <2>2. \A j \in Benchmarks : Named(j)' => Named(j)
    BY <1>1, <2>1 DEF Benchmarks
  <2> QED
    BY <1>3, <2>1, <2>2
<1>11. CASE WriteSweepSummary
  BY <1>3, <1>11, SummarySets
<1>12. CASE TagBest
  BY <1>3, <1>12, TagSets
<1>13. CASE LogSummary
  BY <1>3, <1>13, LogSummarySets
<1>14. CASE LogResults
  BY <1>3, <1>14, ResultsSets
<1>15. CASE ReportSingle
  BY <1>3, <1>15, ReportSets
<1>16. CASE Unwind
  BY <1>3, <1>16, UnwindSets
<1> QED
  BY <1>2, <1>4, <1>5, <1>6, <1>7, <1>8, <1>9, <1>10, <1>11, <1>12, <1>13, <1>14, <1>15, <1>16
  DEF Next

-----------------------------------------------------------------------------
(* The summary, and the active run.                                        *)

LEMMA SummaryStands ==
    ASSUME UNCHANGED <<k.job, k.dirs, k.passed, k.windowed>>
    PROVE  Rows' = Rows /\ Windows' = Windows
<1>1. \A i : /\ LengthOf(i)' = LengthOf(i) /\ BatchOf(i)' = BatchOf(i)
  BY DEF LengthOf, BatchOf
<1>2. Benchmarks' = Benchmarks /\ Count' = Count
  BY DEF Benchmarks, Count
<1>3. \A i : Row(i)' = Row(i) /\ HasWindow(i)' = HasWindow(i)
  BY <1>1 DEF Row, HasWindow
<1>4. Rows' = Rows
  BY <1>2, <1>3 DEF Rows
<1>5. Windows' = Windows
  BY <1>1, <1>2, <1>3 DEF Windows
<1> QED
  BY <1>4, <1>5

LEMMA RowsInductive ==
    JobTyped /\ RowsFollow /\ [Next]_k => RowsFollow'
<1> SUFFICES ASSUME JobTyped, RowsFollow, [Next]_k PROVE RowsFollow'
  OBVIOUS
<1> DEFINE Over == {"report", "done", "failed"}
<1>1. CASE UNCHANGED k
  <2>1. Count' = Count
    BY <1>1 DEF Count, Benchmarks
  <2>2. Rows' = Rows /\ Windows' = Windows
    BY <1>1, SummaryStands
  <2> QED
    BY <1>1, <2>1, <2>2 DEF RowsFollow
<1>2. ASSUME UNCHANGED <<TheNames, k.best>>, k.pc \notin Over PROVE RowsFollow'
  BY <1>2 DEF RowsFollow, TheNames
<1>3. ASSUME UNCHANGED <<TheJob, TheNames, k.passed, k.windowed, k.at>>,
             k'.best # 0 => k.pc \in Over, k'.pc \in Over
      PROVE  RowsFollow'
  <2>1. UNCHANGED <<k.job, k.dirs, k.rows, k.windows>>
    BY <1>3 DEF TheJob, TheNames
  <2>2. /\ Rows' = Rows /\ Windows' = Windows
        /\ Count' = Count
    BY <1>3, <2>1, SummaryStands, SameJob
  <2> QED
    BY <1>3, <2>1, <2>2 DEF RowsFollow
<1>4. CASE Begin \/ Tick \/ InitRun \/ RunBenchmark
             \/ LogBenchmark \/ FinishRun \/ Unwind
  <2>1. UNCHANGED <<TheNames, k.best>>
    BY <1>4, BeginSets, TickSets, InitRunSets, RunSets, LogSets, FinishSets, UnwindSets DEF TheVerdicts
  <2>2. k.pc \notin Over
    BY <1>4 DEF Begin, Tick, InitRun, RunBenchmark,
       LogBenchmark, FinishRun, Unwind
  <2> QED
    BY <1>2, <2>1, <2>2
<1>5. CASE InitOutputDir
  <2>1. k.pc = "directory" /\ UNCHANGED <<k.rows, k.best>>
    BY <1>5, DirectorySets DEF TheVerdicts
  <2> QED
    BY <2>1 DEF RowsFollow
<1>6. CASE WriteSweepSummary
  <2>1. /\ k.pc = "report" /\ k'.pc = "report"
        /\ k'.rows = Rows /\ k'.windows = Windows
        /\ UNCHANGED <<TheJob, k.dirs, k.passed, k.windowed, k.at, k.best>>
    BY <1>6, SummarySets DEF Goes, TheVerdicts
  <2>2. UNCHANGED k.job
    BY <2>1 DEF TheJob
  <2>3. /\ Rows' = Rows /\ Windows' = Windows
        /\ Count' = Count
    BY <2>1, <2>2, SummaryStands, SameJob
  <2>4. k.at = Count + 1
    BY <2>1 DEF JobTyped
  <2> QED
    BY <2>1, <2>3, <2>4 DEF RowsFollow
<1>7. CASE TagBest
  BY <1>3, <1>7, TagSets DEF Goes
<1>8. CASE LogSummary
  BY <1>3, <1>8, LogSummarySets DEF Goes, TheVerdicts
<1>9. CASE LogResults
  BY <1>3, <1>9, ResultsSets DEF Goes, TheVerdicts
<1>10. CASE ReportSingle
  BY <1>3, <1>10, ReportSets DEF Goes, TheVerdicts
<1> QED
  BY <1>1, <1>4, <1>5, <1>6, <1>7, <1>8, <1>9, <1>10, SMTT(40) DEF Next

\* A step that neither starts a run nor ends the active one.
LEMMA ActiveStays ==
    ASSUME ActiveRun, UNCHANGED TheJob, UNCHANGED <<k.run, k.at>>,
           k.run # 0 => k'.runs[k.run].owner = OwnerOf(k.run),
           k.run # 0 /\ AtWork => AtWork',
           k.job.kind = "microbench" /\ k.tracked => k'.pc \notin {"done", "failed"}
    PROVE  ActiveRun'
<1>1. /\ Foreign' = Foreign /\ Current' = Current
      /\ UNCHANGED <<k.job, k.tracked, k.run>>
  BY SameJob DEF TheJob, Current
<1>2. CASE k.run = 0
  BY <1>1, <1>2 DEF ActiveRun
<1>3. CASE k.run # 0
  <2>1. k'.runs[k'.run].owner = OwnerOf(k.run)
    BY <1>1, <1>3 DEF OwnerOf
  <2> QED
    BY <1>1, <1>3, <2>1 DEF ActiveRun, OwnerOf
<1> QED
  BY <1>2, <1>3

\* Logging leaves the owners alone.
LEMMA OwnersStay ==
    ASSUME JobTyped, RunsTyped, NEW owner \in 0 .. Count + 1,
           NEW what \in SUBSET {"plots", "scalars", "artifacts", "results", "table", "files"},
           \/ k'.runs = LoggedBy(owner, what)
           \/ UNCHANGED k.runs
    PROVE  k.run # 0 => k'.runs[k.run].owner = OwnerOf(k.run)
<1>1. k.run # 0 => k.run \in 1 .. Len(k.runs)
  BY DEF RunsTyped
<1>2. CASE k'.runs = LoggedBy(owner, what)
  <2> DEFINE runs == LoggedBy(owner, what)
             Kept(r) == runs[r].owner = OwnerOf(r)
  <2>2. \A r \in 1 .. Len(k.runs) :
          /\ Kept(r) /\ runs[r].tags = k.runs[r].tags
          /\ runs[r].logged = IF r # k.run THEN k.runs[r].logged
                              ELSE k.runs[r].logged \cup {<<w, owner>> : w \in what}
    BY LoggedAdds
  <2>1. \A r \in 1 .. Len(k.runs) : k'.runs[r].owner = OwnerOf(r)
    <3>1. k'.runs = runs
      BY <1>2
    <3>2. \A r \in 1 .. Len(k.runs) : Kept(r)
      <4> HIDE DEF runs, Kept
      <4> QED
        BY <2>2
    <3> HIDE DEF runs
    <3> QED
      BY <3>1, <3>2
  <2> QED
    BY <1>1, <2>1
<1>3. CASE UNCHANGED k.runs
  BY <1>3 DEF OwnerOf
<1> QED
  BY <1>2, <1>3

LEMMA ActiveInductive ==
    JobTyped /\ RunsTyped /\ ActiveRun /\ [Next]_k => ActiveRun'
<1> SUFFICES ASSUME JobTyped, RunsTyped, ActiveRun, [Next]_k PROVE ActiveRun'
  OBVIOUS
<1> DEFINE n == Len(k.runs)
<1>1. /\ n \in Nat /\ k.run \in 0 .. n /\ 0 \in 0 .. Count + 1
      /\ k.run # 0 => k.run \in 1 .. n
      /\ k.at <= Count => Current \in 0 .. Count + 1
  <2>1. n \in Nat /\ k.run \in 0 .. n /\ Count \in Nat
    BY DEF RunsTyped, JobTyped
  <2>2. k.at <= Count => Current \in 1 .. Count
    BY Turns DEF Benchmarks
  <2> QED
    BY <2>1, <2>2
<1>2. CASE UNCHANGED k
  BY <1>2 DEF ActiveRun, OwnerOf, AtWork, Foreign, Current, Count
<1> HIDE DEF n
<1>3. CASE Begin
  <2>1. /\ k.pc = "begin" /\ k'.pc \in {"directory", "report"} /\ UNCHANGED TheJob
        /\ UNCHANGED k.at /\ Starts(0, k.tracked /\ k.job.kind = "microbench")
        /\ UNCHANGED <<k.job, k.tracked>>
    BY <1>3, BeginSets DEF Goes, TheJob
  <2>2. CASE k.tracked /\ k.job.kind = "microbench" /\ k.run = 0
    <3>1. /\ k'.run = n + 1 /\ k'.runs[n + 1] = NewRun(0)
      BY <1>1, <2>1, <2>2, StartAdds DEF Starts, n
    <3>2. k'.runs[k'.run].owner = 0
      BY <3>1 DEF OwnerOf, NewRun
    <3> QED
      BY <2>1, <2>2, <3>2 DEF ActiveRun, OwnerOf
  <2>3. CASE ~(k.tracked /\ k.job.kind = "microbench" /\ k.run = 0)
    <3>1. UNCHANGED <<k.runs, k.run>>
      BY <2>1, <2>3 DEF Starts
    <3> QED
      BY <2>1, <3>1, ActiveStays DEF OwnerOf, AtWork
  <2> QED
    BY <2>2, <2>3
<1>4. CASE InitRun
  <2>1. /\ k.pc = "init" /\ UNCHANGED TheJob /\ UNCHANGED k.at
        /\ k.at <= Count
    BY <1>4, InitRunSets DEF Goes, JobTyped
  <2>2. CASE k'.pc = "run" /\ Starts(Current, ChildTracked)
    <3>1. CASE ChildTracked /\ k.run = 0
      <4>1. ChildTracked \in BOOLEAN /\ Current \in 0 .. Count + 1
        BY <1>1, <2>1 DEF ChildTracked
      <4>2. k'.run = n + 1 /\ k'.runs[n + 1] = NewRun(Current)
        BY <2>2, <3>1, <4>1, StartAdds DEF Starts, n
      <4>3. Current' = Current
        BY <2>1 DEF Current, TheJob
      <4>4. k'.runs[k'.run].owner = Current'
        BY <4>2, <4>3 DEF OwnerOf, NewRun
      <4> QED
        BY <2>2, <4>4 DEF ActiveRun, AtWork, OwnerOf
    <3>2. CASE ~(ChildTracked /\ k.run = 0)
      <4>1. UNCHANGED <<k.runs, k.run>>
        BY <2>2, <3>2 DEF Starts
      <4> QED
        BY <2>1, <2>2, <4>1, ActiveStays DEF OwnerOf, AtWork
    <3> QED
      BY <3>1, <3>2
  <2>3. CASE k'.pc = "unwind" /\ UNCHANGED TheRuns
    BY <2>1, <2>3, ActiveStays DEF OwnerOf, AtWork, TheRuns
  <2> QED
    BY <1>4, <2>2, <2>3, InitRunSets DEF Goes
<1>6. CASE RunBenchmark
  <2>1. /\ k.pc = "run" /\ k'.pc \in {"log", "finish"} /\ UNCHANGED TheJob
        /\ UNCHANGED <<k.run, k.at>>
        /\ k'.runs = LoggedBy(Current, {"plots"}) \/ UNCHANGED k.runs
        /\ Current \in 0 .. Count + 1
    BY <1>1, <1>6, RunSets DEF Goes, JobTyped
  <2>2. k.run # 0 => k'.runs[k.run].owner = OwnerOf(k.run)
    <3>1. {"plots"} \in SUBSET {"plots", "scalars", "artifacts", "results", "table", "files"}
      OBVIOUS
    <3> QED
      BY <2>1, <3>1, OwnersStay
  <2> QED
    BY <2>1, <2>2, ActiveStays DEF AtWork
<1>7. CASE LogBenchmark
  <2> DEFINE what == {"scalars"} \cup IF ChildTracked THEN {"artifacts"} ELSE {}
  <2>1. /\ k.pc = "log" /\ k'.pc = "finish" /\ UNCHANGED TheJob
        /\ UNCHANGED <<k.run, k.at>>
        /\ k'.runs = LoggedBy(Current, what) \/ UNCHANGED k.runs
        /\ Current \in 0 .. Count + 1
    BY <1>1, <1>7, LogSets DEF Goes, JobTyped
  <2>2. what \in SUBSET {"plots", "scalars", "artifacts", "results", "table", "files"}
    OBVIOUS
  <2>3. k.run # 0 => k'.runs[k.run].owner = OwnerOf(k.run)
    <3> HIDE DEF what
    <3> QED
      BY <2>1, <2>2, OwnersStay
  <2> QED
    BY <2>1, <2>3, ActiveStays DEF AtWork
<1>8. CASE FinishRun
  BY <1>8, FinishSets DEF ActiveRun
<1>9. CASE TagBest
  <2>1. /\ k.pc = "report" /\ k'.pc = "report" /\ UNCHANGED TheJob
        /\ UNCHANGED <<k.run, k.at>>
    BY <1>9, TagSets DEF Goes
  <2>2. k.run # 0 => k'.runs[k.run].owner = OwnerOf(k.run)
    BY <1>1, <1>9, <2>1, TagKeeps DEF OwnerOf, n
  <2> QED
    BY <2>1, <2>2, ActiveStays DEF AtWork
<1>10. CASE Tick \/ InitOutputDir \/ WriteSweepSummary
  <2>1. /\ UNCHANGED <<TheJob, TheRuns, k.at>>
        /\ k.pc \in {"directory", "report"} /\ k'.pc \in {"directory", "init", "report"}
    BY <1>10, TickSets, DirectorySets, SummarySets DEF Goes, Tick
  <2> QED
    BY <2>1, ActiveStays DEF TheRuns, OwnerOf, AtWork
<1>11. CASE LogSummary
  <2>1. /\ k.pc = "report" /\ UNCHANGED TheJob /\ UNCHANGED k.at
        /\ k.job.kind # "microbench"
        /\ k'.run = 0 \/ UNCHANGED TheRuns
    BY <1>11, LogSummarySets DEF Goes
  <2>2. CASE k'.run = 0
    BY <2>2 DEF ActiveRun
  <2>3. CASE UNCHANGED TheRuns
    BY <2>1, <2>3, ActiveStays DEF TheRuns, OwnerOf, AtWork
  <2> QED
    BY <2>1, <2>2, <2>3
<1>12. CASE LogResults
  <2>1. /\ k.pc = "report" /\ UNCHANGED TheJob /\ UNCHANGED k.at
        /\ k'.run = 0 \/ (UNCHANGED TheRuns /\ ~k.tracked)
    BY <1>12, ResultsSets DEF Goes
  <2>2. CASE k'.run = 0
    BY <2>2 DEF ActiveRun
  <2>3. CASE UNCHANGED TheRuns /\ ~k.tracked
    BY <2>1, <2>3, ActiveStays DEF TheRuns, OwnerOf, AtWork
  <2> QED
    BY <2>1, <2>2, <2>3
<1>13. CASE ReportSingle
  <2>1. /\ k.pc = "report" /\ UNCHANGED <<TheJob, TheRuns, k.at>>
        /\ k.job.kind = "benchmark"
    BY <1>13, ReportSets DEF Goes
  <2> QED
    BY <2>1, ActiveStays DEF TheRuns, OwnerOf, AtWork
<1>14. CASE Unwind
  <2>1. /\ k.pc = "unwind" /\ UNCHANGED <<TheJob, k.runs, k.at>>
        /\ k'.run = IF k.tracked /\ k.job.kind = "microbench" THEN 0 ELSE k.run
    BY <1>14, UnwindSets DEF Goes
  <2>2. CASE k'.run = 0
    BY <2>2 DEF ActiveRun
  <2>3. CASE k'.run # 0
    BY <2>1, <2>3, ActiveStays DEF OwnerOf, AtWork
  <2> QED
    BY <2>2, <2>3
<1> QED
  BY <1>2, <1>3, <1>4, <1>6, <1>7, <1>8, <1>9, <1>10, <1>11, <1>12, <1>13, <1>14 DEF Next

\* The runs of a job that is tracked, and whose benchmarks start their own.
OwnInv == RunPerBenchmark /\ WorkLogged /\ BestIsTagged
OwnState == JobTyped /\ RunsTyped /\ RowsFollow /\ OwnRuns /\ OwnInv

Runs == 1 .. Len(k.runs)

-----------------------------------------------------------------------------
(* The runs of a job that has the tracker for itself.                      *)

LEMMA OwnFacts ==
    ASSUME OwnState
    PROVE  /\ k.tracked /\ k.job.kind # "microbench" /\ ChildTracked
           /\ DOMAIN k.runs = Runs /\ Len(k.runs) \in Nat
           /\ ~AtWork => k.run = 0
           /\ AtWork => /\ k.run \in Runs
                        /\ OwnerOf(k.run) = Current
                        /\ k.at \in Benchmarks /\ Current \in Benchmarks
           /\ \A r \in Runs : /\ OwnerOf(r) \in 0 .. Count
                              /\ OwnerOf(r) # 0 => OwnerOf(r) \in Benchmarks
                              /\ r # 0
           /\ 0 \notin Benchmarks
           /\ \A i \in Benchmarks : k.info[i] = 0 \/ k.info[i] \in Runs
<1>1. /\ k.tracked /\ k.job.kind # "microbench" /\ ChildTracked
  BY DEF OwnState, OwnRuns, ChildTracked
<1>2. /\ k.runs \in Seq(RunRec) /\ Len(k.runs) \in Nat
      /\ k.run \in 0 .. Len(k.runs)
      /\ k.info \in [Benchmarks -> 0 .. Len(k.runs)]
      /\ Count \in Nat
  BY DEF OwnState, RunsTyped, JobTyped
<1>3. DOMAIN k.runs = Runs
  BY <1>2, LenProperties DEF Runs
<1>4. ~AtWork => k.run = 0
  BY DEF OwnState, OwnInv, WorkLogged
<1>5. AtWork => k.run # 0 /\ OwnerOf(k.run) = Current
  BY DEF OwnState, OwnInv, WorkLogged
<1>6. AtWork => k.at \in Benchmarks /\ Current \in Benchmarks
  <2>1. AtWork => k.at <= Count
    BY DEF OwnState, JobTyped, AtWork
  <2> QED
    BY <2>1, Turns DEF OwnState
<1>7. \A r \in Runs : OwnerOf(r) \in 0 .. Count
  <2> TAKE r \in Runs
  <2>1. k.runs[r] \in RunRec
    BY <1>2, LenProperties DEF Runs
  <2>2. OwnerOf(r) \in 0 .. Count + 1
    BY <2>1 DEF RunRec, OwnerOf
  <2>3. OwnerOf(r) # Count + 1
    BY <1>3 DEF OwnState, OwnInv, RunPerBenchmark, RunsBelong, RunsHoldAll, Foreign
  <2> QED
    BY <1>2, <2>2, <2>3
<1>8. /\ \A r \in Runs : (OwnerOf(r) # 0 => OwnerOf(r) \in Benchmarks) /\ r # 0
      /\ 0 \notin Benchmarks
      /\ \A i \in Benchmarks : k.info[i] = 0 \/ k.info[i] \in Runs
      /\ k.run # 0 => k.run \in Runs
  BY <1>2, <1>7 DEF Runs, Benchmarks
<1> QED
  BY <1>1, <1>2, <1>3, <1>4, <1>5, <1>6, <1>7, <1>8

\* Runs, benchmarks and order, as what the steps below go by.
LEMMA RunsKnown ==
    ASSUME OwnState
    PROVE  /\ \A r \in Runs :
                /\ OwnerOf(r) # Foreign
                /\ OwnerOf(r) = 0 => k.pc \in {"done", "failed"}
                /\ OwnerOf(r) # 0 => \/ k.info[OwnerOf(r)] = r
                                     \/ r = k.run /\ OwnerOf(r) = Current
                /\ \A item \in k.runs[r].logged : item[2] = OwnerOf(r)
                /\ (k.runs[r].tags = {"BEST_CONFIG"}) <=>
                     (k.best # 0 /\ OwnerOf(r) = k.best)
           /\ \A r, q \in Runs : r # q => OwnerOf(r) # OwnerOf(q)
           /\ \A i \in Benchmarks : k.info[i] # 0 => OwnerOf(k.info[i]) = i
           /\ \A j \in Benchmarks :
                /\ k.order[j] \in Benchmarks
                /\ j < k.at =>
                     /\ k.info[k.order[j]] # 0
                     /\ k.runs[k.info[k.order[j]]].logged = Everything(k.order[j])
                /\ ToCome(j) => k.info[k.order[j]] = 0
           /\ \A i, j \in Benchmarks : k.order[i] = k.order[j] => i = j
<1>1. DOMAIN k.runs = Runs
  BY OwnFacts
<1>2. /\ \A i, j \in Benchmarks : k.order[i] = k.order[j] => i = j
      /\ \A j \in Benchmarks : k.order[j] \in Benchmarks
  BY Turns DEF OwnState
<1>3. \A r \in Runs : (k.runs[r].tags = {"BEST_CONFIG"}) <=>
                        (k.best # 0 /\ OwnerOf(r) = k.best)
  BY <1>1 DEF OwnState, OwnInv, BestIsTagged, OwnerOf
<1> QED
  BY <1>1, <1>2, <1>3 DEF OwnState, OwnInv, RunPerBenchmark, RunsBelong, RunsHoldAll

\* A step that leaves the runs alone and is no one's work.
LEMMA QuietStep ==
    ASSUME OwnState, UNCHANGED TheJob, UNCHANGED <<TheRuns, k.at, k.best>>,
           ~AtWork, ~AtWork',
           k'.error => k'.pc \in {"unwind", "failed"},
           k.pc \in {"unwind", "failed"} => k'.pc \in {"unwind", "failed"},
           k.pc \in {"done", "failed"} => k'.pc \in {"done", "failed"}
    PROVE  OwnInv'
<1>1. /\ UNCHANGED <<k.run, k.runs, k.info, k.order>>
      /\ Benchmarks' = Benchmarks /\ Foreign' = Foreign
      /\ OwnRuns' = OwnRuns /\ Current' = Current
  BY SameJob DEF TheRuns, TheJob, Current
<1>2. \A j \in Benchmarks : ToCome(j)' => ToCome(j)
  BY SMTT(40) DEF ToCome
<1>3. RunPerBenchmark'
  <2>1. RunsBelong'
    BY <1>1 DEF OwnState, OwnInv, RunPerBenchmark, RunsBelong, OwnerOf
  <2>2. RunsHoldAll'
    BY <1>1, <1>2 DEF OwnState, OwnInv, RunPerBenchmark, RunsHoldAll, Everything
  <2> QED
    BY <2>1, <2>2 DEF RunPerBenchmark
<1>4. WorkLogged'
  BY <1>1 DEF OwnState, OwnInv, WorkLogged
<1>5. BestIsTagged'
  BY <1>1 DEF OwnState, OwnInv, BestIsTagged
<1> QED
  BY <1>3, <1>4, <1>5 DEF OwnInv

\* The benchmark whose turn it is starts its run.
LEMMA OwnStarts ==
    ASSUME OwnState, InitRun, k'.pc = "run",
           Starts(Current, ChildTracked), UNCHANGED k.error
    PROVE  OwnInv'
<1> DEFINE n == Len(k.runs)
           B == Benchmarks
           C == Current
<1>1. /\ k.pc = "init" /\ UNCHANGED <<TheJob, k.at, k.best>>
      /\ k.at \in B /\ C \in B /\ C = k.order[k.at]
  <2>1. k.pc = "init" /\ UNCHANGED <<TheJob, k.at, k.best>>
    BY InitRunSets DEF OwnState, Goes, TheVerdicts
  <2>2. k.at <= Count
    BY <2>1 DEF OwnState, JobTyped
  <2> QED
    BY <2>1, <2>2, Turns DEF OwnState, Current
<1>2. ~AtWork /\ k.run = 0 /\ ChildTracked /\ n \in Nat
  BY <1>1, OwnFacts DEF AtWork
<1>3. /\ k'.runs \in Seq(RunRec) /\ Len(k'.runs) = n + 1
      /\ \A r \in 1 .. n : k'.runs[r] = k.runs[r]
      /\ k'.runs[n + 1] = NewRun(C)
      /\ k'.run = n + 1 /\ UNCHANGED k.info
  <2>1. C \in 0 .. Count + 1 /\ ChildTracked \in BOOLEAN
    <3>1. Count \in Nat
      BY DEF OwnState, JobTyped
    <3> QED
      BY <1>1, <3>1 DEF Benchmarks, ChildTracked
  <2> QED
    BY <1>2, <2>1, StartAdds DEF OwnState, Starts
<1>4. /\ Benchmarks' = B /\ Foreign' = Foreign
      /\ OwnRuns' = OwnRuns /\ Current' = C
      /\ UNCHANGED k.order
  BY <1>1, SameJob DEF TheJob, Current
<1>5. /\ k.info[C] = 0 /\ k.best = 0
      /\ ~k.error
  <2>1. ToCome(k.at)
    BY <1>1 DEF ToCome
  <2>2. k.info[C] = 0
    BY <1>1, <2>1, RunsKnown
  <2>3. k.best = 0
    BY <1>1 DEF OwnState, RowsFollow
  <2>4. ~k.error
    BY <1>1 DEF OwnState, OwnInv, WorkLogged
  <2> QED
    BY <2>2, <2>3, <2>4
<1>6. \A r \in 1 .. n : /\ OwnerOf(r) \in B /\ k.info[OwnerOf(r)] = r
                        /\ OwnerOf(r) # C
  BY <1>1, <1>2, <1>5, OwnFacts, RunsKnown DEF Runs
<1>7. DOMAIN k'.runs = 1 .. n + 1
  BY <1>2, <1>3
<1>8. /\ C # 0 /\ C # Foreign /\ n + 1 \notin 1 .. n
      /\ \A r \in 1 .. n + 1 : r \in 1 .. n \/ r = n + 1
      /\ \A i \in B : k.info[i] # 0 => k.info[i] \in 1 .. n
  <2>1. Count \in Nat /\ \A i \in B : k.info[i] = 0 \/ k.info[i] \in Runs
    BY OwnFacts DEF OwnState, JobTyped
  <2> QED
    BY <1>1, <1>2, <2>1, SMTT(40) DEF Benchmarks, Foreign, Runs
<1>9. /\ k'.runs[n + 1].owner = C /\ k'.runs[n + 1].logged = {}
      /\ k'.runs[n + 1].tags = {}
  BY <1>3 DEF NewRun
<1> HIDE DEF n, B, C
<1>10. /\ \A r \in 1 .. n + 1 :
            /\ k'.runs[r].owner # Foreign /\ k'.runs[r].owner # 0
            /\ \/ k'.info[k'.runs[r].owner] = r
               \/ r = k'.run /\ k'.runs[r].owner = C
            /\ \A item \in k'.runs[r].logged : item[2] = k'.runs[r].owner
            /\ k'.runs[r].tags # {"BEST_CONFIG"}
       /\ \A r, q \in 1 .. n + 1 : r # q => k'.runs[r].owner # k'.runs[q].owner
  <2>1. \A r \in 1 .. n : /\ k.runs[r].owner # Foreign /\ k.runs[r].owner # 0
                          /\ k.info[k.runs[r].owner] = r
                          /\ \A item \in k.runs[r].logged : item[2] = k.runs[r].owner
                          /\ k.runs[r].tags # {"BEST_CONFIG"}
                          /\ k.runs[r].owner # C
    BY <1>5, <1>6, OwnFacts, RunsKnown, SMTT(40) DEF Runs, OwnerOf, B, n
  <2>2. \A r, q \in 1 .. n : r # q => k.runs[r].owner # k.runs[q].owner
    BY RunsKnown DEF Runs, OwnerOf, n
  <2>3. ASSUME NEW r \in 1 .. n + 1
        PROVE  /\ k'.runs[r].owner # Foreign /\ k'.runs[r].owner # 0
               /\ \/ k'.info[k'.runs[r].owner] = r
                  \/ r = k'.run /\ k'.runs[r].owner = C
               /\ \A item \in k'.runs[r].logged : item[2] = k'.runs[r].owner
               /\ k'.runs[r].tags # {"BEST_CONFIG"}
    <3>1. CASE r \in 1 .. n
      <4>1. k'.runs[r] = k.runs[r] /\ UNCHANGED k.info
        BY <1>3, <3>1
      <4> QED
        BY <2>1, <3>1, <4>1
    <3>2. CASE r = n + 1
      <4>1. {} # {"BEST_CONFIG"}
        OBVIOUS
      <4> QED
        BY <1>3, <1>8, <1>9, <3>2, <4>1
    <3> QED
      BY <1>8, <3>1, <3>2
  <2>4. ASSUME NEW r \in 1 .. n + 1, NEW q \in 1 .. n + 1, r # q
        PROVE  k'.runs[r].owner # k'.runs[q].owner
    <3>1. \A s \in 1 .. n : k'.runs[s].owner = k.runs[s].owner
      BY <1>3
    <3> QED
      BY <1>8, <1>9, <2>1, <2>2, <2>4, <3>1
  <2> QED
    BY <2>3, <2>4
<1>11. \A i \in B : k'.info[i] # 0 => k'.runs[k'.info[i]].owner = i
  BY <1>3, <1>8, RunsKnown DEF OwnerOf, B
<1>12. \A j \in B :
         /\ j < k.at =>
              /\ k'.info[k.order[j]] # 0
              /\ k'.runs[k'.info[k.order[j]]].logged = Everything(k.order[j])
         /\ ToCome(j)' => k'.info[k.order[j]] = 0
  <2>1. \A j \in B : ToCome(j)' => ToCome(j)
    BY <1>1 DEF ToCome
  <2> QED
    BY <1>3, <1>8, <2>1, RunsKnown, SMTT(40) DEF B
<1>13. RunPerBenchmark'
  <2>1. RunsBelong'
    BY <1>1, <1>4, <1>7, <1>10, <1>11 DEF RunsBelong, OwnerOf
  <2>2. RunsHoldAll'
    BY <1>1, <1>4, <1>12 DEF RunsHoldAll, Everything
  <2> QED
    BY <2>1, <2>2 DEF RunPerBenchmark
<1>14. WorkLogged'
  <2>1. AtWork' /\ k'.run # 0
    BY <1>2, <1>3 DEF AtWork, n
  <2> QED
    BY <1>3, <1>4, <1>5, <1>9, <2>1 DEF WorkLogged, OwnerOf
<1>15. BestIsTagged'
  BY <1>1, <1>5, <1>7, <1>10 DEF BestIsTagged
<1> QED
  BY <1>13, <1>14, <1>15 DEF OwnInv

\* Whoever is at work logs to its own run.
LEMMA OwnLogs ==
    ASSUME OwnState, AtWork, AtWork', UNCHANGED TheJob,
           UNCHANGED <<k.at, k.run, k.info, k.best>>,
           NEW what \in SUBSET {"plots", "scalars", "artifacts", "results", "table", "files"},
           \/ k'.runs = LoggedBy(Current, what)
           \/ UNCHANGED k.runs /\ what = {}
    PROVE  /\ RunPerBenchmark' /\ BestIsTagged'
           /\ k'.run # 0 /\ k'.runs[k'.run].owner = Current
           /\ k'.runs[k'.run].logged =
                k.runs[k.run].logged \cup {<<w, Current>> : w \in what}
           /\ UNCHANGED Current
<1> DEFINE n == Len(k.runs)
           B == Benchmarks
           C == Current
           a == k.run
           add == {<<w, C>> : w \in what}
<1>1. /\ a \in 1 .. n /\ OwnerOf(a) = C /\ C \in B /\ k.at \in B /\ C = k.order[k.at]
      /\ n \in Nat /\ a # 0
  BY OwnFacts DEF Runs, Current
<1>2. C \in 0 .. Count + 1
  <2>1. Count \in Nat
    BY DEF OwnState, JobTyped
  <2> QED
    BY <1>1, <2>1 DEF Benchmarks
<1>3. /\ DOMAIN k'.runs = 1 .. n
      /\ \A r \in 1 .. n : /\ k'.runs[r].owner = OwnerOf(r)
                           /\ k'.runs[r].tags = k.runs[r].tags
                           /\ k'.runs[r].logged = IF r # a THEN k.runs[r].logged
                                                         ELSE k.runs[r].logged \cup add
  <2>1. CASE k'.runs = LoggedBy(C, what)
    <3> DEFINE runs == LoggedBy(C, what)
               Kept(r) == /\ runs[r].owner = OwnerOf(r) /\ runs[r].tags = k.runs[r].tags
                          /\ runs[r].logged = IF r # k.run THEN k.runs[r].logged
                                              ELSE k.runs[r].logged \cup {<<w, C>> : w \in what}
    <3>1. /\ runs \in Seq(RunRec) /\ Len(runs) = n
          /\ \A r \in 1 .. n : Kept(r)
      <4> HIDE DEF C
      <4> QED
        BY <1>2, LoggedAdds DEF OwnState
    <3>2. k'.runs = runs
      BY <2>1
    <3>3. DOMAIN runs = 1 .. n
      <4> HIDE DEF runs, n
      <4> QED
        BY <3>1, LenProperties
    <3> HIDE DEF runs, n, C
    <3> QED
      BY <3>1, <3>2, <3>3 DEF add
  <2>2. CASE UNCHANGED k.runs /\ what = {}
    <3>1. add = {} /\ DOMAIN k.runs = 1 .. n
      BY <2>2, OwnFacts DEF Runs
    <3> HIDE DEF add
    <3> QED
      BY <2>2, <3>1 DEF OwnerOf
  <2> QED
    BY <2>1, <2>2
<1>4. /\ Benchmarks' = B /\ Foreign' = Foreign
      /\ OwnRuns' = OwnRuns /\ Current' = C
      /\ UNCHANGED k.order
  BY SameJob DEF TheJob, Current
<1>5. \A item \in add : item[2] = C
  OBVIOUS
<1> HIDE DEF n, B, C, a, add
<1>6. \A r \in 1 .. n :
        /\ k'.runs[r].owner # Foreign
        /\ k'.runs[r].owner # 0
        /\ \/ k'.info[k'.runs[r].owner] = r
           \/ r = k'.run /\ k'.runs[r].owner = C
        /\ \A item \in k'.runs[r].logged : item[2] = k'.runs[r].owner
        /\ (k'.runs[r].tags = {"BEST_CONFIG"}) <=>
             (k'.best # 0 /\ k'.runs[r].owner = k'.best)
  <2> TAKE r \in 1 .. n
  <2>1. r \in Runs
    BY DEF Runs, n
  <2>2. /\ OwnerOf(r) # Foreign
        /\ OwnerOf(r) # 0
        /\ k.info[OwnerOf(r)] = r \/ (r = a /\ OwnerOf(r) = C)
        /\ \A item \in k.runs[r].logged : item[2] = OwnerOf(r)
        /\ (k.runs[r].tags = {"BEST_CONFIG"}) <=>
             (k.best # 0 /\ OwnerOf(r) = k.best)
    BY <2>1, RunsKnown DEF AtWork, a, C
  <2>3. /\ k'.runs[r].owner = OwnerOf(r) /\ k'.runs[r].tags = k.runs[r].tags
        /\ UNCHANGED <<k.info, k.run, k.best>>
    BY <1>3
  <2>4. \A item \in k'.runs[r].logged : item[2] = OwnerOf(r)
    BY <1>1, <1>3, <1>5, <2>2
  <2> HIDE DEF OwnerOf
  <2> QED
    BY <2>2, <2>3, <2>4 DEF a
<1>8. \A r, q \in 1 .. n : r # q => k'.runs[r].owner # k'.runs[q].owner
  <2>1. \A r, q \in 1 .. n : r # q => OwnerOf(r) # OwnerOf(q)
    BY RunsKnown DEF Runs, n
  <2>2. \A r \in 1 .. n : k'.runs[r].owner = OwnerOf(r)
    BY <1>3
  <2> QED
    BY <2>1, <2>2
<1>9. \A i \in B : k'.info[i] # 0 => k'.info[i] \in 1 .. n
  BY OwnFacts DEF Runs, n, B
<1>10. \A i \in B : k'.info[i] # 0 => k'.runs[k'.info[i]].owner = i
  <2>1. \A i \in B : k.info[i] # 0 => OwnerOf(k.info[i]) = i
    BY RunsKnown, SMTT(40) DEF B
  <2>2. \A r \in 1 .. n : k'.runs[r].owner = OwnerOf(r)
    BY <1>3
  <2> QED
    BY <1>9, <2>1, <2>2
<1>11. \A j \in B : j < k'.at =>
         /\ k'.info[k.order[j]] # 0
         /\ k'.runs[k'.info[k.order[j]]].logged = Everything(k.order[j])
  <2> TAKE j \in B
  <2> HAVE j < k'.at
  <2> DEFINE i == k.order[j]
             r == k.info[i]
  <2>1. i \in B /\ r # 0 /\ k.runs[r].logged = Everything(i) /\ OwnerOf(r) = i
    BY RunsKnown DEF B
  <2>2. i # C
    <3>1. j # k.at
      <4>1. k.at \in Nat
        BY DEF OwnState, JobTyped
      <4> QED
        BY <4>1
    <3> QED
      BY <1>1, <3>1, RunsKnown DEF B
  <2>3. r \in 1 .. n /\ r # a
    BY <1>1, <1>9, <2>1, <2>2
  <2> QED
    BY <1>3, <2>1, <2>3
<1>12. \A j \in B : ToCome(j)' => k'.info[k.order[j]] = 0
  <2>1. \A j \in B : ToCome(j)' => ToCome(j)
    BY SMTT(40) DEF ToCome, AtWork
  <2> QED
    BY <2>1, RunsKnown DEF B
<1>13. RunPerBenchmark'
  <2>1. RunsBelong'
    BY <1>3, <1>4, <1>6, <1>8, <1>10 DEF RunsBelong, OwnerOf
  <2>2. RunsHoldAll'
    BY <1>4, <1>11, <1>12 DEF RunsHoldAll, Everything
  <2> QED
    BY <2>1, <2>2 DEF RunPerBenchmark
<1>14. BestIsTagged'
  BY <1>3, <1>6 DEF BestIsTagged
<1> QED
  BY <1>1, <1>3, <1>4, <1>13, <1>14 DEF a, C, add

\* The benchmark that is done gives its run up.
LEMMA OwnFinishes ==
    ASSUME OwnState, FinishRun
    PROVE  OwnInv'
<1> DEFINE n == Len(k.runs)
           B == Benchmarks
           C == Current
           a == k.run
<1>1. /\ k.pc = "finish" /\ UNCHANGED <<TheJob, k.runs, k.best, k.error>>
      /\ k'.run = 0
      /\ k'.pc \in {"unwind", "directory", "report"} /\ ~AtWork'
      /\ k.error <=> k'.pc = "unwind"
      /\ k'.at = IF k.error THEN k.at ELSE k.at + 1
  BY FinishSets DEF OwnState, Goes, TheVerdicts, AtWork
<1>2. /\ a \in 1 .. n /\ OwnerOf(a) = C /\ C \in B /\ k.at \in B /\ C = k.order[k.at]
      /\ n \in Nat /\ a # 0
  BY <1>1, OwnFacts DEF Runs, Current, AtWork
<1>3. k'.info = [k.info EXCEPT ![C] = a]
  BY <1>2, FinishSets DEF OwnState
<1>4. DOMAIN k.info = B
  BY DEF OwnState, RunsTyped
<1>5. \A i \in B : k'.info[i] = IF i = C THEN a ELSE k.info[i]
  BY <1>3, <1>4
<1>6. k.info[C] = 0
  <2>1. ToCome(k.at)
    BY <1>1 DEF ToCome
  <2> QED
    BY <1>2, <2>1, RunsKnown
<1>7. /\ Benchmarks' = B /\ Foreign' = Foreign
      /\ OwnRuns' = OwnRuns /\ UNCHANGED k.order
      /\ DOMAIN k.runs = 1 .. n
  BY <1>1, SameJob, OwnFacts DEF TheJob, Runs
<1>8. B \subseteq Nat /\ k.at \in Nat
  BY <1>2 DEF Benchmarks
<1> HIDE DEF n, B, C, a
<1>9. \A r \in 1 .. n :
        /\ OwnerOf(r) # Foreign
        /\ OwnerOf(r) # 0
        /\ k'.info[OwnerOf(r)] = r
        /\ \A item \in k.runs[r].logged : item[2] = OwnerOf(r)
  <2> TAKE r \in 1 .. n
  <2>1. /\ OwnerOf(r) # Foreign /\ OwnerOf(r) # 0 /\ OwnerOf(r) \in B /\ r # 0
        /\ k.info[OwnerOf(r)] = r \/ (r = a /\ OwnerOf(r) = C)
        /\ \A item \in k.runs[r].logged : item[2] = OwnerOf(r)
    BY <1>1, OwnFacts, RunsKnown DEF Runs, n, a, B, C
  <2> QED
    BY <1>5, <1>6, <2>1
<1>10. /\ \A r, q \in 1 .. n : r # q => OwnerOf(r) # OwnerOf(q)
       /\ \A i \in B : k'.info[i] # 0 => OwnerOf(k'.info[i]) = i
  BY <1>2, <1>5, RunsKnown DEF Runs, n, B
<1>11. \A j \in B : j < k'.at =>
         /\ k'.info[k.order[j]] # 0
         /\ k.runs[k'.info[k.order[j]]].logged = Everything(k.order[j])
  <2> TAKE j \in B
  <2> HAVE j < k'.at
  <2>1. CASE j < k.at
    <3>1. k.order[j] # C /\ k.order[j] \in B
      <4>1. j # k.at
        BY <1>8, <2>1
      <4> QED
        BY <1>2, <4>1, RunsKnown DEF B
    <3> QED
      BY <1>5, <2>1, <3>1, RunsKnown DEF B
  <2>2. CASE ~(j < k.at)
    <3>1. j = k.at /\ ~k.error
      BY <1>1, <1>8, <2>2
    <3>2. k.runs[a].logged = Everything(C)
      BY <1>1, <3>1 DEF OwnState, OwnInv, WorkLogged, AtWork, a, C
    <3> QED
      BY <1>2, <1>5, <3>1, <3>2
  <2> QED
    BY <2>1, <2>2
<1>12. \A j \in B : ToCome(j)' => k'.info[k.order[j]] = 0
  <2> TAKE j \in B
  <2> HAVE ToCome(j)'
  <2>1. j > k.at
    BY <1>1, <1>8 DEF ToCome
  <2>2. ToCome(j)
    BY <2>1 DEF ToCome
  <2>3. k.order[j] # C /\ k.order[j] \in B
    <3>1. j # k.at
      BY <1>8, <2>1, SMTT(40)
    <3> QED
      BY <1>2, <3>1, RunsKnown DEF B
  <2> QED
    BY <1>5, <2>2, <2>3, RunsKnown DEF B
<1>13. RunPerBenchmark'
  <2>1. RunsBelong'
    BY <1>1, <1>7, <1>9, <1>10 DEF RunsBelong, OwnerOf
  <2>2. RunsHoldAll'
    BY <1>1, <1>7, <1>11, <1>12 DEF RunsHoldAll, Everything
  <2> QED
    BY <2>1, <2>2 DEF RunPerBenchmark
<1>14. WorkLogged'
  BY <1>1 DEF OwnState, OwnInv, WorkLogged
<1>15. BestIsTagged'
  BY <1>1, <1>7 DEF OwnState, OwnInv, BestIsTagged
<1> QED
  BY <1>13, <1>14, <1>15 DEF OwnInv

\* The tag is put to the run of the best benchmark, which has one.
LEMMA OwnTags ==
    ASSUME OwnState, TagBest
    PROVE  OwnInv'
<1> DEFINE n == Len(k.runs)
           B == Benchmarks
           b == k'.best
           a == k.info[b]
<1>1. /\ k.pc = "report" /\ k'.pc = "report" /\ ~AtWork /\ ~AtWork'
      /\ UNCHANGED <<TheJob, k.run, k.info, k.at, k.error>>
      /\ k.best = 0 /\ b \in B /\ k.run = 0 /\ n \in Nat
  BY TagSets, TagKeeps, OwnFacts DEF OwnState, Goes, AtWork
<1>2. k'.runs \in Seq(RunRec) /\ Len(k'.runs) = n
  BY TagKeeps DEF OwnState
<1>3. \A r \in 1 .. n : /\ k'.runs[r].owner = OwnerOf(r)
                        /\ k'.runs[r].logged = k.runs[r].logged
                        /\ k'.runs[r].tags = IF r = a THEN {"BEST_CONFIG"} ELSE k.runs[r].tags
  BY TagKeeps DEF OwnState
<1>4. DOMAIN k'.runs = 1 .. n
  BY <1>1, <1>2, LenProperties
<1>5. /\ Benchmarks' = B /\ Foreign' = Foreign
      /\ OwnRuns' = OwnRuns /\ UNCHANGED k.order
  BY <1>1, SameJob DEF TheJob
<1> HIDE DEF n, B, a, b
<1>6. a \in 1 .. n /\ a # 0 /\ OwnerOf(a) = b /\ b # 0
  <2>1. PICK j \in B : k.order[j] = b
    BY <1>1, Turns DEF OwnState, B
  <2>2. j < k.at
    BY <1>1 DEF OwnState, JobTyped, B, Benchmarks
  <2>3. a # 0
    BY <2>1, <2>2, RunsKnown DEF a, B
  <2>4. OwnerOf(a) = b
    BY <1>1, <2>3, RunsKnown DEF a, B
  <2> QED
    BY <1>1, <2>3, <2>4, OwnFacts DEF a, n, B, Runs
<1>7. \A r \in 1 .. n :
        /\ k'.runs[r].owner # Foreign
        /\ k'.runs[r].owner # 0
        /\ k'.info[k'.runs[r].owner] = r
        /\ \A item \in k'.runs[r].logged : item[2] = k'.runs[r].owner
        /\ (k'.runs[r].tags = {"BEST_CONFIG"}) <=>
             (k'.best # 0 /\ k'.runs[r].owner = k'.best)
  <2> TAKE r \in 1 .. n
  <2>1. r \in Runs /\ r # 0
    BY OwnFacts DEF Runs, n
  <2>2. /\ OwnerOf(r) # Foreign
        /\ OwnerOf(r) # 0
        /\ k.info[OwnerOf(r)] = r
        /\ \A item \in k.runs[r].logged : item[2] = OwnerOf(r)
        /\ k.runs[r].tags # {"BEST_CONFIG"}
    BY <1>1, <2>1, RunsKnown
  <2>3. OwnerOf(r) = b <=> r = a
    BY <1>6, <2>2 DEF a
  <2>4. /\ k'.runs[r].owner = OwnerOf(r)
        /\ k'.runs[r].logged = k.runs[r].logged
        /\ k'.runs[r].tags = {"BEST_CONFIG"} <=> r = a
        /\ UNCHANGED k.info
    BY <1>1, <1>3, <2>2
  <2> HIDE DEF OwnerOf
  <2> QED
    BY <1>6, <2>2, <2>3, <2>4 DEF b
<1>8. \A r, q \in 1 .. n : r # q => k'.runs[r].owner # k'.runs[q].owner
  <2>1. \A r, q \in 1 .. n : r # q => OwnerOf(r) # OwnerOf(q)
    BY RunsKnown DEF Runs, n
  <2>2. \A r \in 1 .. n : k'.runs[r].owner = OwnerOf(r)
    BY <1>3
  <2> QED
    BY <2>1, <2>2
<1>9. \A i \in B : k.info[i] # 0 =>
        /\ k.info[i] \in 1 .. n
        /\ k'.runs[k.info[i]].owner = i
        /\ k'.runs[k.info[i]].logged = k.runs[k.info[i]].logged
  <2>1. \A i \in B : k.info[i] # 0 => k.info[i] \in 1 .. n /\ OwnerOf(k.info[i]) = i
    BY OwnFacts, RunsKnown DEF B, Runs, n
  <2> QED
    BY <1>3, <2>1
<1>10. \A j \in B :
         /\ j < k.at =>
              /\ k.info[k.order[j]] # 0
              /\ k'.runs[k.info[k.order[j]]].logged = Everything(k.order[j])
         /\ ToCome(j)' => k.info[k.order[j]] = 0
  <2>1. \A j \in B : ToCome(j)' => ToCome(j)
    BY <1>1 DEF ToCome
  <2> QED
    BY <1>9, <2>1, RunsKnown, SMTT(40) DEF B
<1>11. RunPerBenchmark'
  <2>1. RunsBelong'
    BY <1>1, <1>4, <1>5, <1>7, <1>8, <1>9, <1>10 DEF RunsBelong, OwnerOf
  <2>2. RunsHoldAll'
    BY <1>1, <1>4, <1>5, <1>10 DEF RunsHoldAll, Everything
  <2> QED
    BY <2>1, <2>2 DEF RunPerBenchmark
<1>12. WorkLogged'
  BY <1>1 DEF OwnState, OwnInv, WorkLogged
<1>13. BestIsTagged'
  BY <1>4, <1>7 DEF BestIsTagged
<1> QED
  BY <1>11, <1>12, <1>13 DEF OwnInv

\* The summary has a run of its own, that is no benchmark's.
LEMMA OwnSummary ==
    ASSUME OwnState, LogSummary
    PROVE  OwnInv'
<1> DEFINE n == Len(k.runs)
           B == Benchmarks
<1>1. /\ k.pc = "report" /\ k'.pc \in {"done", "failed"} /\ ~AtWork /\ ~AtWork'
      /\ UNCHANGED <<TheJob, k.info, k.at, k.best, k.error>>
      /\ k.run = 0 /\ n \in Nat /\ k.tracked
  BY LogSummarySets, OwnFacts DEF OwnState, Goes, AtWork, TheVerdicts
<1>2. k'.run = 0
  BY <1>1, LogSummarySets DEF OwnState
<1>3. /\ k'.runs \in Seq(RunRec) /\ Len(k'.runs) = n + 1
      /\ \A r \in 1 .. n : k'.runs[r] = k.runs[r]
      /\ k'.runs[n + 1].owner = 0 /\ k'.runs[n + 1].tags = {}
      /\ \A item \in k'.runs[n + 1].logged : item[2] = 0
  BY <1>1, SummaryAdds DEF OwnState
<1>4. /\ DOMAIN k'.runs = 1 .. n + 1 /\ n + 1 \notin 1 .. n
      /\ \A r \in 1 .. n + 1 : r \in 1 .. n \/ r = n + 1
  <2>1. Len(k'.runs) \in Nat
    BY <1>1, <1>3
  <2>2. DOMAIN k'.runs = 1 .. Len(k'.runs)
    BY <1>3, LenProperties
  <2> QED
    BY <1>1, <1>3, <2>2
<1>5. /\ Benchmarks' = B /\ Foreign' = Foreign
      /\ OwnRuns' = OwnRuns /\ UNCHANGED k.order
      /\ Foreign # 0
  <2>1. Foreign # 0
    BY DEF OwnState, JobTyped, Foreign
  <2> QED
    BY <1>1, <2>1, SameJob DEF TheJob
<1> HIDE DEF n, B
<1>6. \A r \in 1 .. n :
        /\ k'.runs[r].owner # Foreign
        /\ k'.runs[r].owner # 0
        /\ k'.info[k'.runs[r].owner] = r
        /\ \A item \in k'.runs[r].logged : item[2] = k'.runs[r].owner
        /\ (k'.runs[r].tags = {"BEST_CONFIG"}) <=>
             (k'.best # 0 /\ k'.runs[r].owner = k'.best)
  <2> TAKE r \in 1 .. n
  <2>1. r \in Runs /\ r # 0
    BY OwnFacts DEF Runs, n
  <2>2. /\ OwnerOf(r) # Foreign
        /\ OwnerOf(r) # 0
        /\ k.info[OwnerOf(r)] = r
        /\ \A item \in k.runs[r].logged : item[2] = OwnerOf(r)
        /\ (k.runs[r].tags = {"BEST_CONFIG"}) <=>
             (k.best # 0 /\ OwnerOf(r) = k.best)
    BY <1>1, <2>1, RunsKnown
  <2>3. k'.runs[r] = k.runs[r] /\ UNCHANGED <<k.info, k.best>>
    BY <1>1, <1>3
  <2> QED
    BY <2>2, <2>3 DEF OwnerOf
<1>7. \A r, q \in 1 .. n + 1 : r # q => k'.runs[r].owner # k'.runs[q].owner
  <2>1. \A r, q \in 1 .. n : r # q => k'.runs[r].owner # k'.runs[q].owner
    BY <1>3, RunsKnown, SMTT(60) DEF Runs, n, OwnerOf
  <2>2. k'.runs[n + 1].owner = 0 /\ \A r \in 1 .. n : k'.runs[r].owner # 0
    BY <1>3, <1>6
  <2> QED
    BY <1>4, <2>1, <2>2
<1>8. \A r \in 1 .. n + 1 :
        /\ k'.runs[r].owner # Foreign
        /\ k'.runs[r].owner # 0 => k'.info[k'.runs[r].owner] = r
        /\ \A item \in k'.runs[r].logged : item[2] = k'.runs[r].owner
        /\ (k'.runs[r].tags = {"BEST_CONFIG"}) <=>
             (k'.best # 0 /\ k'.runs[r].owner = k'.best)
  <2> TAKE r \in 1 .. n + 1
  <2>1. CASE r \in 1 .. n
    BY <1>6, <2>1
  <2>2. CASE r = n + 1
    <3>1. {} # {"BEST_CONFIG"}
      OBVIOUS
    <3> QED
      BY <1>3, <1>5, <2>2, <3>1
  <2> QED
    BY <1>4, <2>1, <2>2
<1>9. \A i \in B : k.info[i] # 0 =>
        /\ k.info[i] \in 1 .. n
        /\ k'.runs[k.info[i]] = k.runs[k.info[i]]
        /\ k.runs[k.info[i]].owner = i
  <2>1. \A i \in B : k.info[i] # 0 => k.info[i] \in 1 .. n /\ OwnerOf(k.info[i]) = i
    BY OwnFacts, RunsKnown DEF B, Runs, n
  <2> QED
    BY <1>3, <2>1 DEF OwnerOf
<1>10. \A j \in B :
         /\ j < k.at =>
              /\ k.info[k.order[j]] # 0
              /\ k'.runs[k.info[k.order[j]]].logged = Everything(k.order[j])
         /\ ToCome(j)' => k.info[k.order[j]] = 0
  <2>1. \A j \in B : ToCome(j)' => ToCome(j)
    BY <1>1 DEF ToCome
  <2> QED
    BY <1>9, <2>1, RunsKnown, SMTT(40) DEF B
<1>11. RunPerBenchmark'
  <2>1. \A i \in B : k'.info[i] # 0 => k'.runs[k'.info[i]].owner = i
    BY <1>1, <1>9
  <2>2. RunsBelong'
    BY <1>1, <1>4, <1>5, <1>7, <1>8, <2>1 DEF RunsBelong, OwnerOf
  <2>3. RunsHoldAll'
    BY <1>1, <1>5, <1>10 DEF RunsHoldAll, Everything
  <2> QED
    BY <2>2, <2>3 DEF RunPerBenchmark
<1>12. WorkLogged'
  BY <1>1, <1>2 DEF OwnState, OwnInv, WorkLogged
<1>13. BestIsTagged'
  BY <1>4, <1>8 DEF BestIsTagged
<1> QED
  BY <1>11, <1>12, <1>13 DEF OwnInv

LEMMA OwnInductive == OwnState /\ [Next]_k => OwnInv'
<1> SUFFICES ASSUME OwnState, [Next]_k PROVE OwnInv'
  BY SMTT(40)
<1>1. CASE UNCHANGED k
  <2>1. RunsBelong'
    BY <1>1 DEF OwnState, OwnInv, RunPerBenchmark, RunsBelong, OwnerOf, Foreign, Current, Count,
       Benchmarks
  <2>2. RunsHoldAll'
    BY <1>1 DEF OwnState, OwnInv, RunPerBenchmark, RunsHoldAll, Everything, ToCome, Count, Benchmarks
  <2>3. WorkLogged'
    BY <1>1 DEF OwnState, OwnInv, WorkLogged, OwnerOf, Everything, AtWork, Current
  <2>4. BestIsTagged'
    BY <1>1 DEF OwnState, OwnInv, BestIsTagged, OwnerOf
  <2> QED
    BY <2>1, <2>2, <2>3, <2>4 DEF OwnInv, RunPerBenchmark
<1>2. JobTyped /\ (k.error => k.pc \in {"finish", "unwind", "failed"})
      /\ k.tracked /\ k.job.kind # "microbench" /\ (~AtWork => k.run = 0)
  BY OwnFacts DEF OwnState, OwnInv, WorkLogged
<1>3. CASE Begin
  <2>1. /\ k.pc = "begin" /\ k'.pc \in {"report", "directory"}
        /\ UNCHANGED TheJob /\ UNCHANGED <<TheRuns, k.at, k.best, k.error>>
    BY <1>2, <1>3, BeginSets DEF Goes, TheVerdicts, TheRuns, Starts
  <2> QED
    BY <1>2, <2>1, QuietStep DEF AtWork
<1>4. CASE Tick \/ InitOutputDir \/ WriteSweepSummary
  <2>1. /\ k.pc \in {"directory", "report"} /\ k'.pc \in {"directory", "init", "report"}
        /\ UNCHANGED TheJob /\ UNCHANGED <<TheRuns, k.at, k.best, k.error>>
    BY <1>2, <1>4, TickSets, DirectorySets, SummarySets DEF Goes, TheVerdicts, Tick
  <2> QED
    BY <1>2, <2>1, QuietStep DEF AtWork
<1>5. CASE InitRun
  <2>1. CASE /\ Goes("run") /\ UNCHANGED k.error
             /\ Starts(Current, ChildTracked)
    BY <1>5, <2>1, OwnStarts DEF Goes
  <2>2. CASE Goes("unwind") /\ UNCHANGED TheRuns
    <3>1. /\ k.pc = "init" /\ k'.pc = "unwind"
          /\ UNCHANGED TheJob /\ UNCHANGED <<TheRuns, k.at, k.best>>
      BY <1>2, <1>5, <2>2, InitRunSets DEF Goes, TheVerdicts
    <3> QED
      BY <1>2, <3>1, QuietStep DEF AtWork
  <2> QED
    BY <1>2, <1>5, <2>1, <2>2, InitRunSets
<1>6. CASE RunBenchmark
  <2>1. /\ k.pc = "run" /\ AtWork /\ AtWork' /\ UNCHANGED TheJob
        /\ UNCHANGED <<k.at, k.run, k.info, k.best>>
        /\ \/ /\ k'.pc = "log" /\ UNCHANGED k.error
              /\ k'.runs = LoggedBy(Current, {"plots"})
           \/ k'.pc = "finish" /\ UNCHANGED k.runs /\ k'.error = TRUE
    BY <1>2, <1>6, RunSets DEF Goes, AtWork
  <2>2. CASE /\ k'.pc = "log" /\ UNCHANGED k.error
             /\ k'.runs = LoggedBy(Current, {"plots"})
    <3>1. {"plots"} \in SUBSET {"plots", "scalars", "artifacts", "results", "table", "files"}
      OBVIOUS
    <3>2. /\ RunPerBenchmark' /\ BestIsTagged'
          /\ k'.run # 0 /\ k'.runs[k'.run].owner = Current
          /\ k'.runs[k'.run].logged =
               k.runs[k.run].logged \cup {<<w, Current>> : w \in {"plots"}}
          /\ UNCHANGED Current
      BY <2>1, <2>2, <3>1, OwnLogs
    <3>3. k.runs[k.run].logged = {}
      BY <2>1 DEF OwnState, OwnInv, WorkLogged
    <3>4. k'.runs[k'.run].logged = {<<w, Current>> : w \in {"plots"}}
      BY <3>2, <3>3
    <3>5. WorkLogged'
      BY <1>2, <2>1, <2>2, <3>2, <3>4 DEF WorkLogged, OwnerOf, AtWork
    <3> QED
      BY <3>2, <3>5 DEF OwnInv
  <2>3. CASE k'.pc = "finish" /\ UNCHANGED k.runs /\ k'.error = TRUE
    <3>1. {} \in SUBSET {"plots", "scalars", "artifacts", "results", "table", "files"}
      OBVIOUS
    <3>2. /\ RunPerBenchmark' /\ BestIsTagged'
          /\ k'.run # 0 /\ k'.runs[k'.run].owner = Current
          /\ UNCHANGED Current
      BY <2>1, <2>3, <3>1, OwnLogs
    <3>3. WorkLogged'
      BY <2>3, <3>2 DEF WorkLogged, OwnerOf, AtWork
    <3> QED
      BY <3>2, <3>3 DEF OwnInv
  <2> QED
    BY <2>1, <2>2, <2>3
<1>7. CASE LogBenchmark
  <2>1. /\ k.pc = "log" /\ k'.pc = "finish" /\ AtWork /\ AtWork' /\ UNCHANGED TheJob
        /\ UNCHANGED <<k.at, k.run, k.info, k.best>>
        /\ \/ k'.runs = LoggedBy(Current, {"scalars", "artifacts"})
           \/ UNCHANGED k.runs /\ k'.error = TRUE
    <3>1. {"scalars"} \cup (IF ChildTracked THEN {"artifacts"} ELSE {}) = {"scalars", "artifacts"}
      BY OwnFacts
    <3> QED
      BY <1>2, <1>7, <3>1, LogSets DEF Goes, AtWork, TheVerdicts
  <2>2. CASE k'.runs = LoggedBy(Current, {"scalars", "artifacts"})
    <3>1. {"scalars", "artifacts"} \in SUBSET {"plots", "scalars", "artifacts", "results", "table", "files"}
      OBVIOUS
    <3>2. /\ RunPerBenchmark' /\ BestIsTagged'
          /\ k'.run # 0 /\ k'.runs[k'.run].owner = Current
          /\ k'.runs[k'.run].logged =
               k.runs[k.run].logged \cup {<<w, Current>> : w \in {"scalars", "artifacts"}}
          /\ UNCHANGED Current
      BY <2>1, <2>2, <3>1, OwnLogs
    <3>3. k.runs[k.run].logged = {<<w, Current>> : w \in {"plots"}}
      BY <2>1 DEF OwnState, OwnInv, WorkLogged
    <3> DEFINE C == Current
    <3>4. {<<w, C>> : w \in {"plots"}} \cup {<<w, C>> : w \in {"scalars", "artifacts"}} = Everything(C)
      BY DEF Everything
    <3>5. k'.runs[k'.run].logged = Everything(Current)
      BY <3>2, <3>3, <3>4
    <3>6. WorkLogged'
      BY <2>1, <3>2, <3>5 DEF WorkLogged, OwnerOf, AtWork, Everything
    <3> QED
      BY <3>2, <3>6 DEF OwnInv
  <2>3. CASE UNCHANGED k.runs /\ k'.error = TRUE
    <3>1. {} \in SUBSET {"plots", "scalars", "artifacts", "results", "table", "files"}
      OBVIOUS
    <3>2. /\ RunPerBenchmark' /\ BestIsTagged'
          /\ k'.run # 0 /\ k'.runs[k'.run].owner = Current
          /\ UNCHANGED Current
      BY <2>1, <2>3, <3>1, OwnLogs
    <3>3. WorkLogged'
      BY <2>1, <2>3, <3>2 DEF WorkLogged, OwnerOf, AtWork
    <3> QED
      BY <3>2, <3>3 DEF OwnInv
  <2> QED
    BY <2>1, <2>2, <2>3
<1>8. CASE FinishRun
  BY <1>8, OwnFinishes
<1>9. CASE TagBest
  BY <1>9, OwnTags
<1>10. CASE LogSummary
  BY <1>10, OwnSummary
<1>11. CASE LogResults
  BY <1>2, <1>11, ResultsSets
<1>12. CASE ReportSingle
  <2>1. /\ k.pc = "report" /\ k'.pc = "done"
        /\ UNCHANGED TheJob /\ UNCHANGED <<TheRuns, k.at, k.best, k.error>>
    BY <1>2, <1>12, ReportSets DEF Goes, TheVerdicts
  <2> QED
    BY <1>2, <2>1, QuietStep DEF AtWork
<1>13. CASE Unwind
  <2>1. /\ k.pc = "unwind" /\ k'.pc = "failed" /\ ~AtWork
        /\ UNCHANGED TheJob /\ UNCHANGED <<k.runs, k.info, k.at, k.best, k.error>>
        /\ k'.run = k.run
    BY <1>2, <1>13, UnwindSets DEF Goes, TheVerdicts, AtWork
  <2> QED
    BY <1>2, <2>1, QuietStep DEF AtWork, TheRuns
<1> QED
  BY <1>1, <1>3, <1>4, <1>5, <1>6, <1>7, <1>8, <1>9, <1>10, <1>11, <1>12, <1>13 DEF Next

-----------------------------------------------------------------------------
(* A microbenchmark of nothing, and the invariant.                         *)

LEMMA NoneInductive ==
    JobTyped /\ RunOfNone /\ [Next]_k => RunOfNone'
<1> SUFFICES ASSUME JobTyped, RunOfNone, [Next]_k,
                    k'.job.kind = "microbench", k'.tracked, ~k'.foreign, Count' = 0
             PROVE  /\ k'.pc = "begin" => k'.runs = <<>> /\ k'.run = 0
                    /\ k'.pc = "report" => k'.runs = <<NewRun(0)>> /\ k'.run = 1
                    /\ k'.pc = "done" => \E r \in DOMAIN k'.runs :
                         k'.runs[r] = [NewRun(0) EXCEPT !.logged = {<<"results", 0>>}]
  BY DEF RunOfNone, NewRun
<1> DEFINE None == /\ k.job.kind = "microbench" /\ k.tracked /\ ~k.foreign
                   /\ Count = 0
<1>1. CASE UNCHANGED k
  BY <1>1 DEF RunOfNone, Count
<1>2. JobTyped'
  BY JobInductive
<1>3. /\ None => /\ k.at = 1
                 /\ k.pc \in {"begin", "report", "done", "failed"}
                 /\ k.pc = "begin" => k.runs = <<>> /\ k.run = 0
                 /\ k.pc = "report" => k.runs = <<NewRun(0)>> /\ k.run = 1
  BY DEF JobTyped, RunOfNone
<1>4. UNCHANGED TheJob => None
  BY SameJob DEF TheJob
<1> HIDE DEF None
<1>5. CASE Begin
  <2>1. /\ UNCHANGED TheJob /\ k.pc = "begin"
        /\ k'.pc = IF Count = 0 THEN "report" ELSE "directory"
        /\ Starts(0, k.tracked /\ k.job.kind = "microbench")
    BY <1>5, BeginSets DEF Goes
  <2>2. k.runs = <<>> /\ k.run = 0 /\ k'.pc = "report"
    BY <1>3, <1>4, <2>1 DEF None
  <2>3. /\ k'.runs = Append(k.runs, NewRun(0))
        /\ k'.run = Len(k.runs) + 1
    BY <1>4, <2>1, <2>2 DEF Starts, None
  <2>4. Len(<<>>) = 0 /\ 0 + 1 = 1
    OBVIOUS
  <2>5. Append(<<>>, NewRun(0)) = <<NewRun(0)>>
    <3> DEFINE new == NewRun(0)
    <3> HIDE DEF new
    <3>1. Append(<<>>, new) = <<new>>
      OBVIOUS
    <3> QED
      BY <3>1 DEF new
  <2> QED
    BY <2>2, <2>3, <2>4, <2>5
<1>6. CASE LogResults
  <2>1. /\ UNCHANGED TheJob /\ k.pc = "report" /\ k'.pc = "done"
        /\ k.tracked => k'.runs = LoggedBy(0, {"results"})
    BY <1>6, ResultsSets DEF Goes
  <2>2. k.runs = <<NewRun(0)>> /\ k.run = 1 /\ k.tracked
    BY <1>3, <1>4, <2>1 DEF None
  <2>3. LoggedBy(0, {"results"}) =
          [k.runs EXCEPT ![1].logged = @ \cup {<<w, 0>> : w \in {"results"}}]
    BY <2>2 DEF LoggedBy
  <2> DEFINE new == NewRun(0)
             add == {<<w, 0>> : w \in {"results"}}
             ended == [new EXCEPT !.logged = @ \cup add]
  <2>4. add = {<<"results", 0>>}
    OBVIOUS
  <2>5. ended = [new EXCEPT !.logged = {<<"results", 0>>}]
    BY <2>4 DEF NewRun
  <2>6. k'.runs = [k.runs EXCEPT ![1] = ended]
    BY <2>1, <2>2, <2>3
  <2> HIDE DEF new, ended
  <2>7. k.runs = <<new>>
    BY <2>2 DEF new
  <2>8. 1 \in DOMAIN k'.runs /\ k'.runs[1] = ended
    BY <2>6, <2>7
  <2> QED
    BY <2>1, <2>5, <2>8 DEF new
<1>7. CASE WriteSweepSummary \/ TagBest \/ LogSummary \/ ReportSingle
  <2>1. None
    BY <1>4, <1>7, SummarySets, TagSets, LogSummarySets, ReportSets DEF Goes
  <2>2. CASE WriteSweepSummary
    BY <2>1, <2>2 DEF WriteSweepSummary, None
  <2>3. CASE TagBest \/ LogSummary \/ ReportSingle
    BY <2>1, <2>3, TagSets, LogSummarySets, ReportSets DEF None
  <2> QED
    BY <1>7, <2>2, <2>3
<1>8. CASE Tick \/ InitOutputDir \/ InitRun \/ RunBenchmark
             \/ LogBenchmark \/ FinishRun \/ Unwind
  <2>1. UNCHANGED TheJob
    BY <1>8, TickSets, DirectorySets, InitRunSets, RunSets, LogSets, FinishSets, UnwindSets DEF Goes
  <2>2. k.pc \in {"directory", "init", "run", "log", "finish", "unwind"}
    BY <1>8 DEF Tick, InitOutputDir, InitRun, RunBenchmark,
       LogBenchmark, FinishRun, Unwind
  <2> QED
    BY <1>3, <1>4, <2>1, <2>2
<1> QED
  BY <1>1, <1>5, <1>6, <1>7, <1>8 DEF Next

LEMMA TrackingInitially == TrackingAssumption /\ Init => TrackingInv
<1> SUFFICES ASSUME TrackingAssumption, Init PROVE TrackingInv
  OBVIOUS
<1>1. JobTyped /\ RunsTyped
  BY JobInitially, RunsInitially
<1>2. /\ k.run = IF k.foreign THEN 1 ELSE 0
      /\ k.runs = IF k.foreign THEN <<NewRun(Foreign)>> ELSE <<>>
      /\ k.info = [i \in Benchmarks |-> 0]
      /\ k.dirs = [i \in Benchmarks |-> <<>>]
      /\ k.pc = "begin" /\ k.at = 1 /\ k.rows = <<>> /\ k.best = 0
      /\ k.error = FALSE
  BY DEF Init, Benchmarks, Count, Foreign
<1>3. /\ Count \in Nat
      /\ \A j \in Benchmarks : j \in Nat /\ j >= 1
  BY <1>1 DEF JobTyped, Benchmarks
<1>4. DirsNamed
  BY <1>2, <1>3 DEF DirsNamed, Named, AtWork
<1>5. RowsFollow
  BY <1>2 DEF RowsFollow
<1>6. ActiveRun
  <2>1. CASE k.foreign
    <3> DEFINE new == NewRun(Foreign)
    <3>1. new.owner = Foreign
      BY DEF NewRun
    <3> HIDE DEF new
    <3>2. k.runs = <<new>> /\ k.run = 1
      BY <1>2, <2>1 DEF new
    <3>3. k.runs[k.run] = new
      BY <3>2
    <3> QED
      BY <3>1, <3>3 DEF ActiveRun, OwnerOf
  <2>2. CASE ~k.foreign
    BY <1>2, <2>2 DEF ActiveRun
  <2> QED
    BY <2>1, <2>2
<1>7. RunOfNone
  BY <1>2 DEF RunOfNone
<1>8. ASSUME OwnRuns PROVE RunPerBenchmark /\ WorkLogged /\ BestIsTagged
  <2>1. k.runs = <<>> /\ k.run = 0
    BY <1>2, <1>8 DEF OwnRuns
  <2>2. DOMAIN k.runs = {}
    BY <2>1
  <2>3. \A j \in Benchmarks : ~(j < k.at) /\ k.order[j] \in Benchmarks
    BY <1>1, <1>2, <1>3, Turns
  <2>4. RunPerBenchmark
    BY <1>2, <2>2, <2>3 DEF RunPerBenchmark, RunsBelong, RunsHoldAll
  <2>5. WorkLogged
    BY <1>2, <2>1 DEF WorkLogged, AtWork
  <2>6. BestIsTagged
    BY <2>2 DEF BestIsTagged
  <2> QED
    BY <2>4, <2>5, <2>6
<1> QED
  BY <1>1, <1>4, <1>5, <1>6, <1>7, <1>8 DEF TrackingInv

LEMMA TrackingInductive == TrackingInv /\ [Next]_k => TrackingInv'
<1> SUFFICES ASSUME TrackingInv, [Next]_k PROVE TrackingInv'
  OBVIOUS
<1>1. JobTyped' /\ RunsTyped' /\ DirsNamed' /\ RowsFollow' /\ ActiveRun' /\ RunOfNone'
  BY JobInductive, RunsInductive, DirsInductive, RowsInductive, ActiveInductive, NoneInductive
  DEF TrackingInv
<1>2. OwnRuns' => OwnRuns
  <2>1. UNCHANGED k \/ UNCHANGED TheJob
    BY BeginSets, TickSets, DirectorySets, InitRunSets, RunSets, LogSets, FinishSets, SummarySets, TagSets,
       LogSummarySets, ResultsSets, ReportSets, UnwindSets DEF TrackingInv, Goes, Next
  <2> QED
    BY <2>1, SameJob, SMTT(40) DEF OwnRuns
<1>3. ASSUME OwnRuns' PROVE OwnInv'
  BY <1>2, <1>3, OwnInductive DEF TrackingInv, OwnState, OwnInv
<1> QED
  BY <1>1, <1>3 DEF TrackingInv, OwnInv

\* The windows of a length and a batch are those of the last run that has some.
LEMMA WindowsKept ==
    ASSUME JobTyped, NEW i \in Benchmarks, HasWindow(i)
    PROVE  LET key == <<LengthOf(i), BatchOf(i)>>
           IN  key \in DOMAIN Windows /\ Windows[key] >= i
<1> DEFINE Key(j) == <<LengthOf(j), BatchOf(j)>>
           B == Benchmarks
           Alike(j) == HasWindow(j) /\ Key(j) = Key(i)
           Latest(c) == Alike(c) /\ \A j \in c + 1 .. Count : ~Alike(j)
           S == {j \in B : Alike(j)}
           keys == {Key(j) : j \in {x \in B : HasWindow(x)}}
           last == CHOOSE c \in B : Latest(c)
<1>1. Count \in Nat /\ B = 1 .. Count
  BY DEF JobTyped, Benchmarks
<1>2. S \in SUBSET (1 .. Count) /\ i \in S
  BY <1>1
<1>3. PICK m \in S : \A j \in S : j <= m
  <2> HIDE DEF S
  <2> QED
    BY <1>1, <1>2, GreatestMember
<1>4. \A j \in m + 1 .. Count : ~Alike(j)
  <2> TAKE j \in m + 1 .. Count
  <2>1. j \in B /\ ~(j <= m)
    BY <1>1, <1>2
  <2> QED
    BY <1>3, <2>1
<1>5. last \in B /\ Latest(last)
  <2>1. m \in B /\ Latest(m)
    BY <1>3, <1>4
  <2> HIDE DEF Latest, B
  <2> QED
    BY <2>1
<1>6. last >= i
  <2>1. Alike(i) /\ i \in 1 .. Count /\ last \in 1 .. Count
    BY <1>1, <1>5
  <2>2. ~(i \in last + 1 .. Count)
    BY <1>5, <2>1
  <2> HIDE DEF last, Alike
  <2> QED
    BY <1>1, <2>1, <2>2
<1>7. Key(i) \in keys
  OBVIOUS
<1>8. Windows = [key \in keys |-> CHOOSE c \in B :
            /\ HasWindow(c) /\ Key(c) = key
            /\ \A j \in c + 1 .. Count : ~(HasWindow(j) /\ Key(j) = key)]
  BY DEF Windows
<1>9. Windows[Key(i)] = last
  BY <1>7, <1>8
<1>10. DOMAIN Windows = keys
  BY <1>8
<1> HIDE DEF last, keys
<1> QED
  BY <1>6, <1>7, <1>9, <1>10

LEMMA TrackingIsSoundThen == TrackingInv => TrackingIsSound
<1> SUFFICES ASSUME TrackingInv PROVE TrackingIsSound
  OBVIOUS
<1> DEFINE B == Benchmarks
<1>1. /\ JobTyped /\ RunsTyped /\ DirsNamed /\ RowsFollow /\ ActiveRun /\ RunOfNone
      /\ OwnRuns => RunPerBenchmark /\ WorkLogged /\ BestIsTagged
  BY DEF TrackingInv
<1>2. RunsAreOwn
  <2> SUFFICES ASSUME OwnRuns PROVE RunsAreOwn
    BY DEF RunsAreOwn
  <2>1. OwnState
    BY <1>1 DEF OwnState, OwnInv
  <2>2. k.pc = "done" => \A i \in B :
          /\ k.info[i] # 0
          /\ k.runs[k.info[i]].logged = {"plots", "scalars", "artifacts"} \X {i}
    <3> SUFFICES ASSUME k.pc = "done", NEW i \in B
                 PROVE  /\ k.info[i] # 0
                        /\ k.runs[k.info[i]].logged = Everything(i)
      BY DEF Everything
    <3>1. PICK j \in B : k.order[j] = i
      BY <1>1, Turns
    <3>2. j < k.at
      BY <1>1 DEF JobTyped, Benchmarks
    <3> QED
      BY <2>1, <3>1, <3>2, RunsKnown
  <2> QED
    BY <1>1, <2>2 DEF RunsAreOwn, RunPerBenchmark, RunsBelong, RunsHoldAll, OwnerOf
<1>3. ResultsAreLogged
  BY <1>1 DEF RunOfNone, ResultsAreLogged
<1>4. NothingLeftActive
  BY <1>1 DEF ActiveRun, RunsTyped, AtWork, OwnerOf, NothingLeftActive
<1>5. BestIsTagged
  BY <1>1 DEF BestIsTagged
<1>6. DirsAndRowsMatch
  <2>1. \A i, j \in B : i # j /\ k.dirs[i] # <<>> => k.dirs[i] # k.dirs[j]
    BY <1>1 DEF DirsNamed
  <2>2. CASE k.rows = <<>>
    <3>1. DOMAIN k.rows = {}
      BY <2>2
    <3> QED
      BY <2>1, <2>2, <3>1 DEF DirsAndRowsMatch
  <2>3. CASE k.rows # <<>>
    <3>1. /\ k.rows = [i \in B |-> Row(i)]
          /\ k.windows = Windows /\ k.at = Count + 1
      BY <1>1, <2>3 DEF RowsFollow, Rows
    <3>2. /\ DOMAIN k.rows = B
          /\ \A i \in B : /\ k.rows[i].dir = k.dirs[i]
                          /\ k.rows[i].length = LengthOf(i)
                          /\ k.rows[i].batch = BatchOf(i)
      BY <3>1 DEF Row
    <3>3. \A i \in B : k.dirs[i][2] = k.job.configs[i]
      <4> TAKE i \in B
      <4>1. PICK j \in B : k.order[j] = i
        BY <1>1, Turns
      <4>2. Named(j)
        BY <1>1, <3>1 DEF JobTyped, Benchmarks, Named
      <4> QED
        BY <1>1, <4>1, <4>2 DEF DirsNamed
    <3>4. ASSUME NEW i \in k.windowed, k.rows[i].length # 0
          PROVE  \E key \in DOMAIN k.windows :
                   /\ k.windows[key] >= i
                   /\ key = <<k.rows[i].length, k.rows[i].batch>>
      <4>1. i \in B
        BY <1>1 DEF JobTyped
      <4>2. HasWindow(i)
        BY <3>2, <3>4, <4>1 DEF HasWindow
      <4> DEFINE key == <<LengthOf(i), BatchOf(i)>>
      <4>3. key \in DOMAIN Windows /\ Windows[key] >= i
        BY <1>1, <4>1, <4>2, WindowsKept
      <4>4. key = <<k.rows[i].length, k.rows[i].batch>>
        BY <3>2, <4>1
      <4> HIDE DEF key
      <4> QED
        BY <3>1, <4>3, <4>4
    <3> HIDE DEF B
    <3> QED
      BY <2>1, <3>2, <3>3, <3>4 DEF DirsAndRowsMatch, B
  <2> QED
    BY <2>2, <2>3
<1> QED
  BY <1>2, <1>3, <1>4, <1>5, <1>6 DEF TrackingIsSound

-----------------------------------------------------------------------------
\* For any jobs, whatever the order of their benchmarks and wherever one of them
\* fails: no run of the tracker holds what another benchmark logged, every
\* finished benchmark has one run with all of its results, only the best run of a
\* search has the tag, the job leaves no run of its own active, no two benchmarks
\* share a directory, and the rows of the summary are those of their
\* configurations (wandb_integration.py, benchmark_utils.py, sweep_summary.py).
THEOREM TrackingSound == ASSUME TrackingAssumption PROVE Spec => []TrackingIsSound
<1>1. Init => TrackingInv
  BY TrackingInitially
<1>2. TrackingInv /\ [Next]_k => TrackingInv'
  BY TrackingInductive
<1>3. TrackingInv => TrackingIsSound
  BY TrackingIsSoundThen
<1> QED
  BY <1>1, <1>2, <1>3, PTL DEF Spec
=============================================================================
