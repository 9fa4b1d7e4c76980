------------------------ MODULE WorkloadsAndMeasures ------------------------
(***************************************************************************)
(* The parts that prepare a run's workload, search over runs, and measure  *)
(* and judge their results: sequential algorithms, each with a state of    *)
(* its own, checked one after the other in one run.  `part` says which of  *)
(* them a behaviour is of; the variables of the others stay where they are. *)
(***************************************************************************)
EXTENDS Integers, FiniteSets, Sequences, TLC

CONSTANTS
    Frac, StartValue, MaxValue, GrowNum, GrowDen, MaxIterations, IntegerDomain,
                                                         \* of CapacitySearch
    Session, Request, SessionOf, Result,                 \* of SessionAccounting
    Points, Resumable, MaxProbes, FillPoints, Threshold, \* of the sweep in MicroBenchmarks
    Jobs, MaxSeconds,                                    \* of TrackingRuns
    WordFiles, MaxBuilds                                 \* of TraceFiles

VARIABLES
    part,
    start, ceiling, capacity, noisy, phase, probe, lastPassing, lo, hi, best, iters, tried,
              \* of CapacitySearch
    registered, numErrored, numCompleted, open, observed, erroredIn,
    seen, successful, errored, incomplete, stage, toClose, outcome,
              \* of SessionAccounting (stage for its phase)
    stress,   \* w of MicroBenchmarks
    bench,    \* b of MicroBenchmarks
    health,   \* h of HealthChecks
    graph,    \* g of GraphGenerators
    replay,   \* t of TraceReplay
    prompts,  \* p of PromptSources
    tracking, \* k of TrackingRuns
    playback, \* u of AudioMetrics
    records,  \* a of AudioMetrics
    words,    \* v of AudioMetrics
    verdicts, \* s of SloVerdicts
    longform, \* l of SpeechVerification
    traces,   \* c of AudioTraces
    verified, \* r of SpeechVerification
    files     \* f of TraceFiles

searchVars  == <<start, ceiling, capacity, noisy, phase, probe, lastPassing, lo, hi, best,
                 iters, tried>>
accountVars == <<registered, numErrored, numCompleted, open, observed, erroredIn, seen,
                 successful, errored, incomplete, stage, toClose, outcome>>
allVars == <<part, searchVars, accountVars, stress, bench, health, graph, replay, prompts, tracking, playback, records, words, verdicts, longform, traces, verified, files>>

-----------------------------------------------------------------------------
(* The instances.                                                          *)

Search   == INSTANCE CapacitySearch
Accounts == INSTANCE SessionAccounting WITH phase <- stage
Tracking == INSTANCE TrackingRuns WITH k <- tracking
Files    == INSTANCE TraceFiles WITH f <- files

ASSUME SearchAssumption == Search!SearchAssumption
ASSUME AccountingAssumption == Accounts!AccountingAssumption
ASSUME TrackingAssumption == Tracking!TrackingAssumption

\* The others with their constants.
Bench == INSTANCE MicroBenchmarks WITH b <- bench, w <- stress, Multiplier <- 2,
           DecodeBenches <- [batch : 1 .. 3, input : {1, 4, 5}, samples : 1 .. 2, chunk : {4}],
           PrefillBenches <- {[lengths |-> <<3, 7>>, samples |-> 2],
                              [lengths |-> <<3, 7, 5>>, samples |-> 1]}

Health == INSTANCE HealthChecks WITH h <- health, Sizes <- <<2, 1, 2>>, Target <- 2, Rampup <- 2,
            Interval <- 2, WaitAfterReady <- 1, Delay <- 2, LateThreshold <- 2,
            Setups <- {<<"closed", TRUE, TRUE>>, <<"open", TRUE, TRUE>>, <<"closed", FALSE, FALSE>>},
            MaxTime <- 5, MaxReruns <- 2

\* Traces of three rows with every parent list of up to two (some wrong), of two
\* rows one of which may lack its context, and of turns in any order.
ParentLists == {<<>>, <<1>>, <<2>>, <<3>>, <<1, 2>>, <<1, 3>>, <<2, 3>>, <<1, 1>>}
TraceRows(n) == {[node |-> n, parents |-> ps, history |-> hp] : ps \in ParentLists, hp \in {-1, 1, 2}}
RowTraces == {<<x, y, z>> : x \in TraceRows(1), y \in TraceRows(2), z \in TraceRows(3)}
             \cup {<<x, y>> : x \in TraceRows(2), y \in TraceRows(1) \cup TraceRows(2) \cup {[turn |-> 1]}}
             \cup [1 .. 3 -> {[turn |-> i] : i \in 0 .. 2}]
Graphs == INSTANCE GraphGenerators WITH g <- graph, FanOuts <- {0, 2}, Dists <- 0 .. 2,
            FanIns <- 0 .. 3, LinearLengths <- 1 .. 3, Traces <- RowTraces,
            LayerWidths <- {<<1>>, <<1, 2>>, <<2, 2>>, <<1, 2, 1>>, <<2, 1, 2>>, <<1, 2, 2>>}

\* Three groups that share a first block, two of them a document; the last one
\* cannot be prepared.
Replay == INSTANCE TraceReplay WITH t <- replay, Groups <- <<"a", "b", "c">>,
            RequestsOf <- "a" :> 1 @@ "b" :> 2 @@ "c" :> 1,
            HashIds <- "a" :> <<1, 2>> @@ "b" :> <<1, 3>> @@ "c" :> <<1, 2, 4>>,
            DocOf <- "a" :> "d" @@ "b" :> "e" @@ "c" :> "e",
            TopDocuments <- 2, Unusable <- {"c"}, TaskDocs <- <<3, 2, 3>>, MaxSessions <- 4,
            MaxOut <- 8

\* Bodies whose shared part grows, shrinks and grows again; a corpus without a
\* token, and lines of several lengths, one of them empty.
PromptSrc == INSTANCE PromptSources WITH p <- prompts, BodyLengths <- {2, 4, 6}, RatioNum <- 1,
               RatioDen <- 2, Slack <- 1, SuffixTokens <- 2, MaxPrompts <- 3,
               Corpora <- {<<>>, <<0>>, <<2, 0, 1>>, <<1, 3, 2>>}, Samples <- {0, 3, 8},
               MaxMessages <- 5, TextLengths <- {1, 2, 3, 5}, MinLength <- 2, MaxLength <- 4

\* Three messages of audio, with stalls of several deadlines in between;
\* transcriptions, one that cannot be scored, and speech that succeeds, is
\* aborted, or fails with or without audio; a repeated word, and transcripts that
\* repeat, revise, and say nothing.
Item(kind, task) == [kind |-> kind, task |-> task]
Says(raw, seq) == [raw |-> raw, words |-> seq]
Audio == INSTANCE AudioMetrics WITH u <- playback, a <- records, v <- words,
    MaxTime <- 7, MaxChunks <- 3, Lengths <- {1, 3}, Frame <- 2, Delays <- {0, 1},
    Targets <- {0, 4}, MinStall <- 1, Oversupplied <- FALSE,
    Workers <- {"w1", "w2"}, Traffic <-
      {<<Item("ok", "stt"), Item("aborted", "tts"), Item("broken", "stt"), Item("ok", "stt")>>,
       <<Item("bare", "tts"), Item("partial", "tts"), Item("ok", "tts"), Item("error", "stt")>>},
    Times <- {0, 1, 2, 4}, MaxSnapshots <- 3,
    Words <- <<[word |-> "x", start |-> 0, end |-> 1], [word |-> "y", start |-> 1, end |-> 2],
               [word |-> "x", start |-> 2, end |-> 3]>>,
    Transcripts <- {Says("", <<>>), Says("-", <<>>), Says("x", <<"x">>), Says("X", <<"x">>),
                    Says("y x", <<"y", "x">>), Says("x x y", <<"x", "x", "y">>),
                    Says("x y x", <<"x", "y", "x">>)}

\* Latencies, gaps and an index that is not always there, of which more is better.
Objective(metric, q, threshold) == [metric |-> metric, q |-> q, threshold |-> threshold]
Verdicts == INSTANCE SloVerdicts WITH s <- verdicts, QDen <- 100, MaxRows <- 3,
    HigherIsBetter <- {"fluidity"},
    Rows <- {("end_to_end_latency" :> <<x>>) @@ ("tbc" :> y) @@ ("fluidity" :> <<z>>) :
               x \in {1, 5}, y \in {<<>>, <<2>>, <<1, 9>>}, z \in {0, 4, -1}},
    SloSets <- {<<>>, <<Objective("e2e", 99, 3), Objective("e2e", 50, 3), Objective("tbc", 90, 2)>>,
                <<Objective("fluidity", 50, 2), Objective("fluidity", 10, 2),
                  Objective("tbc", 0, 4), Objective("tbc", 100, 8)>>}

\* Rows of text, one of them without any; speakers with overlong words, long
\* silences and a recording that ends early; builds with and without limits.
Build(keys, limit, max, target, timed) ==
    [keys |-> keys, limit |-> limit, max |-> max, target |-> target, timed |-> timed]
Spoken(word, from, to) == [word |-> word, start |-> from, end |-> to]
Text(id, len, seq) == [id |-> id, len |-> len, words |-> seq]
Speaker == [id |-> 7, len |-> 12, times |-> <<Spoken("x", 1, 3), Spoken("y", 3, 6),
                                              Spoken("z", 11, 14), Spoken("w", 15, 24)>>]
AudioTrc == INSTANCE AudioTraces WITH c <- traces, Meetings <- "ami", Collected <- "e22",
    MinTicks <- 3, DefaultMax <- 10, MaxGap <- 4, Pauses <- {0, 1},
    Targets <- LAMBDA target : {target - 5, target, target + 4},
    Builds <- {Build(<<"aa">>, 1, 10, 0, FALSE), Build(<<"aa", "e22">>, 2, 8, 0, TRUE),
               Build(<<"e22">>, 0, 8, 0, TRUE), Build(<<"aa", "e22">>, 0, 0, 7, TRUE),
               Build(<<"ami">>, 0, 10, 0, TRUE), Build(<<"ami">>, 2, 6, 0, TRUE),
               Build(<<"ami">>, 0, 0, 9, TRUE), Build(<<"aa">>, 0, 5, 0, TRUE)},
    Sources <- [
      aa  |-> {<<Text(1, 3, <<"x", "y">>), Text(2, 6, <<"x", "y", "z">>), Text(3, 4, <<>>)>>},
      e22 |-> {<<Text(4, 9, <<"x", "y", "z", "w">>), Text(5, 1, <<"x">>), Text(6, 2, <<"z">>)>>},
      ami |-> {<<Speaker>>,
               <<[id |-> 8, len |-> 4, times |-> <<Spoken("x", 0, 3), Spoken("y", 4, 11)>>], Speaker>>}]

\* No file, an empty one; rows without an id, a text, an audio file, or a word.
\* A recording with a short last chunk, with silent chunks anywhere; a track that
\* has no model, no score or no window.
Metric(id, text, audio) == [id |-> id, text |-> text, audio |-> audio]
Scoring(samples, tracks) == [samples |-> samples, tracks |-> tracks]
Speech == INSTANCE SpeechVerification WITH r <- verified, l <- longform,
    AllowedNum <- 1, AllowedDen <- 3,
    Transcripts <- {<<>>, <<"x">>, <<"y", "z">>, <<"x", "z", "y">>},
    Configs <- [wer : BOOLEAN, utmos : BOOLEAN, strict : BOOLEAN, max : {0, 2}],
    Metrics <- {<<>>, << <<>> >>,
      << <<Metric(1, <<<<"x", "y", "z">>>>, TRUE), Metric(0, <<>>, FALSE), Metric(2, <<<<>>>>, TRUE)>> >>,
      << <<Metric(1, <<<<"x", "y", "z">>>>, TRUE), Metric(2, <<>>, TRUE),
           Metric(3, <<<<"x", "x">>>>, FALSE)>> >>},
    Unit <- 60, ChunkLen <- 2, ScoreLen <- 2, ScoreTail <- 2, WindowLen <- 3, BinLen <- 4,
    BucketLen <- 3, Heard <- {<<>>, <<"a">>, <<"a", "a", "a">>}, NGram <- 2, MaxOps <- 3,
    Scores <- {0, 2, 5}, Cosines <- {0, 1},
    Sounds <- {[power |-> 0, silent |-> 2], [power |-> 3, silent |-> 1]},
    Jobs <- {Scoring(5, {"wer"}), Scoring(7, {"utmos"}), Scoring(1, {"wer", "sim"}),
             Scoring(7, {"sim"}), Scoring(4, {})}

-----------------------------------------------------------------------------
Resting == [pc |-> "resting"]
SearchRests ==
    /\ start = 0 /\ ceiling = 0 /\ capacity = 0 /\ noisy = FALSE /\ phase = "resting" /\ probe = 0
    /\ lastPassing = 0 /\ lo = 0 /\ hi = 0 /\ best = 0 /\ iters = 0 /\ tried = <<>>
AccountsRest ==
    /\ registered = {} /\ numErrored = 0 /\ numCompleted = 0 /\ open = {} /\ observed = <<>>
    /\ erroredIn = <<>> /\ seen = 0 /\ successful = 0 /\ errored = 0 /\ incomplete = 0
    /\ stage = "resting" /\ toClose = {} /\ outcome = <<>>

PartsInit ==
    /\ part \in {"search", "accounts", "stress", "bench", "health", "graph", "replay",
                "prompts", "tracking", "playback", "records", "words", "verdicts", "longform", "audio", "verify", "files"}
    /\ IF part = "search" THEN Search!Init ELSE SearchRests
    /\ IF part = "accounts" THEN Accounts!Init ELSE AccountsRest
    /\ IF part = "stress" THEN Bench!SweepInit ELSE stress = Resting
    /\ IF part = "bench" THEN Bench!BenchInit ELSE bench = Resting
    /\ IF part = "health" THEN Health!Init ELSE health = Resting
    /\ IF part = "graph" THEN Graphs!Init ELSE graph = Resting
    /\ IF part = "replay" THEN Replay!Init ELSE replay = Resting
    /\ IF part = "prompts" THEN PromptSrc!Init ELSE prompts = Resting
    /\ IF part = "tracking" THEN Tracking!Init ELSE tracking = Resting
    /\ IF part = "playback" THEN Audio!PlaybackInit ELSE playback = Resting
    /\ IF part = "records" THEN Audio!RecordsInit ELSE records = Resting
    /\ IF part = "words" THEN Audio!VisibleInit ELSE words = Resting
    /\ IF part = "verdicts" THEN Verdicts!Init ELSE verdicts = Resting
    /\ IF part = "longform" THEN Speech!ScoringInit ELSE longform = Resting
    /\ IF part = "audio" THEN AudioTrc!Init ELSE traces = Resting
    /\ IF part = "verify" THEN Speech!VerifyInit ELSE verified = Resting
    /\ IF part = "files" THEN Files!Init ELSE files = Resting

OthersRest ==
    /\ UNCHANGED part
    /\ IF part = "search" THEN TRUE ELSE UNCHANGED searchVars
    /\ IF part = "accounts" THEN TRUE ELSE UNCHANGED accountVars
    /\ IF part = "stress" THEN TRUE ELSE UNCHANGED stress
    /\ IF part = "bench" THEN TRUE ELSE UNCHANGED bench
    /\ IF part = "health" THEN TRUE ELSE UNCHANGED health
    /\ IF part = "graph" THEN TRUE ELSE UNCHANGED graph
    /\ IF part = "replay" THEN TRUE ELSE UNCHANGED replay
    /\ IF part = "prompts" THEN TRUE ELSE UNCHANGED prompts
    /\ IF part = "tracking" THEN TRUE ELSE UNCHANGED tracking
    /\ IF part = "playback" THEN TRUE ELSE UNCHANGED playback
    /\ IF part = "records" THEN TRUE ELSE UNCHANGED records
    /\ IF part = "words" THEN TRUE ELSE UNCHANGED words
    /\ IF part = "verdicts" THEN TRUE ELSE UNCHANGED verdicts
    /\ IF part = "longform" THEN TRUE ELSE UNCHANGED longform
    /\ IF part = "audio" THEN TRUE ELSE UNCHANGED traces
    /\ IF part = "verify" THEN TRUE ELSE UNCHANGED verified
    /\ IF part = "files" THEN TRUE ELSE UNCHANGED files

PartsNext ==
    \/ part = "search"   /\ Search!Next   /\ OthersRest
    \/ part = "accounts" /\ Accounts!Next /\ OthersRest
    \/ part = "stress"   /\ Bench!SweepNext /\ OthersRest
    \/ part = "bench"    /\ Bench!BenchNext /\ OthersRest
    \/ part = "health"   /\ Health!Next   /\ OthersRest
    \/ part = "graph"    /\ Graphs!Next   /\ OthersRest
    \/ part = "replay"   /\ Replay!Next   /\ OthersRest
    \/ part = "prompts"  /\ PromptSrc!Next /\ OthersRest
    \/ part = "tracking" /\ Tracking!Next /\ OthersRest
    \/ part = "playback" /\ Audio!PlaybackNext /\ OthersRest
    \/ part = "records" /\ Audio!RecordsNext /\ OthersRest
    \/ part = "words" /\ Audio!VisibleNext /\ OthersRest
    \/ part = "verdicts" /\ Verdicts!Next /\ OthersRest
    \/ part = "longform" /\ Speech!ScoringNext /\ OthersRest
    \/ part = "audio" /\ AudioTrc!Next /\ OthersRest
    \/ part = "verify" /\ Speech!VerifyNext /\ OthersRest
    \/ part = "files" /\ Files!Next /\ OthersRest

PartsSpec == PartsInit /\ [][PartsNext]_allVars

-----------------------------------------------------------------------------
\* A capacity search returns the greatest value that passed, and without its
\* warning the true maximum, and probes no value twice (capacity_search.py).
SearchFindsMaximum ==
    part = "search" => Search!UnwarnedIsMaximum /\ Search!BestIsGreatestPassed /\ Search!ProbesGrow

\* What the help text of max_value says of every value that is tried; a ceiling
\* off the grid may be rounded up (capacity_search.py).
CeilingIsKept == part = "search" => Search!CeilingIsKept

\* The session counters are those of the history at every moment of a run, and
\* in its report (evaluator/performance/base.py).
CountsAreExact == part = "accounts" => Accounts!SessionCountsExact /\ Accounts!FinalCountsExact

\* A microbenchmark on a sound engine measures what it says, and a stress sweep
\* covers the range it announces and wastes no run (microbench/); so it is with
\* the metrics of audio (evaluator/performance/) and the scoring of long
\* recordings (verification/longform.py).
MeasuresAreSound ==
    /\ part = "bench" => Bench!MicrobenchIsSound
    /\ part = "stress" => Bench!SweepKnowsItsRange
    /\ part = "playback" => Audio!PlaybackIsSound
    /\ part = "records" => Audio!AudioRecordsAgree
    /\ part = "words" => Audio!WordsAreSeen
    /\ part = "longform" => Speech!WordsKeepTheirPlace

\* A healthy run passes its health checks, also when they are repeated
\* (health.py); an objective is met or missed as its samples say (slo/), and the
\* audio of a run is verified or found bad (verification/audio.py).
VerdictsAreRight ==
    /\ part = "health" => Health!HealthyRunsPass
    /\ part = "verdicts" => Verdicts!SlosAreJudgedRight
    /\ part = "verify" => Speech!VerificationIsRight

\* Generated and read session graphs are what the schedulers assume
\* (generator/session_graph, generator/session/trace).
GraphsAreSound == part = "graph" => Graphs!GraphsAreSound /\ Graphs!TracesAreOrdered

\* A trace is replayed as written, epoch after epoch, and prompts are made,
\* sampled and cut as their configuration says, whatever order they are asked
\* for in (generator/session/trace, generator/channel/text.py); the words of a
\* trace of audio are heard in it, and one that passes for sound is one build's
\* (scripts/prepare_audio_traces.py, scripts/audio_trace_hub.py).
WorkloadsAreExact ==
    /\ part = "replay" => Replay!ReplayIsExact
    /\ part = "prompts" => PromptSrc!PromptsAreSound
    /\ part = "audio" => AudioTrc!TracesAreHeard
    /\ part = "files" => Files!FilesAreWhole

\* Each benchmark of a job has a directory, a tracked run and a row of the
\* summary of its own, whatever fails (wandb_integration.py, sweep_summary.py).
TrackingIsSound == part = "tracking" => Tracking!TrackingIsSound

-----------------------------------------------------------------------------
(* The constants of the run.                                               *)

\* Start values and ceilings on the grid and off it, of the ceilings one that
\* is rounded up and one that is rounded down.
MCStartValue == 1 .. 6
MCMaxValue   == {2 * n : n \in 3 .. 20} \cup {9, 11}

MCSessionOf == [r \in Request |-> IF r \in {"e", "f"} THEN "s2" ELSE "s1"]
MCPoints    == {<<0, 9>>, <<10, 10>>, <<20, 5>>}

\* A benchmark; sweeps of equal and of different configurations; a search; and
\* microbenchmarks with and without a run to make.
Config(length, users, varied) == [length |-> length, users |-> users, varied |-> varied]
Job(kind, configs) == [kind |-> kind, configs |-> configs]
MCJobs == {
    Job("benchmark", <<Config(1, 1, FALSE)>>),
    Job("sweep", <<Config(1, 1, FALSE), Config(1, 1, FALSE)>>),
    Job("sweep", <<Config(1, 1, FALSE), Config(1, 2, FALSE), Config(2, 2, TRUE)>>),
    Job("capacity", <<Config(1, 1, FALSE), Config(1, 2, FALSE), Config(1, 3, FALSE)>>),
    Job("microbench", <<>>),
    Job("microbench", <<Config(1, 1, FALSE), Config(2, 1, FALSE)>>)}
=============================================================================
