------------------------- MODULE ServersAndClients -------------------------
(***************************************************************************)
(* The parts that stand around a benchmark run, each with threads or a     *)
(* peer of its own and no state in common with the others, checked one     *)
(* after the other in one run: `part` says which of them a behaviour is    *)
(* of, the variables of the others stay where they are.                    *)
(***************************************************************************)
EXTENDS ResourceManager, SequencesExt, TLC

CONSTANTS
    Configs, KeyOf, StartupPolls, \* of ServerSweep
    MaxChunks, MaxEvents,         \* of SttStream; MaxEvents also of TtsStream
    Asks, Caps,                   \* of ClipCache
    MaxSegments,                  \* of TtsStream
    MaxLines,                     \* of HttpClients
    Requests, MaxFailures,        \* of MetricStreamer
    Entry, BatchSize              \* of TraceRecorder

VARIABLES
    part,
    sweep,   \* s of ServerSweep
    stt,     \* q of SttStream
    clips,   \* c of ClipCache
    tts,     \* q of TtsStream
    http,    \* h of HttpClients
    metrics, \* m of MetricStreamer
    put, queue, buffer, file, stop, thread, writer, calls  \* of TraceRecorder

managerVars  == vars
recorderVars == <<put, queue, buffer, file, stop, thread, writer, calls>>
allVars == <<part, managerVars, sweep, stt, clips, tts, http, metrics, recorderVars>>

Sweep    == INSTANCE ServerSweep WITH s <- sweep
Stt      == INSTANCE SttStream WITH q <- stt
Clips    == INSTANCE ClipCache WITH c <- clips
Tts      == INSTANCE TtsStream WITH q <- tts
Http     == INSTANCE HttpClients WITH h <- http
Metrics  == INSTANCE MetricStreamer WITH m <- metrics
Recorder == INSTANCE TraceRecorder

ASSUME RecorderAssumption == Recorder!TraceAssumption
ASSUME ClipsAssumption == Clips!ClipsAssumption

-----------------------------------------------------------------------------
Resting == [pc |-> "resting"]
ManagerRests ==
    /\ nodes = <<"a">> /\ free = {} /\ overwritten = {}
    /\ held = [j \in Job |-> {}]
    /\ phase = [j \in Job |-> "idle"]
    /\ polls = [j \in Job |-> 0]
RecorderRests ==
    /\ put = <<>> /\ queue = <<>> /\ buffer = <<>> /\ file = <<>>
    /\ stop = FALSE /\ thread = FALSE /\ writer = "none" /\ calls = 0

PartsInit ==
    /\ part \in {"manager", "sweep", "stt", "clips", "tts", "http", "metrics", "recorder"}
    /\ IF part = "manager" THEN Init ELSE ManagerRests
    /\ IF part = "sweep" THEN Sweep!Init ELSE sweep = Resting
    /\ IF part = "stt" THEN Stt!Init ELSE stt = Resting
    /\ IF part = "clips" THEN Clips!Init ELSE clips = Resting
    /\ IF part = "tts" THEN Tts!Init ELSE tts = Resting
    /\ IF part = "http" THEN Http!Init ELSE http = Resting
    /\ IF part = "metrics" THEN Metrics!Init ELSE metrics = Resting
    /\ IF part = "recorder" THEN Recorder!Init ELSE RecorderRests

OthersRest ==
    /\ UNCHANGED part
    /\ IF part = "manager" THEN TRUE ELSE UNCHANGED managerVars
    /\ IF part = "sweep" THEN TRUE ELSE UNCHANGED sweep
    /\ IF part = "stt" THEN TRUE ELSE UNCHANGED stt
    /\ IF part = "clips" THEN TRUE ELSE UNCHANGED clips
    /\ IF part = "tts" THEN TRUE ELSE UNCHANGED tts
    /\ IF part = "http" THEN TRUE ELSE UNCHANGED http
    /\ IF part = "metrics" THEN TRUE ELSE UNCHANGED metrics
    /\ IF part = "recorder" THEN TRUE ELSE UNCHANGED recorderVars

PartsNext ==
    \/ part = "manager"  /\ Next          /\ OthersRest
    \/ part = "sweep"    /\ Sweep!Next    /\ OthersRest
    \/ part = "stt"      /\ Stt!Next      /\ OthersRest
    \/ part = "clips"    /\ Clips!Next    /\ OthersRest
    \/ part = "tts"      /\ Tts!Next      /\ OthersRest
    \/ part = "http"     /\ Http!Next     /\ OthersRest
    \/ part = "metrics"  /\ Metrics!Next  /\ OthersRest
    \/ part = "recorder" /\ Recorder!Next /\ OthersRest

\* The threads of each part that are fair in its own module, the k-th of each
\* part together: only one part moves in a behaviour.
Thread(k) ==
    \/ part = "manager" /\ k \in Job /\ (Look(k) \/ Allocate(k) \/ Sleep(k))
    \/ part = "clips" /\ k \in Clips!Thread /\ Clips!Step(k)
    \/ /\ k = 1
       /\ \/ part = "sweep" /\ Sweep!MainThread
          \/ part = "stt" /\ stt.pc # "returned" /\ Stt!Client
          \/ part = "tts" /\ Tts!Client
          \/ part = "http" /\ Http!Next
          \/ part = "metrics" /\ Metrics!Streamer
          \/ part = "recorder" /\ Recorder!Joined
    \/ /\ k = 2
       /\ \/ part = "metrics" /\ Metrics!Main
          \/ part = "recorder" /\ Recorder!WriterLoop
PartsFairness ==
    /\ \A k \in Job \cup DOMAIN Asks \cup {1, 2} : WF_allVars(Thread(k) /\ OthersRest)
    /\ SF_allVars(part = "recorder" /\ Recorder!Flush /\ OthersRest)

PartsSpec == PartsInit /\ [][PartsNext]_allVars /\ PartsFairness

-----------------------------------------------------------------------------
\* A sweep of managed servers runs each configuration once, against its own
\* server, and leaves nothing behind, however one of its starts, benchmarks or
\* stops fails, but for a process that SIGKILL and a container that docker did
\* not remove (server_manager.py, managed_engines.py).
SweepIsSound == part = "sweep" => Sweep!NothingLeftBehind /\ Sweep!SweepIsComplete

\* Both callbacks of a speech-to-text request come before its result, once, and
\* its two notions of a first text agree on a well-formed stream; a herd of requests
\* decodes a clip once while the cache holds all of them (client/stt.py).
TranscriptionIsSound ==
    /\ part = "stt" => Stt!SttCallbacks /\ Stt!FirstTextAgrees
    /\ part = "clips" => Clips!HerdDecodesOnce

\* What the comments of the clip cache say of every herd, also of one that asks
\* for more clips than the cache holds (client/stt.py); the code does not.
OneDecoder == part = "clips" => Clips!OneDecoder

\* No provider is blamed for audio that came after its trigger; success, hang-up
\* and error of a streamed synthesis are told apart, unless the timeout strikes while the websocket
\* closes (client/streaming_tts.py).
SynthesisIsSound == part = "tts" => Tts!NeverTooEarly /\ Tts!OutcomeIsRight

\* Where the network cuts a streamed answer makes no difference, and a success
\* was dispatched and reported (client/openai_chat.py and its siblings).
HttpAnswersAreRight == part = "http" => Http!CutsDoNotMatter /\ Http!CalledBack

\* The streamed metric files are a faithful prefix of the final ones
\* (evaluator/performance/base.py), and nothing the trace recorder was given is
\* lost, doubled or reordered, but for less than a batch at a stop
\* (core/trace_recorder.py).
FilesAreFaithful ==
    /\ part = "metrics" => Metrics!StreamIsFaithful
    /\ part = "recorder" => Recorder!InOrderAndOnce /\ Recorder!StopLosesNoBatch

\* What the docstring of the trace recorder's stop() says; the last entries, less
\* than a batch, may stay in the writer's buffer (core/trace_recorder.py).
StopFlushes == part = "recorder" => Recorder!StopFlushes

\* What has begun, and what must come of it: a wait for GPUs ends with GPUs or
\* the timeout; a sweep, a request and a herd end; the metric streamer stops
\* within an interval though its trigger is set before its stop flag; an entry
\* of the trace is written unless the recorder is being stopped, and a stop
\* returns.
Entries == SetToSeq(Entry)
Begun(k) ==
    CASE part = "manager"  -> k \in Job /\ phase[k] = "looking"
      [] part = "clips"    -> k \in Clips!Thread
      [] part = "metrics"  -> k = 1 /\ metrics.main = "triggered"
      [] part = "recorder" -> IF k = 0 THEN stop ELSE k \in DOMAIN Entries /\ Entries[k] \in Recorder!Range(put)
      [] OTHER             -> k = 1
Ended(k) ==
    CASE part = "manager"  -> k \in Job => phase[k] \in {"granted", "refused"}
      [] part = "clips"    -> k \in Clips!Thread => clips.todo[k] = <<>>
      [] part = "metrics"  -> metrics.main = "saved"
      [] part = "recorder" -> IF k = 0 THEN ~thread
                               ELSE k \in DOMAIN Entries => Entries[k] \in Recorder!Range(file) \/ stop
      [] part = "sweep"    -> sweep.pc \in {"done", "aborted"}
      [] part = "stt"      -> stt.pc = "returned"
      [] part = "tts"      -> tts.pc = "returned"
      [] OTHER             -> http.pc = "returned"

\* Every part comes to its end (WaitEnds, SweepEnds, SttReturns, HerdEnds,
\* TtsReturns, HttpReturns, StreamerStops, WrittenInTime and StopReturns of the
\* modules).
EveryPartEnds ==
    \A k \in Job \cup DOMAIN Asks \cup DOMAIN Entries \cup {0, 1} : Begun(k) ~> Ended(k)

-----------------------------------------------------------------------------
\* The instance of the runs: two nodes of three and two GPUs, two jobs, one of
\* which wants adjacent GPUs; two servers for three configurations; three
\* threads that share two clips.
MCWidth      == "a" :> 3 @@ "b" :> 2
MCNeed       == <<2, 3>>
MCContiguous == <<TRUE, FALSE>>
MCConfigs    == <<1, 2, 3>>
MCKeyOf      == <<"x", "y", "x">>
MCAsks       == <<<<"a", "a">>, <<"a">>, <<"b">>>>
=============================================================================
