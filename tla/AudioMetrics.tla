----------------------------- MODULE AudioMetrics -----------------------------
(***************************************************************************)
(* The evaluation of audio (evaluator/performance): the records of the     *)
(* audio evaluator, what is computed from the timeline of a speech request,*)
(* and when the words of a recording are seen.  The three are independent: *)
(* each has a variable, and an Init and a Next, of its own.                *)
(***************************************************************************)
EXTENDS Integers, Sequences, FiniteSets, SequencesExt, FiniteSetsExt

CONSTANTS
    \* of the records
    Traffic,   \* sequences of [kind, task]: what requests, as dispatched, give
    Workers,
    \* of the playback
    MaxTime,       \* bound: the clock of a request
    MaxChunks,     \* bound: messages with audio
    Lengths,       \* the audio in a message
    Frame,         \* fluidity_frame_ms
    Delays,        \* startup_delay_ms_values
    Targets,       \* startup_buffer_ms_values
    MinStall,      \* min_reportable_stall_ms
    Oversupplied,   \* fluidity_attribution_mode = "source_oversupplied"
    \* of the words
    Words,         \* the reference: a sequence of [word, start, end]
    Transcripts,   \* what a snapshot may say
    Times,         \* when a snapshot may be taken
    MaxSnapshots   \* bound

VARIABLES a, u, v

-----------------------------------------------------------------------------
(***************************************************************************)
(* The records of the audio evaluator (evaluator/performance/audio.py).    *)
(* Several completion workers record results at once: first in the         *)
(* performance evaluator under its lock (evaluator/performance/base.py),   *)
(* then in the audio evaluator, which takes its own lock twice and scores  *)
(* in between without it; the scores have a lock of their own (asr.py).    *)
(* The metric streamer appends new rows to a file that the end rewrites.   *)
(*                                                                         *)
(* The state is the record a.  Request i is dispatched at time i; the      *)
(* clock is the number of events at the clients.                           *)
(***************************************************************************)

\* "ok", "aborted" as intended, "bare" without an AUDIO channel, "broken" with one
\* that cannot be scored, and errors: "partial" with the channel, "error" without.
Results == a.results
Kind(i) == Results[i].kind
IsError(i) == Kind(i) \in {"error", "partial"}
Requests == DOMAIN Results

RecordsInit == \E results \in Traffic :
       a = [results |-> results, registered |-> 0, clock |-> 0,
             done |-> [i \in DOMAIN results |-> 0], queue |-> <<>>,
             pc |-> [w \in Workers |-> "idle"], at |-> [w \in Workers |-> 0], pending |-> {},
             completed |-> 0, errored |-> 0, samples |-> {}, rows |-> <<>>,
             aborted |-> 0, total |-> 0, window |-> <<0, 0>>, file |-> <<>>, phase |-> "running"]

-----------------------------------------------------------------------------
\* Both evaluators register a request before it is handed to a client.
Register ==
    /\ a.phase = "running" /\ a.registered < Len(Results)
    /\ a' = [a EXCEPT !.registered = @ + 1, !.clock = @ + 1,
                      !.pending = @ \cup {a.registered + 1}]

Answer ==
    \E i \in 1 .. a.registered :
        /\ a.done[i] = 0
        /\ a' = [a EXCEPT !.done[i] = a.clock + 1, !.clock = @ + 1, !.queue = Append(@, i)]

\* PerformanceEvaluator.record_request_completed(): the audio evaluator hears of
\* no error, also when there is audio.
RecordInBase(w) ==
    /\ a.pc[w] = "idle" /\ a.queue # <<>>
    /\ LET i == Head(a.queue)
       IN  a' = [a EXCEPT !.queue = Tail(@), !.at[w] = i,
                          !.errored = @ + IF IsError(i) THEN 1 ELSE 0,
                          !.completed = @ + IF IsError(i) THEN 0 ELSE 1,
                          !.pc[w] = IF IsError(i) THEN "idle" ELSE "pop"]

\* The first section under the audio evaluator's lock.
Pop(w) ==
    /\ a.pc[w] = "pop"
    /\ a' = [a EXCEPT !.pending = @ \ {a.at[w]},
                      !.pc[w] = IF Kind(a.at[w]) = "bare" THEN "idle" ELSE "score"]

\* score_asr_request(): what has both transcripts is added to the samples.
Sample(i) == IF Results[i].task = "stt" THEN {i} ELSE {}

\* Without the lock.  What cannot be scored ends the worker's thread.
Score(w) ==
    /\ a.pc[w] = "score"
    /\ IF Kind(a.at[w]) = "broken" THEN a' = [a EXCEPT !.pc[w] = "dead"]
       ELSE a' = [a EXCEPT !.pc[w] = "record",
                           !.samples = @ \cup Sample(a.at[w])]

\* BUG: the window ends with the result that was recorded last.
WindowOfLast(i) ==
    <<IF a.rows = <<>> \/ i < a.window[1] THEN i ELSE a.window[1], a.done[i]>>
Window(i) ==
    <<IF a.rows = <<>> \/ i < a.window[1] THEN i ELSE a.window[1],
      IF a.done[i] > a.window[2] THEN a.done[i] ELSE a.window[2]>>

\* The second section.
Record(w) ==
    /\ a.pc[w] = "record"
    /\ LET i == a.at[w]
       IN  a' = [a EXCEPT !.pc[w] = "idle", !.rows = Append(@, i), !.window = Window(i),
                          !.aborted = @ + IF Kind(i) = "aborted" THEN 1 ELSE 0,
                          !.total = @ + IF Kind(i) = "ok" THEN 1 ELSE 0]

\* flush_streaming_outputs(): the rows from the first that is not in the file.
Flush ==
    /\ a.phase = "running" /\ Len(a.file) < Len(a.rows)
    /\ a' = [a EXCEPT !.file = @ \o SubSeq(a.rows, Len(a.file) + 1, Len(a.rows))]

\* The end of a run that answered everything, or that has no worker left: save().
Finish ==
    /\ a.phase = "running" /\ a.registered = Len(Results)
    /\ \A i \in Requests : a.done[i] # 0
    /\ \A w \in Workers : a.pc[w] = "dead" \/ (a.pc[w] = "idle" /\ a.queue = <<>>)
    /\ a' = [a EXCEPT !.phase = "saved", !.file = a.rows]

RecordsNext ==
    \/ Register \/ Answer \/ Flush \/ Finish
    \/ \E w \in Workers : RecordInBase(w) \/ Pop(w) \/ Score(w) \/ Record(w)

-----------------------------------------------------------------------------
Rows == ToSet(a.rows)
InHand(stages) == {a.at[w] : w \in {x \in Workers : a.pc[x] \in stages}}

\* Each completed request has one row, is on the way to one, or never gets one:
\* without a channel, or unscored.  The counts of the two evaluators, which two
\* locks guard, differ by just these.  (A failed request gets none, though it
\* may have audio.)
CountsAgree ==
    /\ Cardinality(Rows) = Len(a.rows)
    /\ \A i \in Rows : ~IsError(i)
    /\ LET never == {i \in Requests : Kind(i) = "bare" /\ a.done[i] # 0
                                      /\ i \notin ToSet(a.queue) \cup InHand({"pop"})}
       IN  a.completed = Len(a.rows) + Cardinality(InHand({"pop", "score", "record", "dead"}))
                         + Cardinality(never)
    /\ a.total + a.aborted = Len(a.rows)
    /\ a.phase = "saved" /\ (\A w \in Workers : a.pc[w] = "idle") =>
         /\ a.completed + a.errored = Len(Results)
         /\ a.pending = {i \in Requests : IsError(i)}

\* The scores are never behind the rows, and at the end of one mind with them.
ScoresKeepUp ==
    LET scored == {i \in Rows : Results[i].task = "stt"}
    IN  a.samples = scored \cup {i \in InHand({"record"}) : Results[i].task = "stt"}

\* In whatever order the workers record, the rates refer to the time from the
\* first dispatch to the last answer of what has a row.
WindowIsTight ==
    a.rows # <<>> =>
        /\ a.window[1] = Min(Rows)
        /\ a.window[2] = Max({a.done[i] : i \in Rows})

\* The file has the rows in order, none twice and, at the end, none missing.
FileFollows ==
    /\ a.file = SubSeq(a.rows, 1, Len(a.file))
    /\ a.phase = "saved" => a.file = a.rows

AudioRecordsAgree == CountsAgree /\ ScoresKeepUp /\ WindowIsTight /\ FileFollows

-----------------------------------------------------------------------------
(***************************************************************************)
(* What is computed from the timeline of one realtime speech request       *)
(* (evaluator/performance/audio_interactivity.py): the audio is played     *)
(* again under several start-up policies, and cut into frames that each    *)
(* have a deadline.  Times and lengths of audio are whole milliseconds.    *)
(*                                                                         *)
(* The state is the record u: first the client takes the timeline down,    *)
(* then one step computes the metrics.                                     *)
(***************************************************************************)

None == -1
PlaybackInit == u = [pc |-> "receiving", now |-> 0, commit |-> None, ended |-> None,
             raw |-> <<>>, m |-> <<>>]

-----------------------------------------------------------------------------
(* The timeline, as the client takes it down.                               *)

Tick ==
    /\ u.pc = "receiving" /\ u.now < MaxTime
    /\ u' = [u EXCEPT !.now = @ + 1]
Commit ==
    /\ u.pc = "receiving" /\ u.commit = None
    /\ u' = [u EXCEPT !.commit = u.now]
Audio ==
    /\ u.pc = "receiving" /\ Len(u.raw) < MaxChunks
    /\ \E len \in Lengths : u' = [u EXCEPT !.raw = Append(@, [at |-> u.now, len |-> len])]
\* The terminal event, if the stream is not cut before.
End ==
    /\ u.pc = "receiving" /\ u.commit # None
    /\ u' = [u EXCEPT !.pc = "score", !.ended = u.now]
Cut ==
    /\ u.pc = "receiving"
    /\ u' = [u EXCEPT !.pc = "score"]

-----------------------------------------------------------------------------
(* Chunks, frames and playback.                                             *)

Total(seq, to) == MapThenSumSet(LAMBDA i : seq[i].len, 1 .. to)

\* In order of time, what came at one time as one chunk, without empty messages.
Chunks(raw) ==
    LET heard == {i \in DOMAIN raw : raw[i].len > 0}
        times == SetToSortSeq({raw[i].at : i \in heard}, <)
    IN  <<>> \o [n \in DOMAIN times |->
           [at |-> times[n],
            len |-> MapThenSumSet(LAMBDA i : raw[i].len, {i \in heard : raw[i].at = times[n]})]]

\* When each complete frame is there; a shorter tail is none.
FrameArrivals(chunks) ==
    <<>> \o [j \in 1 .. Total(chunks, Len(chunks)) \div Frame |->
        chunks[CHOOSE i \in DOMAIN chunks :
                 /\ Total(chunks, i) >= j * Frame
                 /\ Total(chunks, i - 1) < j * Frame].at]

\* compute_audio_fluidity(): early frames lend slack to later ones; a late one
\* misses each deadline that passed, and takes the slack away.
FluidityBut(arrivals, delay, reset) ==
    LET After[j \in 0 .. Len(arrivals)] ==
          IF j = 0 THEN [slack |-> 0, total |-> 0, missed |-> 0]
          ELSE LET prev     == After[j - 1]
                   between  == IF j = 1 THEN 0 ELSE arrivals[j] - arrivals[j - 1]
                   deadline == IF j = 1 THEN delay ELSE Frame
                   late     == between - deadline - prev.slack
                   misses   == late \div Frame + 1
               IN  IF late <= 0
                   THEN [prev EXCEPT !.slack = -late, !.total = @ + 1]
                   ELSE [slack |-> IF reset THEN 0 ELSE prev.slack,
                         total |-> prev.total + misses, missed |-> prev.missed + misses]
    IN  After[Len(arrivals)]
\* BUG: the slack outlives a stall.
FluidityKeepsSlack(arrivals, delay) == FluidityBut(arrivals, delay, FALSE)

Fluidity(arrivals, delay) == FluidityBut(arrivals, delay, TRUE)

\* _simulate_from_start(): how long playback waits for each chunk.
Gaps(chunks, start) ==
    LET Ends[i \in 0 .. Len(chunks)] ==
          IF i = 0 THEN start
          ELSE LET before == Ends[i - 1]
               IN  (IF before > chunks[i].at THEN before ELSE chunks[i].at) + chunks[i].len
    IN  [i \in 2 .. Len(chunks) |-> chunks[i].at - Ends[i - 1]]
Stalls(gaps, least) == {i \in DOMAIN gaps : gaps[i] > least}
Playback(chunks, start) ==
    LET gaps == Gaps(chunks, start)
        long == Stalls(gaps, MinStall)
    IN  [start |-> start, count |-> Cardinality(long),
         total |-> MapThenSumSet(LAMBDA i : gaps[i], long)]

FixedDelay(chunks, delay) == Playback(chunks, chunks[1].at + delay)

\* simulate_buffer_target(): once so much is there, or at the terminal event.
BufferStart(chunks, target, ended) ==
    LET enough == {i \in DOMAIN chunks : target <= 0 \/ Total(chunks, i) >= target}
        last   == chunks[Len(chunks)].at
    IN  IF enough # {} THEN chunks[Min(enough)].at
        ELSE IF ended = None THEN None
        ELSE IF ended > last THEN ended ELSE last

RequiredDelay(chunks) ==
    Max({0} \cup {chunks[i].at - chunks[1].at - Total(chunks, i - 1) : i \in 2 .. Len(chunks)})

-----------------------------------------------------------------------------
\* compute_interactivity_metrics(); without audio there are none.
Compute ==
    /\ u.pc = "score"
    /\ LET chunks   == Chunks(u.raw)
           last     == chunks[Len(chunks)].at
           arrivals == FrameArrivals(chunks)
           playable == IF arrivals = <<>> THEN None ELSE arrivals[1]
           early    == {i \in DOMAIN chunks : chunks[i].at <= u.commit}
           overlap  == u.commit # None /\ playable # None /\ playable < u.commit
           eligible == /\ playable # None
                       /\ Oversupplied \/ (u.commit # None /\ u.commit <= playable)
       IN  u' = [u EXCEPT !.pc = "done", !.m =
             IF chunks = <<>> THEN <<>> ELSE
             [chunks |-> chunks, arrivals |-> arrivals,
              before |-> IF u.commit = None THEN None ELSE MapThenSumSet(LAMBDA i : chunks[i].len, early),
              after |-> IF u.commit = None THEN None ELSE Max({0, last - u.commit}),
              overlapped |-> overlap,
              overlap |-> IF overlap THEN Min({last, u.commit}) - playable ELSE 0,
              required |-> RequiredDelay(chunks),
              fixed |-> [d \in Delays |-> FixedDelay(chunks, d)],
              buffered |-> [t \in Targets |->
                 LET start == BufferStart(chunks, t, u.ended)
                 IN  IF start = None THEN <<>> ELSE <<Playback(chunks, start)>>],
              fluid |-> [d \in Delays |-> Fluidity(arrivals, d)],
              eligible |-> eligible]]

PlaybackNext == Tick \/ Commit \/ Audio \/ End \/ Cut \/ Compute

-----------------------------------------------------------------------------
Scored == u.pc = "done" /\ u.m # <<>>

\* The required delay is the least one that plays without a gap, and a longer
\* delay never waits more often or longer.
RequiredIsLeast ==
    Scored =>
        /\ \A d \in Delays \cup {Max({0, u.m.required - 1}), u.m.required} :
             (Stalls(Gaps(u.m.chunks, u.m.chunks[1].at + d), 0) = {}) <=> d >= u.m.required
        /\ \A d, e \in Delays : d < e =>
             /\ u.m.fixed[e].count <= u.m.fixed[d].count
             /\ u.m.fixed[e].total <= u.m.fixed[d].total

\* The deadlines that frames miss are those that pass while their playback
\* stalls: two algorithms, one number.  No frame is lost, and the first is on
\* time, so the index is positive.
MissesAreStalls ==
    Scored /\ u.m.arrivals # <<>> => \A d \in Delays :
        LET frames == [j \in DOMAIN u.m.arrivals |-> [at |-> u.m.arrivals[j], len |-> Frame]]
            gaps   == Gaps(frames, frames[1].at + d)
        IN  /\ u.m.fluid[d].missed = MapThenSumSet(LAMBDA j : gaps[j] \div Frame + 1, Stalls(gaps, 0))
            /\ u.m.fluid[d].total - u.m.fluid[d].missed = Len(frames) - Cardinality(Stalls(gaps, 0))
            /\ u.m.fluid[d].missed < u.m.fluid[d].total

\* However the transport cuts the audio, the frames are those of the whole, and
\* each comes with the chunk that completes it.
FramesAreOfTheWhole ==
    Scored =>
        LET Heard(time) == MapThenSumSet(LAMBDA i : u.raw[i].len, {i \in DOMAIN u.raw : u.raw[i].at <= time})
        IN  /\ \A time \in {u.raw[i].at : i \in DOMAIN u.raw} :
                 Cardinality({j \in DOMAIN u.m.arrivals : u.m.arrivals[j] <= time}) = Heard(time) \div Frame
            /\ \A i \in 2 .. Len(u.m.chunks) : u.m.chunks[i - 1].at < u.m.chunks[i].at

\* A larger buffer never starts earlier; what starts with everything there
\* plays without a stall; only a cut stream may have no start.
BuffersStartInTime ==
    Scored =>
        /\ \A t \in Targets : u.m.buffered[t] = <<>> =>
             u.ended = None /\ Total(u.m.chunks, Len(u.m.chunks)) < t
        /\ \A t \in Targets : u.m.buffered[t] # <<>> =>
             /\ u.m.buffered[t][1].start >= u.m.chunks[1].at
             /\ Total(u.m.chunks, Len(u.m.chunks)) <= t => u.m.buffered[t][1].count = 0
        /\ \A s, t \in Targets : s < t /\ u.m.buffered[s] # <<>> /\ u.m.buffered[t] # <<>> =>
             u.m.buffered[s][1].start <= u.m.buffered[t][1].start

\* Audio that plays before the input is complete was sent before it was; a
\* score is the service's own only if it could not have waited for input.
OverlapIsBeforeCommit ==
    Scored =>
        /\ u.m.overlapped => u.m.before >= Frame /\ u.m.overlap >= 0
        /\ u.commit # None =>
             ((u.m.before = Total(u.m.chunks, Len(u.m.chunks))) <=> (u.m.after = 0))
        /\ u.m.eligible /\ ~Oversupplied => ~u.m.overlapped /\ u.commit # None

PlaybackIsSound ==
    /\ RequiredIsLeast /\ MissesAreStalls /\ FramesAreOfTheWhole
    /\ BuffersStartInTime /\ OverlapIsBeforeCommit

-----------------------------------------------------------------------------
(***************************************************************************)
(* When the words of a recording become visible in the partial transcripts *)
(* of a recogniser (evaluator/performance/asr_interactivity.py): the       *)
(* snapshots are compared with the reference in order of time, and a       *)
(* comparison that was just made is used again.                            *)
(*                                                                         *)
(* The state is the record v.  A transcript is [raw, words]: transcripts   *)
(* that differ may have the same normalised words.                         *)
(***************************************************************************)

Unseen == -1

\* The snapshots, already sorted by time.
Snapshots == {s \in UNION {[1 .. n -> Times \X Transcripts] : n \in 1 .. MaxSnapshots} :
                \A i \in 2 .. Len(s) : s[i - 1][1] <= s[i][1]}
VisibleInit == \E s \in Snapshots :
    v = [snapshots |-> s, at |-> 1, raw |-> "none", ids |-> <<>>, blocks |-> {},
         seen |-> [i \in DOMAIN Words |-> Unseen]]

-----------------------------------------------------------------------------
\* The longest run that the reference, from i on, and the words have in common,
\* within lo .. hi of the one and from .. to of the other: the first of them.
Runs(words, lo, hi, from, to) ==
    {r \in (lo .. hi) \X (from .. to) \X (1 .. Len(words)) :
        /\ r[1] + r[3] - 1 <= hi /\ r[2] + r[3] - 1 <= to
        /\ \A m \in 0 .. r[3] - 1 : Words[r[1] + m].word = words[r[2] + m]}
Longest(runs) == CHOOSE r \in runs : \A q \in runs :
    \/ r[3] > q[3]
    \/ r[3] = q[3] /\ (r[1] < q[1] \/ (r[1] = q[1] /\ r[2] <= q[2]))

\* get_matching_blocks(): the longest run, and on both sides of it again.  The
\* result is the set of the reference words in a block.
Matched(words) ==
    LET Blocks[lo \in 1 .. Len(Words) + 1, hi \in 0 .. Len(Words),
               from \in 1 .. Len(words) + 1, to \in 0 .. Len(words)] ==
          LET runs == Runs(words, lo, hi, from, to)
              r == Longest(runs)
          IN  IF runs = {} THEN {}
              ELSE (r[1] .. r[1] + r[3] - 1)
                   \cup Blocks[lo, r[1] - 1, from, r[2] - 1]
                   \cup Blocks[r[1] + r[3], hi, r[2] + r[3], to]
    IN  Blocks[1, Len(Words), 1, Len(words)]

\* A word counts from when it is spoken.
See(seen, blocks, time) == [i \in DOMAIN Words |->
    IF i \in blocks /\ seen[i] = Unseen /\ time >= Words[i].start THEN time ELSE seen[i]]

\* BUG: an empty snapshot leaves the words of the comparison, not its blocks.
NextEmptyKeepsIds ==
    /\ v.at <= Len(v.snapshots)
    /\ LET time == v.snapshots[v.at][1]
           text == v.snapshots[v.at][2]
           ids  == IF text.raw = v.raw THEN v.ids ELSE text.words
           blocks == IF ids = v.ids THEN v.blocks ELSE Matched(ids)
       IN  v' = IF ids = <<>>
                THEN [v EXCEPT !.at = @ + 1, !.raw = text.raw, !.blocks = {}]
                ELSE [v EXCEPT !.at = @ + 1, !.raw = text.raw, !.ids = ids, !.blocks = blocks,
                               !.seen = See(@, blocks, time)]

\* The next snapshot: compared unless its text, or its words, are the previous.
NextSnapshot ==
    /\ v.at <= Len(v.snapshots)
    /\ LET time == v.snapshots[v.at][1]
           text == v.snapshots[v.at][2]
           ids  == IF text.raw = v.raw THEN v.ids ELSE text.words
           blocks == IF ids = v.ids THEN v.blocks ELSE Matched(ids)
       IN  v' = IF ids = <<>>
                THEN [v EXCEPT !.at = @ + 1, !.raw = text.raw, !.ids = <<>>, !.blocks = {}]
                ELSE [v EXCEPT !.at = @ + 1, !.raw = text.raw, !.ids = ids, !.blocks = blocks,
                               !.seen = See(@, blocks, time)]

VisibleNext == NextSnapshot

-----------------------------------------------------------------------------
\* How long after its end each word that was seen was visible.
Latencies == [i \in {j \in DOMAIN Words : v.seen[j] # Unseen} |-> Max({0, v.seen[i] - Words[i].end})]

\* With or without the reuse: a word was first seen in the first snapshot that
\* matches it and is not before its start; what is revised away later counts.
SeenWhenFirstMatched ==
    \A i \in DOMAIN Words :
        LET showing == {n \in 1 .. v.at - 1 :
                          /\ v.snapshots[n][1] >= Words[i].start
                          /\ i \in Matched(v.snapshots[n][2].words)}
        IN  v.seen[i] = IF showing = {} THEN Unseen ELSE v.snapshots[Min(showing)][1]

\* A block matches equal words in order, so a snapshot shows at most as many
\* words as it has, and all of the reference when it says it all; no word is
\* seen before it is spoken.
BlocksAreMatches ==
    /\ Cardinality(v.blocks) <= Len(v.ids)
    /\ v.ids = [i \in DOMAIN Words |-> Words[i].word] => v.blocks = DOMAIN Words
    /\ \A i \in DOMAIN Latencies : v.seen[i] >= Words[i].start /\ Latencies[i] >= 0

WordsAreSeen == SeenWhenFirstMatched /\ BlocksAreMatches
=============================================================================
