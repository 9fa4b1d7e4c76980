----------------------------- MODULE AudioTraces -----------------------------
(***************************************************************************)
(* The traces of spoken audio (scripts/prepare_audio_traces.py): clips are *)
(* read from datasets, repeated to a length when one is asked for, given   *)
(* the times of their words, cut, and written one after the other.         *)
(*                                                                         *)
(* The state is the record c.  Time is counted in ticks, of which a sample *)
(* has two.  A clip or row has the tick of its source it begins at         *)
(* (`from`), the number of its samples (`len`), its `duration` in ticks,   *)
(* its words and, in times, <<>> or the one sequence of their times.       *)
(***************************************************************************)
EXTENDS Integers, Sequences, FiniteSets, SequencesExt, FiniteSetsExt

CONSTANTS
    Builds,     \* [keys, limit, max, target, timed]: the command's arguments; 0 for none
    Sources,    \* of a dataset: the recordings it may have
    Meetings,   \* the dataset whose words have times (ami_word_timed)
    Collected,  \* the dataset that is read to its end (aa_earnings22)
    MinTicks, DefaultMax, MaxGap,
    Targets(_), \* what may be drawn around a target duration
    Pauses      \* after the aligned words

VARIABLE c

\* round(): halves go to the even sample.
SampleOf(tick) == tick \div 2 + (IF tick % 4 = 3 THEN 1 ELSE 0)
Ticks(samples) == 2 * samples
WordsOf(times) == [i \in DOMAIN times |-> times[i].word]
Key == c.build.keys[c.key]
Limited == c.build.limit > 0

Init == \E build \in Builds : \E source \in Sources[build.keys[1]] :
    c = [pc |-> "load", build |-> build, key |-> 1, source |-> source, clips |-> <<>>,
         produced |-> 0, rows |-> <<>>, manifest |-> <<>>]

-----------------------------------------------------------------------------
(* Cutting.                                                                *)

\* chunk_timed_words: a chunk ends at a long silence, and where the next word
\* would make it too long.
Chunks(times, max) ==
    LET Add(acc, w) ==
          IF /\ acc.current # <<>>
             /\ \/ w.start - Last(acc.current).end > MaxGap
                \/ w.end - acc.current[1].start > max
          THEN [done |-> Append(acc.done, acc.current), current |-> <<w>>]
          ELSE [acc EXCEPT !.current = Append(@, w)]
        cut == FoldLeft(Add, [done |-> <<>>, current |-> <<>>], times)
    IN  cut.done \o (IF cut.current = <<>> THEN <<>> ELSE <<cut.current>>)

\* The samples of a chunk of a recording of len samples, and its words, whose
\* times count from the first of them.
Cut(id, from, len, times, kind) ==
    LET first == times[1].start
        last  == Last(times).end
        have  == Min({len, SampleOf(last)}) - SampleOf(first)
    IN  [id |-> id, from |-> from + first, len |-> have, whole |-> SampleOf(last) <= len,
         duration |-> IF kind = "meeting" THEN last - first ELSE Ticks(have),
         words |-> WordsOf(times), target |-> 0,
         times |-> <<[i \in DOMAIN times |->
                       [times[i] EXCEPT !.start = @ - first, !.end = @ - first]]>>]

\* BUG: a word that is cut through is kept.
TruncateAfterStart(clip) ==
    LET len == Min({clip.len, Max({1, SampleOf(clip.target)})})
        heard == SelectSeq(clip.times[1], LAMBDA w : w.start < Ticks(len))
    IN  [clip EXCEPT !.len = len, !.duration = Ticks(len), !.times = <<heard>>,
                     !.words = WordsOf(heard)]

\* truncate_clip_to_target_duration: only the words that end in time stay.
Truncate(clip) ==
    LET len == Min({clip.len, Max({1, SampleOf(clip.target)})})
        heard == SelectSeq(clip.times[1], LAMBDA w : w.end <= Ticks(len))
    IN  [clip EXCEPT !.len = len, !.duration = Ticks(len), !.times = <<heard>>,
                     !.words = WordsOf(heard)]

\* split_or_filter_clip: a clip that is too long is cut at its words, or dropped.
Split(clip) ==
    IF c.build.max = 0 \/ clip.duration <= c.build.max THEN <<clip>>
    ELSE IF clip.times \in {<<>>, <<<<>>>>} THEN <<>>
    ELSE LET chunks == Chunks(clip.times[1], c.build.max)
         IN  SelectSeq([i \in DOMAIN chunks |-> Cut(clip.id, clip.from, clip.len, chunks[i], "chunk")],
                       LAMBDA x : x.len > 0)
FinalClips(clip) == IF clip.target > 0 THEN <<Truncate(clip)>> ELSE Split(clip)

-----------------------------------------------------------------------------
(* Reading.                                                                *)
CollectAll == ~Limited \/ (c.build.timed /\ Key = Collected /\ c.build.target = 0)
Loading == /\ c.pc = "load" /\ c.source # <<>>
           /\ CollectAll \/ Len(c.clips) < c.build.limit

\* A row without text, that cannot be fetched, or that is short, is skipped.
LoadRow ==
    /\ Loading /\ Key # Meetings
    /\ LET row == Head(c.source)
           clip == [id |-> row.id, from |-> 0, len |-> row.len, duration |-> Ticks(row.len),
                    whole |-> TRUE, words |-> row.words, target |-> 0, times |-> <<>>]
       IN  \E fetched \in BOOLEAN :
             c' = [c EXCEPT !.source = Tail(@),
                    !.clips = IF row.words # <<>> /\ fetched /\ Ticks(row.len) >= MinTicks
                              THEN Append(@, clip) ELSE @]

\* A speaker's words, cut into clips; a file that cannot be read is skipped.
LoadSpeaker ==
    /\ Loading /\ Key = Meetings
    /\ LET file == Head(c.source)
           chunks == Chunks(file.times, IF c.build.max = 0 THEN DefaultMax ELSE c.build.max)
           clips == SelectSeq([i \in DOMAIN chunks |->
                                 Cut(<<file.id, i>>, 0, file.len, chunks[i], "meeting")],
                              LAMBDA x : x.duration >= MinTicks /\ x.len > 0)
           some == SubSeq(clips, 1, Min({Len(clips), c.build.limit - Len(c.clips)}))
       IN  \E readable \in BOOLEAN :
             c' = [c EXCEPT !.source = Tail(@),
                            !.clips = IF ~readable THEN @ ELSE @ \o IF CollectAll THEN clips ELSE some]

\* repeat_clip_to_cover_target_duration; the times of the words are forgotten.
Repeat(clip, target) ==
    LET times == Max({1, (target + Ticks(clip.len) - 1) \div Ticks(clip.len)})
    IN  [clip EXCEPT !.len = times * @, !.duration = Ticks(times * clip.len), !.times = <<>>,
                     !.words = FlattenSeq([i \in 1 .. times |-> clip.words]), !.target = target]
EndLoad ==
    /\ c.pc = "load" /\ ~Loading
    /\ IF c.build.target = 0 THEN c' = [c EXCEPT !.pc = "align"]
       ELSE \E targets \in [DOMAIN c.clips -> Targets(c.build.target)] :
              c' = [c EXCEPT !.pc = "align", !.clips = [i \in DOMAIN @ |->
                      Repeat(@[i], Max({MinTicks, targets[i]}))]]

-----------------------------------------------------------------------------
(* The aligner finds the words of the clips that have no times, in order;  *)
(* when it fails nothing more is written.                                  *)
Aligned(clip, pause) ==
    LET n == Len(clip.words)
        At(i) == (i * Ticks(clip.len)) \div n
    IN  [i \in 1 .. n |-> [word |-> clip.words[i], start |-> At(i - 1),
                           end |-> Max({At(i - 1), At(i) - pause})]]
NeedsTimes == c.build.timed /\ \E i \in DOMAIN c.clips : c.clips[i].times = <<>>
Align ==
    /\ c.pc = "align"
    /\ \/ ~NeedsTimes /\ c' = [c EXCEPT !.pc = "write"]
       \/ NeedsTimes /\ \E pause \in Pauses :
            c' = [c EXCEPT !.pc = "write", !.clips = [i \in DOMAIN @ |->
                    IF @[i].times # <<>> THEN @[i]
                    ELSE [@[i] EXCEPT !.times = <<Aligned(c.clips[i], pause)>>]]]
       \/ NeedsTimes /\ c' = [c EXCEPT !.pc = "failed"]

-----------------------------------------------------------------------------
(* Writing.                                                                *)
WriteNext ==
    /\ c.pc = "write" /\ c.clips # <<>> /\ ~(Limited /\ c.produced = c.build.limit)
    /\ LET all == FinalClips(Head(c.clips))
           n == IF Limited THEN Min({Len(all), c.build.limit - c.produced}) ELSE Len(all)
       IN  c' = [c EXCEPT !.clips = Tail(@), !.produced = @ + n,
                  !.rows = @ \o [i \in 1 .. n |->
                    [clip |-> all[i], session |-> Len(c.rows) + i - 1,
                     file |-> <<Key, c.produced + i - 1>>]]]

\* Too few clips end the build without a manifest.
EndWrite ==
    /\ c.pc = "write" /\ (c.clips = <<>> \/ (Limited /\ c.produced = c.build.limit))
    /\ \/ Limited /\ c.produced < c.build.limit /\ c' = [c EXCEPT !.pc = "failed"]
       \/ ~(Limited /\ c.produced < c.build.limit) /\ c.key < Len(c.build.keys)
            /\ \E source \in Sources[c.build.keys[c.key + 1]] :
                 c' = [c EXCEPT !.pc = "load", !.key = @ + 1, !.source = source,
                                !.clips = <<>>, !.produced = 0]
       \/ ~(Limited /\ c.produced < c.build.limit) /\ c.key = Len(c.build.keys)
            /\ c' = [c EXCEPT !.pc = "done", !.manifest = c.rows]

Next == LoadRow \/ LoadSpeaker \/ EndLoad \/ Align \/ WriteNext \/ EndWrite
Spec == Init /\ [][Next]_c

-----------------------------------------------------------------------------
\* What a row says is what its audio says: its words are those that have times,
\* they follow each other, and each is heard to its end, up to the rounding of
\* both cuts, unless the recording itself ends before.
RowsAreHeard ==
    \A i \in DOMAIN c.rows : LET clip == c.rows[i].clip IN
      /\ clip.times # <<>> =>
           /\ clip.words = WordsOf(clip.times[1])
           /\ \A k \in DOMAIN clip.times[1] : LET w == clip.times[1][k] IN
                /\ 0 <= w.start /\ w.start <= w.end
                /\ clip.whole => w.end <= Ticks(clip.len) + (IF clip.target > 0 THEN 0 ELSE 2)
                /\ k > 1 => clip.times[1][k - 1].end <= w.start
      /\ clip.whole => clip.duration - Ticks(clip.len) \in -2 .. 2

\* A build with a target writes each clip in the length that was drawn for it;
\* any other writes none that is too long, except a word that is.
RowsHaveTheirLength ==
    \A i \in DOMAIN c.rows : LET clip == c.rows[i].clip IN
      /\ clip.target > 0 => clip.len = Max({1, SampleOf(clip.target)})
      /\ c.build.target > 0 => clip.target > 0
      /\ c.build.max > 0 /\ c.build.target = 0 /\ Len(clip.words) # 1 => clip.duration <= c.build.max + 2

\* Nothing is said twice, and what is cut in two is so at a silence or for its
\* length: no chunk could have taken the word after it.
ChunksDoNotOverlap ==
    c.build.target = 0 =>
      \A i \in 2 .. Len(c.rows) :
        LET a == c.rows[i - 1].clip
            b == c.rows[i].clip
            end == a.from + Last(a.times[1]).end
        IN  a.id = b.id /\ a.times # <<>> =>
              /\ end <= b.from
              /\ b.from - end > MaxGap \/ b.from + b.times[1][1].end - a.from > c.build.max

\* A manifest numbers its sessions through all datasets, gives each its own
\* file, and has of every dataset as many as were asked for.
ManifestIsComplete ==
    /\ c.manifest # <<>> <=> (c.pc = "done" /\ c.rows # <<>>)
    /\ \A i \in DOMAIN c.rows : c.rows[i].session = i - 1
    /\ \A i, j \in DOMAIN c.rows : i < j => c.rows[i].file # c.rows[j].file
    /\ c.pc = "done" /\ Limited => Len(c.rows) = c.build.limit * Len(c.build.keys)

TracesAreHeard == RowsAreHeard /\ RowsHaveTheirLength /\ ChunksDoNotOverlap /\ ManifestIsComplete
=============================================================================
