-------------------------- MODULE SpeechVerification --------------------------
(***************************************************************************)
(* The verification of generated speech (verification/): the strict        *)
(* verification of a run, and the scoring of one long recording.  The two  *)
(* are independent: each has a variable, and an Init and a Next, of its own.*)
(***************************************************************************)
EXTENDS Integers, Sequences, FiniteSets, SequencesExt, FiniteSetsExt, Functions

CONSTANTS
    \* of the verification of a run
    Metrics,      \* the metric files there may be: <<>>, or <<the rows>>
    Configs,      \* [wer, utmos, strict, max]: what is asked for; max 0 for all
    Transcripts,  \* what may be heard: sequences of words
    AllowedNum, AllowedDen,   \* the threshold on the word error rate
    \* of the scoring of a recording
    Jobs,          \* [samples, tracks]: a recording, and the models there are
    Unit,          \* a word
    ChunkLen, ScoreLen, ScoreTail, WindowLen, BinLen, BucketLen,
    Heard,   \* what is heard in a chunk: sequences of words
    NGram,         \* dup_ngram_size
    MaxOps,        \* bound on the steps of the alignment
    Scores,        \* of speech quality; 0 for none
    Cosines,       \* of a window's speaker; 0 for a window without a norm
    Sounds         \* [power, silent] of a bin

VARIABLES r, l

-----------------------------------------------------------------------------
(***************************************************************************)
(* The verification of the audio that a run saved (verification/audio.py): *)
(* each row of the run's request metrics is transcribed and scored, and a  *)
(* strict verification fails the run when one is bad or cannot be judged.  *)
(*                                                                         *)
(* The state is the record r.                                              *)
(***************************************************************************)

\* A row is [id, text, audio]: id 0 for none, whether there is an audio file.
Nothing == [transcript |-> <<>>, errors |-> -1, passed |-> "none", utmos |-> 0,
            werError |-> FALSE, utmosError |-> FALSE]
VerifyInit == \E metrics \in Metrics, config \in Configs :
    LET rows == IF metrics = <<>> THEN <<>> ELSE metrics[1]
        kept == IF config.max > 0 THEN Min({config.max, Len(rows)}) ELSE Len(rows)
    IN  r = [pc |-> "verify", config |-> config, todo |-> SubSeq(rows, 1, kept), done |-> <<>>,
             total |-> Len(rows), skipped |-> Len(rows) - kept,
             runErrors |-> IF metrics = <<>> THEN 1 ELSE 0, summary |-> <<>>]

-----------------------------------------------------------------------------
\* _edit_distance: the table, row by row.
EditDistance(ref, hyp) ==
    LET D[i \in 0 .. Len(ref), j \in 0 .. Len(hyp)] ==
          IF i = 0 THEN j ELSE IF j = 0 THEN i
          ELSE Min({D[i - 1, j] + 1, D[i, j - 1] + 1,
                    D[i - 1, j - 1] + (IF ref[i] = hyp[j] THEN 0 ELSE 1)})
    IN  D[Len(ref), Len(hyp)]

\* compute_wer: a reference of which nothing is left is wrong if anything is heard.
Passes(ref, hyp) ==
    IF ref = <<>> THEN hyp = <<>> \/ AllowedNum >= AllowedDen
    ELSE EditDistance(ref, hyp) * AllowedDen <= AllowedNum * Len(ref)

\* A text of nothing but punctuation is a text: its words are none.
WerOf(row) ==
    IF row.text = <<>> \/ ~row.audio THEN {[Nothing EXCEPT !.werError = TRUE]}
    ELSE {[Nothing EXCEPT !.werError = TRUE]} \cup
         {[Nothing EXCEPT !.transcript = hyp, !.errors = EditDistance(row.text[1], hyp),
             !.passed = IF Passes(row.text[1], hyp) THEN "yes" ELSE "no"] : hyp \in Transcripts}
UtmosOf(row, fields) ==
    {[fields EXCEPT !.utmosError = TRUE]} \cup
      IF row.audio THEN {[fields EXCEPT !.utmos = 3]} ELSE {}

\* The next row, by the verifiers that are configured.
VerifyRow ==
    /\ r.pc = "verify" /\ r.todo # <<>>
    /\ LET row == Head(r.todo) IN
       IF row.id = 0
       THEN r' = [r EXCEPT !.todo = Tail(@), !.runErrors = @ + 1]
       ELSE \E wer \in IF r.config.wer THEN WerOf(row) ELSE {Nothing} :
            \E all \in IF r.config.utmos THEN UtmosOf(row, wer) ELSE {wer} :
              r' = [r EXCEPT !.todo = Tail(@), !.done = Append(@, [row |-> row, of |-> all])]

Rows(Test(_)) == Len(SelectSeq(r.done, Test))
\* BUG: a score that is missing is not an error of the request.
ErrorRequestsOfWer == Rows(LAMBDA x : x.of.werError)
ErrorRequests == Rows(LAMBDA x : x.of.werError \/ x.of.utmosError)

Summarize ==
    /\ r.pc = "verify" /\ r.todo = <<>>
    /\ r' = [r EXCEPT !.pc = "saved", !.summary = <<[
         evaluated   |-> Len(r.done),
         transcribed |-> Rows(LAMBDA x : x.of.errors >= 0),
         passed      |-> Rows(LAMBDA x : x.of.passed = "yes"),
         failed      |-> Rows(LAMBDA x : x.of.passed = "no"),
         errors      |-> ErrorRequests,
         scored      |-> Rows(LAMBDA x : x.of.utmos # 0),
         unscored    |-> Rows(LAMBDA x : x.of.utmosError)]>>]

\* The rows and the summary are saved before a strict verification fails.
Conclude ==
    /\ r.pc = "saved"
    /\ LET s == r.summary[1]
           bad == s.failed > 0 \/ s.errors > 0 \/ r.runErrors > 0
       IN  r' = [r EXCEPT !.pc = IF r.config.strict /\ bad THEN "raised" ELSE "done"]

VerifyNext == VerifyRow \/ Summarize \/ Conclude

-----------------------------------------------------------------------------
\* The least that must be changed of the one to have the other: all but the
\* largest set of pairs of words in order, those that differ counted as well.
Pairings(ref, hyp) ==
    {M \in SUBSET ((1 .. Len(ref)) \X (1 .. Len(hyp))) :
        \A p, q \in M : p = q \/ (p[1] < q[1] /\ p[2] < q[2]) \/ (q[1] < p[1] /\ q[2] < p[2])}
LeastChanges(ref, hyp) ==
    Min({Len(ref) + Len(hyp) - 2 * Cardinality(M)
           + Cardinality({p \in M : ref[p[1]] # hyp[p[2]]}) : M \in Pairings(ref, hyp)})

\* Each row is passed or failed as the least number of changes says, and a row
\* that is neither says why.
RowsAreJudgedRight ==
    \A i \in DOMAIN r.done : LET x == r.done[i] IN
      /\ r.config.wer => (x.of.passed = "none" <=> x.of.werError)
      /\ x.of.passed # "none" =>
           LET ref == x.row.text[1]
           IN  /\ x.of.errors = LeastChanges(ref, x.of.transcript)
               /\ ref # <<>> => (x.of.passed = "yes"
                    <=> x.of.errors * AllowedDen <= AllowedNum * Len(ref))
      /\ r.config.utmos => (x.of.utmos = 0 <=> x.of.utmosError)

\* A strict verification that ends well judged every row it was to judge, by
\* every verifier, and passed it; whatever it does, it leaves a summary in which
\* each row of the file has its place.
StrictMeansVerified ==
    r.pc \in {"done", "raised"} =>
      LET s == r.summary[1]
          fine(x) == ~x.of.werError /\ ~x.of.utmosError /\ x.of.passed # "no"
                     /\ (r.config.wer => x.of.passed = "yes") /\ (r.config.utmos => x.of.utmos # 0)
      IN  /\ r.config.strict =>
               (r.pc = "done" <=> r.runErrors = 0 /\ \A i \in DOMAIN r.done : fine(r.done[i]))
          /\ ~r.config.strict => r.pc = "done"
          /\ s.passed + s.failed = s.transcribed /\ s.failed + s.passed <= s.evaluated
          /\ r.config.wer => s.transcribed + Rows(LAMBDA x : x.of.werError) = s.evaluated
          /\ r.config.utmos => s.scored + s.unscored = s.evaluated
          /\ r.total > 0 => s.evaluated + r.skipped + r.runErrors = r.total

VerificationIsRight == RowsAreJudgedRight /\ StrictMeansVerified

-----------------------------------------------------------------------------
(***************************************************************************)
(* The scoring of one long recording (verification/longform.py): the audio *)
(* is cut into chunks of several lengths, one per track, the transcripts   *)
(* of the chunks are aligned with the reference once, the errors of the    *)
(* alignment are given to chunks and spread over buckets of time.          *)
(*                                                                         *)
(* The state is the record l.  Time is counted in samples, words in        *)
(* 1/Unit: Unit is a multiple of every length that a share is divided by.  *)
(* Chunks, bins and buckets are numbered from 0, as in the code.           *)
(***************************************************************************)

Zero == [hits |-> 0, substitutions |-> 0, deletions |-> 0, insertions |-> 0, ref |-> 0]
ScoringInit == \E job \in Jobs :
    l = [pc |-> "transcribe", samples |-> job.samples, tracks |-> job.tracks,
         notes |-> {"wer", "utmos", "sim"} \ job.tracks,
         heard |-> <<>>, ops |-> <<>>, counts |-> <<>>, position |-> 0, deleted |-> <<>>,
         scores |-> <<>>, cosines |-> <<>>, bins |-> <<>>, rows |-> <<>>, summary |-> {}]

-----------------------------------------------------------------------------
(* Chunks.                                                                 *)

\* A last chunk that is short stays only if it is at least `tail` long.
Spans(len, tail) ==
    LET rest == l.samples % len
        kept == rest > 0 /\ rest >= tail
    IN  [k \in 0 .. l.samples \div len - (IF kept THEN 0 ELSE 1) |->
           [from |-> k * len, to |-> Min({(k + 1) * len, l.samples})]]
Duration(span) == span.to - span.from
Overlap(from1, to1, from2, to2) == Max({0, Min({to1, to2}) - Max({from1, from2})})
SumOver(S, f(_)) == FoldSet(LAMBDA x, sum : sum + f(x), 0, S)

WordSpans == Spans(ChunkLen, 0)

\* The n-grams of a transcript that were there before.
Duplicated(words) ==
    IF Len(words) < NGram THEN 0
    ELSE LET At(i) == SubSeq(words, i, i + NGram - 1)
             starts == 1 .. Len(words) - NGram + 1
         IN  Cardinality(starts) - Cardinality({At(i) : i \in starts})

\* The next chunk is transcribed; without a transcriber there is no track.
Transcribe ==
    /\ l.pc = "transcribe" /\ "wer" \in l.tracks
    /\ Len(l.heard) < Cardinality(DOMAIN WordSpans)
    /\ \E words \in Heard : l' = [l EXCEPT !.heard = Append(@, words)]

\* hyp_offsets: where the words of chunk k begin.
Offset(k) == SumOver(1 .. k, LAMBDA i : Len(l.heard[i]))
HypWords == Offset(Len(l.heard))

StartAlign ==
    /\ l.pc = "transcribe" /\ "wer" \in l.tracks
    /\ Len(l.heard) = Cardinality(DOMAIN WordSpans)
    /\ l' = [l EXCEPT !.pc = "align", !.counts = [k \in DOMAIN WordSpans |-> Zero],
                      !.deleted = [p \in 0 .. HypWords |-> 0]]
SkipWords ==
    /\ l.pc = "transcribe" /\ "wer" \notin l.tracks
    /\ l' = [l EXCEPT !.pc = "score"]

-----------------------------------------------------------------------------
(* The alignment, op by op.                                                *)

\* _spread_hyp_range: how many of n words from position p on are of chunk k.
Spread(k, p, n) == Overlap(p, p + n, Offset(k), Offset(k + 1))

\* _deletion_shares: the chunk found by bisection, and the empty ones at p.
\* BUG: only the chunk found by bisection.
OwnersButEmpty(p) ==
    LET last == Len(l.heard) - 1
        notAfter == Cardinality({k \in 0 .. last + 1 : Offset(k) <= p})
    IN  {Min({Max({0, notAfter - 1}), last})}
Owners(p) ==
    LET last == Len(l.heard) - 1
        notAfter == Cardinality({k \in 0 .. last + 1 : Offset(k) <= p})
        before == Cardinality({k \in 0 .. last + 1 : Offset(k) < p})
    IN  {Min({Max({0, notAfter - 1}), last})}
        \cup {k \in before .. notAfter - 1 : k <= last /\ Offset(k) = p /\ Offset(k + 1) = p}
Share(k, p) ==
    IF k \in Owners(p)
    THEN (Unit * Duration(WordSpans[k])) \div SumOver(Owners(p), LAMBDA j : Duration(WordSpans[j]))
    ELSE 0

\* The ops are runs: neighbours differ, and words that are left out next to
\* words that are put in would be substitutions.
Alternates(op) ==
    IF l.ops = <<>> THEN TRUE ELSE {Last(l.ops), op} \notin {{op}, {"insert", "delete"}}
CanTake(op) == l.pc = "align" /\ Len(l.ops) < MaxOps /\ Alternates(op)
Moves(op, n) == [l EXCEPT !.ops = Append(@, op), !.position = @ + n]

AlignEqual(n) ==
    /\ CanTake("equal") /\ l.position + n <= HypWords
    /\ l' = [Moves("equal", n) EXCEPT !.counts = [k \in DOMAIN @ |->
              LET x == Unit * Spread(k, l.position, n)
              IN  [@[k] EXCEPT !.hits = @ + x, !.ref = @ + x]]]
AlignSubstitute(n) ==
    /\ CanTake("substitute") /\ l.position + n <= HypWords
    /\ l' = [Moves("substitute", n) EXCEPT !.counts = [k \in DOMAIN @ |->
              LET x == Unit * Spread(k, l.position, n)
              IN  [@[k] EXCEPT !.substitutions = @ + x, !.ref = @ + x]]]
AlignInsert(n) ==
    /\ CanTake("insert") /\ l.position + n <= HypWords
    /\ l' = [Moves("insert", n) EXCEPT !.counts = [k \in DOMAIN @ |->
              [@[k] EXCEPT !.insertions = @ + Unit * Spread(k, l.position, n)]]]
AlignDelete(n) ==
    /\ CanTake("delete")
    /\ l' = [Moves("delete", 0) EXCEPT !.deleted[l.position] = @ + n,
               !.counts = [k \in DOMAIN @ |->
                 LET x == n * Share(k, l.position)
                 IN  [@[k] EXCEPT !.deletions = @ + x, !.ref = @ + x]]]

RefWords == SumOver(DOMAIN l.counts, LAMBDA k : l.counts[k].ref)
\* The reference has a word.
EndAlign ==
    /\ l.pc = "align" /\ l.position = HypWords /\ RefWords > 0
    /\ l' = [l EXCEPT !.pc = "score"]

-----------------------------------------------------------------------------
(* The other tracks.                                                       *)
Score ==
    /\ l.pc = "score"
    /\ \E scores \in IF "utmos" \in l.tracks
                     THEN [DOMAIN Spans(ScoreLen, ScoreTail) -> Scores] ELSE {<<>>} :
         l' = [l EXCEPT !.pc = "speaker", !.scores = scores]

\* An anchor without a norm ends the scoring, and writes nothing.
Speaker ==
    /\ l.pc = "speaker"
    /\ \/ \E cosines \in IF "sim" \in l.tracks
                         THEN [DOMAIN Spans(WindowLen, WindowLen) -> Cosines] ELSE {<<>>} :
            l' = [l EXCEPT !.pc = "energy", !.cosines = cosines]
       \/ "sim" \in l.tracks /\ l' = [l EXCEPT !.pc = "raised"]

Energy ==
    /\ l.pc = "energy"
    /\ \E bins \in [DOMAIN Spans(BinLen, 0) -> Sounds] :
         l' = [l EXCEPT !.pc = "assemble", !.bins = bins]

-----------------------------------------------------------------------------
(* Buckets.                                                                *)
NumBuckets == Max({1, (l.samples + BucketLen - 1) \div BucketLen})

\* bucket_weighted: what bucket b gets of the values of the spans.
Weighted(b, spans, values) ==
    SumOver(DOMAIN spans, LAMBDA k :
      (values[k] * Overlap(spans[k].from, spans[k].to, b * BucketLen, (b + 1) * BucketLen))
        \div Duration(spans[k]))
\* A score belongs to the bucket its chunk starts in, if it is a score.
Falling(b, spans, values) ==
    {k \in DOMAIN values : values[k] # 0 /\ Min({spans[k].from \div BucketLen, NumBuckets - 1}) = b}
MeanAndMin(ks, values) == IF ks = {} THEN <<>>
    ELSE <<SumOver(ks, LAMBDA k : values[k]), Cardinality(ks), Min({values[k] : k \in ks})>>

Errors(c) == c.substitutions + c.deletions + c.insertions
Row(b) ==
    LET Of(value(_)) == Weighted(b, WordSpans, [k \in DOMAIN WordSpans |-> value(k)])
    IN  [ref        |-> Of(LAMBDA k : l.counts[k].ref),
         errors     |-> Of(LAMBDA k : Errors(l.counts[k])),
         insertions |-> Of(LAMBDA k : l.counts[k].insertions),
         deletions  |-> Of(LAMBDA k : l.counts[k].deletions),
         repeats    |-> Of(LAMBDA k : Unit * Duplicated(l.heard[k + 1]))]
Sound(b) ==
    LET spans == Spans(BinLen, 0)
        Of(value(_)) == Weighted(b, spans, [k \in DOMAIN spans |-> value(l.bins[k]) * Duration(spans[k])])
    IN  [power |-> Of(LAMBDA s : s.power), silent |-> Of(LAMBDA s : s.silent),
         time |-> Of(LAMBDA s : 1)]

Assemble ==
    /\ l.pc = "assemble"
    /\ l' = [l EXCEPT !.pc = "write", !.rows = [b \in 0 .. NumBuckets - 1 |-> [
         words |-> IF "wer" \in l.tracks THEN Row(b) ELSE <<>>,
         score |-> MeanAndMin(Falling(b, Spans(ScoreLen, ScoreTail), l.scores), l.scores),
         speaker |-> MeanAndMin(Falling(b, Spans(WindowLen, WindowLen), l.cosines), l.cosines),
         sound |-> Sound(b)]]]

\* A track is in the summary if it has a value; of a track without one there is
\* a note if its model was missing, or if it is the scores.
Scored == {k \in DOMAIN l.scores : l.scores[k] # 0}
Windows == {k \in DOMAIN l.cosines : l.cosines[k] # 0}
Write ==
    /\ l.pc = "write"
    /\ l' = [l EXCEPT !.pc = "done",
         !.summary = (l.tracks \cap {"wer"}) \cup (IF Scored # {} THEN {"utmos"} ELSE {})
                     \cup (IF Windows # {} THEN {"sim"} ELSE {}),
         !.notes = @ \cup IF "utmos" \in l.tracks /\ Scored = {} THEN {"no scores"} ELSE {}]

ScoringNext ==
    \/ Transcribe \/ StartAlign \/ SkipWords \/ EndAlign
    \/ \E n \in 1 .. 2 : AlignEqual(n) \/ AlignSubstitute(n) \/ AlignInsert(n) \/ AlignDelete(n)
    \/ Score \/ Speaker \/ Energy \/ Assemble \/ Write

-----------------------------------------------------------------------------
\* Every word that was heard is counted, once, in the chunk it was heard in,
\* whatever the alignment; nothing that was left out is lost, and what was left
\* out at a place is shared, by their length, by the chunk that speaks there and
\* the silent ones: a chunk that says nothing is not spared.
EveryWordIsCounted ==
    l.pc \in {"score", "done"} /\ "wer" \in l.tracks =>
      LET chunks == DOMAIN WordSpans
          words(k) == Len(l.heard[k + 1])
          shares(p) ==
            LET there == {k \in chunks : \/ Offset(k) <= p /\ p < Offset(k + 1)
                                         \/ Offset(k) = p /\ words(k) = 0}
            IN  IF there = {} THEN {Max(chunks)} ELSE there
          due(k) == SumOver({p \in DOMAIN l.deleted : k \in shares(p)}, LAMBDA p :
                      (l.deleted[p] * Unit * Duration(WordSpans[k]))
                        \div SumOver(shares(p), LAMBDA j : Duration(WordSpans[j])))
      IN  /\ \A k \in chunks : l.counts[k].hits + l.counts[k].substitutions
                               + l.counts[k].insertions = Unit * words(k)
          /\ \A k \in chunks : l.counts[k].deletions = due(k)
          /\ SumOver(chunks, LAMBDA k : l.counts[k].deletions)
               = Unit * SumOver(DOMAIN l.deleted, LAMBDA p : l.deleted[p])

\* The buckets have all of the words, the errors and the sound of the recording:
\* nothing is lost where chunks, bins and buckets do not line up.
BucketsHaveAll ==
    l.pc = "done" =>
      LET rows == l.rows
          total(f(_)) == SumOver(DOMAIN rows, LAMBDA b : f(rows[b]))
          chunks == DOMAIN l.counts
      IN  /\ total(LAMBDA row : row.sound.time) = l.samples
          /\ \A b \in DOMAIN rows : rows[b].sound.time > 0
          /\ total(LAMBDA row : row.sound.power)
               = SumOver(DOMAIN l.bins, LAMBDA k : l.bins[k].power * Duration(Spans(BinLen, 0)[k]))
          /\ "wer" \in l.tracks =>
               /\ total(LAMBDA row : row.words.ref) = RefWords
               /\ total(LAMBDA row : row.words.errors) = SumOver(chunks, LAMBDA k : Errors(l.counts[k]))
               /\ \A b \in DOMAIN rows : rows[b].words.errors
                                           >= rows[b].words.insertions + rows[b].words.deletions

\* Every score is in one bucket, and one that is in none is of a chunk without
\* a score; a track that is not in the summary has no bucket either.
ScoresAreInTheirBuckets ==
    l.pc = "done" =>
      /\ SumOver(DOMAIN l.rows, LAMBDA b : IF l.rows[b].score = <<>> THEN 0 ELSE l.rows[b].score[2])
           = Cardinality(Scored)
      /\ \A b \in DOMAIN l.rows : l.rows[b].speaker # <<>> => "sim" \in l.summary
      /\ {"wer", "utmos"} \ l.summary \subseteq
           l.notes \cup (IF "no scores" \in l.notes THEN {"utmos"} ELSE {})

WordsKeepTheirPlace == EveryWordIsCounted /\ BucketsHaveAll /\ ScoresAreInTheirBuckets
=============================================================================
