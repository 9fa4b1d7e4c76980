--------------------------- MODULE MicroBenchmarks ---------------------------
(***************************************************************************)
(* The microbenchmarks (microbench/): the prefill and decode benchmarks,   *)
(* and the automatic stress sweep.  The two are independent: each has a    *)
(* variable, and an Init and a Next, of its own.                           *)
(***************************************************************************)
EXTENDS Integers, Sequences, FiniteSets, FiniteSetsExt, SequencesExt

CONSTANTS
    \* of the prefill and decode benchmarks
    DecodeBenches,  \* [batch, input, samples, chunk] of the decode benchmarks
    PrefillBenches, \* [lengths, samples] of the prefill benchmarks
    Multiplier,      \* _OUTPUT_TOKEN_MULTIPLIER
    \* of the stress sweep
    Points,        \* what a run of a level can measure: <<throughput, interactivity>>
    Resumable,     \* the c=N directories a resume directory can hold
    MaxProbes,     \* auto_max_probes
    FillPoints,    \* auto_fill_points
    Threshold      \* auto_throughput_threshold, in tenths

VARIABLES b, w

-----------------------------------------------------------------------------
(***************************************************************************)
(* The prefill and decode microbenchmarks (src/veeksha/microbench), with   *)
(* the decode windows of the text evaluator                                *)
(* (src/veeksha/evaluator/performance/text.py) their verdict rests on.     *)
(*                                                                         *)
(* A prefill benchmark runs the sessions of a stair of prompt lengths one  *)
(* at a time and validates the rows the evaluator kept.  A decode          *)
(* benchmark launches a batch of equal requests and measures the times     *)
(* between tokens while the whole batch is decoding; the engine, which is  *)
(* not part of the code, is the one decode.py reasons about: an iteration  *)
(* has a budget of tokens, decoding requests take one each, the rest goes  *)
(* to the oldest prompts.  A tick is one iteration of the engine.          *)
(***************************************************************************)

CeilDiv(x, y) == (x + y - 1) \div y

ComputePrefillIterations(input, chunk, active) == CeilDiv(input, chunk - active)

\* BUG: the ramp-up of the batch is forgotten.
RequiredDecodeOutputTokensFlat(k) == k.samples

RequiredDecodeOutputTokens(k) ==
    IF k.batch = 1 THEN k.samples
    ELSE k.samples + (k.batch - 1) * ComputePrefillIterations(k.input, k.chunk, k.batch)

----------------------------------------------------------------------------
(* Decode windows.  A trace is the sequence of arrival times of a          *)
(* request's chunks; it decodes from its first chunk to its last.          *)

Eligible(T) == {i \in DOMAIN T : Len(T[i]) >= 2 /\ Head(T[i]) < Last(T[i])}

\* <<time, +1 or -1, request>>, starts before ends at the same time.
Events(T) ==
    SetToSortSeq({<<Head(T[i]), 1, i>> : i \in Eligible(T)}
                    \cup {<<Last(T[i]), -1, i>> : i \in Eligible(T)},
                 LAMBDA x, y : \/ x[1] < y[1]
                               \/ x[1] = y[1] /\ x[2] > y[2]
                               \/ x[1] = y[1] /\ x[2] = y[2] /\ x[3] < y[3])

\* The requests decoding after the k-th event, and the most that ever are.
Active(ev, k) == Cardinality({j \in 1..k : ev[j][2] = 1})
                   - Cardinality({j \in 1..k : ev[j][2] = -1})

MaxObserved(T) == LET ev == Events(T)
                  IN  Max({1} \cup {Active(ev, k) : k \in DOMAIN ev})

\* BUG: the event is counted before the stretch that ends at it is judged.
SegmentsLate(T, min) ==
    LET ev == Events(T)
        stretch == [k \in 1..(Len(ev) - 1) |->
                       [seg |-> <<ev[k][1], ev[k + 1][1]>>, active |-> Active(ev, k + 1)]]
        kept == SelectSeq(stretch, LAMBDA s : s.seg[1] < s.seg[2] /\ s.active >= min)
    IN  [k \in DOMAIN kept |-> kept[k].seg]

\* The stretches between two events with at least min requests decoding.
Segments(T, min) ==
    LET ev == Events(T)
        stretch == [k \in 1..(Len(ev) - 1) |->
                       [seg |-> <<ev[k][1], ev[k + 1][1]>>, active |-> Active(ev, k)]]
        kept == SelectSeq(stretch, LAMBDA s : s.seg[1] < s.seg[2] /\ s.active >= min)
    IN  [k \in DOMAIN kept |-> kept[k].seg]

\* The windows a strategy analyses: every segment, the first, or the
\* earliest of the longest.
Selected(segs, strategy) ==
    LET length(s) == s[2] - s[1]
    IN  CASE segs = <<>> \/ strategy = "all" -> segs
          [] strategy = "first" -> <<Head(segs)>>
          [] OTHER -> <<SelectSeq(segs, LAMBDA s :
                           \A t \in ToSet(segs) : length(t) <= length(s))[1]>>

\* The chunks, but a request's first, that arrive in a window, both ends included.
Samples(T, seg) ==
    {x \in UNION {{i} \X (2..Len(T[i])) : i \in Eligible(T)} :
        seg[1] <= T[x[1]][x[2]] /\ T[x[1]][x[2]] <= seg[2]}

TbcCount(T, segs) ==
    FoldLeft(LAMBDA n, s : n + Cardinality(Samples(T, s)), 0, segs)

\* The validation of a decode run from its windows (max_observed, all).
DecodeVerdict(T, samples) ==
    LET segs == Selected(Segments(T, MaxObserved(T)), "all")
    IN  CASE segs = <<>> \/ TbcCount(T, segs) = 0 -> "FAIL"
          [] segs # <<>> /\ TbcCount(T, segs) \in 1..(samples - 1) -> "WARN"
          [] OTHER -> "PASS"

----------------------------------------------------------------------------
(* A decode run.                                                           *)

DecodeInit ==
    \E k \in DecodeBenches :
       b = [kind |-> "decode", pc |-> "run", now |-> 0, conf |-> k,
            tokens |-> RequiredDecodeOutputTokens(k) * Multiplier,
            left |-> [i \in 1..k.batch |-> k.input],
            got |-> [i \in 1..k.batch |-> <<>>], full |-> 0, verdict |-> "none"]

Decoding == {i \in 1..b.conf.batch :
                b.left[i] = 0 /\ b.got[i] # <<>> /\ Len(b.got[i]) < b.tokens}
Waiting == {i \in 1..b.conf.batch : b.left[i] > 0}

\* What is left of prompt i when the budget goes to the prompts in order;
\* an engine may also fill the iteration from the oldest prompt only.
LeftAfter(budget, share) ==
    [i \in 1..b.conf.batch |->
        LET before == FoldSet(LAMBDA j, n : n + b.left[j], 0, 1..(i - 1))
            room == IF budget > before THEN budget - before ELSE 0
        IN  IF i \notin Waiting \/ (~share /\ i # Min(Waiting)) THEN b.left[i]
            ELSE IF room >= b.left[i] THEN 0 ELSE b.left[i] - room]

Iterate ==
    /\ b.kind = "decode" /\ b.pc = "run"
    /\ Decoding \cup Waiting # {}
    /\ \E share \in BOOLEAN :
         LET left == LeftAfter(b.conf.chunk - Cardinality(Decoding), share)
             ready == {i \in Waiting : left[i] = 0}
             now == b.now + 1
         IN  b' = [b EXCEPT !.now = now, !.left = left,
                       !.got = [i \in DOMAIN @ |->
                                  IF i \in Decoding \cup ready
                                  THEN Append(@[i], now) ELSE @[i]],
                       !.full = IF ready # {} /\ ready = Waiting THEN now ELSE @]

ValidateDecode ==
    /\ b.kind = "decode" /\ b.pc = "run"
    /\ Decoding \cup Waiting = {}
    /\ b' = [b EXCEPT !.pc = "done", !.verdict = DecodeVerdict(b.got, b.conf.samples)]

----------------------------------------------------------------------------
(* A prefill run.                                                          *)

\* BUG: the repetitions of a step are counted from one.
StairNextEarly(s, k) ==
    IF s.repeat + 2 < k.samples THEN [s EXCEPT !.repeat = @ + 1]
    ELSE [step |-> IF s.step = Len(k.lengths) THEN s.step ELSE s.step + 1, repeat |-> 0]

\* The stair generator: the next step, repeating each value, staying on the last.
StairNext(s, k) ==
    IF s.repeat + 1 < k.samples THEN [s EXCEPT !.repeat = @ + 1]
    ELSE [step |-> IF s.step = Len(k.lengths) THEN s.step ELSE s.step + 1, repeat |-> 0]

PrefillInit ==
    \E k \in PrefillBenches :
       b = [kind |-> "prefill", pc |-> "run", now |-> 0, conf |-> k,
            stair |-> [step |-> 1, repeat |-> 0], session |-> 0, rows |-> <<>>,
            verdict |-> "none", warned |-> FALSE]

Expected(k) == Len(k.lengths) * k.samples

\* One session, one at a time: a row with one output token or none, or no
\* row at all when the request errs.
RunSession ==
    /\ b.kind = "prefill" /\ b.pc = "run"
    /\ b.session < Expected(b.conf)
    /\ \E row \in {<<[session |-> b.session, out |-> n, start |-> b.now, end |-> b.now + 1,
                      prompt |-> b.conf.lengths[b.stair.step]]>> : n \in 0..1} \cup {<<>>} :
         b' = [b EXCEPT !.session = @ + 1, !.now = @ + 1,
                        !.stair = StairNext(@, b.conf), !.rows = @ \o row]

\* The rows in the order of their sessions against the configuration:
\* count, output of every row, one at a time, the stair of prompts.
PrefillFails(rows, k) ==
    rows = <<>> \/ Len(rows) # Expected(k) \/ \E i \in DOMAIN rows : rows[i].out = 0

StairWarning(rows, k) ==
    \E i \in DOMAIN rows :
       LET step == (i - 1) \div k.samples + 1
       IN  step <= Len(k.lengths) /\ rows[i].prompt # k.lengths[step]

OverlapWarning(rows) == \E i \in 2..Len(rows) : rows[i].start < rows[i - 1].end

\* Also before every session ran: the benchmark timeout.
ValidatePrefill ==
    /\ b.kind = "prefill" /\ b.pc = "run"
    /\ b' = [b EXCEPT !.pc = "done",
                      !.verdict = IF PrefillFails(b.rows, b.conf) THEN "FAIL" ELSE "PASS",
                      !.warned = OverlapWarning(b.rows) \/ StairWarning(b.rows, b.conf)]

BenchInit == DecodeInit \/ PrefillInit

BenchNext == Iterate \/ ValidateDecode \/ RunSession \/ ValidatePrefill


----------------------------------------------------------------------------
\* A decode benchmark on such an engine finds its windows: whatever the
\* batch and the prompt, the first request still decodes when the last one
\* starts, and the windows hold the samples asked for.
DecodeBenchMeasures ==
    b.kind = "decode" =>
        /\ b.pc = "done" => b.verdict = "PASS"
        /\ b.full > 0 /\ b.now = b.full /\ b.conf.batch > 1 =>
              Len(b.got[1]) + b.conf.samples <= b.tokens

\* A prefill benchmark is declared valid exactly when every session ran and
\* produced output, and then its sessions did run one at a time and in the
\* order of the stair.
PrefillVerdictIsRight ==
    b.kind = "prefill" /\ b.pc = "done" =>
        /\ b.verdict = "PASS" <=>
              /\ b.session = Expected(b.conf) /\ Len(b.rows) = b.session
              /\ \A i \in DOMAIN b.rows : b.rows[i].out > 0
        /\ b.verdict = "PASS" => ~b.warned

\* The segments are exactly the time during which enough requests decode.
WindowsAreRight(T, min) ==
    LET segs == Segments(T, min)
        ends == {Last(T[i]) : i \in DOMAIN T}
        slots == 0..(Max(ends) - 1)
        most == MaxObserved(T)
        active(u) == Cardinality({i \in Eligible(T) : Head(T[i]) <= u /\ u + 1 <= Last(T[i])})
    IN  /\ {u \in slots : \E s \in ToSet(segs) : s[1] <= u /\ u + 1 <= s[2]}
              = {u \in slots : active(u) >= min}
        /\ \A u \in slots : active(u) <= most

MicrobenchIsSound ==
    /\ DecodeBenchMeasures /\ PrefillVerdictIsRight
    /\ b.kind = "decode" /\ b.pc = "done" =>
          \A min \in 1..b.conf.batch : WindowsAreRight(b.got, min)

-----------------------------------------------------------------------------
(***************************************************************************)
(* The automatic stress sweep (src/veeksha/microbench/stress.py): loads    *)
(* the points of a directory to resume, doubles the load until the         *)
(* throughput stops growing, takes the bounds of the interesting range     *)
(* from what was measured and fills it with logarithmically spaced levels, *)
(* reusing a measurement within 20% of a target.  A point is the output    *)
(* throughput and the interactivity of one load level; NoPoint is a run    *)
(* that left fewer than two requests after the warmup.                     *)
(***************************************************************************)

NoPoint == <<>>
Throughput(p) == p[1]
Interactivity(p) == p[2]

----------------------------------------------------------------------------
(* The levels.                                                             *)

\* The integer nearest to the i-th of n values spaced evenly, in logarithm,
\* from lo to hi: k is nearest to the m-th root of lo^(m-i) * hi^i.
Spaced(lo, hi, i, m) ==
    LET x == 2^m * lo^(m - i) * hi^i
    IN  CHOOSE k \in 1..hi : (2*k - 1)^m <= x /\ x < (2*k + 1)^m

\* BUG: the last of the levels is left out (an off-by-one in range(n)).
LogSpacedLevelsShort(lo, hi, n) ==
    IF n <= 1 THEN <<lo>>
    ELSE SetToSortSeq({Spaced(lo, hi, i, n) : i \in 0..(n - 1)}, <)

LogSpacedLevels(lo, hi, n) ==
    IF n <= 1 THEN <<lo>>
    ELSE SetToSortSeq({Spaced(lo, hi, i, n - 1) : i \in 0..(n - 1)}, <)

\* |measured - target| / target <= 0.2
Near(c, target) == 5 * (IF c > target THEN c - target ELSE target - c) <= target

FindCloseEnough(target, levels) == {c \in levels : Near(c, target)}

----------------------------------------------------------------------------
(* The state: what is measured, what lies on disk, the levels run (with    *)
(* what each run gave), and where the sweep stands.                        *)

Measured == DOMAIN w.measured

\* The resume directory holds complete and useless runs; a useless one is
\* linked into the new directory like the others but gives no point, and when
\* its level is run again the run is written through the link.
SweepInit ==
    \E found \in SUBSET Resumable : \E got \in [found -> Points \cup {NoPoint}] :
        LET good == {c \in found : got[c] # NoPoint}
        IN  w = [pc |-> "probe", c |-> 1, prev |-> 0, probes |-> 0,
                 measured |-> [c \in good |-> got[c]], resumed |-> good, linked |-> found,
                 runs |-> <<>>, targets |-> <<>>, lower |-> 0, upper |-> 0,
                 results |-> <<>>]

Growing(p) == \/ w.prev = 0
              \/ 10 * (Throughput(p) - w.prev) >= Threshold * w.prev

\* BUG: the points measured before are not looked up.
ProbeAfresh(c) ==
    {[point |-> p, runs |-> Append(w.runs, [level |-> c, point |-> p])]
             : p \in Points \cup {NoPoint}}

\* A level is measured only if neither this sweep nor a resumed one has its
\* point: the answers a probe of c can have, with the runs it makes.
Probe(c) ==
    IF c \in Measured THEN {[point |-> w.measured[c], runs |-> w.runs]}
    ELSE {[point |-> p, runs |-> Append(w.runs, [level |-> c, point |-> p])]
             : p \in Points \cup {NoPoint}}

Remember(c, p) == IF p = NoPoint THEN w.measured
                  ELSE [l \in Measured \cup {c} |-> IF l = c THEN p ELSE w.measured[l]]

\* One step of phase 1.
ProbeUp ==
    /\ w.pc = "probe" /\ w.probes < MaxProbes
    /\ \E r \in Probe(w.c) :
         LET on == r.point # NoPoint /\ Growing(r.point)
         IN  w' = [w EXCEPT !.runs = r.runs, !.measured = Remember(w.c, r.point),
                            !.probes = @ + 1,
                            !.prev = IF on THEN Throughput(r.point) ELSE @,
                            !.c = IF on THEN 2 * @ ELSE @,
                            !.pc = IF on THEN "probe" ELSE "bounds"]

StopProbing == /\ w.pc = "probe" /\ w.probes = MaxProbes
               /\ w' = [w EXCEPT !.pc = "bounds"]

\* Phase 2: the lowest level whose interactivity is within the threshold of
\* the best one, up to the highest level measured.
SetBounds ==
    /\ w.pc = "bounds"
    /\ IF Measured = {} THEN w' = [w EXCEPT !.pc = "done"]
       ELSE LET best == Max({Interactivity(w.measured[c]) : c \in Measured})
                lo == Min({c \in Measured : 10 * Interactivity(w.measured[c])
                                               >= best * (10 - Threshold)})
                hi == Max(Measured)
            IN  w' = [w EXCEPT !.pc = "fill", !.lower = lo, !.upper = hi,
                               !.targets = LogSpacedLevels(lo, hi, FillPoints)]

\* Phase 3, one target.
Fill ==
    /\ w.pc = "fill" /\ w.targets # <<>>
    /\ LET c == Head(w.targets)
       IN  IF c \in Measured \/ FindCloseEnough(c, Measured) # {}
           THEN w' = [w EXCEPT !.targets = Tail(@)]
           ELSE \E r \in Probe(c) :
                  w' = [w EXCEPT !.targets = Tail(@), !.runs = r.runs,
                                 !.measured = Remember(c, r.point)]

\* BUG: what was measured, without a look at the disk.
ReportMeasured == /\ w.pc = "fill" /\ w.targets = <<>>
                  /\ w' = [w EXCEPT !.pc = "done", !.results = SetToSortSeq(Measured, <)]

\* The table, the files and the plots are made from the points found again on
\* disk, by level; the search does not enter the linked directories.
Report == /\ w.pc = "fill" /\ w.targets = <<>>
          /\ w' = [w EXCEPT !.pc = "done", !.results = SetToSortSeq(Measured \ w.linked, <)]

SweepNext == ProbeUp \/ StopProbing \/ SetBounds \/ Fill \/ Report


----------------------------------------------------------------------------
\* Benchmark time is never spent on a level whose point is known: a level
\* is run again only when its earlier runs gave no point, and a resumed
\* point is never measured again.
NoWastedRun ==
    /\ \A i, j \in DOMAIN w.runs :
          i < j /\ w.runs[i].level = w.runs[j].level => w.runs[i].point = NoPoint
    /\ \A i \in DOMAIN w.runs : w.runs[i].level \notin w.resumed

\* What is measured covers the range the sweep announced: from its lower to its
\* upper bound every step is at most the spacing of the fill: each target is
\* measured, or near a measurement, or was run and gave nothing.  The report has
\* the points of this sweep's own directories, and no others.
RangeIsCovered ==
    LET gave == {r.level : r \in {x \in ToSet(w.runs) : x.point # NoPoint}} IN
    w.pc = "done" /\ Measured # {} =>
        /\ {w.lower, w.upper} \subseteq Measured
        /\ Measured = w.resumed \cup gave
        /\ ToSet(w.results) = gave \ w.linked
        /\ \A i \in 0..(FillPoints - 1) :
             LET t == Spaced(w.lower, w.upper, i, FillPoints - 1)
             IN  \/ FindCloseEnough(t, Measured) # {}
                 \/ \E r \in ToSet(w.runs) : r = [level |-> t, point |-> NoPoint]

SweepKnowsItsRange == NoWastedRun /\ RangeIsCovered
=============================================================================
