----------------------------- MODULE SloVerdicts -----------------------------
(***************************************************************************)
(* The verdict on a run's service level objectives (slo/).  The rows of    *)
(* request_level_metrics.jsonl give one list of values for each metric     *)
(* that an objective names; the percentile of the list is compared with    *)
(* the objective's threshold.                                              *)
(*                                                                         *)
(* The state is the record s.  A row maps some metrics to a number, to     *)
(* None, or to a sequence of gaps ("tbc").  An objective is [metric, q,    *)
(* threshold], its percentile q in QDen-ths.                               *)
(***************************************************************************)
EXTENDS Integers, Sequences, FiniteSets, SequencesExt, FiniteSetsExt

CONSTANTS
    Rows,         \* what a row may be
    MaxRows,      \* bound
    SloSets,      \* sequences of objectives
    QDen,
    HigherIsBetter

VARIABLE s

None == -1
Init == \E slos \in SloSets :
    s = [slos |-> slos, pc |-> "run", rows |-> <<>>, lists |-> <<>>, results |-> <<>>, saved |-> <<>>]

-----------------------------------------------------------------------------
\* A completed request; failed ones have no row.
WriteRow ==
    /\ s.pc = "run" /\ Len(s.rows) < MaxRows
    /\ \E row \in Rows : s' = [s EXCEPT !.rows = Append(@, row)]

\* "e2e" is the name of an objective's metric, not of a row's.
KeyOf(metric) == IF metric = "e2e" THEN "end_to_end_latency" ELSE metric

\* load_request_level_metrics_jsonl(): only the keys of the objectives.
Load ==
    /\ s.pc = "run"
    /\ IF s.slos = <<>> THEN s' = [s EXCEPT !.pc = "done"]
       ELSE LET keys == {KeyOf(s.slos[i].metric) : i \in DOMAIN s.slos}
                Has(key) == SelectSeq(s.rows, LAMBDA row : key \in DOMAIN row)
            IN  s' = [s EXCEPT !.pc = "check",
                        !.lists = [key \in {x \in keys : Has(x) # <<>>} |->
                                     [i \in DOMAIN Has(key) |-> Has(key)[i][key]]]]

\* The gaps of all requests if the first row has gaps; what is no number is dropped.
Values(metric) ==
    LET raw == IF KeyOf(metric) \in DOMAIN s.lists THEN s.lists[KeyOf(metric)] ELSE <<>>
        Numbers(seq) == SelectSeq(seq, LAMBDA x : x # <<None>>)
    IN  IF metric = "tbc" THEN FlattenSeq(raw)
        ELSE LET good == Numbers(raw) IN [i \in DOMAIN good |-> good[i][1]]

Sorted(values) == SortSeq(values, <)

\* The percentile of n values lies at (n - 1) q, between the values around it;
\* the result is in QDen-ths.
Percentile(values, q) ==
    LET xs == Sorted(values)
        at == q * (Len(xs) - 1)
        low == at \div QDen + 1
        high == IF at % QDen = 0 THEN low ELSE low + 1
    IN  QDen * xs[low] + (xs[high] - xs[low]) * (at % QDen)

\* BUG: lower is always better.
LowerIsMet(slo, observed) == observed <= QDen * slo.threshold

IsMet(slo, observed) ==
    IF slo.metric \in HigherIsBetter THEN observed >= QDen * slo.threshold
    ELSE observed <= QDen * slo.threshold

\* The objectives in order; without a value one is missed.
Evaluate ==
    /\ s.pc = "check" /\ Len(s.results) < Len(s.slos)
    /\ LET slo    == s.slos[Len(s.results) + 1]
           values == Values(slo.metric)
       IN  s' = [s EXCEPT !.results = Append(@,
                   values # <<>> /\ IsMet(slo, Percentile(values, slo.q)))]

Save ==
    /\ s.pc = "check" /\ Len(s.results) = Len(s.slos)
    /\ s' = [s EXCEPT !.pc = "done", !.saved = <<\A i \in DOMAIN s.results : s.results[i]>>]

Next == WriteRow \/ Load \/ Evaluate \/ Save
Spec == Init /\ [][Next]_s

-----------------------------------------------------------------------------
\* What the rows hold for an objective, as a bag: each value as often as it is
\* there.  An index is <<row, place in it>>.
Samples(slo) ==
    {x \in (DOMAIN s.rows) \X (1 .. 3) :
        /\ KeyOf(slo.metric) \in DOMAIN s.rows[x[1]]
        /\ x[2] <= Len(s.rows[x[1]][KeyOf(slo.metric)])
        /\ s.rows[x[1]][KeyOf(slo.metric)][x[2]] # None}
ValueAt(slo, x) == s.rows[x[1]][KeyOf(slo.metric)][x[2]]

\* An objective that is met holds for the share of the samples that it names,
\* and one that is missed fails for the rest: q of the samples, the one at the
\* position counted in, keep the threshold, or 1 - q of them break it.
VerdictsCountSamples ==
    \A k \in DOMAIN s.results :
        LET slo  == s.slos[k]
            all  == Samples(slo)
            n    == Cardinality(all)
            Good(x) == IF slo.metric \in HigherIsBetter THEN ValueAt(slo, x) >= slo.threshold
                       ELSE ValueAt(slo, x) <= slo.threshold
            good == Cardinality({x \in all : Good(x)})
            below == (slo.q * (n - 1)) \div QDen + 1    \* samples up to the position
            above == n - (slo.q * (n - 1) + QDen - 1) \div QDen
            lower == slo.metric \notin HigherIsBetter
        IN  /\ n = 0 => ~s.results[k]
            /\ n > 0 /\ s.results[k] => good >= IF lower THEN below ELSE above
            /\ n > 0 /\ ~s.results[k] => n - good >= IF lower THEN above ELSE below

\* Of two objectives for one metric and threshold, the stricter is not met
\* alone; and the verdict is met only if each is.
VerdictsAgree ==
    /\ \A i, j \in DOMAIN s.results :
         /\ s.slos[i].metric = s.slos[j].metric /\ s.slos[i].threshold = s.slos[j].threshold
         /\ s.slos[i].q <= s.slos[j].q
         => IF s.slos[i].metric \in HigherIsBetter THEN s.results[i] => s.results[j]
            ELSE s.results[j] => s.results[i]
    /\ s.pc = "done" => (s.saved = <<>>) <=> (s.slos = <<>>)
    /\ s.saved = <<TRUE>> => \A i \in DOMAIN s.slos : Samples(s.slos[i]) # {}

SlosAreJudgedRight == VerdictsCountSamples /\ VerdictsAgree
=============================================================================
