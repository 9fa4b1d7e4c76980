--------------------------- MODULE CapacitySearch ---------------------------
(***************************************************************************)
(* capacity_search.py: benchmarks are run with growing values of one       *)
(* traffic knob until one misses its SLOs, then the last gap is bisected.  *)
(*                                                                         *)
(* The values that are tried lie on a grid: whole numbers of sessions, or  *)
(* multiples of 10^-precision.  They are counted in grid steps; what the   *)
(* configuration gives, start_value and max_value, in Frac-ths of a step.  *)
(***************************************************************************)
EXTENDS Integers, Sequences, FiniteSets, FiniteSetsExt

CONSTANTS Frac,
          StartValue, MaxValue,  \* the configurations considered
          GrowNum, GrowDen,      \* expansion_factor
          MaxIterations,
          IntegerDomain          \* sessions rather than a rate

\* What _adaptive_capacity_search raises ValueError without.
SearchAssumption ==
    /\ Frac \in Nat \ {0}
    /\ StartValue \subseteq Nat \ {0} /\ MaxValue \subseteq Nat \ {0}
    /\ GrowDen \in Nat \ {0} /\ GrowNum \in Nat /\ GrowNum > GrowDen
    /\ MaxIterations \in Nat \ {0}
    /\ IntegerDomain \in BOOLEAN

VARIABLES start, ceiling,  \* start_value and max_value of this search
          capacity,        \* the greatest value that meets the SLOs
          noisy,           \* whether a value may pass once and fail once
          phase,           \* "probing", "bisecting", "done"
          probe, lastPassing, lo, hi, best, iters,
          tried            \* history: a sequence of [value, met]
config == <<start, ceiling, capacity, noisy>>
vars == <<config, phase, probe, lastPassing, lo, hi, best, iters, tried>>

NoValue == -1

\* round(n / d): half-way cases go to the even neighbour.
Rounded(n, d) ==
    LET q == n \div d
        r == 2 * (n % d)
    IN  IF r > d \/ (r = d /\ q % 2 = 1) THEN q + 1 ELSE q

\* _round_value
OnGrid(n, d) == IF IntegerDomain /\ Rounded(n, d) < 1 THEN 1 ELSE Rounded(n, d)

TypeOK ==
    /\ start \in StartValue /\ ceiling \in MaxValue
    /\ capacity \in Nat /\ noisy \in BOOLEAN
    /\ phase \in {"probing", "bisecting", "done"}
    /\ probe \in Nat
    /\ {lastPassing, lo, hi, best} \subseteq Nat \cup {NoValue}
    /\ iters \in 0 .. MaxIterations
    /\ Len(tried) = iters
    /\ phase = "bisecting" => best = lo /\ lo <= hi

Init ==
    /\ start \in StartValue /\ ceiling \in MaxValue /\ start <= ceiling
    /\ capacity \in 0 .. OnGrid(Max(MaxValue), Frac) + 1
    /\ noisy \in BOOLEAN /\ (noisy => capacity = 0)
    /\ phase = "probing"
    /\ probe = OnGrid(start, Frac)
    /\ lastPassing = NoValue /\ lo = NoValue /\ hi = NoValue /\ best = NoValue
    /\ iters = 0 /\ tried = <<>>

-----------------------------------------------------------------------------
\* run_one: a benchmark at value v, and whether it met the SLOs.
RunOne(v, met) ==
    /\ noisy \/ met = (v <= capacity)
    /\ iters < MaxIterations
    /\ iters' = iters + 1
    /\ tried' = Append(tried, [value |-> v, met |-> met])

\* BUG: no step when the expansion rounds back to the probe.
ExpandedOnly == Min({OnGrid(probe * GrowNum, GrowDen), OnGrid(ceiling, Frac)})

Expanded ==
    LET grown == OnGrid(probe * GrowNum, GrowDen)
    IN  Min({IF grown <= probe THEN probe + 1 ELSE grown, OnGrid(ceiling, Frac)})

ProbePasses ==
    /\ phase = "probing"
    /\ RunOne(probe, TRUE)
    /\ lastPassing' = probe
    /\ IF probe * Frac >= ceiling \/ iters' = MaxIterations
       THEN phase' = "done" /\ best' = probe /\ UNCHANGED probe
       ELSE probe' = Expanded /\ UNCHANGED <<phase, best>>
    /\ UNCHANGED <<config, lo, hi>>

\* The first failure: no capacity at all, or a gap to bisect.
ProbeFails ==
    /\ phase = "probing"
    /\ RunOne(probe, FALSE)
    /\ IF lastPassing = NoValue
       THEN phase' = "done" /\ UNCHANGED <<lo, hi, best>>
       ELSE phase' = "bisecting" /\ lo' = lastPassing /\ hi' = probe /\ best' = lastPassing
    /\ UNCHANGED <<config, probe, lastPassing>>

Middle == (lo + hi + 1) \div 2

\* BUG: the best value stays where the bisection began.
BisectPassesForgetful ==
    /\ phase = "bisecting" /\ lo < hi
    /\ RunOne(Middle, TRUE)
    /\ lo' = Middle
    /\ UNCHANGED <<config, phase, probe, lastPassing, hi, best>>

BisectPasses ==
    /\ phase = "bisecting" /\ lo < hi
    /\ RunOne(Middle, TRUE)
    /\ lo' = Middle /\ best' = Middle
    /\ UNCHANGED <<config, phase, probe, lastPassing, hi>>

\* BUG: the value below the middle is given up with it.
BisectFailsByTwo ==
    /\ phase = "bisecting" /\ lo < hi
    /\ RunOne(Middle, FALSE)
    /\ hi' = Middle - 2
    /\ UNCHANGED <<config, phase, probe, lastPassing, lo, best>>

BisectFails ==
    /\ phase = "bisecting" /\ lo < hi
    /\ RunOne(Middle, FALSE)
    /\ hi' = Middle - 1
    /\ UNCHANGED <<config, phase, probe, lastPassing, lo, best>>

Finish ==
    /\ phase = "bisecting" /\ (lo >= hi \/ iters = MaxIterations)
    /\ phase' = "done"
    /\ UNCHANGED <<config, probe, lastPassing, lo, hi, best, iters, tried>>

Returned == phase = "done" /\ UNCHANGED vars

Next == ProbePasses \/ ProbeFails \/ BisectPasses \/ BisectFails \/ Finish \/ Returned
Spec == Init /\ [][Next]_vars

-----------------------------------------------------------------------------
Passed == {tried[k].value : k \in {j \in DOMAIN tried : tried[j].met}}

\* run_capacity_search logs that the true maximum may not have been proven.
Warned == iters = MaxIterations /\ best # NoValue /\ best * Frac # ceiling

\* Without that warning the search has found the maximum: the greatest value of
\* the grid that meets the SLOs, none if the start value does not, for every
\* budget, whatever the expansion overshoots and rounds to.
UnwarnedIsMaximum ==
    phase = "done" /\ ~Warned /\ ~noisy =>
        best = IF capacity < OnGrid(start, Frac) THEN NoValue
               ELSE Min({capacity, OnGrid(ceiling, Frac)})

\* "Ceiling for the search. Expansion will not exceed this value", says the help
\* text of max_value; the value itself is rounded to the grid.
CeilingIsKept == \A i \in DOMAIN tried : tried[i].value * Frac <= ceiling

\* Even when a repeated benchmark contradicts an earlier one, the value returned
\* is the greatest one that ever passed, so a run directory exists for it.
BestIsGreatestPassed ==
    phase = "done" => best = IF Passed = {} THEN NoValue ELSE Max(Passed)

\* No benchmark is spent on a value already probed: each probe is greater than
\* the one before, if the ceiling is not one that is rounded down (which no probe
\* would ever reach).
ProbesGrow ==
    phase = "probing" /\ OnGrid(ceiling, Frac) * Frac >= ceiling => \A i \in DOMAIN tried :
        tried[i].value < IF i = Len(tried) THEN probe ELSE tried[i + 1].value
=============================================================================
