---------------------------- MODULE HealthChecks ----------------------------
(***************************************************************************)
(* The health checks of a finished run (src/veeksha/health.py): a run of a *)
(* closed-loop scheduler (a ramp to Target sessions) or of an open-loop    *)
(* one (a session every Interval ticks), as the traffic schedulers promise *)
(* it, the rows its evaluator and its trace keep, the verdicts of the      *)
(* checks on those rows, and the report that is run again afterwards.      *)
(***************************************************************************)
EXTENDS Integers, Sequences, FiniteSets, FiniteSetsExt, SequencesExt

CONSTANTS Sizes,         \* the number of requests of each session, in order
          Target, Rampup, Interval,
          WaitAfterReady,
          Delay,         \* the greatest delay of a dispatch, in ticks
          LateThreshold, \* late_threshold, in ticks
          Setups,        \* <<scheduler, is there a trace, is there a probe>>
          MaxTime, MaxReruns

VARIABLE h

Sessions == 1..Len(Sizes)

----------------------------------------------------------------------------
(* The run.  A session that is active has a request out ("sent") or waits  *)
(* for its next one to be ready ("waits"); a failure ends it.              *)

Limit(t) == IF t < Rampup THEN (Target * t) \div Rampup ELSE Target

Idle == [at |-> "none", node |-> 0, since |-> 0]

Init == \E u \in Setups :
          h = [mode |-> u[1], traced |-> u[2], probe |-> u[3], pc |-> "run", now |-> 0,
               next |-> 1, failed |-> FALSE, s |-> [i \in Sessions |-> Idle], rows |-> {},
               zombies |-> 0, report |-> <<>>, reruns |-> 0]

ActiveNow == {i \in Sessions : h.s[i].at \in {"sent", "waits"}}

MayStart == /\ h.next <= Len(Sizes)
            /\ IF h.mode = "closed" THEN Cardinality(ActiveNow) < Limit(h.now)
               ELSE h.now = Interval * (h.next - 1)

StartSession ==
    /\ h.pc = "run" /\ MayStart
    /\ h' = [h EXCEPT !.next = @ + 1,
                      !.s[h.next] = [at |-> "sent", node |-> 1, since |-> h.now]]

\* A dispatch waits at most Delay ticks, an open-loop session not at all.
Tick ==
    /\ h.pc = "run" /\ h.now < MaxTime
    /\ h.mode = "open" => ~MayStart
    /\ \A i \in Sessions : h.s[i].at = "waits" => h.now < h.s[i].since + Delay
    /\ h' = [h EXCEPT !.now = @ + 1]

\* What may be wrong with a successful request: its prompt or its answer more
\* than 15 tokens off the length asked for, its audio as long as the server's
\* cap.  Only the first that completes may be flawed.
Flaws == IF h.rows = {} THEN {"none", "prompt", "output", "cap"} ELSE {"none"}

\* The evaluator keeps a row of a successful request only; a session that
\* fails is over, and its server may go on decoding for nobody.
Complete(i) ==
    /\ h.pc = "run" /\ h.s[i].at = "sent" /\ h.s[i].since < h.now
    /\ \/ \E flaw \in Flaws :
          LET row == [session |-> i, node |-> h.s[i].node, flaw |-> flaw,
                      dispatched |-> h.s[i].since, completed |-> h.now]
          IN  h' = [h EXCEPT !.rows = @ \cup {row},
                             !.s[i] = IF row.node = Sizes[i] THEN [@ EXCEPT !.at = "over"]
                                      ELSE [at |-> "waits", node |-> row.node + 1,
                                            since |-> h.now + WaitAfterReady]]
       \/ \E z \in 0..1 :
            h' = [h EXCEPT !.failed = TRUE, !.s[i].at = "over", !.zombies = @ + z]

DispatchNext(i) ==
    /\ h.pc = "run" /\ h.s[i].at = "waits" /\ h.now >= h.s[i].since
    /\ h' = [h EXCEPT !.s[i] = [@ EXCEPT !.at = "sent", !.since = h.now]]

----------------------------------------------------------------------------
(* The checks.                                                             *)

RowsOf(i) == {r \in h.rows : r.session = i}
Seen == {r.session : r \in h.rows}
EndOfRun == Max({r.completed : r \in h.rows})
FirstDispatch(i) == Min({r.dispatched : r \in RowsOf(i)})

\* The interval a session counts as active: to its last completion when all
\* its requests have rows (or without a trace, which has their number), else
\* to the end of the run.
ActiveInterval(i) ==
    <<FirstDispatch(i),
      IF h.traced /\ Cardinality(RowsOf(i)) < Sizes[i] THEN EndOfRun
      ELSE Max({r.completed : r \in RowsOf(i)})>>

\* BUG: starts are counted before the ends of the same moment.
ConcurrencyEventsLate ==
    SetToSortSeq({<<ActiveInterval(i)[1], 1, i>> : i \in Seen}
                    \cup {<<ActiveInterval(i)[2], -1, i>> : i \in Seen},
                 LAMBDA x, y : \/ x[1] < y[1]
                               \/ x[1] = y[1] /\ x[2] > y[2]
                               \/ x[1] = y[1] /\ x[2] = y[2] /\ x[3] < y[3])

ConcurrencyEvents ==
    SetToSortSeq({<<ActiveInterval(i)[1], 1, i>> : i \in Seen}
                    \cup {<<ActiveInterval(i)[2], -1, i>> : i \in Seen},
                 LAMBDA x, y : \/ x[1] < y[1]
                               \/ x[1] = y[1] /\ x[2] < y[2]
                               \/ x[1] = y[1] /\ x[2] = y[2] /\ x[3] < y[3])

SessionConcurrency ==
    LET ev == ConcurrencyEvents
        active(k) == Cardinality({j \in 1..k : ev[j][2] = 1})
                       - Cardinality({j \in 1..k : ev[j][2] = -1})
    IN  \A k \in DOMAIN ev : active(k) <= Limit(ev[k][1])

\* |actual - expected| <= 15% of the expected rate, from the first starts.
SessionDispatchRate ==
    LET starts == {FirstDispatch(i) : i \in Seen}
        gaps == Interval * (Cardinality(Seen) - 1)
        span == Max(starts) - Min(starts)
        off == IF gaps > span THEN gaps - span ELSE span - gaps
    IN  Cardinality(Seen) >= 2 => 100 * off <= 15 * span

\* BUG: the wait of the request is not part of the time it is ready.
IntraSessionArrivalLax == h.traced =>
    \A r \in h.rows : \A p \in RowsOf(r.session) :
       p.node = r.node - 1 => r.dispatched - p.completed <= LateThreshold

\* No request is dispatched much later than its parent's completion and its
\* wait; skipped when there is no trace.
IntraSessionArrival == h.traced =>
    \A r \in h.rows : \A p \in RowsOf(r.session) :
       p.node = r.node - 1 =>
          r.dispatched - (p.completed + WaitAfterReady) <= LateThreshold

\* The sessions the server finished during the run, less the completed requests:
\* what it went on decoding after the client had given up.
ZombieSurplus == h.zombies

Block(name, passed) == [name |-> name, passed |-> passed, notes |-> 0]

NoRowIs(flaw) == \A r \in h.rows : r.flaw # flaw

PromptLength == Block("prompt", NoRowIs("prompt"))
OutputLength == Block("output", NoRowIs("output"))

\* The delays between the stages of a request are reported, not judged.
LifecycleDelays == Block("lifecycle", TRUE)

CapTruncation == Block("cap", NoRowIs("cap"))

Rerunnable ==
    <<Block("arrival", IntraSessionArrival),
      IF h.mode = "closed" THEN Block("concurrency", SessionConcurrency)
      ELSE Block("rate", SessionDispatchRate),
      PromptLength, OutputLength, LifecycleDelays, CapTruncation>>

\* Without both snapshots of the server's counters the check is skipped.
Zombies == Block("zombies", h.probe => ZombieSurplus <= 0)

\* The benchmark's own report: no rows, no checks.
RunAndSave ==
    /\ h.pc = "run"
    /\ h' = [h EXCEPT !.pc = "reported",
                      !.report = IF h.rows = {} THEN <<>>
                                 ELSE Append(Rerunnable, Zombies)]

\* BUG: the block is carried over with the notes it has.
CarriedNoted(report) ==
    LET blocks == SelectSeq(report, LAMBDA b : b.name = "zombies")
    IN  IF blocks = <<>> THEN <<>> ELSE <<[blocks[1] EXCEPT !.notes = @ + 1]>>

\* The section that needs the live server, without the notes of earlier reruns.
Carried(report) ==
    LET blocks == SelectSeq(report, LAMBDA b : b.name = "zombies")
    IN  IF blocks = <<>> THEN <<>> ELSE <<[blocks[1] EXCEPT !.notes = 1]>>

\* veeksha health on the directory: the rerunnable checks and what is carried.
Rerun ==
    /\ h.pc = "reported" /\ h.reruns < MaxReruns
    /\ h' = [h EXCEPT !.reruns = @ + 1,
                      !.report = IF h.rows = {} THEN <<>> ELSE Rerunnable \o Carried(@)]

Next == \/ StartSession \/ Tick \/ RunAndSave \/ Rerun
        \/ \E i \in Sessions : Complete(i) \/ DispatchNext(i)

Spec == Init /\ [][Next]_h

----------------------------------------------------------------------------
Verdicts == {<<b.name, b.passed>> : b \in ToSet(h.report)}

\* A healthy run is found healthy: when the scheduler keeps its promises and
\* no request fails, no check fails, wherever the run is cut off (the rate
\* check needs a row of every session before the last one that has rows); and
\* running the checks again changes no verdict and keeps the one it cannot repeat.
HealthyRunsPass ==
    h.report # <<>> =>
        /\ ~h.failed /\ (h.mode = "open" => Seen = 1..Cardinality(Seen))
              => \A b \in ToSet(SubSeq(h.report, 1, 2)) : b.passed
        /\ \A b \in ToSet(h.report) : ~b.passed =>
              \/ h.failed \/ h.mode = "open" \/ \E r \in h.rows : r.flaw = b.name
        /\ <<"zombies", ~h.probe \/ h.zombies = 0>> \in Verdicts
        /\ Len(h.report) = 7 /\ Cardinality(Verdicts) = 7
        /\ h.report[7].notes = IF h.reruns > 0 THEN 1 ELSE 0

\* "Verify that the number of concurrent sessions tracks the target": the
\* number of sessions this scheduler has active never exceeds the limit, so
\* no run of it should fail the check, with or without failed requests.
ConcurrencyCheckIsRight == h.pc = "reported" => <<"concurrency", FALSE>> \notin Verdicts
=============================================================================
