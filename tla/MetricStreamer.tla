--------------------------- MODULE MetricStreamer ---------------------------
(***************************************************************************)
(* The metric streamer of the performance evaluator                        *)
(* (src/veeksha/evaluator/performance/base.py, text.py): completion        *)
(* workers count a request under the evaluator's lock, store its row under *)
(* the channel's lock and then tell the streamer thread, which writes the  *)
(* summary and appends the new rows to the files, now and then; at the end *)
(* the main thread stops the streamer and writes both files again.         *)
(***************************************************************************)
EXTENDS Integers, Sequences, FiniteSets, SequencesExt

CONSTANTS Requests,     \* the successful requests, each in a worker's hands
          MaxFailures   \* bound: how often a flush fails

VARIABLE m

Init == m = [worker |-> [r \in Requests |-> "idle"], counted |-> {}, rows |-> <<>>,
             summary |-> {}, file |-> <<>>, streamed |-> 0,
             trigger |-> FALSE, stop |-> FALSE, updates |-> FALSE,
             streamer |-> "waits", main |-> "runs", failures |-> 0, torn |-> FALSE,
             kept |-> <<>>] \* kept: the rows when the streamer was joined

----------------------------------------------------------------------------
(* Completion workers.                                                     *)

\* The streamer holds the evaluator's lock from the summary to the rows.
LockFree == m.streamer \notin {"rows", "final rows"}

\* BUG: the request is counted without the lock.
CountUnlocked(r) ==
    /\ m.worker[r] = "idle"
    /\ m' = [m EXCEPT !.worker[r] = "counted", !.counted = @ \cup {r}]

Count(r) ==
    /\ m.worker[r] = "idle" /\ LockFree
    /\ m' = [m EXCEPT !.worker[r] = "counted", !.counted = @ \cup {r}]

Store(r) ==
    /\ m.worker[r] = "counted"
    /\ m' = [m EXCEPT !.worker[r] = "stored", !.rows = Append(@, r)]

\* Only while there is a streamer thread to tell.
SetUpdates(r) ==
    /\ m.worker[r] = "stored"
    /\ m' = [m EXCEPT !.worker[r] = "done", !.updates = @ \/ m.main \in {"runs", "triggered", "joins"}]

----------------------------------------------------------------------------
(* The streamer thread.                                                    *)

\* It wakes up when triggered, and after every interval.
Wake ==
    /\ m.streamer = "waits"
    /\ m' = [m EXCEPT !.trigger = FALSE,
                      !.streamer = IF m.trigger \/ m.updates THEN "summary" ELSE "checks"]

Final == m.streamer \in {"final summary", "final rows"}

\* A flush that fails leaves the updates flag as it is.
Failed == [m EXCEPT !.failures = @ + 1, !.streamer = IF Final THEN "over" ELSE "checks"]
MayFail == m.failures < MaxFailures

FlushSummary ==
    /\ m.streamer \in {"summary", "final summary"}
    /\ \/ m' = [m EXCEPT !.summary = m.counted,
                         !.streamer = IF Final THEN "final rows" ELSE "rows"]
       \/ MayFail /\ m' = Failed

NewRows == SubSeq(m.rows, m.streamed + 1, Len(m.rows))

\* BUG: the rows are not marked as streamed when a later step of the flush fails.
FlushRowsForgets ==
    /\ m.streamer \in {"rows", "final rows"}
    /\ \/ m' = [m EXCEPT !.file = @ \o NewRows, !.streamed = Len(m.rows),
                         !.streamer = IF Final THEN "over" ELSE "clears"]
       \/ MayFail /\ m' = [Failed EXCEPT !.file = @ \o NewRows]

\* The rows are appended and then marked as streamed; what fails is the append
\* itself, after k rows, or the curves written after it.
FlushRows ==
    /\ m.streamer \in {"rows", "final rows"}
    /\ \/ m' = [m EXCEPT !.file = @ \o NewRows, !.streamed = Len(m.rows),
                         !.streamer = IF Final THEN "over" ELSE "clears"]
       \/ MayFail /\ m' = [Failed EXCEPT !.file = @ \o NewRows, !.streamed = Len(m.rows)]
       \/ /\ MayFail
          /\ \E k \in 1..Len(NewRows) :
               m' = [Failed EXCEPT !.file = @ \o SubSeq(NewRows, 1, k), !.torn = TRUE]

\* A row stored since the flush is forgotten here until the next one comes.
ClearUpdates ==
    /\ m.streamer = "clears"
    /\ m' = [m EXCEPT !.updates = FALSE, !.streamer = "checks"]

\* BUG: the flag is looked at only when the thread was triggered.
CheckStopTriggered ==
    /\ m.streamer = "checks"
    /\ m' = [m EXCEPT !.streamer = IF m.stop /\ m.trigger THEN "final summary" ELSE "waits"]

CheckStop ==
    /\ m.streamer = "checks"
    /\ m' = [m EXCEPT !.streamer = IF m.stop THEN "final summary" ELSE "waits"]

----------------------------------------------------------------------------
(* The main thread: shutdown, finalize and save.  A worker that outlived   *)
(* its join may still be at work.                                          *)

Trigger == m.main = "runs" /\ m' = [m EXCEPT !.main = "triggered", !.trigger = TRUE]
Stop == m.main = "triggered" /\ m' = [m EXCEPT !.main = "joins", !.stop = TRUE]
Join == m.main = "joins" /\ m.streamer = "over" /\ m' = [m EXCEPT !.main = "saves summary", !.kept = m.rows]
SaveSummary ==
    m.main = "saves summary" /\ m' = [m EXCEPT !.main = "saves rows", !.summary = m.counted]
SaveRows == m.main = "saves rows" /\ m' = [m EXCEPT !.main = "saved", !.file = m.rows]

----------------------------------------------------------------------------
Streamer == Wake \/ FlushSummary \/ FlushRows \/ ClearUpdates \/ CheckStop
Main == Stop \/ Join \/ SaveSummary \/ SaveRows
Worker(r) == Count(r) \/ Store(r) \/ SetUpdates(r)
Next == Streamer \/ Trigger \/ Main \/ \E r \in Requests : Worker(r)

Spec == Init /\ [][Next]_m /\ WF_m(Streamer) /\ WF_m(Main)

----------------------------------------------------------------------------
\* Until the final save the file is the rows in the order they were stored,
\* each once, unless an append was torn, and every row in it is a request that
\* the summary beside it counts; the final files have every row stored before
\* the streamer ended, once, whatever went wrong before.
StreamIsFaithful ==
    /\ ~m.torn \/ m.main = "saved" => IsPrefix(m.file, m.rows)
    /\ m.main \notin {"saves rows", "saved"} => ToSet(m.file) \subseteq m.summary
    /\ m.main = "saved" => ToSet(m.kept) \subseteq ToSet(m.file) \cap m.summary

\* The trigger is set before the stop flag, so the streamer may consume it and
\* wait again; it still stops at the end of that interval, and the run ends.
StreamerStops == m.main = "triggered" ~> m.main = "saved"
=============================================================================
