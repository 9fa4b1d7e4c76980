--------------------------- MODULE TraceRecorder ---------------------------
(***************************************************************************)
(* core/trace_recorder.py: dispatchers queue an entry for each request     *)
(* they dispatch, and one writer thread collects them in a buffer that it  *)
(* writes to the trace file by the batch, at intervals, or when the        *)
(* recorder is stopped.  The main thread starts it twice (_run_benchmark,  *)
(* _run_main_loop) and stops it twice, the first time when the dispatchers *)
(* have been joined.                                                       *)
(***************************************************************************)
EXTENDS Integers, FiniteSets, SequencesExt

CONSTANTS Entry,     \* the entries that will be recorded
          BatchSize  \* _batch_size

\* What the constants are.
TraceAssumption == IsFiniteSet(Entry) /\ BatchSize \in Nat \ {0}

VARIABLES put,     \* the entries recorded so far, in the order of their put
          queue,   \* _queue
          buffer,  \* of the writer loop
          file,    \* the entries in the trace file
          stop,    \* _stop_event
          thread,  \* whether _writer_thread is set
          writer,  \* "none", "testing", "getting", "checking", "ended"
          calls    \* start() and stop() calls the main thread has made
vars == <<put, queue, buffer, file, stop, thread, writer, calls>>

TypeOK ==
    /\ put \in Seq(Entry) /\ queue \in Seq(Entry)
    /\ buffer \in Seq(Entry) /\ Len(buffer) <= BatchSize /\ file \in Seq(Entry)
    /\ stop \in BOOLEAN /\ thread \in BOOLEAN
    /\ writer \in {"none", "testing", "getting", "checking", "ended"}
    /\ calls \in 0 .. 4

Init ==
    /\ put = <<>> /\ queue = <<>> /\ buffer = <<>> /\ file = <<>>
    /\ stop = FALSE /\ thread = FALSE /\ writer = "none" /\ calls = 0

-----------------------------------------------------------------------------
(* The main thread: start, start, stop, stop.                              *)

Start ==
    /\ calls < 2 /\ calls' = calls + 1
    /\ IF thread THEN UNCHANGED <<stop, thread, writer, buffer>>
       ELSE /\ stop' = FALSE /\ thread' = TRUE
            /\ writer' = "testing" /\ buffer' = <<>>
    /\ UNCHANGED <<put, queue, file>>

\* stop() up to the join; a second call finds no thread.
Stop ==
    /\ calls \in {2, 3} /\ ~(thread /\ stop)
    /\ Range(put) = Entry
    /\ IF thread THEN stop' = TRUE /\ calls' = calls
                 ELSE stop' = stop /\ calls' = calls + 1
    /\ UNCHANGED <<put, queue, buffer, file, thread, writer>>

\* The writer ends within the five seconds of the join.
Joined ==
    /\ thread /\ stop /\ writer = "ended"
    /\ thread' = FALSE /\ calls' = calls + 1
    /\ UNCHANGED <<put, queue, buffer, file, stop, writer>>

\* record_dispatch, by a dispatcher started after the recorder's second start.
RecordDispatch(e) ==
    /\ calls = 2 /\ ~stop /\ e \notin Range(put)
    /\ put' = Append(put, e)
    /\ queue' = Append(queue, e)
    /\ UNCHANGED <<buffer, file, stop, thread, writer, calls>>

-----------------------------------------------------------------------------
(* The writer loop.                                                        *)

\* BUG: the queue is not looked at.
TestStopOnly ==
    /\ writer = "testing"
    /\ writer' = IF ~stop THEN "getting" ELSE "ended"
    /\ UNCHANGED <<put, queue, buffer, file, stop, thread, calls>>

\* BUG: while not stop or queue.empty()
TestForEmpty ==
    /\ writer = "testing"
    /\ writer' = IF ~stop \/ queue = <<>> THEN "getting" ELSE "ended"
    /\ UNCHANGED <<put, queue, buffer, file, stop, thread, calls>>

\* while not stop or not queue.empty()
Test ==
    /\ writer = "testing"
    /\ writer' = IF ~stop \/ queue # <<>> THEN "getting" ELSE "ended"
    /\ UNCHANGED <<put, queue, buffer, file, stop, thread, calls>>

\* An item, or Empty after a tenth of a second.
Get ==
    /\ writer = "getting"
    /\ writer' = "checking"
    /\ IF queue = <<>> THEN UNCHANGED <<buffer, queue>>
       ELSE buffer' = Append(buffer, Head(queue)) /\ queue' = Tail(queue)
    /\ UNCHANGED <<put, file, stop, thread, calls>>

\* BUG: the buffer is not cleared.
FlushAndKeep ==
    /\ writer = "checking" /\ buffer # <<>>
    /\ file' = file \o buffer /\ buffer' = buffer
    /\ writer' = "testing"
    /\ UNCHANGED <<put, queue, stop, thread, calls>>

\* BUG: no flush interval.
FlushWhenFull ==
    /\ writer = "checking" /\ buffer # <<>>
    /\ stop \/ Len(buffer) >= BatchSize
    /\ file' = file \o buffer /\ buffer' = <<>>
    /\ writer' = "testing"
    /\ UNCHANGED <<put, queue, stop, thread, calls>>

\* should_flush: a full batch, a flush interval gone by (which may be at any
\* time), or the stop.
Flush ==
    /\ writer = "checking" /\ buffer # <<>>
    /\ file' = file \o buffer /\ buffer' = <<>>
    /\ writer' = "testing"
    /\ UNCHANGED <<put, queue, stop, thread, calls>>

\* BUG: a full batch is not a reason to flush.
HoldFull ==
    /\ writer = "checking"
    /\ buffer = <<>> \/ ~stop
    /\ writer' = "testing"
    /\ UNCHANGED <<put, queue, buffer, file, stop, thread, calls>>

\* No flush: nothing to write, or no full batch, no stop, and the interval is
\* not over.
Hold ==
    /\ writer = "checking"
    /\ buffer = <<>> \/ (~stop /\ Len(buffer) < BatchSize)
    /\ writer' = "testing"
    /\ UNCHANGED <<put, queue, buffer, file, stop, thread, calls>>

Terminated == calls = 4 /\ UNCHANGED vars

WriterLoop == Test \/ Get \/ Flush \/ Hold

Next ==
    \/ Start \/ Stop \/ Joined
    \/ \E e \in Entry : RecordDispatch(e)
    \/ WriterLoop
    \/ Terminated

Spec == Init /\ [][Next]_vars

\* The threads go on, the join of a stop returns when the writer has ended, and
\* the flush interval, which restarts at each flush, is over again and again.
\* The stop may never come.
FairSpec ==
    /\ Spec
    /\ WF_vars(Joined) /\ WF_vars(WriterLoop) /\ SF_vars(Flush)

-----------------------------------------------------------------------------
\* Entries keep the order in which they were recorded, none is written twice,
\* and none is anywhere but on its way from the queue over the buffer to the
\* file, through the second start and the second stop.
InOrderAndOnce == file \o buffer \o queue = put

\* Whatever the moment of the stop, nothing is left in the queue when the
\* recorder has stopped, and less than a batch in the writer's buffer: the stop
\* may come between its last look at should_flush and its loop test.
StopLosesNoBatch ==
    calls = 4 => IsPrefix(file, put) /\ Len(put) - Len(file) < BatchSize

\* "Stop the writer thread and flush remaining items", says stop().
StopFlushes == calls = 4 => file = put

\* An entry does not wait for a full batch: it is written, or the recorder is
\* being stopped.
WrittenInTime == \A e \in Entry : e \in Range(put) ~> (e \in Range(file) \/ stop)

\* The writer comes to its end: a stop() returns.
StopReturns == stop ~> ~thread

=============================================================================
