---------------------------- MODULE BenchmarkRun ----------------------------
(***************************************************************************)
(* One benchmark run from start to report: the main thread's monitor and   *)
(* shutdown (benchmark.py, benchmark_utils.py) around the prefetch worker, *)
(* the dispatchers, the client workers and the completion workers, over    *)
(* the rate scheduler.  Threads share the scheduler, the evaluator, the    *)
(* queues and stop_event; each step between two of their accesses is an    *)
(* action of its own.                                                      *)
(*                                                                         *)
(* Left out: which item of its queue a client worker reads first (the      *)
(* queues are sets), and an item it reads after stop_event is set, whose   *)
(* task is cancelled before it runs.                                       *)
(***************************************************************************)
EXTENDS TrafficScheduler, SequencesExt

CONSTANTS Interval,    \* what the interval generator may return, in ticks
          Dispatcher, Worker, Completer,  \* the threads of the three pools
          TimeoutMode,  \* of the runs considered; "never": benchmark_timeout <= 0,
                        \* "patient": grace -1, "grace": post_timeout_grace_seconds
                        \* >= 0
          Interrupts,   \* whether Ctrl-C may come while the monitor runs
          Prompt        \* whether every join(timeout=1.0) outlasts its thread

ASSUME RunAssumption ==
    /\ Interval \subseteq Nat /\ Interval # {}
    /\ Dispatcher # {} /\ Worker # {} /\ Completer # {} /\ IsFiniteSet(Completer)
    /\ TimeoutMode \subseteq {"never", "patient", "grace"}
    /\ Interrupts \in BOOLEAN /\ Prompt \in BOOLEAN
    /\ {"none", "sentinel"} \cap Request = {}

VARIABLES
    nextStart, startTime,
    stop,          \* stop_event.is_set()
    generated,     \* the session the prefetch worker holds, if any
    prefetchDone,  \* the prefetch thread is no longer alive
    dispatching,   \* the request a dispatcher holds, or None
    dispatcherDone,
    registered,    \* _registered_request_ids of the evaluator
    clientQueue,   \* requests in a client worker's queue
    client,        \* "reading", "cancelling", "done"
    tasks,         \* active_tasks of a client worker
    outputQueue,
    result,        \* outcome in a RequestResult put on the output queue
    completer,     \* "getting", "draining", "done"
    holding,       \* the request whose result a completion worker processes
    recorded,      \* requests the evaluator has recorded
    pc,            \* of the main thread
    mode,          \* the timeouts ahead of this run
    clock,         \* "before", "timeout", "grace": the deadlines passed
    timedOut,      \* timeout_triggered
    prefetchSeen,  \* all_prefetch_done
    baseline,      \* pre_timeout_request_ids
    exit,          \* how the monitor ended
    included,      \* _included_request_ids, every request when not set
    left,          \* in_flight_remaining
    report,        \* the requests in the report of evaluator.finalize()
    owed           \* history: of the requests answered when stop_event was set,
                   \* those not recorded yet

schedulerVars  == <<coreVars, nextStart, startTime>>
dispatchVars   == <<generated, prefetchDone, dispatching, dispatcherDone, registered>>
clientVars     == <<clientQueue, client, tasks>>
completionVars == <<outputQueue, result, completer, holding, recorded>>
loopVars       == <<pc, mode, clock, timedOut, prefetchSeen, baseline, exit,
                    included, left, report>>
mainVars       == <<stop, loopVars, owed>>
vars == <<schedulerVars, dispatchVars, clientVars, completionVars, mainVars>>

Scheduler == INSTANCE RateTraffic

None == "none"
Sentinel == "sentinel"

TypeOK ==
    /\ Scheduler!TypeOK
    /\ stop \in BOOLEAN /\ prefetchDone \in BOOLEAN
    /\ generated \subseteq Session
    /\ dispatching \in [Dispatcher -> Request \cup {None}]
    /\ dispatcherDone \subseteq Dispatcher
    /\ registered \subseteq Request
    /\ clientQueue \in [Worker -> SUBSET Request]
    /\ client \in [Worker -> {"reading", "cancelling", "done"}]
    /\ tasks \in [Worker -> SUBSET Request]
    /\ outputQueue \in Seq(Request \cup {Sentinel})
    /\ result \in [Request -> Outcome \cup {None, "failed"}]
    /\ completer \in [Completer -> {"getting", "draining", "done"}]
    /\ holding \in [Completer -> Request \cup {None}]
    /\ recorded \subseteq Request
    /\ pc \in {"watching", "deciding", "stopping", "joining", "waiting", "finishing", "done"}
    /\ mode \in TimeoutMode \cup {"never"} /\ clock \in {"before", "timeout", "grace"}
    /\ timedOut \in BOOLEAN /\ prefetchSeen \in BOOLEAN
    /\ exit \in {None, "finished", "settled", "grace", "interrupted"}
    /\ baseline \subseteq Request /\ included \subseteq Request
    /\ left \subseteq Request /\ report \subseteq Request
    /\ owed \subseteq Request

Init ==
    /\ Scheduler!Init
    /\ stop = FALSE /\ generated = {} /\ prefetchDone = FALSE
    /\ dispatching = [d \in Dispatcher |-> None]
    /\ dispatcherDone = {} /\ registered = {}
    /\ clientQueue = [w \in Worker |-> {}]
    /\ client = [w \in Worker |-> "reading"]
    /\ tasks = [w \in Worker |-> {}]
    /\ outputQueue = <<>>
    /\ result = [r \in Request |-> None]
    /\ completer = [c \in Completer |-> "getting"]
    /\ holding = [c \in Completer |-> None]
    /\ recorded = {}
    /\ mode \in TimeoutMode
    /\ pc = "watching" /\ clock = "before"
    /\ timedOut = FALSE /\ prefetchSeen = FALSE /\ exit = None
    /\ baseline = {} /\ included = Request /\ left = {} /\ report = {}
    /\ owed = {}

-----------------------------------------------------------------------------
(* The prefetch worker.                                                    *)

Generate(s) ==
    /\ ~stop /\ ~prefetchDone
    /\ generated = {} /\ s \in unscheduled
    /\ generated' = {s}
    /\ UNCHANGED <<schedulerVars, prefetchDone, dispatching, dispatcherDone, registered,
                   clientVars, completionVars, mainVars>>

\* schedule_session for the session just generated, even if stop_event was set
\* meanwhile.
Schedule(s) ==
    /\ s \in generated
    /\ Scheduler!ScheduleSession(s)
    /\ generated' = {}
    /\ UNCHANGED <<prefetchDone, dispatching, dispatcherDone, registered,
                   clientVars, completionVars, mainVars>>

PrefetchEnds ==
    /\ ~prefetchDone
    /\ generated = {} /\ (stop \/ unscheduled = {})
    /\ prefetchDone' = TRUE
    /\ UNCHANGED <<schedulerVars, generated, dispatching, dispatcherDone, registered,
                   clientVars, completionVars, mainVars>>

-----------------------------------------------------------------------------
(* The dispatchers.  Once stop_event is set they drain: pop until nothing  *)
(* is due.                                                                 *)

Pop(d) ==
    /\ d \notin dispatcherDone /\ dispatching[d] = None
    /\ \E i \in Due(readyQueue) :
        /\ Scheduler!PopReady
        /\ readyQueue' = readyQueue \ {i}
        /\ dispatching' = [dispatching EXCEPT ![d] = i.req]
    /\ UNCHANGED <<generated, prefetchDone, dispatcherDone, registered,
                   clientVars, completionVars, mainVars>>

\* evaluator.register_request
Register(d) ==
    /\ dispatching[d] \notin registered \cup {None}
    /\ registered' = registered \cup {dispatching[d]}
    /\ UNCHANGED <<schedulerVars, generated, prefetchDone, dispatching, dispatcherDone,
                   clientVars, completionVars, mainVars>>

Put(d, w) ==
    /\ dispatching[d] \in registered
    /\ clientQueue' = [clientQueue EXCEPT ![w] = @ \cup {dispatching[d]}]
    /\ dispatching' = [dispatching EXCEPT ![d] = None]
    /\ UNCHANGED <<schedulerVars, generated, prefetchDone, dispatcherDone, registered,
                   client, tasks, completionVars, mainVars>>

DispatcherEnds(d) ==
    /\ d \notin dispatcherDone /\ dispatching[d] = None
    /\ stop /\ Due(readyQueue) = {}
    /\ dispatcherDone' = dispatcherDone \cup {d}
    /\ UNCHANGED <<schedulerVars, generated, prefetchDone, dispatching, registered,
                   clientVars, completionVars, mainVars>>

-----------------------------------------------------------------------------
(* The client workers.                                                     *)

Take(w, r) ==
    /\ ~stop /\ client[w] = "reading" /\ r \in clientQueue[w]
    /\ clientQueue' = [clientQueue EXCEPT ![w] = @ \ {r}]
    /\ tasks' = [tasks EXCEPT ![w] = @ \cup {r}]
    /\ UNCHANGED <<schedulerVars, dispatchVars, client, completionVars, mainVars>>

\* BUG: the task is forgotten when it fails.
AnswerOrForget(w, r, outcome) ==
    /\ client[w] # "done" /\ r \in tasks[w]
    /\ tasks' = [tasks EXCEPT ![w] = @ \ {r}]
    /\ outputQueue' = IF outcome = "failed" THEN outputQueue ELSE Append(outputQueue, r)
    /\ result' = [result EXCEPT ![r] = outcome]
    /\ UNCHANGED <<schedulerVars, dispatchVars, clientQueue, client, completer, holding,
                   recorded, mainVars>>

\* _process_request puts its result.  After the cancel only the handler of an
\* exception raised during clean-up can get there, with a failed result.
Answer(w, r, outcome) ==
    /\ client[w] # "done" /\ r \in tasks[w]
    /\ client[w] = "cancelling" => outcome = "failed"
    /\ tasks' = [tasks EXCEPT ![w] = @ \ {r}]
    /\ outputQueue' = Append(outputQueue, r)
    /\ result' = [result EXCEPT ![r] = outcome]
    /\ UNCHANGED <<schedulerVars, dispatchVars, clientQueue, client, completer, holding,
                   recorded, mainVars>>

\* The read loop ends, by stop_event or by its sentinel, and cancels the tasks.
CancelTasks(w) ==
    /\ stop /\ client[w] = "reading"
    /\ client' = [client EXCEPT ![w] = "cancelling"]
    /\ UNCHANGED <<schedulerVars, dispatchVars, clientQueue, tasks, completionVars, mainVars>>

\* BUG: asyncio.run(), which waits for the tasks however long they take.
ClientEndsWithItsTasks(w) ==
    /\ client[w] = "cancelling" /\ tasks[w] = {}
    /\ client' = [client EXCEPT ![w] = "done"]
    /\ UNCHANGED <<schedulerVars, dispatchVars, clientQueue, tasks, completionVars, mainVars>>

\* Every task has ended or the two seconds are over: the loop is closed.
ClientEnds(w) ==
    /\ client[w] = "cancelling"
    /\ client' = [client EXCEPT ![w] = "done"]
    /\ tasks' = [tasks EXCEPT ![w] = {}]
    /\ UNCHANGED <<schedulerVars, dispatchVars, clientQueue, completionVars, mainVars>>

-----------------------------------------------------------------------------
(* The completion workers.                                                 *)

Idle(c) == completer[c] # "done" /\ holding[c] = None

\* BUG: no test for the sentinel.
GetAnything(c) ==
    /\ Idle(c)
    /\ outputQueue # <<>>
    /\ holding' = [holding EXCEPT ![c] = Head(outputQueue)]
    /\ outputQueue' = Tail(outputQueue)
    /\ UNCHANGED <<schedulerVars, dispatchVars, clientVars, result, completer, recorded, mainVars>>

GetResult(c) ==
    /\ Idle(c)
    /\ outputQueue # <<>> /\ Head(outputQueue) # Sentinel
    /\ holding' = [holding EXCEPT ![c] = Head(outputQueue)]
    /\ outputQueue' = Tail(outputQueue)
    /\ UNCHANGED <<schedulerVars, dispatchVars, clientVars, result, completer, recorded, mainVars>>

\* A sentinel ends the main loop, and a second one the drain.
GetSentinel(c) ==
    /\ Idle(c)
    /\ outputQueue # <<>> /\ Head(outputQueue) = Sentinel
    /\ completer' = [completer EXCEPT ![c] = IF @ = "getting" THEN "draining" ELSE "done"]
    /\ outputQueue' = Tail(outputQueue)
    /\ UNCHANGED <<schedulerVars, dispatchVars, clientVars, result, holding, recorded, mainVars>>

Notify(c) ==
    /\ holding[c] # None /\ completions[holding[c]] = NotYet
    /\ Scheduler!NotifyCompletion(holding[c], result[holding[c]], now)
    /\ UNCHANGED <<dispatchVars, clientVars, completionVars, mainVars>>

\* evaluator.record_request_completed
Record(c) ==
    /\ holding[c] # None /\ completions[holding[c]] # NotYet
    /\ recorded' = recorded \cup {holding[c]}
    /\ owed' = owed \ {holding[c]}
    /\ holding' = [holding EXCEPT ![c] = None]
    /\ UNCHANGED <<schedulerVars, dispatchVars, clientVars, outputQueue, result, completer,
                   loopVars, stop>>

\* BUG: no drain.
LeaveUndrained(c) ==
    /\ Idle(c) /\ completer[c] = "getting" /\ stop
    /\ completer' = [completer EXCEPT ![c] = "done"]
    /\ UNCHANGED <<schedulerVars, dispatchVars, clientVars, outputQueue, result, holding,
                   recorded, mainVars>>

StartDrain(c) ==
    /\ Idle(c) /\ completer[c] = "getting" /\ stop
    /\ completer' = [completer EXCEPT ![c] = "draining"]
    /\ UNCHANGED <<schedulerVars, dispatchVars, clientVars, outputQueue, result, holding,
                   recorded, mainVars>>

\* Five polls in a row found the queue empty.
DrainEnds(c) ==
    /\ Idle(c) /\ completer[c] = "draining" /\ outputQueue = <<>>
    /\ completer' = [completer EXCEPT ![c] = "done"]
    /\ UNCHANGED <<schedulerVars, dispatchVars, clientVars, outputQueue, result, holding,
                   recorded, mainVars>>

-----------------------------------------------------------------------------
(* The main thread: _monitor_for_completion, then the shutdown.            *)

\* benchmark_timeout passes; once the monitor has seen that, the grace period.
TimePasses ==
    /\ pc \in {"watching", "deciding"}
    /\ \/ clock = "before" /\ mode # "never" /\ clock' = "timeout"
       \/ clock = "timeout" /\ mode = "grace" /\ timedOut /\ clock' = "grace"
    /\ UNCHANGED <<schedulerVars, dispatchVars, clientVars, completionVars, mode, stop, pc,
                   timedOut, prefetchSeen, baseline, exit, included, left, report, owed>>

\* BUG: the session counter is looked at, not the prefetch thread.
WatchBlindly ==
    /\ pc = "watching"
    /\ pc' = "deciding"
    /\ prefetchSeen' = (unscheduled \ generated = {})
    /\ timedOut' = (timedOut \/ clock # "before")
    /\ baseline' = IF timedOut' /\ ~timedOut THEN registered ELSE baseline
    /\ UNCHANGED <<schedulerVars, dispatchVars, clientVars, completionVars, mode, stop, clock, exit,
                   included, left, report, owed>>

\* The first half of an iteration: the deadline, with the snapshot of what is
\* registered, and the prefetch thread.
Watch ==
    /\ pc = "watching"
    /\ pc' = "deciding"
    /\ prefetchSeen' = prefetchDone
    /\ timedOut' = (timedOut \/ clock # "before")
    /\ baseline' = IF timedOut' /\ ~timedOut THEN registered ELSE baseline
    /\ UNCHANGED <<schedulerVars, dispatchVars, clientVars, completionVars, mode, stop, clock, exit,
                   included, left, report, owed>>

HasPendingWork == sessions # {} \/ readyQueue # {}
Remaining == baseline \cap inFlight

\* The monitor returns; its locals and its deadlines are gone.
Leave(reason, kept, pending) ==
    /\ pc' = "stopping"
    /\ exit' = reason
    /\ included' = kept
    /\ left' = pending
    /\ timedOut' = FALSE /\ prefetchSeen' = FALSE /\ baseline' = {}
    /\ mode' = "never" /\ clock' = "before"
    /\ UNCHANGED <<schedulerVars, dispatchVars, clientVars, completionVars, stop, report, owed>>

\* BUG: what is still in flight is included.
LeaveAfterGraceWithAll ==
    /\ pc = "deciding" /\ timedOut /\ clock = "grace"
    /\ Leave("grace", baseline, Remaining)

\* The second half: the look at the scheduler, and what follows from it.
LeaveAfterGrace ==
    /\ pc = "deciding" /\ timedOut /\ clock = "grace"
    /\ Leave("grace", baseline \ Remaining, Remaining)

LeaveSettled ==
    /\ pc = "deciding" /\ timedOut /\ clock # "grace" /\ Remaining = {}
    /\ Leave("settled", baseline, {})

LeaveFinished ==
    /\ pc = "deciding" /\ ~timedOut /\ prefetchSeen /\ ~HasPendingWork
    /\ Leave("finished", included, {})

LeaveInterrupted ==
    /\ Interrupts /\ pc \in {"watching", "deciding"}
    /\ Leave("interrupted", included, {})

KeepWatching ==
    /\ pc = "deciding"
    /\ IF timedOut THEN clock # "grace" /\ Remaining # {}
                   ELSE ~prefetchSeen \/ HasPendingWork
    /\ pc' = "watching"
    /\ UNCHANGED <<schedulerVars, dispatchVars, clientVars, completionVars, mode, stop, clock,
                   timedOut, prefetchSeen, baseline, exit, included, left, report, owed>>

SetStop ==
    /\ pc = "stopping"
    /\ stop' = TRUE
    /\ owed' = {r \in Request : result[r] # None} \ recorded
    /\ pc' = "joining"
    /\ UNCHANGED <<schedulerVars, dispatchVars, clientVars, completionVars, mode, clock, timedOut,
                   prefetchSeen, baseline, exit, included, left, report>>

\* join_pool of the prefetch worker and of the dispatchers; client_runner.stop().
JoinWorkers ==
    /\ pc = "joining"
    /\ Prompt => prefetchDone /\ dispatcherDone = Dispatcher
    /\ pc' = "waiting"
    /\ UNCHANGED <<schedulerVars, dispatchVars, clientVars, completionVars, mode, stop, clock,
                   timedOut, prefetchSeen, baseline, exit, included, left, report, owed>>

\* client_runner.wait(), only if nothing is known to be left in flight; then a
\* sentinel for each completion worker.
WaitForClients ==
    /\ pc = "waiting"
    /\ left = {} => \A w \in Worker : client[w] = "done"
    /\ outputQueue' = outputQueue \o [k \in 1 .. Cardinality(Completer) |-> Sentinel]
    /\ pc' = "finishing"
    /\ UNCHANGED <<schedulerVars, dispatchVars, clientVars, result, completer, holding, recorded,
                   mode, stop, clock, timedOut, prefetchSeen, baseline, exit, included,
                   left, report, owed>>

\* join_pool of the completion workers, then evaluator.finalize(): the counters
\* and channel metrics of everything recorded by now.
Report ==
    /\ pc = "finishing"
    /\ Prompt => \A c \in Completer : completer[c] = "done"
    /\ report' = recorded
    /\ pc' = "done"
    /\ UNCHANGED <<schedulerVars, dispatchVars, clientVars, completionVars, mode, stop, clock,
                   timedOut, prefetchSeen, baseline, exit, included, left,
                   owed>>

Terminated == pc = "done" /\ UNCHANGED vars

-----------------------------------------------------------------------------
Prefetch == PrefetchEnds \/ \E s \in Session : Generate(s) \/ Schedule(s)
Dispatch(d) == Pop(d) \/ Register(d) \/ DispatcherEnds(d) \/ \E w \in Worker : Put(d, w)
Read(w) == CancelTasks(w) \/ ClientEnds(w) \/ \E r \in Request : Take(w, r)
Complete(c) == \/ GetResult(c) \/ GetSentinel(c) \/ Notify(c) \/ Record(c)
               \/ StartDrain(c) \/ DrainEnds(c)
Monitor == \/ Watch \/ KeepWatching
           \/ LeaveAfterGrace \/ LeaveSettled \/ LeaveFinished
Shutdown == SetStop \/ JoinWorkers \/ WaitForClients \/ Report

Next ==
    \/ Prefetch
    \/ \E d \in Dispatcher : Dispatch(d)
    \/ \E w \in Worker : Read(w)
    \/ \E w \in Worker, r \in Request, o \in Outcome : Answer(w, r, o)
    \/ \E c \in Completer : Complete(c)
    \/ TimePasses
    \/ LeaveInterrupted
    \/ Monitor
    \/ Shutdown
    \/ Terminated

Spec == Init /\ [][Next]_vars

\* Some thread goes on, or a deadline passes, as long as one can; and so does the
\* monitor, whose loop has no end of its own.  This is less than fairness to each
\* thread, and enough, as the other threads' steps in a run are limited.  The
\* server may never answer.
Goes ==
    \/ Prefetch \/ TimePasses \/ Shutdown
    \/ \E d \in Dispatcher : Dispatch(d)
    \/ \E w \in Worker : Read(w)
    \/ \E c \in Completer : Complete(c)

HangingSpec == Spec /\ WF_vars(Goes) /\ WF_vars(Monitor)

\* The server answers the requests it gets, with whatever outcome.
AnswersCome ==
    WF_vars(\E w \in Worker, r \in Request, o \in Outcome : Answer(w, r, o))

-----------------------------------------------------------------------------
Dispatched == {r \in Request : sentAt[r] # NotYet}

\* The monitor ends the run on its own accord only when there is nothing left
\* to do: the prefetch worker is through, and each request has completed or was
\* dropped with its canceled session.  It reads the prefetch thread, then the
\* scheduler, while both move.
EndsOnlyWhenDone ==
    exit = "finished" =>
        /\ unscheduled = {}
        /\ \A r \in Request :
            \/ completions[r] # NotYet
            \/ SessionOf[r] \in canceled /\ r \notin Dispatched

\* However a run ended, what a completion worker held or the output queue still
\* had when stop_event was set is recorded before the report is made; and a run
\* that ended because it was finished reports every request it dispatched.
ReportIsComplete ==
    pc = "done" =>
        /\ owed = {}
        /\ exit = "finished" => report = Dispatched

\* A request the monitor has declared included after a timeout, on the word of
\* the scheduler that it completed, is in the report: the scheduler is told
\* before the evaluator.
IncludedAreReported ==
    pc = "done" /\ exit \in {"settled", "grace"} => included \subseteq report

\* Until stop_event is set no request leaves the threads and queues between its
\* dispatch and its record.
NothingLostBeforeStop ==
    ~stop => \A r \in Dispatched :
        \/ r \in recorded
        \/ \E d \in Dispatcher : dispatching[d] = r
        \/ \E w \in Worker : r \in clientQueue[w] \cup tasks[w]
        \/ \E k \in DOMAIN outputQueue : outputQueue[k] = r
        \/ \E c \in Completer : holding[c] = r

\* The run ends: after its timeout and grace period even if the server never
\* answers, otherwise when the answers come.
RunEnds == (mode = "grace" \/ AnswersCome) => <>(pc = "done")

-----------------------------------------------------------------------------
(* The constants of the runs.                                              *)

\* A single request and a conversation, all without delays.
TalkRequest   == {"a", "e", "f"}
TalkSessionOf == [r \in TalkRequest |-> IF r = "a" THEN "s1" ELSE "s2"]
TalkEdge      == {<<"e", "f">>}
TalkWait      == [r \in TalkRequest |-> 0]
=============================================================================
