--------------------------- MODULE LaunchShutdown ---------------------------
(***************************************************************************)
(* The sequential-launch scheduler together with what carries its tickets  *)
(* out: dispatchers (workers/dispatch.py) that pop requests and put them   *)
(* on the client workers' queues, client workers (workers/client_runner.py)*)
(* whose event loop reads its queue and waits for turns in the threads of  *)
(* one default executor, the shared DispatchTracker, the LLM client, and   *)
(* the completion worker that notifies the scheduler; and the stop of a    *)
(* run (workers/client_runner.py, end of _run_async, and run).             *)
(*                                                                         *)
(* A request goes through these stages:                                    *)
(*   "scheduler" not popped yet        "called"    in send_request         *)
(*   "held"      popped, not put yet   "accepted"  HTTP 200 was received   *)
(*   "queued"    in a client queue     "streaming" a first chunk came      *)
(*   "gate"      in wait_for_turn      "answered"  result in output queue  *)
(*                                     "processed" scheduler notified      *)
(***************************************************************************)
EXTENDS TrafficScheduler, SequencesExt

CONSTANTS Worker,       \* client worker threads
          Dispatchers,  \* num_dispatcher_threads
          Slots,        \* threads of an event loop's default executor
          Ordering,     \* "dispatch", "prefill" or "request"
          FiresOnReturn \* whether the client calls the callbacks it has not
                        \* called yet before it returns (client/stt.py), or
                        \* only at their events (client/openai_chat.py)

ASSUME DispatchAssumption ==
    /\ Worker # {} /\ IsFiniteSet(Request)
    /\ Dispatchers \in Nat \ {0} /\ Slots \in Nat \ {0}
    /\ Ordering \in {"dispatch", "prefill", "request"}
    /\ FiresOnReturn \in BOOLEAN
    /\ "get" \notin Request

-----------------------------------------------------------------------------
(* SequentialLaunchTrafficScheduler (traffic/sequential_launch.py): every  *)
(* session is active as soon as it is scheduled, and its roots are given   *)
(* the next dispatch tickets.  Requests released later keep the ticket of  *)
(* a fresh request, 0.                                                     *)

VARIABLES nextTicket,  \* _next_ticket
          ticket       \* request.dispatch_ticket
schedulerVars == <<coreVars, nextTicket, ticket>>

SchedulerTypeOK ==
    /\ CoreTypeOK
    /\ nextTicket \in Nat
    /\ ticket \in [Request -> Nat]

SchedulerInit ==
    /\ CoreInit
    /\ nextTicket = 0
    /\ ticket = [r \in Request |-> 0]

\* The ways to hand the next tickets to the roots of s, in any order.
Numberings(s) ==
    LET n == Cardinality(Roots({s}))
    IN  {f \in [Roots({s}) -> nextTicket .. nextTicket + n - 1] :
            \A q, r \in Roots({s}) : f[q] = f[r] => q = r}

ScheduleSession(s) ==
    /\ s \in unscheduled
    /\ unscheduled' = unscheduled \ {s}
    /\ \E f \in Numberings(s) :
           ticket' = [r \in Request |-> IF r \in Roots({s}) THEN f[r] ELSE ticket[r]]
    /\ nextTicket' = nextTicket + Cardinality(Roots({s}))
    /\ ActivateOnto({s}, now, readyQueue)
    /\ UNCHANGED <<now, canceled, completions, outcomes, nodeHistory, sentAt, history>>

\* wait_for_ready and pop_ready, when item i is due.
Pop(i) ==
    /\ i \in Due(readyQueue)
    /\ readyQueue' = readyQueue \ {i}
    /\ MarkSent(i.req)
    /\ UNCHANGED <<now, unscheduled, sessions, canceled, pendingNodes, queuedNodes,
                   completions, outcomes, nodeHistory, inFlight, nextTicket, ticket>>

NotifyCompletion(r, outcome, t) ==
    /\ r \in Sent
    /\ t \in AnswerTimes(r)
    /\ CompleteAndActivate(r, outcome, t, {})
    /\ UNCHANGED <<nextTicket, ticket>>

TickLaunch == Tick /\ UNCHANGED <<nextTicket, ticket>>

-----------------------------------------------------------------------------
(* The dispatchers, the client workers and the tracker.                    *)

VARIABLES stage,
          clientQueue,  \* one queue per client worker
          jobs,         \* executor jobs of a worker, oldest first: Get, or a
                        \* request for its wait_for_turn
          counter,      \* DispatchTracker._counter
          result        \* outcome in the RequestResult, once "answered"
dispatchVars == <<stage, clientQueue, jobs, counter, result>>
vars == <<schedulerVars, dispatchVars>>

Get == "get"

Stages == {"scheduler", "held", "queued", "gate", "called", "accepted",
           "streaming", "answered", "processed"}

TypeOK ==
    /\ SchedulerTypeOK
    /\ stage \in [Request -> Stages]
    /\ clientQueue \in [Worker -> Seq(Request)]
    /\ jobs \in [Worker -> Seq(Request \cup {Get})]
    /\ counter \in Nat
    /\ result \in [Request -> Outcome \cup {"none", "failed"}]

Init ==
    /\ SchedulerInit
    /\ stage = [r \in Request |-> "scheduler"]
    /\ clientQueue = [w \in Worker |-> <<>>]
    /\ jobs = [w \in Worker |-> <<Get>>]
    /\ counter = 0
    /\ result = [r \in Request |-> "none"]

Move(r, to) == stage' = [stage EXCEPT ![r] = to]

-----------------------------------------------------------------------------
(* The prefetch worker and the dispatchers.                                *)

Schedule(s) == ScheduleSession(s) /\ UNCHANGED dispatchVars

Held == {r \in Request : stage[r] = "held"}

Dispatch(i) ==
    /\ Cardinality(Held) < Dispatchers
    /\ Pop(i)
    /\ Move(i.req, "held")
    /\ UNCHANGED <<clientQueue, jobs, counter, result>>

\* _select_queue compares the sizes of two random queues; they may change
\* before the put, so any queue can be the one.
Put(r, w) ==
    /\ stage[r] = "held"
    /\ clientQueue' = [clientQueue EXCEPT ![w] = Append(@, r)]
    /\ Move(r, "queued")
    /\ UNCHANGED <<schedulerVars, jobs, counter, result>>

-----------------------------------------------------------------------------
(* A client worker's loop.  Its executor starts jobs in the order they     *)
(* were submitted, so the running ones are the first Slots of them.        *)

Running(w) == {jobs[w][k] : k \in 1 .. (IF Slots <= Len(jobs[w]) THEN Slots ELSE Len(jobs[w]))}

\* The jobs of an executor without one that has ended; it holds none twice.
Without(queue, job) == RemoveAt(queue, CHOOSE k \in DOMAIN queue : queue[k] = job)

\* BUG: the item is read but left in the queue.
TakeAndLeave(w) ==
    /\ Get \in Running(w)
    /\ clientQueue[w] # <<>>
    /\ jobs' = [jobs EXCEPT ![w] = Without(@, Get) \o <<Get, Head(clientQueue[w])>>]
    /\ Move(Head(clientQueue[w]), "gate")
    /\ UNCHANGED <<schedulerVars, clientQueue, counter, result>>

\* The get returns an item: the loop submits its next get, and then the task
\* made for the item submits its wait.
Take(w) ==
    /\ Get \in Running(w)
    /\ clientQueue[w] # <<>>
    /\ clientQueue' = [clientQueue EXCEPT ![w] = Tail(@)]
    /\ jobs' = [jobs EXCEPT ![w] = Without(@, Get) \o <<Get, Head(clientQueue[w])>>]
    /\ Move(Head(clientQueue[w]), "gate")
    /\ UNCHANGED <<schedulerVars, counter, result>>

\* BUG: the loop ends at Empty.
StopReading(w) ==
    /\ Get \in Running(w)
    /\ clientQueue[w] = <<>>
    /\ jobs' = [jobs EXCEPT ![w] = Without(@, Get)]
    /\ UNCHANGED <<schedulerVars, stage, clientQueue, counter, result>>

\* The get times out (Empty) and is submitted again, behind the waits.
GetTimeout(w) ==
    /\ Get \in Running(w)
    /\ clientQueue[w] = <<>>
    /\ jobs' = [jobs EXCEPT ![w] = Append(Without(@, Get), Get)]
    /\ UNCHANGED <<schedulerVars, stage, clientQueue, counter, result>>

\* BUG: off by one in the comparison with the counter.
PassGateEarly(w, r) ==
    /\ stage[r] = "gate" /\ r \in Running(w)
    /\ ticket[r] <= counter + 1
    /\ jobs' = [jobs EXCEPT ![w] = Without(@, r)]
    /\ Move(r, "called")
    /\ UNCHANGED <<schedulerVars, clientQueue, counter, result>>

\* wait_for_turn returns to the task, and send_request is called.
PassGate(w, r) ==
    /\ stage[r] = "gate" /\ r \in Running(w)
    /\ ticket[r] <= counter
    /\ jobs' = [jobs EXCEPT ![w] = Without(@, r)]
    /\ Move(r, "called")
    /\ UNCHANGED <<schedulerVars, clientQueue, counter, result>>

-----------------------------------------------------------------------------
(* send_request and its callbacks.                                         *)

Advanced(r) == IF counter <= ticket[r] THEN ticket[r] + 1 ELSE counter

AdvanceIf(condition, r) == counter' = IF condition THEN Advanced(r) ELSE counter

\* HTTP 200: _on_request_dispatched.
Accept(r) ==
    /\ stage[r] = "called"
    /\ Move(r, "accepted")
    /\ AdvanceIf(Ordering = "dispatch", r)
    /\ UNCHANGED <<schedulerVars, clientQueue, jobs, result>>

\* The first content chunk: _on_request_sent.
FirstChunk(r) ==
    /\ stage[r] = "accepted"
    /\ Move(r, "streaming")
    /\ AdvanceIf(Ordering = "prefill", r)
    /\ UNCHANGED <<schedulerVars, clientQueue, jobs, result>>

\* BUG: no fallback for a failure that came before the callbacks.
ReturnQuietly(r, outcome) ==
    /\ stage[r] \in {"called", "accepted", "streaming"}
    /\ stage[r] = "called" => outcome = "failed"
    /\ Move(r, "answered")
    /\ result' = [result EXCEPT ![r] = outcome]
    /\ UNCHANGED <<schedulerVars, clientQueue, jobs, counter>>

\* send_request returns: with any outcome after HTTP 200, with a failed result
\* when that never came.
Return(r, outcome) ==
    /\ stage[r] \in {"called", "accepted", "streaming"}
    /\ stage[r] = "called" => outcome = "failed"
    /\ Move(r, "answered")
    /\ result' = [result EXCEPT ![r] = outcome]
    /\ AdvanceIf(FiresOnReturn \/ Ordering = "request", r)
    /\ UNCHANGED <<schedulerVars, clientQueue, jobs>>

\* send_request raises: the tracker advances in every ordering.
Raise(r) ==
    /\ stage[r] \in {"called", "accepted", "streaming"}
    /\ Move(r, "answered")
    /\ result' = [result EXCEPT ![r] = "failed"]
    /\ AdvanceIf(TRUE, r)
    /\ UNCHANGED <<schedulerVars, clientQueue, jobs>>

Process(r) ==
    /\ stage[r] = "answered"
    /\ NotifyCompletion(r, result[r], now)
    /\ Move(r, "processed")
    /\ UNCHANGED <<clientQueue, jobs, counter, result>>

TickAll == TickLaunch /\ UNCHANGED dispatchVars

Answers(r) == Accept(r) \/ FirstChunk(r) \/ Raise(r) \/ \E o \in Outcome : Return(r, o)

-----------------------------------------------------------------------------
(* The stop.  Each client worker's loop stops reading, cancels its tasks,  *)
(* and is closed.  A cancelled task gives up no ticket, since              *)
(* CancelledError is not an Exception; and a cancel does not reach a       *)
(* wait_for_turn that already occupies an executor thread, whereas one     *)
(* that the executor has not started is taken back.                        *)

VARIABLES stop,    \* stop_event.is_set()
          closed,  \* client workers whose loop is closed
          runner   \* the worker whose task a request is, or NoRunner
allVars == <<vars, stop, closed, runner>>
shutdownVars == <<stop, closed, runner>>

NoRunner == "none"

ShutdownTypeOK ==
    /\ TypeOK
    /\ stop \in BOOLEAN
    /\ closed \subseteq Worker
    /\ runner \in [Request -> Worker \cup {NoRunner}]

InitShutdown ==
    /\ Init
    /\ stop = FALSE /\ closed = {}
    /\ runner = [r \in Request |-> NoRunner]

-----------------------------------------------------------------------------
SetStop ==
    /\ ~stop /\ stop' = TRUE
    /\ UNCHANGED <<vars, closed, runner>>

\* The waits that occupy an executor thread, in their order.
StartedWaits(w) ==
    SelectSeq(jobs[w], LAMBDA j : j # Get /\ j \in Running(w))

\* BUG: asyncio.run(), which waits for the tasks.
CloseWhenIdle(w) ==
    /\ stop /\ w \notin closed /\ Get \in Running(w)
    /\ \A r \in Request : runner[r] = w => stage[r] \in {"answered", "processed"}
    /\ closed' = closed \cup {w}
    /\ jobs' = [jobs EXCEPT ![w] = StartedWaits(w)]
    /\ UNCHANGED <<schedulerVars, stage, clientQueue, counter, result, stop, runner>>

\* The get under way returns an item, the sentinel or Empty, for which it needs a
\* thread; the tasks are cancelled and given two seconds; the loop is closed.
CloseLoop(w) ==
    /\ stop /\ w \notin closed /\ Get \in Running(w)
    /\ closed' = closed \cup {w}
    /\ jobs' = [jobs EXCEPT ![w] = StartedWaits(w)]
    /\ UNCHANGED <<schedulerVars, stage, clientQueue, counter, result, stop, runner>>

\* wait_for_turn returns to a loop that is closed.
ReturnUnheard(w, r) ==
    /\ w \in closed /\ r \in Running(w)
    /\ ticket[r] <= counter
    /\ jobs' = [jobs EXCEPT ![w] = Without(@, r)]
    /\ UNCHANGED <<schedulerVars, stage, clientQueue, counter, result, shutdownVars>>

OpenTake(w) ==
    /\ ~stop /\ Take(w)
    /\ runner' = [runner EXCEPT ![Head(clientQueue[w])] = w]
    /\ UNCHANGED <<stop, closed>>

OpenGetTimeout(w) == ~stop /\ GetTimeout(w) /\ UNCHANGED shutdownVars
OpenPassGate(w, r) == w \notin closed /\ PassGate(w, r) /\ UNCHANGED shutdownVars
OpenAnswers(r) == runner[r] \notin closed /\ Answers(r) /\ UNCHANGED shutdownVars

Upstream ==
    /\ \/ \E s \in Session : Schedule(s)
       \/ \E i \in readyQueue : Dispatch(i)
       \/ \E r \in Request : Process(r) \/ \E w \in Worker : Put(r, w)
       \/ TickAll
    /\ UNCHANGED shutdownVars

Stopped == stop /\ closed = Worker /\ UNCHANGED allVars

NextShutdown ==
    \/ Upstream
    \/ SetStop
    \/ \E w \in Worker : OpenTake(w) \/ OpenGetTimeout(w) \/ CloseLoop(w)
    \/ \E w \in Worker, r \in Request : OpenPassGate(w, r) \/ ReturnUnheard(w, r)
    \/ \E r \in Request : OpenAnswers(r)
    \/ Stopped

\* Every thread goes on, an executor thread that can return does, and the
\* client answers every request it is called for (it has a timeout), as long as
\* its loop runs.  The stop may come or not.
StoppingFairness ==
    /\ WF_allVars(Upstream)
    /\ \A w \in Worker :
        /\ WF_allVars(OpenTake(w)) /\ WF_allVars(OpenGetTimeout(w))
        /\ WF_allVars(CloseLoop(w))
        /\ \A r \in Request : WF_allVars(ReturnUnheard(w, r))
    /\ \A r \in Request :
        /\ WF_allVars(\E w \in Worker : OpenPassGate(w, r))
        /\ WF_allVars(OpenAnswers(r))

StoppingSpec == InitShutdown /\ [][NextShutdown]_allVars /\ StoppingFairness

-----------------------------------------------------------------------------
PastGate == {"called", "accepted", "streaming", "answered", "processed"}

\* The point at which the ordering lets the next ticket go.
Launched ==
    CASE Ordering = "dispatch" -> {"accepted", "streaming", "answered", "processed"}
      [] Ordering = "prefill"  -> {"streaming", "answered", "processed"}
      [] Ordering = "request"  -> {"answered", "processed"}

\* Roots are sent strictly in ticket order, each only when the one before has
\* reached the point of the ordering, over all client workers and whatever
\* order the dispatchers put them in (the class docstring's promise).
TurnsInOrder ==
    \A q, r \in Request :
        /\ IsRoot(q) /\ IsRoot(r)
        /\ {SessionOf[q], SessionOf[r]} \cap unscheduled = {}
        /\ ticket[q] < ticket[r] /\ stage[r] \in PastGate
        => stage[q] \in Launched

Occurrences(x, queues) ==
    UNION {{w} \X {k \in DOMAIN queues[w] : queues[w][k] = x} : w \in Worker}

\* No request is lost, doubled or in two hands on its way from the scheduler's
\* heap to its notification.
InOneHand ==
    \A r \in Request :
        /\ Cardinality(Occurrences(r, clientQueue)) = IF stage[r] = "queued" THEN 1 ELSE 0
        /\ Cardinality(Occurrences(r, jobs)) = IF stage[r] = "gate" THEN 1 ELSE 0
        /\ r \in Sent <=> stage[r] \notin {"scheduler", "processed"}

\* The scheduler does what TrafficContract promises, with a place for every
\* session, whatever the threads that carry its tickets out do.
ImplementsContract == OpenContract!Spec

\* Turns stay in order while the workers close one after the other: a request
\* whose task was cancelled keeps its ticket, so none behind it is sent.
TurnsInOrderToTheEnd == TurnsInOrder

\* Until the stop no request is lost, doubled or in two hands between the heap
\* and its notification.
InOneHandUntilStop == ~stop => InOneHand

\* "Ensure the tracker advances even on failure so subsequent requests are not
\* stuck waiting forever" (_process_request): every wait for a turn ends,
\* failures included, but for the stop.
EveryTurnComesOrStop ==
    \A r \in Request : stage[r] = "gate" ~> (stage[r] # "gate" \/ stop)

\* "All sessions remain concurrently active on the server - only the launch
\* order is sequential" (SequentialLaunchTrafficConfig): every session's roots
\* are sent, whatever other sessions wait for, but for the stop.
EveryRootIsLaunchedOrStop ==
    \A r \in Request : IsRoot(r) => <>(stage[r] \in PastGate \/ stop)

\* Until the stop no wait for a turn and no root is held up for ever.
LaunchesGoOnUntilStop == EveryTurnComesOrStop /\ EveryRootIsLaunchedOrStop

\* Once the run is stopped every client loop is closed, though the server may
\* leave its requests unanswered: client_runner.wait(), which has no timeout,
\* returns.
LoopsClose == stop ~> closed = Worker

\* "the process hangs for hours" is what ClientWorker.run sets out to avoid: the
\* executor threads, which the interpreter joins when it exits, end too.
ExecutorThreadsEnd == stop ~> \A w \in Worker : jobs[w] = <<>>

-----------------------------------------------------------------------------
(* The constants of the runs.                                              *)

\* A single request and a conversation, all without delays.
TalkRequest   == {"a", "e", "f"}
TalkSessionOf == [r \in TalkRequest |-> IF r = "a" THEN "s1" ELSE "s2"]
TalkEdge      == {<<"e", "f">>}
TalkWait      == [r \in TalkRequest |-> 0]
LateTalkWait  == [r \in TalkRequest |-> IF r = "a" THEN 1 ELSE 0]
=============================================================================
