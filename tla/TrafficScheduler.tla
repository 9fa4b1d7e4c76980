-------------------------- MODULE TrafficScheduler --------------------------
(***************************************************************************)
(* What the three traffic schedulers share (traffic/concurrent.py,         *)
(* rate.py, sequential_launch.py): the session states, the ready queue,    *)
(* the request-to-session map and the effect of a dispatch and of a        *)
(* completion.  Every method runs under the scheduler's one Condition, so  *)
(* a method is one step.  The modules that EXTEND this one add what makes  *)
(* a session active and give the actions.                                  *)
(*                                                                         *)
(* Time is counted in ticks.  The bound Horizon is where free ticking      *)
(* stops; past it the clock moves only to reach a request still to come.   *)
(***************************************************************************)
EXTENDS SessionGraph, Sequences

CONSTANTS CancelOnFailure,  \* config.cancel_session_on_failure
          Outcome,          \* of "text", "silent" (success, no text channel), "failed"
          MaxLag,           \* bound: ticks from the answer to its processing
          Horizon           \* bound: last tick of free running time

ASSUME ConfigAssumption ==
    /\ CancelOnFailure \in BOOLEAN
    /\ Outcome \subseteq {"text", "silent", "failed"}
    /\ MaxLag \in Nat
    /\ Horizon \in Nat

VARIABLES
    now,           \* _now()
    unscheduled,   \* sessions the prefetch worker has not handed over yet
    sessions,      \* keys of _sessions: the active sessions
    canceled,      \* sessions whose state has is_canceled
    pendingNodes,  \* union of the states' pending_nodes
    queuedNodes,   \* union of the states' queued_nodes: queued or in flight
    completions,   \* union of the states' completions
    outcomes,      \* what the completion of a request reported, or "none"
    nodeHistory,   \* union of the states' node_histories, <<>> if absent
    readyQueue,    \* _ready_queue: a set of [at, req]
    inFlight,      \* keys of _request_to_session
    sentAt,        \* when a request was popped for dispatch, or NotYet
    history        \* request.history

coreVars == <<now, unscheduled, sessions, canceled, pendingNodes, queuedNodes,
              completions, outcomes, nodeHistory, readyQueue, inFlight, sentAt, history>>

\* Popped by a dispatcher and not yet notified as complete.
Sent == {r \in Request : sentAt[r] # NotYet /\ completions[r] = NotYet}
QueuedRequests == {i.req : i \in readyQueue}

Reports == Outcome \cup {"none", "failed"}

CoreTypeOK ==
    /\ now \in Nat
    /\ unscheduled \subseteq Session
    /\ sessions \subseteq Session
    /\ canceled \subseteq Session
    /\ pendingNodes \subseteq Request
    /\ queuedNodes \subseteq Request
    /\ completions \in [Request -> Nat \cup {NotYet}]
    /\ outcomes \in [Request -> Reports]
    /\ nodeHistory \in [Request -> Seq([turn : Request, answered : BOOLEAN])]
    /\ readyQueue \subseteq [at : Nat, req : Request]
    /\ inFlight \subseteq Request
    /\ sentAt \in [Request -> Nat \cup {NotYet}]
    /\ history \in [Request -> Seq([turn : Request, answered : BOOLEAN])]

CoreInit ==
    /\ now = 0
    /\ unscheduled = Session
    /\ sessions = {}
    /\ canceled = {}
    /\ pendingNodes = {}
    /\ queuedNodes = {}
    /\ completions = [r \in Request |-> NotYet]
    /\ outcomes = [r \in Request |-> "none"]
    /\ nodeHistory = [r \in Request |-> <<>>]
    /\ readyQueue = {}
    /\ inFlight = {}
    /\ sentAt = [r \in Request |-> NotYet]
    /\ history = [r \in Request |-> <<>>]

-----------------------------------------------------------------------------
(* Activating sessions: their roots are queued, their other nodes pend.    *)

Roots(S)    == {r \in Request : SessionOf[r] \in S /\ IsRoot(r)}
NonRoots(S) == {r \in Request : SessionOf[r] \in S /\ ~IsRoot(r)}

\* BUG: the delay is subtracted.
RootItemsEarly(S, start) == {[at |-> start - Wait[r], req |-> r] : r \in Roots(S)}

RootItems(S, start) == {[at |-> start + Wait[r], req |-> r] : r \in Roots(S)}

\* BUG: a root is queued without an entry in _request_to_session.
ActivateUnmapped(S, start, queue) ==
    /\ sessions' = sessions \cup S
    /\ pendingNodes' = pendingNodes \cup NonRoots(S)
    /\ queuedNodes' = queuedNodes \cup Roots(S)
    /\ inFlight' = inFlight
    /\ readyQueue' = queue \cup RootItems(S, start)

\* The sessions in S, started at start, and the queue they are added to.
ActivateOnto(S, start, queue) ==
    /\ sessions' = sessions \cup S
    /\ pendingNodes' = pendingNodes \cup NonRoots(S)
    /\ queuedNodes' = queuedNodes \cup Roots(S)
    /\ inFlight' = inFlight \cup Roots(S)
    /\ readyQueue' = queue \cup RootItems(S, start)

-----------------------------------------------------------------------------
(* Dispatch: the heap gives up an item with the least ready time, if due.  *)

Due(queue) == {i \in queue : i.at <= now /\ \A j \in queue : i.at <= j.at}

\* BUG: the history of any parent.
InheritedFromAnyParent(r) ==
    IF Parents(r) = {} THEN <<>> ELSE nodeHistory[CHOOSE p \in Parents(r) : TRUE]

\* _populate_history: a copy of the reference to the one history parent's list.
InheritedHistory(r) ==
    IF HistParents(r) = {} THEN <<>>
    ELSE nodeHistory[CHOOSE p \in HistParents(r) : TRUE]

MarkSent(r) ==
    /\ sentAt' = [sentAt EXCEPT ![r] = now]
    /\ history' = [history EXCEPT ![r] = InheritedHistory(r)]

-----------------------------------------------------------------------------
(* Completion.                                                             *)

Cancels(outcome) == outcome = "failed" /\ CancelOnFailure

\* BUG: a child is released by the first of its parents.
ReleasedByAnyParent(r, outcome, done) ==
    IF Cancels(outcome) THEN {} ELSE Children(r) \cap pendingNodes

\* BUG: no look at pending_nodes, which a cancel clears.
ReleasedThoughDropped(r, outcome, done) ==
    IF Cancels(outcome) THEN {} ELSE {c \in Children(r) : ParentsDone(c, done)}

\* The children that the completion of r queues, done being the completions
\* with r's.
Released(r, outcome, done) ==
    IF Cancels(outcome) THEN {}
    ELSE {c \in Children(r) \cap pendingNodes : ParentsDone(c, done)}

Dropped(r, outcome) ==
    IF Cancels(outcome) THEN pendingNodes \cap NodesOf(SessionOf[r]) ELSE {}

\* BUG: the cancel path deletes the session with siblings still in flight.
EndedOnCancel(r, outcome) ==
    LET left == (pendingNodes \cup queuedNodes) \ {r}
    IN  IF Cancels(outcome) \/ left \cap NodesOf(SessionOf[r]) = {}
        THEN {SessionOf[r]} ELSE {}

\* BUG: the cancel path returns without deleting the session.
EndedBySuccess(r, outcome) ==
    LET left == (pendingNodes \cup queuedNodes) \ {r}
    IN  IF ~Cancels(outcome) /\ left \cap NodesOf(SessionOf[r]) = {}
        THEN {SessionOf[r]} ELSE {}

\* BUG: a session with nothing queued is deleted, though its children are
\* released by this very completion.
EndedBeforeRelease(r, outcome) ==
    IF (queuedNodes \ {r}) \cap NodesOf(SessionOf[r]) = {} THEN {SessionOf[r]} ELSE {}

\* {the session of r} if its completion leaves the session nothing to do.
Ended(r, outcome) ==
    LET left == (pendingNodes \ Dropped(r, outcome)) \cup (queuedNodes \ {r})
    IN  IF left \cap NodesOf(SessionOf[r]) = {} THEN {SessionOf[r]} ELSE {}

ReleasedItems(r, outcome, done) ==
    {[at |-> ReadyAt(c, done), req |-> c] : c \in Released(r, outcome, done)}

\* BUG: the turn is recorded without the history before it.
RecordedTurnOnly(r, outcome) ==
    IF IsHistoryParent(r)
    THEN <<[turn |-> r, answered |-> outcome = "text"]>> ELSE nodeHistory[r]

\* BUG: every success is recorded with an answer.
RecordedAsAnswered(r, outcome) ==
    IF IsHistoryParent(r)
    THEN Append(history[r], [turn |-> r, answered |-> outcome # "failed"])
    ELSE nodeHistory[r]

\* _record_history: the request's own history, its turn and, when it
\* succeeded with text, the answer; only for a node some child inherits from.
RecordedHistory(r, outcome) ==
    IF IsHistoryParent(r)
    THEN Append(history[r], [turn |-> r, answered |-> outcome = "text"])
    ELSE nodeHistory[r]

\* completed_at is the client's clock at the answer: after the dispatch, and
\* before the completion worker gets to it.
AnswerTimes(r) == {t \in sentAt[r] .. now : now - t <= MaxLag}

\* notify_completion(r) for an answer at time t; the sessions in admitted are
\* activated at its end.
CompleteAndActivate(r, outcome, t, admitted) ==
    LET done     == [completions EXCEPT ![r] = t]
        released == Released(r, outcome, done)
    IN  /\ completions' = done
        /\ outcomes' = [outcomes EXCEPT ![r] = outcome]
        /\ nodeHistory' = [nodeHistory EXCEPT ![r] = RecordedHistory(r, outcome)]
        /\ canceled' = IF Cancels(outcome) THEN canceled \cup {SessionOf[r]} ELSE canceled
        /\ pendingNodes' = (pendingNodes \ (released \cup Dropped(r, outcome)))
                               \cup NonRoots(admitted)
        /\ queuedNodes' = (queuedNodes \ {r}) \cup released \cup Roots(admitted)
        /\ inFlight' = (inFlight \ {r}) \cup released \cup Roots(admitted)
        /\ readyQueue' = readyQueue \cup ReleasedItems(r, outcome, done)
                               \cup RootItems(admitted, now)
        /\ sessions' = (sessions \ Ended(r, outcome)) \cup admitted
        /\ UNCHANGED <<now, unscheduled, sentAt, history>>

-----------------------------------------------------------------------------
Tick ==
    /\ now < Horizon \/ \E i \in readyQueue : i.at > now
    /\ now' = now + 1
    /\ UNCHANGED <<unscheduled, sessions, canceled, pendingNodes, queuedNodes,
                   completions, outcomes, nodeHistory, readyQueue, inFlight, sentAt, history>>

-----------------------------------------------------------------------------
(* The fate of each request in the terms of TrafficContract.               *)
Fate == [r \in Request |->
           IF completions[r] # NotYet THEN "done"
           ELSE IF r \in Sent THEN "sent"
           ELSE IF SessionOf[r] \in canceled /\ r \notin inFlight THEN "dropped"
           ELSE "idle"]

\* The contract of a scheduler that has a place for every session.
OpenContract == INSTANCE TrafficContract
    WITH Cap <- Cardinality(Session), fate <- Fate, open <- sessions

-----------------------------------------------------------------------------
(* Properties every scheduler has.                                         *)

\* The dictionary lookups of a pop and of a completion, which raise KeyError
\* and kill the worker thread when they miss, always hit: whatever is queued
\* or in flight is in _request_to_session and its session is still active.
LookupsNeverFail ==
    \A r \in QueuedRequests \cup Sent : r \in inFlight /\ SessionOf[r] \in sessions

\* No session is left active with nothing that could ever complete: only a
\* completion deletes a session, so one with no request queued or sent would
\* hold its place forever and has_pending_work would never turn false.
NoStuckSession ==
    \A s \in sessions : \E r \in QueuedRequests \cup Sent : SessionOf[r] = s

\* A request is never dispatched before the last of its parents has completed
\* and its own delay has passed since, whatever the order in which the
\* completions are processed.
NeverEarly ==
    \A r \in Request : sentAt[r] # NotYet =>
        \A p \in Parents(r) :
            completions[p] # NotYet /\ sentAt[r] >= completions[p] + Wait[r]

\* A dispatched request carries its history parent's conversation extended by
\* the parent's turn: the chain of history ancestors, each once and in order,
\* and a turn's answer is in it exactly if that turn succeeded with text.
HistoryIsAncestry ==
    \A r \in Request : sentAt[r] # NotYet =>
        IF HistParents(r) = {} THEN history[r] = <<>>
        ELSE \E p \in HistParents(r) : history[r] =
                 Append(history[p], [turn |-> p, answered |-> outcomes[p] = "text"])

\* get_in_flight_request_ids, from which a timed-out run decides what it still
\* waits for, is the queued and the sent requests and nothing else.
InFlightIsQueuedOrSent == inFlight = QueuedRequests \cup Sent

\* A finished session (scheduled, no longer waiting for a place or active) has
\* no unfinished business: each of its requests has completed, or the session
\* was canceled and the request was never sent.
FinishedMeansDone(waiting) ==
    \A r \in Request : SessionOf[r] \notin unscheduled \cup waiting \cup sessions =>
        \/ completions[r] # NotYet
        \/ SessionOf[r] \in canceled /\ sentAt[r] = NotYet
=============================================================================
