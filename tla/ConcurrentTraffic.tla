------------------------- MODULE ConcurrentTraffic -------------------------
(***************************************************************************)
(* ConcurrentTrafficScheduler (traffic/concurrent.py): closed-loop traffic *)
(* that keeps Target sessions active, after a linear ramp of Ramp ticks.   *)
(* A generated session waits in pendingSessions until there is room; the   *)
(* methods that look for room are schedule_session, wait_for_ready and a   *)
(* notify_completion that ends a session, but not pop_ready.               *)
(***************************************************************************)
EXTENDS TrafficScheduler

CONSTANTS Target,  \* target_concurrent_sessions
          Ramp     \* rampup_seconds

ASSUME RampAssumption == Target \in Nat \ {0} /\ Ramp \in Nat

VARIABLES pendingSessions,  \* _pending_sessions: a deque
          rampComplete      \* _rampup_complete: latched by the first look at
                            \* the target past the ramp
vars == <<coreVars, pendingSessions, rampComplete>>

Waiting == Range(pendingSessions)

TypeOK ==
    /\ CoreTypeOK
    /\ pendingSessions \in Seq(Session)
    /\ rampComplete \in BOOLEAN

\* reset_reference_time has run: the clock starts at the first dispatch.
Init ==
    /\ CoreInit
    /\ pendingSessions = <<>>
    /\ rampComplete = FALSE

-----------------------------------------------------------------------------
CurrentTarget ==
    IF rampComplete \/ now >= Ramp THEN Target ELSE (Target * now) \div Ramp

\* BUG: the loop admits one session too many.
RoomForOneMore(queue, active) ==
    LET free == CurrentTarget - Cardinality(active) + 1
    IN  IF free <= 0 THEN 0 ELSE IF free <= Len(queue) THEN free ELSE Len(queue)

\* How many of the sessions waiting in queue the admission loop activates
\* when active sessions hold a place.
Room(queue, active) ==
    LET free == CurrentTarget - Cardinality(active)
    IN  IF free <= 0 THEN 0 ELSE IF free <= Len(queue) THEN free ELSE Len(queue)

FirstOf(queue, k) == {queue[i] : i \in 1 .. k}

\* _try_activate_pending_locked, with active the sessions that hold a place:
\* the head of queue is removed; the sessions Admitted are for the caller to
\* activate.
Admitted(queue, active) == FirstOf(queue, Room(queue, active))

Admit(queue, active) ==
    /\ pendingSessions' = SubSeq(queue, Room(queue, active) + 1, Len(queue))
    /\ rampComplete' = (rampComplete \/ (queue # <<>> /\ now >= Ramp))

ScheduleSession(s) ==
    LET queue == Append(pendingSessions, s) IN
    /\ s \in unscheduled
    /\ unscheduled' = unscheduled \ {s}
    /\ Admit(queue, sessions)
    /\ ActivateOnto(Admitted(queue, sessions), now, readyQueue)
    /\ UNCHANGED <<now, canceled, completions, outcomes, nodeHistory, sentAt, history>>

PopReady ==
    /\ \E i \in Due(readyQueue) :
        /\ readyQueue' = readyQueue \ {i}
        /\ MarkSent(i.req)
    /\ UNCHANGED <<now, unscheduled, sessions, canceled, pendingNodes, queuedNodes,
                   completions, outcomes, nodeHistory, inFlight, pendingSessions, rampComplete>>

\* BUG: admission is left to schedule_session and to completions.
WaitWithoutAdmission ==
    PopReady \/ (Due(readyQueue) = {} /\ UNCHANGED vars)

\* One round of wait_for_ready: look for room, then pop what is due.  The
\* method does it up to twice, waiting on the condition in between.
WaitForReady ==
    LET S     == Admitted(pendingSessions, sessions)
        queue == readyQueue \cup RootItems(S, now)
    IN
    /\ Admit(pendingSessions, sessions)
    /\ \/ /\ Due(queue) = {}
          /\ ActivateOnto(S, now, readyQueue)
          /\ UNCHANGED <<sentAt, history>>
       \/ \E i \in Due(queue) :
          /\ sessions' = sessions \cup S
          /\ pendingNodes' = pendingNodes \cup NonRoots(S)
          /\ queuedNodes' = queuedNodes \cup Roots(S)
          /\ inFlight' = inFlight \cup Roots(S)
          /\ readyQueue' = queue \ {i}
          /\ MarkSent(i.req)
    /\ UNCHANGED <<now, unscheduled, canceled, completions, outcomes, nodeHistory>>

\* BUG: a place is looked for before the session gives up its own.
NotifyBeforeDelete(r, outcome, t) ==
    /\ r \in Sent
    /\ t \in AnswerTimes(r)
    /\ CompleteAndActivate(r, outcome, t, Admitted(pendingSessions, sessions))
    /\ Admit(pendingSessions, sessions)

NotifyCompletion(r, outcome, t) ==
    LET ended  == Ended(r, outcome)
        active == sessions \ ended
    IN
    /\ r \in Sent
    /\ t \in AnswerTimes(r)
    /\ IF ended = {}
       THEN /\ CompleteAndActivate(r, outcome, t, {})
            /\ UNCHANGED <<pendingSessions, rampComplete>>
       ELSE /\ CompleteAndActivate(r, outcome, t, Admitted(pendingSessions, active))
            /\ Admit(pendingSessions, active)

Completes(r) == \E outcome \in Outcome, t \in AnswerTimes(r) : NotifyCompletion(r, outcome, t)

TickConcurrent == Tick /\ UNCHANGED <<pendingSessions, rampComplete>>

Next ==
    \/ \E s \in Session : ScheduleSession(s)
    \/ WaitForReady
    \/ PopReady
    \/ \E r \in Request : Completes(r)
    \/ TickConcurrent

Spec == Init /\ [][Next]_vars

\* The threads keep running: the prefetch worker until it has no more
\* sessions, the dispatchers, and time.
WorkersFair ==
    /\ WF_vars(\E s \in Session : ScheduleSession(s))
    /\ WF_vars(WaitForReady)
    /\ WF_vars(TickConcurrent)

\* The server may never answer.
HangingSpec == Spec /\ WorkersFair

\* Every request sent is answered or times out at the client, and the
\* completion worker notifies the scheduler of it.
AnswersCome == \A r \in Request : WF_vars(Completes(r))

-----------------------------------------------------------------------------
\* The load is never above what the ramp allows by now, so never above Target
\* (_current_target_concurrency is sampled, and the loop stops at it).
ConcurrencyHeld == Cardinality(sessions) <= CurrentTarget

\* Once the ramp is over a place does not stay free while a session waits for
\* one: the completion that frees it also fills it.
PlacesStayTaken ==
    rampComplete /\ pendingSessions # <<>> => Cardinality(sessions) = Target

FinishedAreDone == FinishedMeansDone(Waiting)

\* The scheduler does what TrafficContract promises, with Target places.
Contract == INSTANCE TrafficContract WITH Cap <- Target, fate <- Fate, open <- sessions
ImplementsContract == Contract!Spec

\* "admission keeps pace with the ramp instead of stalling until the first
\* completion" (_seconds_until_next_rampup_step): sessions that wait are
\* admitted until all the places of the target are taken, though no request
\* is ever answered.
RampKeepsPace ==
    pendingSessions # <<>> ~>
        (pendingSessions = <<>> \/ Cardinality(sessions) = Target)

\* If answers come, every session handed to the scheduler is activated and
\* finishes, and with it the run: has_pending_work becomes false for good.
AllWorkEnds ==
    AnswersCome =>
    <>[](unscheduled = {} /\ pendingSessions = <<>> /\ sessions = {} /\ readyQueue = {})

-----------------------------------------------------------------------------
(* The constants of the run.                                               *)

\* A root with two children that join after a delay, with the history of one
\* path, and two sessions of a single request, one of them delayed.
DiamondRequest   == {"a", "b", "c", "d", "e", "g"}
DiamondSessionOf == [r \in DiamondRequest |->
                        CASE r = "e" -> "s2" [] r = "g" -> "s3" [] OTHER -> "s1"]
DiamondEdge      == {<<"a", "b">>, <<"a", "c">>, <<"b", "d">>, <<"c", "d">>}
DiamondHist      == {<<"a", "b">>, <<"b", "d">>}
DiamondWait      == [r \in DiamondRequest |-> CASE r = "d" -> 1 [] r = "e" -> 2 [] OTHER -> 0]
=============================================================================
