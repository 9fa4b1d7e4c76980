---------------------------- MODULE RateTraffic ----------------------------
(***************************************************************************)
(* RateTrafficScheduler (traffic/rate.py): open-loop traffic.  A session   *)
(* is active from the moment it is scheduled, and starts one interval      *)
(* after the one before it, whatever the server does.  wait_for_ready and  *)
(* pop_ready have the same effect: neither activates anything.             *)
(***************************************************************************)
EXTENDS TrafficScheduler

CONSTANT Interval  \* what the interval generator may return, in ticks

ASSUME IntervalAssumption == Interval \subseteq Nat /\ Interval # {}

VARIABLES nextStart,  \* _next_start_time
          startTime   \* session_start_time of a scheduled session, or NotYet
vars == <<coreVars, nextStart, startTime>>

TypeOK ==
    /\ CoreTypeOK
    /\ nextStart \in Nat
    /\ startTime \in [Session -> Nat \cup {NotYet}]

Init ==
    /\ CoreInit
    /\ nextStart = 0
    /\ startTime = [s \in Session |-> NotYet]

-----------------------------------------------------------------------------
\* BUG: the state has the session's place in the arrival process, but its roots
\* are queued as of now.
ScheduleNow(s) ==
    /\ s \in unscheduled
    /\ unscheduled' = unscheduled \ {s}
    /\ \E d \in Interval : nextStart' = nextStart + d
    /\ startTime' = [startTime EXCEPT ![s] = nextStart]
    /\ ActivateOnto({s}, now, readyQueue)
    /\ UNCHANGED <<now, canceled, completions, outcomes, nodeHistory, sentAt, history>>

ScheduleSession(s) ==
    /\ s \in unscheduled
    /\ unscheduled' = unscheduled \ {s}
    /\ \E d \in Interval : nextStart' = nextStart + d
    /\ startTime' = [startTime EXCEPT ![s] = nextStart]
    /\ ActivateOnto({s}, nextStart, readyQueue)
    /\ UNCHANGED <<now, canceled, completions, outcomes, nodeHistory, sentAt, history>>

\* BUG: dispatch waits for the answers it already has to come.
PopWhenIdle ==
    /\ Sent = {}
    /\ \E i \in Due(readyQueue) :
        /\ readyQueue' = readyQueue \ {i}
        /\ MarkSent(i.req)
    /\ UNCHANGED <<now, unscheduled, sessions, canceled, pendingNodes, queuedNodes,
                   completions, outcomes, nodeHistory, inFlight, nextStart, startTime>>

\* pop_ready, when something is due.
PopReady ==
    /\ \E i \in Due(readyQueue) :
        /\ readyQueue' = readyQueue \ {i}
        /\ MarkSent(i.req)
    /\ UNCHANGED <<now, unscheduled, sessions, canceled, pendingNodes, queuedNodes,
                   completions, outcomes, nodeHistory, inFlight, nextStart, startTime>>

\* wait_for_ready: pop what is due, or return None at the timeout.
WaitForReady ==
    \/ PopReady
    \/ Due(readyQueue) = {} /\ UNCHANGED vars

NotifyCompletion(r, outcome, t) ==
    /\ r \in Sent
    /\ t \in AnswerTimes(r)
    /\ CompleteAndActivate(r, outcome, t, {})
    /\ UNCHANGED <<nextStart, startTime>>

Completes(r) == \E outcome \in Outcome, t \in AnswerTimes(r) : NotifyCompletion(r, outcome, t)

TickRate == Tick /\ UNCHANGED <<nextStart, startTime>>

Next ==
    \/ \E s \in Session : ScheduleSession(s)
    \/ WaitForReady
    \/ \E r \in Request : Completes(r)
    \/ TickRate

Spec == Init /\ [][Next]_vars

\* The prefetch worker, the dispatchers and time go on; a server that never
\* answers is allowed.
HangingSpec ==
    Spec /\ WF_vars(\E s \in Session : ScheduleSession(s)) /\ WF_vars(WaitForReady)
         /\ WF_vars(TickRate)

-----------------------------------------------------------------------------
\* Arrivals keep their order: of two requests of different sessions, the one
\* whose session was scheduled to start earlier and which is itself due
\* earlier is sent first, though sessions are handed over while others run.
ArrivalsInOrder ==
    \A q, r \in Request :
        LET sq == SessionOf[q]
            sr == SessionOf[r]
        IN  /\ IsRoot(q) /\ IsRoot(r) /\ sentAt[r] # NotYet
            /\ startTime[sq] # NotYet /\ startTime[sq] < startTime[sr]
            /\ startTime[sq] + Wait[q] < startTime[sr] + Wait[r]
            => sentAt[q] # NotYet

\* Open loop: every root arrives, even when no answer ever does.
RootsArrive == \A r \in Request : IsRoot(r) => <>(sentAt[r] # NotYet)

\* The scheduler does what TrafficContract promises, with a place for every session.
ImplementsContract == OpenContract!Spec

-----------------------------------------------------------------------------
(* The constants of the run.                                               *)

\* Two roots that join, one of them and the join delayed, and go on as a
\* conversation of three turns; a session of a single request.
JoinRequest   == {"a", "b", "c", "d", "e"}
JoinSessionOf == [r \in JoinRequest |-> IF r = "e" THEN "s2" ELSE "s1"]
JoinEdge      == {<<"a", "c">>, <<"b", "c">>, <<"c", "d">>}
JoinHist      == {<<"b", "c">>, <<"c", "d">>}
JoinWait      == [r \in JoinRequest |-> IF r \in {"a", "c"} THEN 1 ELSE 0]
=============================================================================
