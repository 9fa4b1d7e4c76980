------------------------- MODULE SessionAccounting -------------------------
(***************************************************************************)
(* The request and session counters of the performance evaluator           *)
(* (evaluator/performance/base.py).  Dispatchers register requests and     *)
(* completion workers record their results, each under the evaluator's     *)
(* lock; finalize() then closes the sessions still open, one by one, when  *)
(* the completion workers have ended (BenchmarkRun has the case that they  *)
(* have not).                                                              *)
(*                                                                         *)
(* A result is "ok", "failed" with an error message, or "mute": failed     *)
(* with an error code and an empty message, for which the completion       *)
(* worker makes no exception.  No client sets RequestResult.cancelled, so  *)
(* the cancelled counters stay at 0 and are left out.                      *)
(***************************************************************************)
EXTENDS Naturals, FiniteSets

CONSTANTS Session, Request, SessionOf,
          Result  \* the results that occur

\* What the constants are.
AccountingAssumption ==
    /\ IsFiniteSet(Session) /\ IsFiniteSet(Request)
    /\ SessionOf \in [Request -> Session]
    /\ \A s \in Session : \E r \in Request : SessionOf[r] = s
    /\ Result \subseteq {"ok", "failed", "mute"}

VARIABLES
    registered,                               \* _registered_request_ids
    numErrored, numCompleted,                 \* num_errored_requests, num_completed_requests
    open,                                     \* keys of session_stats
    observed, erroredIn,                      \* requests_observed, errored_requests
    seen, successful, errored, incomplete,    \* num_sessions_*
    phase,                                    \* "running", "finalizing", "done"
    toClose,                                  \* the keys finalize() has yet to look at
    outcome                                   \* history: the result of a recorded request
counters == <<numErrored, numCompleted, seen, successful, errored, incomplete>>
vars == <<registered, counters, open, observed, erroredIn, phase, toClose, outcome>>

Unknown == "unknown"
Size(s) == Cardinality({r \in Request : SessionOf[r] = s})

TypeOK ==
    /\ registered \subseteq Request
    /\ \A n \in {numErrored, numCompleted, seen, successful, errored, incomplete} : n \in Nat
    /\ open \subseteq Session /\ toClose \subseteq Session
    /\ observed \in [Session -> Nat] /\ erroredIn \in [Session -> Nat]
    /\ \A s \in Session : erroredIn[s] <= observed[s] /\ observed[s] < Size(s)
    /\ phase \in {"running", "finalizing", "done"}
    /\ outcome \in [Request -> Result \cup {Unknown}]

Init ==
    /\ registered = {} /\ open = {} /\ toClose = {} /\ phase = "running"
    /\ numErrored = 0 /\ numCompleted = 0
    /\ seen = 0 /\ successful = 0 /\ errored = 0 /\ incomplete = 0
    /\ observed = [s \in Session |-> 0]
    /\ erroredIn = [s \in Session |-> 0]
    /\ outcome = [r \in Request |-> Unknown]

-----------------------------------------------------------------------------
RegisterRequest(r) ==
    /\ phase = "running" /\ r \notin registered
    /\ registered' = registered \cup {r}
    /\ UNCHANGED <<counters, open, observed, erroredIn, phase, toClose, outcome>>

\* _finalize_session of a session that has all its requests.
CountSession(failures) ==
    /\ successful' = successful + IF failures = 0 THEN 1 ELSE 0
    /\ errored' = errored + IF failures = 0 THEN 0 ELSE 1

\* BUG: off by one.
IsBeyondLast(s) == observed[s] + 1 > Size(s)

IsLast(s) == observed[s] + 1 >= Size(s)

\* _update_session_metrics_for_request: an entry is made at the first request of
\* a session and deleted with its last.
UpdateSession(s, result) ==
    LET failures == erroredIn[s] + IF result = "failed" THEN 1 ELSE 0
        last     == IsLast(s)
    IN  /\ seen' = seen + IF s \in open THEN 0 ELSE 1
        /\ observed' = [observed EXCEPT ![s] = IF last THEN 0 ELSE @ + 1]
        /\ erroredIn' = [erroredIn EXCEPT ![s] = IF last THEN 0 ELSE failures]
        /\ open' = IF last THEN open \ {s} ELSE open \cup {s}
        /\ IF last THEN CountSession(failures) ELSE UNCHANGED <<successful, errored>>

\* BUG: a failed request leaves before the session is looked at.
RecordFailureEarly(r, result) ==
    /\ phase = "running" /\ r \in registered /\ outcome[r] = Unknown
    /\ outcome' = [outcome EXCEPT ![r] = result]
    /\ numErrored' = numErrored + IF result = "ok" THEN 0 ELSE 1
    /\ numCompleted' = numCompleted + IF result = "ok" THEN 1 ELSE 0
    /\ IF result = "failed"
       THEN UNCHANGED <<seen, observed, erroredIn, open, successful, errored>>
       ELSE UpdateSession(SessionOf[r], result)
    /\ UNCHANGED <<registered, incomplete, phase, toClose>>

RecordRequestCompleted(r, result) ==
    /\ phase = "running" /\ r \in registered /\ outcome[r] = Unknown
    /\ outcome' = [outcome EXCEPT ![r] = result]
    /\ numErrored' = numErrored + IF result = "ok" THEN 0 ELSE 1
    /\ numCompleted' = numCompleted + IF result = "ok" THEN 1 ELSE 0
    /\ UpdateSession(SessionOf[r], result)
    /\ UNCHANGED <<registered, incomplete, phase, toClose>>

Finalize ==
    /\ phase = "running"
    /\ phase' = "finalizing" /\ toClose' = open
    /\ UNCHANGED <<registered, counters, open, observed, erroredIn, outcome>>

\* BUG: whatever is still open is incomplete.
CloseAsIncomplete(s) ==
    /\ phase = "finalizing" /\ s \in toClose
    /\ toClose' = toClose \ {s} /\ open' = open \ {s}
    /\ observed' = [observed EXCEPT ![s] = 0]
    /\ erroredIn' = [erroredIn EXCEPT ![s] = 0]
    /\ incomplete' = incomplete + 1
    /\ UNCHANGED <<registered, numErrored, numCompleted, seen, successful, errored, phase, outcome>>

\* _finalize_remaining_sessions, for one session: it lacks a request, so it is
\* errored if one of them failed and incomplete otherwise.
Close(s) ==
    /\ phase = "finalizing" /\ s \in toClose
    /\ toClose' = toClose \ {s} /\ open' = open \ {s}
    /\ observed' = [observed EXCEPT ![s] = 0]
    /\ erroredIn' = [erroredIn EXCEPT ![s] = 0]
    /\ errored' = errored + IF erroredIn[s] > 0 THEN 1 ELSE 0
    /\ incomplete' = incomplete + IF erroredIn[s] > 0 THEN 0 ELSE 1
    /\ UNCHANGED <<registered, numErrored, numCompleted, seen, successful, phase, outcome>>

AllClosed ==
    /\ phase = "finalizing" /\ toClose = {}
    /\ phase' = "done"
    /\ UNCHANGED <<registered, counters, open, observed, erroredIn, toClose, outcome>>

Finalized == phase = "done" /\ UNCHANGED vars

Next ==
    \/ \E r \in Request : RegisterRequest(r)
    \/ \E r \in Request, result \in Result : RecordRequestCompleted(r, result)
    \/ Finalize
    \/ \E s \in Session : Close(s)
    \/ AllClosed
    \/ Finalized

Spec == Init /\ [][Next]_vars

-----------------------------------------------------------------------------
Recorded(s)  == {r \in Request : SessionOf[r] = s /\ outcome[r] # Unknown}
WithError(s) == {r \in Recorded(s) : outcome[r] = "failed"}
Whole(s)     == Cardinality(Recorded(s)) = Size(s)

\* The session counters are those of the history, at every moment of the run:
\* with requests of several sessions recorded in any order, with failures before
\* or after successes, each session is seen once and counted when it is whole.
SessionCountsExact ==
    /\ seen = Cardinality({s \in Session : Recorded(s) # {}})
    /\ successful = Cardinality({s \in Session : Whole(s) /\ WithError(s) = {}})
    /\ phase = "running" =>
        errored = Cardinality({s \in Session : Whole(s) /\ WithError(s) # {}})

\* In the final report a session counts as errored exactly if one of its
\* requests failed, whole or cut short (a failure that cancels a session leaves
\* it open until then), and every session seen is counted once.
FinalCountsExact ==
    phase = "done" =>
        /\ open = {}
        /\ errored = Cardinality({s \in Session : WithError(s) # {}})
        /\ seen = successful + errored + incomplete
=============================================================================
