-------------------------- MODULE TrafficContract --------------------------
(***************************************************************************)
(* What a traffic scheduler promises the rest of the benchmark, without    *)
(* clocks, heaps or node sets (traffic/base.py, docs/design/scheduling):   *)
(* at most Cap sessions are open; a request is sent once, when its session *)
(* is open and all its parents are done; a failure may drop exactly the    *)
(* requests of its session that were still waiting for a parent, and those *)
(* whose parents were done already are sent all the same; a session closes *)
(* with its last request, and only then.                                   *)
(***************************************************************************)
EXTENDS SessionGraph

CONSTANTS CancelOnFailure, Cap

VARIABLES fate,  \* of a request
          open   \* sessions that hold a place
contractVars == <<fate, open>>

Fates == {"idle", "sent", "done", "dropped"}

Init ==
    /\ fate = [r \in Request |-> "idle"]
    /\ open = {}

Fresh == {s \in Session \ open : \A r \in NodesOf(s) : fate[r] = "idle"}

Blocked(r) == fate[r] = "idle" /\ \E p \in Parents(r) : fate[p] # "done"

OpenUp(closed) ==
    \E S \in SUBSET Fresh :
        /\ open' = (open \ closed) \cup S
        /\ Cardinality(open') <= Cap

Admission == OpenUp({}) /\ UNCHANGED fate

\* A session may be opened and its root sent in one step.
Send(r) ==
    /\ fate[r] = "idle"
    /\ ~Blocked(r)
    /\ OpenUp({})
    /\ SessionOf[r] \in open'
    /\ fate' = [fate EXCEPT ![r] = "sent"]

Settled(f, s) == \A r \in NodesOf(s) : f[r] \in {"done", "dropped"}

Finish(r, dropped) ==
    /\ fate[r] = "sent"
    /\ fate' = [q \in Request |-> IF q = r THEN "done"
                                  ELSE IF q \in dropped THEN "dropped" ELSE fate[q]]
    /\ OpenUp({s \in {SessionOf[r]} : Settled(fate', s)})

Succeed(r) == Finish(r, {})

Fail(r) ==
    /\ CancelOnFailure
    /\ Finish(r, {q \in NodesOf(SessionOf[r]) : Blocked(q)})

Next ==
    \/ Admission
    \/ \E r \in Request : Send(r) \/ Succeed(r) \/ Fail(r)

Spec == Init /\ [][Next]_contractVars
=============================================================================
