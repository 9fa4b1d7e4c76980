---------------------------- MODULE SessionGraph ----------------------------
(***************************************************************************)
(* A session is a directed acyclic graph of requests                       *)
(* (core/session_graph.py, core/session.py).  Node ids are local to a      *)
(* session and session.requests maps them one to one to requests, whose    *)
(* ids are unique in a benchmark; the model identifies a node with its     *)
(* request, so all the graphs together are one relation Edge on Request.   *)
(***************************************************************************)
EXTENDS Integers, FiniteSets, FiniteSetsExt

CONSTANTS Session,    \* the sessions the generator will produce
          Request,    \* their requests
          SessionOf,  \* the session of a request
          Edge,       \* <<p, c>>: c waits for p (SessionEdge)
          HistEdge,   \* the edges with is_history_parent
          Wait        \* wait_after_ready of a request's node

ASSUME SessionAssumption ==
    /\ IsFiniteSet(Session)
    /\ SessionOf \in [Request -> Session]
    /\ \A s \in Session : \E r \in Request : SessionOf[r] = s

\* add_edge raises unless both endpoints are nodes of the same graph.
ASSUME EdgeAssumption ==
    /\ Edge \subseteq Request \X Request
    /\ \A e \in Edge : SessionOf[e[1]] = SessionOf[e[2]]

\* The generators add edges from earlier nodes to later ones only: no set of
\* requests is without a member that has no parent in the set.
ASSUME AcyclicAssumption ==
    \A R \in SUBSET Request :
        R # {} => \E r \in R : \A p \in R : <<p, r>> \notin Edge

\* _populate_history raises on a second history parent; no generator makes one.
ASSUME HistoryAssumption ==
    /\ HistEdge \subseteq Edge
    /\ \A e, f \in HistEdge : e[2] = f[2] => e = f

ASSUME WaitAssumption == Wait \in [Request -> Nat]

-----------------------------------------------------------------------------
NodesOf(s)  == {r \in Request : SessionOf[r] = s}
Parents(r)  == {p \in Request : <<p, r>> \in Edge}
Children(r) == {c \in Request : <<r, c>> \in Edge}
IsRoot(r)   == Parents(r) = {}

HistParents(r)     == {p \in Request : <<p, r>> \in HistEdge}
IsHistoryParent(r) == \E c \in Request : <<r, c>> \in HistEdge

\* completions maps a request to its completion time, or to NotYet.
NotYet == -1
ParentsDone(r, completions) == \A p \in Parents(r) : completions[p] # NotYet

\* BUG: the earliest parent decides.
ReadyAtFirst(r, completions) == Min({completions[p] : p \in Parents(r)}) + Wait[r]

\* ready_at of a node all of whose parents are complete: the latest parent's
\* completion plus the node's own delay.
ReadyAt(r, completions) == Max({completions[p] : p \in Parents(r)}) + Wait[r]
=============================================================================
