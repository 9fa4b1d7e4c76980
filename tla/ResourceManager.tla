-------------------------- MODULE ResourceManager --------------------------
(***************************************************************************)
(* orchestration/resource_manager.py: the GPUs of some nodes, the jobs     *)
(* that hold them, and the threads that wait for them by polling.  Every   *)
(* method runs under the manager's reentrant lock and is one step, except  *)
(* wait_for_resources, which looks, lets go of the lock, and allocates.    *)
(***************************************************************************)
EXTENDS Naturals, FiniteSets, Sequences

CONSTANTS
    Node,       \* host names
    Job,        \* the callers; each waits under a job id of its own
    Width,      \* [Node -> Nat]: GPUs of a node, the same whenever it is added
    Need,       \* [Job -> Nat]: GPUs a job asks for
    Contiguous, \* [Job -> BOOLEAN]: the contiguous argument
    Patience    \* polls before the timeout of wait_for_resources

VARIABLES
    nodes,   \* self.nodes, in the order in which the hosts were added
    free,    \* the GPUs whose is_free is set
    held,    \* allocated_resources: the GPUs of a job, {} without an entry
    phase,   \* where a job's thread is
    polls,   \* polls made by the wait in progress
    overwritten  \* hosts added again while a job held a GPU of theirs

vars == <<nodes, free, held, phase, polls, overwritten>>

ASSUME ManagerAssumption ==
    /\ Width \in [Node -> Nat]
    /\ Need \in [Job -> Nat]
    /\ Contiguous \in [Job -> BOOLEAN]
    /\ Patience \in Nat

GPUsOf(n) == {<<n, i>> : i \in 0 .. Width[n] - 1}
Known == {nodes[k] : k \in DOMAIN nodes}
AllGPUs == UNION {GPUsOf(n) : n \in Known}
Phase == {"idle", "looking", "allocating", "sleeping", "granted", "refused"}

TypeOK ==
    /\ nodes \in Seq(Node)
    /\ free \subseteq AllGPUs
    /\ held \in [Job -> SUBSET AllGPUs]
    /\ phase \in [Job -> Phase]
    /\ polls \in [Job -> Nat]
    /\ overwritten \subseteq Known

-----------------------------------------------------------------------------
(* What allocate_resources picks.  A node's list of GPUs is in the order of *)
(* their ids.                                                               *)

FreeOn(n) == {i \in 0 .. Width[n] - 1 : <<n, i>> \in free}

\* The k least members of S: free_gpus[:k].
Least(S, k) == {i \in S : Cardinality({h \in S : h < i}) < k}

\* The starts of the runs of k adjacent free GPUs of a node.
Runs(n, k) == {b \in FreeOn(n) : b .. b + k - 1 \subseteq FreeOn(n)}

\* The first run, or the k least free GPUs when there is none.
AdjacentOn(n, k) ==
    IF Runs(n, k) = {} THEN Least(FreeOn(n), k)
    ELSE {i \in FreeOn(n) : \E b \in Runs(n, k) :
            i \in b .. b + k - 1 /\ \A c \in Runs(n, k) : b <= c}

\* The nodes that could serve k GPUs alone; the first one in order does.
Roomy(k) == {x \in DOMAIN nodes : Cardinality(FreeOn(nodes[x])) >= k}

\* The k first free GPUs in the order of nodes and ids, over several nodes.
Before(x, g) ==
    {q \in free : \E y \in DOMAIN nodes :
        nodes[y] = q[1] /\ (y < x \/ (y = x /\ q[2] < g))}
Spread(k) ==
    {p \in free : \E x \in DOMAIN nodes :
        nodes[x] = p[1] /\ Cardinality(Before(x, p[2])) < k}

\* BUG: the least free GPUs of the cluster, whatever node they are on.
GrantAnywhere(k, contiguous) == IF k > Cardinality(free) THEN {} ELSE Spread(k)

\* allocate_resources(): the GPUs granted, {} when it returns None.
Grant(k, contiguous) ==
    IF k = 0 \/ k > Cardinality(AllGPUs) \/ k > Cardinality(free) THEN {}
    ELSE IF Roomy(k) # {}
         THEN {p \in free : \E x \in Roomy(k) :
                 /\ \A y \in Roomy(k) : x <= y
                 /\ p[1] = nodes[x]
                 /\ p[2] \in IF contiguous THEN AdjacentOn(nodes[x], k)
                             ELSE Least(FreeOn(nodes[x]), k)}
         ELSE IF Len(nodes) > 1 /\ ~contiguous THEN Spread(k) ELSE {}

-----------------------------------------------------------------------------
\* Detection at construction marks a GPU free when 90% of its memory is; any
\* part of the local node's GPUs may be in use by someone else.
Init ==
    /\ \E n \in Node : nodes = <<n>> /\ free \in SUBSET GPUsOf(n)
    /\ held = [j \in Job |-> {}]
    /\ phase = [j \in Job |-> "idle"]
    /\ polls = [j \in Job |-> 0]
    /\ overwritten = {}

\* add_node(): all GPUs of the host are free from now on.  A known host is
\* overwritten in its place, and the jobs that hold GPUs of it keep them.
AddNode(n) ==
    /\ nodes' = IF n \in Known THEN nodes ELSE Append(nodes, n)
    /\ free' = free \cup GPUsOf(n)
    /\ overwritten' = IF \E j \in Job : held[j] \cap GPUsOf(n) # {}
                      THEN overwritten \cup {n} ELSE overwritten
    /\ UNCHANGED <<held, phase, polls>>

\* wait_for_resources() is called.
BeginWait(j) ==
    /\ phase[j] = "idle"
    /\ phase' = [phase EXCEPT ![j] = "looking"]
    /\ polls' = [polls EXCEPT ![j] = 0]
    /\ UNCHANGED <<nodes, free, held, overwritten>>

\* The head of the loop: the timeout, then the two counts, read in one go
\* because the total only grows.
Look(j) ==
    /\ phase[j] = "looking"
    /\ phase' = [phase EXCEPT ![j] =
         IF polls[j] >= Patience THEN "refused"
         ELSE IF Need[j] <= Cardinality(AllGPUs) /\ Need[j] <= Cardinality(free)
         THEN "allocating" ELSE "sleeping"]
    /\ UNCHANGED <<nodes, free, held, polls, overwritten>>

\* BUG: the GPUs of the first allocation are marked from what Look saw.
AllocateStale(j) ==
    /\ phase[j] = "allocating"
    /\ \E g \in SUBSET AllGPUs :
         /\ Cardinality(g) = Need[j] /\ g # {}
         /\ free' = free \ g
         /\ held' = [held EXCEPT ![j] = g]
    /\ phase' = [phase EXCEPT ![j] = "granted"]
    /\ UNCHANGED <<nodes, polls, overwritten>>

\* allocate_resources(), under the lock again; another thread may have
\* taken the GPUs that Look saw.
Allocate(j) ==
    /\ phase[j] = "allocating"
    /\ LET g == Grant(Need[j], Contiguous[j]) IN
         IF g = {}
         THEN /\ phase' = [phase EXCEPT ![j] = "sleeping"]
              /\ UNCHANGED <<free, held>>
         ELSE /\ free' = free \ g
              /\ held' = [held EXCEPT ![j] = g]
              /\ phase' = [phase EXCEPT ![j] = "granted"]
    /\ UNCHANGED <<nodes, polls, overwritten>>

\* BUG: the polls are not counted.
SleepUncounted(j) ==
    /\ phase[j] = "sleeping"
    /\ phase' = [phase EXCEPT ![j] = "looking"]
    /\ UNCHANGED <<nodes, free, held, polls, overwritten>>

\* time.sleep(min(poll_interval, remaining)).
Sleep(j) ==
    /\ phase[j] = "sleeping"
    /\ phase' = [phase EXCEPT ![j] = "looking"]
    /\ polls' = [polls EXCEPT ![j] = @ + 1]
    /\ UNCHANGED <<nodes, free, held, overwritten>>

\* release_resources(); the job may come again.
Release(j) ==
    /\ phase[j] = "granted"
    /\ held[j] # {}
    /\ free' = free \cup held[j]
    /\ held' = [held EXCEPT ![j] = {}]
    /\ phase' = [phase EXCEPT ![j] = "idle"]
    /\ UNCHANGED <<nodes, polls, overwritten>>

Step(j) == BeginWait(j) \/ Look(j) \/ Allocate(j) \/ Sleep(j) \/ Release(j)
Next == (\E n \in Node : AddNode(n)) \/ (\E j \in Job : Step(j))

\* A thread that waits goes on; nobody has to release.
Fairness == \A j \in Job : WF_vars(Look(j) \/ Allocate(j) \/ Sleep(j))
Spec == Init /\ [][Next]_vars /\ Fairness

-----------------------------------------------------------------------------
\* Every GPU has one owner: what the manager calls free and what its jobs hold
\* never overlap, and two jobs share nothing, whatever the interleaving of the
\* looks and the allocations and whenever hosts join.  It is lost for the GPUs
\* of a host that is added again while a job holds one of them, since add_node()
\* calls them all free, and for no others.
OnOverwritten == UNION {GPUsOf(n) : n \in overwritten}
OneOwner ==
    /\ \A j \in Job : held[j] \cap free \subseteq OnOverwritten
    /\ \A j, h \in Job : j # h => held[j] \cap held[h] \subseteq OnOverwritten

\* As many GPUs as a job asked for, on one node if one node could serve it.  A
\* job that requires adjacent ones stays on one node, and gets a run of them if
\* that node has one; nothing is said of a node without a run, where the code
\* falls back to any of its GPUs though config/server.py requires adjacent ones.
Suits(k, contiguous, g) ==
    /\ Cardinality(g) = k
    /\ (\E n \in Known : Cardinality(FreeOn(n)) >= k) => \E n \in Known : g \subseteq GPUsOf(n)
    /\ contiguous => \E n \in Known :
          /\ g \subseteq GPUsOf(n)
          /\ Runs(n, k) # {} => \E b \in 0 .. Width[n] : g = {<<n, i>> : i \in b .. b + k - 1}

\* A job has what it asked for, or it waits on.
Suited ==
    \A j \in Job : phase[j] = "allocating" /\ phase'[j] = "granted" =>
        Suits(Need[j], Contiguous[j], held'[j])
GrantIsBest == [][Suited]_vars

\* Every wait ends, with the GPUs or with the timeout.
WaitEnds ==
    \A j \in Job : phase[j] = "looking" ~> phase[j] \in {"granted", "refused"}
=============================================================================
