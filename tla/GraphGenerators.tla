-------------------------- MODULE GraphGenerators --------------------------
(***************************************************************************)
(* Where session graphs come from: the branching, linear and single        *)
(* request generators (src/veeksha/generator/session_graph), and the       *)
(* topology a trace gives its sessions, checked and put in order before    *)
(* prompts are generated along its lineages                                *)
(* (src/veeksha/generator/session/trace/base_flavor.py and                 *)
(* timed_synthetic_session.py, topological_order of core/session_graph.py).*)
(***************************************************************************)
EXTENDS Integers, Sequences, FiniteSets, FiniteSetsExt, SequencesExt, Functions

CONSTANTS LayerWidths,  \* the sequences of layer widths that may be drawn
          FanOuts, Dists, FanIns,
          LinearLengths,
          Traces        \* sequences of rows: a context, or a turn index

VARIABLE g

None == -1

Blank == [pc |-> "done", layers |-> <<>>, edges |-> {}, hist |-> {}, todo |-> <<>>,
          needed |-> 0, inherit |-> FALSE, trace |-> <<>>, nodes |-> <<>>,
          queue |-> <<>>, order |-> <<>>, seed |-> <<>>]

----------------------------------------------------------------------------
(* The branching generator: layers of nodes, forward edges, then parents   *)
(* for the nodes that have too few, then one history parent each.          *)

Numbered(widths) ==
    [i \in DOMAIN widths |->
        LET first == FoldLeft(+, 0, SubSeq(widths, 1, i - 1))
        IN  [j \in 1..widths[i] |-> first + j - 1]]

\* The same layers, one after the other: the nodes in the order they are visited.
InLayers(layers) == FlattenSeq(layers)
LayerOf(v) == CHOOSE i \in DOMAIN g.layers : v \in ToSet(g.layers[i])

StartBranching(widths, inherit) ==
    g = [Blank EXCEPT !.pc = "forward", !.layers = Numbered(widths), !.inherit = inherit,
                      !.todo = InLayers(SubSeq(Numbered(widths), 1, Len(widths) - 1))]

\* The layer a skip leads to, the last one at most.
Target(i, skip) == IF i + skip < Len(g.layers) THEN i + skip ELSE Len(g.layers)

\* num_children draws of a skip and of a node of the layer it leads to.
Forward ==
    /\ g.pc = "forward" /\ g.todo # <<>>
    /\ LET u == Head(g.todo)
           i == LayerOf(u)
       IN  \E k \in FanOuts : \E skip \in [1..k -> Dists] :
             \E v \in [1..k -> UNION {ToSet(g.layers[Target(i, skip[j])]) : j \in 1..k}] :
               /\ \A j \in 1..k : v[j] \in ToSet(g.layers[Target(i, skip[j])])
               /\ g' = [g EXCEPT !.todo = Tail(@),
                          !.edges = @ \cup {<<u, v[j]>> : j \in {j \in 1..k : Target(i, skip[j]) > i}}]

ParentsIn(edges, v) == {e[1] : e \in {e \in edges : e[2] = v}}

\* BUG: the parents drawn by fan_in are not limited to the nodes there are.
NeededUncapped(v, fanIn) == IF fanIn < 1 THEN 1 ELSE fanIn

Needed(v, fanIn) ==
    LET most == Len(g.layers[LayerOf(v) - 1])
        least == IF fanIn < 1 THEN 1 ELSE fanIn
    IN  IF least < most THEN least ELSE most

EndForward ==
    /\ g.pc = "forward" /\ g.todo = <<>>
    /\ g' = [g EXCEPT !.pc = "backward", !.needed = None, !.todo = InLayers(Tail(g.layers))]

\* fan_in is drawn, then parents of the previous layer are added one by one.
DrawFanIn ==
    /\ g.pc = "backward" /\ g.todo # <<>> /\ g.needed = None
    /\ \E f \in FanIns : g' = [g EXCEPT !.needed = Needed(Head(g.todo), f)]

Missing == Cardinality(ParentsIn(g.edges, Head(g.todo))) < g.needed

Candidates ==
    ToSet(g.layers[LayerOf(Head(g.todo)) - 1]) \ ParentsIn(g.edges, Head(g.todo))

AddParent ==
    /\ g.pc = "backward" /\ g.todo # <<>> /\ g.needed # None /\ Missing
    /\ \E u \in Candidates : g' = [g EXCEPT !.edges = @ \cup {<<u, Head(g.todo)>>}]

EnoughParents ==
    /\ g.pc = "backward" /\ g.todo # <<>> /\ g.needed # None /\ ~Missing
    /\ g' = [g EXCEPT !.todo = Tail(@), !.needed = None]

EndBackward ==
    /\ g.pc = "backward" /\ g.todo = <<>>
    /\ g' = [g EXCEPT !.pc = IF g.inherit THEN "history" ELSE "done", !.todo = InLayers(g.layers)]

\* BUG: the history parent is drawn among all the earlier nodes.
ChooseHistoryAnywhere ==
    /\ g.pc = "history" /\ g.todo # <<>>
    /\ LET v == Head(g.todo)
       IN  IF ParentsIn(g.edges, v) = {} THEN g' = [g EXCEPT !.todo = Tail(@)]
           ELSE \E p \in 0..(v - 1) : g' = [g EXCEPT !.todo = Tail(@), !.hist = @ \cup {<<p, v>>}]

ChooseHistory ==
    /\ g.pc = "history" /\ g.todo # <<>>
    /\ LET v == Head(g.todo)
       IN  IF ParentsIn(g.edges, v) = {} THEN g' = [g EXCEPT !.todo = Tail(@)]
           ELSE \E p \in ParentsIn(g.edges, v) :
                  g' = [g EXCEPT !.todo = Tail(@), !.hist = @ \cup {<<p, v>>}]

EndHistory == g.pc = "history" /\ g.todo = <<>> /\ g' = [g EXCEPT !.pc = "done"]

----------------------------------------------------------------------------
(* The linear generator; a single request is a chain of one.               *)

Chain(n) == {<<k - 1, k>> : k \in 1..(n - 1)}

StartLinear(n, inherit) ==
    g = [Blank EXCEPT !.layers = [i \in 1..n |-> <<i - 1>>], !.edges = Chain(n),
                      !.hist = IF inherit THEN Chain(n) ELSE {}, !.inherit = inherit]

----------------------------------------------------------------------------
(* The topology of a trace's session.  Every row has a context, or none    *)
(* has and the rows are a chain in the order of their turn indices.        *)

Context(node, ps, history) == [node |-> node, parents |-> ps, history |-> history]

\* The rows in the order of their turn indices, rows of one index as they come.
InTurns(trace) ==
    LET at == SetToSortSeq(DOMAIN trace,
                           LAMBDA i, j : trace[i].turn < trace[j].turn
                                       \/ (trace[i].turn = trace[j].turn /\ i < j))
    IN  [k \in DOMAIN trace |-> trace[at[k]].turn]

Inferred(turns) ==
    [k \in DOMAIN turns |->
        IF k = 1 THEN Context(turns[k], <<>>, None)
        ELSE Context(turns[k], <<turns[k - 1]>>, turns[k - 1])]

IsContext(row) == "node" \in DOMAIN row
Mixed(trace) == \E i, j \in DOMAIN trace : IsContext(trace[i]) /\ ~IsContext(trace[j])
Contexts(trace) == IF \A i \in DOMAIN trace : IsContext(trace[i]) THEN trace
                   ELSE Inferred(InTurns(trace))

Distinct(s) == \A i, j \in DOMAIN s : s[i] = s[j] => i = j

\* What _build_session_graph_from_contexts and add_edge refuse.
Refused(cs) ==
    LET nodes == [i \in DOMAIN cs |-> cs[i].node]
    IN  \/ ~Distinct(nodes)
        \/ \E i \in DOMAIN cs :
             \/ ~Distinct(cs[i].parents)
             \/ cs[i].history # None /\ cs[i].history \notin ToSet(cs[i].parents)
             \/ \E p \in ToSet(cs[i].parents) : p \notin ToSet(nodes)

ReadTrace(trace) ==
    LET cs == IF Mixed(trace) THEN <<>> ELSE Contexts(trace)
        nodes == [i \in DOMAIN cs |-> cs[i].node]
    IN  IF Mixed(trace) \/ Refused(cs) THEN g = [Blank EXCEPT !.pc = "refused", !.trace = trace]
        ELSE g = [Blank EXCEPT
                    !.pc = "visit", !.trace = trace, !.nodes = nodes,
                    !.edges = UNION {{<<p, c.node>> : p \in ToSet(c.parents)} : c \in ToSet(cs)},
                    !.hist = {<<c.history, c.node>> : c \in {c \in ToSet(cs) : c.history # None}},
                    !.queue = SelectSeq(nodes, LAMBDA n : \A c \in ToSet(cs) :
                                                             c.node = n => c.parents = <<>>),
                    !.seed = [n \in {} |-> None]]

\* BUG: a child is queued when its first parent is visited.
QueuedEarly(n) ==
    SelectSeq(g.nodes, LAMBDA c : <<n, c>> \in g.edges /\ c \notin ToSet(g.order) /\ c \notin ToSet(g.queue))

\* The children whose last parent is n, as the edges were added.
Queued(n) ==
    SelectSeq(g.nodes, LAMBDA c : <<n, c>> \in g.edges
                                  /\ ParentsIn(g.edges, c) \subseteq ToSet(g.order) \cup {n})

\* The last node of the queue is next; its prompt continues the lineage of its
\* history parent, or starts a new one with a seed of its own.
Visit ==
    /\ g.pc = "visit" /\ g.queue # <<>>
    /\ LET n == Last(g.queue)
           seeds == {g.seed[p] : p \in {p \in DOMAIN g.seed : <<p, n>> \in g.hist}}
       IN  g' = [g EXCEPT !.queue = Front(@) \o Queued(n), !.order = Append(@, n),
                          !.seed = [m \in DOMAIN @ \cup {n} |->
                                      IF m # n THEN @[m]
                                      ELSE IF ParentsIn(g.hist, n) = {} THEN n
                                      ELSE IF seeds = {} THEN None ELSE Max(seeds)]]

EndVisit ==
    /\ g.pc = "visit" /\ g.queue = <<>>
    /\ g' = [g EXCEPT !.pc = IF Len(g.order) = Len(g.nodes) THEN "done" ELSE "refused"]

----------------------------------------------------------------------------
Init == \/ \E widths \in LayerWidths, inherit \in BOOLEAN : StartBranching(widths, inherit)
        \/ \E n \in LinearLengths, inherit \in BOOLEAN : StartLinear(n, inherit)
        \/ \E trace \in Traces : ReadTrace(trace)

Next == \/ Forward \/ EndForward \/ DrawFanIn \/ AddParent \/ EnoughParents \/ EndBackward
        \/ ChooseHistory \/ EndHistory \/ Visit \/ EndVisit

Spec == Init /\ [][Next]_g

----------------------------------------------------------------------------
Nodes == IF g.trace = <<>> THEN ToSet(FlattenSeq(g.layers)) ELSE ToSet(g.nodes)
Acyclic(nodes, edges) ==
    \A S \in SUBSET nodes : S # {} => \E n \in S : ParentsIn(edges, n) \cap S = {}

\* What the schedulers assume of every session graph: it is acyclic, at most
\* one history parent per node and among its parents; a branching or linear
\* node outside the first layer has a parent (and, when history is inherited,
\* a history parent); and the loop that adds parents always finds another one.
GraphsAreSound ==
    /\ g.pc = "done" =>
         /\ g.edges \subseteq Nodes \X Nodes /\ Acyclic(Nodes, g.edges)
         /\ g.hist \subseteq g.edges
         /\ \A v \in Nodes : Cardinality(ParentsIn(g.hist, v)) <= 1
    /\ g.pc = "done" /\ g.trace = <<>> =>
         \A i \in 2..Len(g.layers) : \A v \in ToSet(g.layers[i]) :
           /\ ParentsIn(g.edges, v) # {}
           /\ g.inherit = (ParentsIn(g.hist, v) # {})
    /\ (g.pc = "backward" /\ g.todo # <<>> /\ g.needed # None /\ Missing) => Candidates # {}

\* A trace's session is refused exactly when its rows do not describe a graph
\* (some have no context, a node twice, an unknown or repeated parent, a
\* history parent that is no parent) or a cyclic one; else its nodes are
\* visited once each, parents first, and two prompts share a seed just when
\* they are of one lineage.
TracesAreOrdered ==
    LET rows == g.trace
        shaped == rows # <<>> /\ ~Mixed(rows) /\ ~Refused(Contexts(rows))
        edges == UNION {{<<p, c.node>> : p \in ToSet(c.parents)} : c \in ToSet(Contexts(rows))}
    IN  /\ g.pc = "refused" /\ shaped => ~Acyclic(ToSet(g.nodes), edges)
        /\ g.pc = "done" /\ rows # <<>> =>
             /\ shaped /\ Acyclic(ToSet(g.nodes), edges)
             /\ ToSet(g.order) = ToSet(g.nodes) /\ Len(g.order) = Len(g.nodes)
             /\ \A i, j \in DOMAIN g.order : <<g.order[j], g.order[i]>> \in edges => j < i
             /\ \A e \in g.hist : g.seed[e[1]] = g.seed[e[2]]
             /\ \A n \in Nodes : g.seed[n] # None
             /\ Cardinality({g.seed[n] : n \in Nodes})
                  = Cardinality({n \in Nodes : ParentsIn(g.hist, n) = {}})
=============================================================================
