----------------------------- MODULE TraceReplay -----------------------------
(***************************************************************************)
(* Sessions replayed from a trace or from lm-eval documents                *)
(* (src/veeksha/generator/session): the groups of a trace are played in    *)
(* order, and again in another order when the trace wraps; a RAG trace is  *)
(* preceded by warm-up sessions, a shared-prefix trace gets new hash ids   *)
(* in every epoch, and lm-eval interleaves the documents of its tasks.     *)
(***************************************************************************)
EXTENDS Integers, Sequences, FiniteSets, FiniteSetsExt, SequencesExt

CONSTANTS Groups,      \* the sessions of the trace, in order
          RequestsOf,  \* how many requests a session has
          HashIds,     \* its hash ids (a shared-prefix trace)
          DocOf,       \* its document (a RAG trace)
          TopDocuments,\* num_documents
          Unusable,    \* sessions whose row raises when it is prepared
          TaskDocs,    \* lm-eval: the number of documents of each task
          MaxSessions, \* lm-eval: max_sessions, -1 when unbounded
          MaxOut       \* bound: sessions generated

VARIABLE t

GroupSet == ToSet(Groups)
Orders == {o \in [1..Len(Groups) -> GroupSet] : ToSet(o) = GroupSet}

\* The documents with the most rows, ties in the order they first appear.
Rows(d) == Cardinality({g \in GroupSet : DocOf[g] = d})
FirstRow(d) == Min({i \in DOMAIN Groups : DocOf[Groups[i]] = d})
Documents == SetToSortSeq({DocOf[g] : g \in GroupSet},
                          LAMBDA d, e : Rows(d) > Rows(e) \/ (Rows(d) = Rows(e) /\ FirstRow(d) < FirstRow(e)))
TopDocs == SubSeq(Documents, 1, IF TopDocuments < Len(Documents) THEN TopDocuments ELSE Len(Documents))
Kept == SelectSeq(Groups, LAMBDA g : DocOf[g] \in ToSet(TopDocs))

Hashes == UNION {ToSet(HashIds[g]) : g \in GroupSet}

----------------------------------------------------------------------------
(* lm-eval: every task's documents up to a limit, round-robin, cut.        *)

CeilDiv(a, b) == (a + b - 1) \div b

PerTaskLimit == IF MaxSessions < 0 THEN Max({0} \cup Range(TaskDocs))
                ELSE CeilDiv(MaxSessions, Len(TaskDocs))
DocsOf(k) == IF TaskDocs[k] < PerTaskLimit THEN TaskDocs[k] ELSE PerTaskLimit

\* BUG: the streams are played one after the other.
InterleavedInTurn ==
    SetToSortSeq({x \in (1..Max({0} \cup Range(TaskDocs))) \X DOMAIN TaskDocs : x[1] <= DocsOf(x[2])},
                 LAMBDA x, y : x[2] < y[2] \/ (x[2] = y[2] /\ x[1] < y[1]))

\* <<which document of the task, task>>
Interleaved ==
    SetToSortSeq({x \in (1..Max({0} \cup Range(TaskDocs))) \X DOMAIN TaskDocs : x[1] <= DocsOf(x[2])},
                 LAMBDA x, y : x[1] < y[1] \/ (x[1] = y[1] /\ x[2] < y[2]))

DocKeys == IF MaxSessions < 0 \/ MaxSessions > Len(Interleaved) THEN Interleaved
           ELSE SubSeq(Interleaved, 1, MaxSessions)

\* What the accuracy evaluator gives to doc_iterator.
Limits == [k \in DOMAIN TaskDocs |-> Cardinality({key \in ToSet(DocKeys) : key[2] = k})]

----------------------------------------------------------------------------
\* BUG: the main sessions are numbered from 0, as the warm-up sessions are.
FirstSessionZero(flavor) == 0

FirstSession(flavor) == IF flavor = "rag" THEN Len(TopDocs) ELSE 0

\* A RAG trace is shuffled when it has been cut to its documents.
Start(flavor, wrap, order) ==
    [flavor |-> flavor, wraps |-> wrap, epoch |-> 0, trace |-> order, rest |-> order,
     started |-> FALSE, warm |-> FALSE, session |-> FirstSession(flavor), request |-> 0,
     hash |-> IF flavor = "lmeval" THEN <<>> ELSE [x \in Hashes |-> x],
     out |-> <<>>, failed |-> <<>>, ended |-> FALSE]

Init ==
    \/ \E flavor \in {"rows", "shared"}, wrap \in BOOLEAN : t = Start(flavor, wrap, Groups)
    \/ \E wrap \in BOOLEAN, o \in Orders :
         t = Start("rag", wrap, SelectSeq(o, LAMBDA g : g \in ToSet(Kept)))
    \/ t = Start("lmeval", FALSE, DocKeys)

Requests(s, g) == IF s.flavor = "rows" THEN RequestsOf[g] ELSE 1

Played(s, id, g) ==
    [id |-> id, group |-> g, epoch |-> s.epoch,
     requests |-> s.request..(s.request + Requests(s, g) - 1),
     blocks |-> IF s.flavor = "shared" THEN [i \in DOMAIN HashIds[g] |-> s.hash[HashIds[g][i]]] ELSE <<>>]

\* prepare_session takes a session id first, also when the row then raises;
\* the group is not played again.
Prepare(s) ==
    LET g == Head(s.rest)
    IN  IF s.flavor = "rows" /\ g \in Unusable
        THEN [s EXCEPT !.rest = Tail(@), !.started = TRUE, !.session = @ + 1,
                       !.failed = Append(@, <<g, s.epoch>>)]
        ELSE [s EXCEPT !.rest = Tail(@), !.started = TRUE, !.session = @ + 1,
                       !.request = @ + Requests(s, g), !.out = Append(@, Played(s, s.session, g))]

Generated == Len(t.out) + Len(t.failed)

GenerateSession ==
    /\ t.rest # <<>> /\ Generated < MaxOut
    /\ t' = Prepare(t)

\* BUG: every hash id is replaced, the one that all sessions share too.
RemapAll == LET top == Max({0} \cup Range(t.hash)) IN [x \in Hashes |-> top + x]

\* New ids for all hash ids but the first of the trace as it is ordered now.
Remap ==
    LET top == Max({0} \cup Range(t.hash))
        fixed == t.hash[Head(HashIds[Head(t.trace)])]
    IN  [x \in Hashes |-> IF t.hash[x] = fixed THEN fixed ELSE top + x]

WrapAndGenerate ==
    /\ t.rest = <<>> /\ t.wraps /\ t.trace # <<>> /\ Generated < MaxOut
    /\ \E o \in Orders :
         LET order == SelectSeq(o, LAMBDA g : g \in ToSet(t.trace))
         IN  t' = Prepare([t EXCEPT !.epoch = @ + 1, !.trace = order, !.rest = order,
                                    !.hash = IF t.flavor = "shared" THEN Remap ELSE @])

\* One session per document, before the trace is played; then it is shuffled.
WarmUp ==
    /\ t.flavor = "rag" /\ ~t.warm /\ ~t.started
    /\ \E o \in Orders :
         LET order == SelectSeq(o, LAMBDA g : g \in ToSet(t.trace))
         IN  t' = [t EXCEPT !.warm = TRUE, !.request = @ + Len(TopDocs), !.trace = order, !.rest = order,
                            !.out = [i \in DOMAIN TopDocs |->
                                 [Played(t, i - 1, Groups[FirstRow(TopDocs[i])])
                                    EXCEPT !.requests = {i - 1}, !.epoch = -1]]]

Exhausted ==
    /\ t.rest = <<>> /\ ~t.wraps /\ ~t.ended
    /\ t' = [t EXCEPT !.ended = TRUE]

\* capacity: -1 when the trace wraps.
Capacity == IF t.wraps THEN -1 ELSE Cardinality(ToSet(t.trace))

Next == GenerateSession \/ WrapAndGenerate \/ WarmUp \/ Exhausted
Spec == Init /\ [][Next]_t

----------------------------------------------------------------------------
Main == SelectSeq(t.out, LAMBDA s : s.epoch >= 0)
Epoch(e) == {s \in ToSet(Main) : s.epoch = e}
FailedIn(e) == {f[1] : f \in {f \in ToSet(t.failed) : f[2] = e}}

\* Every session of a run has an id and requests of its own, warm-up sessions
\* included; every epoch plays every group of the trace once, none twice; a
\* trace that does not wrap gives as many sessions as its capacity; prompts
\* share a block just when the trace says so, between epochs the first one
\* only; and lm-eval plays a prefix of every task's documents, as many as it
\* tells the evaluator, spread evenly over the tasks.
ReplayIsExact ==
    /\ \A i, j \in DOMAIN t.out : i # j =>
         /\ t.out[i].id # t.out[j].id
         /\ t.out[i].requests \cap t.out[j].requests = {}
    /\ \A i, j \in DOMAIN Main : i # j /\ Main[i].epoch = Main[j].epoch => Main[i].group # Main[j].group
    /\ \A e \in 0..(t.epoch - 1) : {s.group : s \in Epoch(e)} \cup FailedIn(e) = ToSet(t.trace)
    /\ t.ended => Len(Main) + Len(t.failed) = Capacity
    /\ t.flavor = "shared" =>
         \A s, u \in ToSet(Main) : \A i \in DOMAIN s.blocks, j \in DOMAIN u.blocks :
           s.blocks[i] = u.blocks[j] <=>
             /\ HashIds[s.group][i] = HashIds[u.group][j]
             /\ s.epoch = u.epoch \/ i = 1
    /\ t.flavor = "lmeval" =>
         /\ \A key \in ToSet(DocKeys) : key[1] <= Limits[key[2]]
         /\ \A j, k \in DOMAIN TaskDocs : TaskDocs[j] > Limits[j] => Limits[k] <= Limits[j] + 1
         /\ MaxSessions >= 0 => Len(DocKeys) <= MaxSessions
=============================================================================
