----------------------- MODULE TrafficScheduler_proofs -----------------------
(***************************************************************************)
(* The inductive invariant of the part the traffic schedulers share, and   *)
(* the lemmas that its two kinds of step preserve it: a step that          *)
(* activates sessions and pops requests, and a completion.                 *)
(***************************************************************************)
EXTENDS TrafficScheduler, FiniteSetTheorems, WellFoundedInduction, TLAPS

-----------------------------------------------------------------------------
(* The conjuncts of the inductive invariant.                               *)

\* Completions lie in the past and are of requests that were sent.
TimesPast ==
    \A r \in Request : completions[r] # NotYet =>
        completions[r] <= now /\ sentAt[r] # NotYet

MapExact == inFlight = queuedNodes

QueuedExact == queuedNodes = QueuedRequests \cup Sent

\* The heap holds one item of a request, and only until it is popped.
HeapOnce ==
    /\ \A i \in readyQueue : sentAt[i.req] = NotYet
    /\ \A i, j \in readyQueue : i.req = j.req => i = j

PendingUnsent == \A r \in pendingNodes : sentAt[r] = NotYet /\ r \notin queuedNodes

PendingBlocked ==
    \A r \in pendingNodes : \E p \in Parents(r) : completions[p] = NotYet

HeldByActive == \A r \in pendingNodes \cup queuedNodes : SessionOf[r] \in sessions

ActiveHasWork ==
    \A s \in sessions : \E r \in pendingNodes \cup queuedNodes : SessionOf[r] = s

CanceledDropped == \A r \in pendingNodes : SessionOf[r] \notin canceled

\* Of an active session that is not canceled every request is accounted for.
ActiveCovered ==
    \A r \in Request : SessionOf[r] \in sessions \ canceled =>
        r \in pendingNodes \cup queuedNodes \/ completions[r] # NotYet

CoreInv ==
    /\ CoreTypeOK
    /\ TimesPast
    /\ MapExact
    /\ QueuedExact
    /\ HeapOnce
    /\ PendingUnsent
    /\ PendingBlocked
    /\ HeldByActive
    /\ ActiveHasWork
    /\ CanceledDropped
    /\ ActiveCovered

\* Nothing of session s has happened yet: what may be activated.
Untouched(s) ==
    /\ s \in Session \ (sessions \cup canceled)
    /\ \A r \in NodesOf(s) : sentAt[r] = NotYet /\ completions[r] = NotYet

-----------------------------------------------------------------------------
(* Arithmetic.                                                             *)

\* A bounded set of numbers has a largest member.
LEMMA MaxBounded ==
    ASSUME NEW S, S \subseteq Nat, S # {}, NEW b \in Nat, \A x \in S : x <= b
    PROVE  Max(S) \in S /\ \A x \in S : x <= Max(S)
<1> DEFINE T == {b - x : x \in S}
<1>1. T \subseteq Nat /\ T # {}
  <2>1. \A x \in S : b - x \in Nat
    BY SMT
  <2> QED
    BY <2>1
<1>2. PICK m \in T : \A y \in T : ~ (<<y, m>> \in OpToRel(<, Nat))
  BY <1>1, NatLessThanWellFounded, WFMin
<1>3. \A y \in T : m <= y
  <2> TAKE y \in T
  <2>1. <<y, m>> \notin OpToRel(<, Nat)
    BY <1>2
  <2>2. y \in Nat /\ m \in Nat
    BY <1>1
  <2>3. ~ (y < m)
    BY <2>1, <2>2, Zenon DEF OpToRel
  <2> QED
    BY <2>2, <2>3, SMT
<1>4. PICK x \in S : m = b - x
  OBVIOUS
<1>5. \A y \in S : x >= y
  <2> TAKE y \in S
  <2>1. m <= b - y
    BY <1>3
  <2> QED
    BY <2>1, <1>4, SMT
<1> HIDE DEF T
<1>6. Max(S) \in S /\ \A y \in S : Max(S) >= y
  BY <1>5 DEF Max
<1> QED
  BY <1>6, SMT

\* ready_at of a request whose parents are complete, and of which there is
\* one, is a time.
LEMMA ReadyAtType ==
    ASSUME NEW c \in Request, NEW done \in [Request -> Nat \cup {NotYet}],
           NEW b \in Nat, \A r \in Request : done[r] # NotYet => done[r] <= b,
           Parents(c) # {}, ParentsDone(c, done)
    PROVE  /\ ReadyAt(c, done) \in Nat
           /\ \A p \in Parents(c) : done[p] + Wait[c] <= ReadyAt(c, done)
<1> DEFINE S == {done[p] : p \in Parents(c)}
<1>1. Parents(c) \subseteq Request
  BY DEF Parents
<1>2. S \subseteq Nat /\ S # {} /\ \A x \in S : x <= b
  BY <1>1 DEF ParentsDone
<1> HIDE DEF S
<1>3. Max(S) \in S /\ \A x \in S : x <= Max(S)
  BY <1>2, MaxBounded
<1>4. Max(S) \in Nat
  BY <1>2, <1>3
<1>5. Wait[c] \in Nat
  BY WaitAssumption
<1>6. ReadyAt(c, done) = Max(S) + Wait[c]
  BY DEF ReadyAt, S
<1>7. \A p \in Parents(c) : done[p] \in S /\ done[p] \in Nat
  BY <1>1 DEF S, ParentsDone
<1>8. ASSUME NEW p \in Parents(c) PROVE done[p] + Wait[c] <= ReadyAt(c, done)
  BY <1>3, <1>4, <1>5, <1>6, <1>7, SMT
<1> QED
  BY <1>4, <1>5, <1>6, <1>8
-----------------------------------------------------------------------------
(* Activating the sessions S and popping the items I, none or one.         *)

\* Activating nothing does nothing.
LEMMA NothingActivated ==
    /\ Roots({}) = {} /\ NonRoots({}) = {}
    /\ \A start : RootItems({}, start) = {}
  BY DEF Roots, NonRoots, RootItems

\* What a step that activates and pops does to the variables.
ActivateAndPop(S, start, I) ==
    /\ sessions' = sessions \cup S
    /\ pendingNodes' = pendingNodes \cup NonRoots(S)
    /\ queuedNodes' = queuedNodes \cup Roots(S)
    /\ inFlight' = inFlight \cup Roots(S)
    /\ readyQueue' = (readyQueue \cup RootItems(S, start)) \ I
    /\ \/ I = {} /\ UNCHANGED <<sentAt, history>>
       \/ \E i \in Due(readyQueue \cup RootItems(S, start)) : I = {i} /\ MarkSent(i.req)
    /\ UNCHANGED <<now, canceled, completions, outcomes, nodeHistory>>

\* The queue with the roots of fresh sessions: well typed, one item each.
LEMMA QueueWithRoots ==
    ASSUME CoreInv, NEW S \in SUBSET Session, \A s \in S : Untouched(s),
           NEW start \in Nat, NEW queue, queue = readyQueue \cup RootItems(S, start)
    PROVE  /\ queue \subseteq [at : Nat, req : Request]
           /\ {i.req : i \in queue} = QueuedRequests \cup Roots(S)
           /\ \A i \in queue : sentAt[i.req] = NotYet
           /\ \A i, j \in queue : i.req = j.req => i = j
           /\ \A r \in Roots(S) \cup NonRoots(S) :
                 r \in Request /\ r \notin pendingNodes \cup queuedNodes
<1> USE DEF CoreInv
<1>1. \A r \in Roots(S) \cup NonRoots(S) :
          r \in Request /\ SessionOf[r] \in S /\ r \notin pendingNodes \cup queuedNodes
  BY DEF Roots, NonRoots, Untouched, HeldByActive
<1>2. \A r \in Roots(S) : sentAt[r] = NotYet /\ start + Wait[r] \in Nat
  BY <1>1, WaitAssumption DEF Untouched, NodesOf
<1>3. \A i \in RootItems(S, start) :
          i \in [at : Nat, req : Request] /\ i.req \in Roots(S) /\ i.at = start + Wait[i.req]
  BY <1>1, <1>2 DEF RootItems
<1>4. readyQueue \subseteq [at : Nat, req : Request]
  BY DEF CoreTypeOK
<1>5. queue \subseteq [at : Nat, req : Request]
  BY <1>3, <1>4
<1>6. ASSUME NEW r \in Roots(S) PROVE \E i \in RootItems(S, start) : i.req = r
  <2>1. [at |-> start + Wait[r], req |-> r] \in RootItems(S, start)
    BY DEF RootItems
  <2> QED
    BY <2>1
<1>7. {i.req : i \in queue} = QueuedRequests \cup Roots(S)
  BY <1>3, <1>6 DEF QueuedRequests
<1>8. \A i \in queue : sentAt[i.req] = NotYet
  BY <1>2, <1>3 DEF HeapOnce
<1>9. \A i \in readyQueue : i.req \in queuedNodes
  BY DEF QueuedExact, QueuedRequests
<1>10. ASSUME NEW i \in queue, NEW j \in queue, i.req = j.req PROVE i = j
  <2>1. CASE i \in readyQueue /\ j \in readyQueue
    BY <2>1, <1>10 DEF HeapOnce
  <2>2. CASE i \in RootItems(S, start) /\ j \in RootItems(S, start)
    BY <2>2, <1>3, <1>10
  <2>3. CASE \/ i \in RootItems(S, start) /\ j \in readyQueue
             \/ j \in RootItems(S, start) /\ i \in readyQueue
    BY <2>3, <1>1, <1>3, <1>9, <1>10
  <2> QED
    BY <2>1, <2>2, <2>3
<1> QED
  BY <1>1, <1>5, <1>7, <1>8, <1>10

\* What is popped is queued or a fresh root, and is now sent.
LEMMA PopEffect ==
    ASSUME CoreInv, NEW S \in SUBSET Session, \A s \in S : Untouched(s),
           NEW start \in Nat, NEW I, ActivateAndPop(S, start, I)
    PROVE  LET popped == {i.req : i \in I} IN
           /\ popped \subseteq (QueuedRequests \cup Roots(S)) \cap Request
           /\ \A r \in popped : sentAt[r] = NotYet /\ completions[r] = NotYet
           /\ sentAt' \in [Request -> Nat \cup {NotYet}]
           /\ \A r \in Request : sentAt'[r] = IF r \in popped THEN now ELSE sentAt[r]
           /\ history' \in [Request -> Seq([turn : Request, answered : BOOLEAN])]
           /\ QueuedRequests' = (QueuedRequests \cup Roots(S)) \ popped
           /\ Sent' = Sent \cup popped
<1> USE DEF CoreInv
<1> DEFINE queue == readyQueue \cup RootItems(S, start)
           popped == {i.req : i \in I}
<1>1. /\ queue \subseteq [at : Nat, req : Request]
      /\ {i.req : i \in queue} = QueuedRequests \cup Roots(S)
      /\ \A i \in queue : sentAt[i.req] = NotYet
      /\ \A i, j \in queue : i.req = j.req => i = j
  BY QueueWithRoots, ZenonT(60)
<1>2. readyQueue' = queue \ I /\ now \in Nat /\ completions' = completions
  BY DEF ActivateAndPop, CoreTypeOK
<1>3. I \subseteq queue
  BY DEF ActivateAndPop, Due
<1>4. popped \subseteq (QueuedRequests \cup Roots(S)) \cap Request
  BY <1>1, <1>3
<1>5. \A r \in popped : sentAt[r] = NotYet /\ completions[r] = NotYet
  BY <1>1, <1>3, <1>4 DEF TimesPast
<1>6. /\ sentAt' \in [Request -> Nat \cup {NotYet}]
      /\ \A r \in Request : sentAt'[r] = IF r \in popped THEN now ELSE sentAt[r]
      /\ history' \in [Request -> Seq([turn : Request, answered : BOOLEAN])]
  <2>1. CASE I = {} /\ UNCHANGED <<sentAt, history>>
    BY <2>1 DEF CoreTypeOK
  <2>2. CASE \E i \in Due(queue) : I = {i} /\ MarkSent(i.req)
    <3>1. PICK i \in queue : I = {i} /\ MarkSent(i.req)
      BY <2>2 DEF Due
    <3>2. popped = {i.req} /\ i.req \in Request
      BY <3>1, <1>1
    <3>3. InheritedHistory(i.req) \in Seq([turn : Request, answered : BOOLEAN])
      <4> DEFINE p == CHOOSE p \in HistParents(i.req) : TRUE
      <4>1. CASE HistParents(i.req) = {}
        BY <4>1 DEF InheritedHistory
      <4>2. CASE HistParents(i.req) # {}
        <5>1. p \in Request
          BY <4>2 DEF HistParents
        <5> QED
          BY <4>2, <5>1 DEF InheritedHistory, CoreTypeOK
      <4> QED
        BY <4>1, <4>2
    <3> QED
      BY <3>1, <3>2, <3>3, <1>2 DEF MarkSent, CoreTypeOK
  <2> QED
    BY <2>1, <2>2 DEF ActivateAndPop
<1>7. QueuedRequests' = (QueuedRequests \cup Roots(S)) \ popped
  <2>1. QueuedRequests' = {i.req : i \in queue \ I}
    BY <1>2 DEF QueuedRequests
  <2>2. {i.req : i \in queue \ I} = {i.req : i \in queue} \ popped
    BY <1>1, <1>3
  <2> QED
    BY <2>1, <2>2, <1>1
<1>8. Sent' = Sent \cup popped
  BY <1>2, <1>4, <1>5, <1>6 DEF Sent, NotYet
<1> QED
  BY <1>4, <1>5, <1>6, <1>7, <1>8
\* A step that activates sessions of which nothing has happened yet, and pops
\* at most one due item, preserves the invariant.
LEMMA ActivateAndPopStep ==
    ASSUME CoreInv, NEW S \in SUBSET Session, \A s \in S : Untouched(s),
           NEW start \in Nat, NEW I, ActivateAndPop(S, start, I),
           unscheduled' \subseteq unscheduled
    PROVE  CoreInv'
<1> DEFINE queue == readyQueue \cup RootItems(S, start)
           popped == {i.req : i \in I}
<1>q. /\ queue \subseteq [at : Nat, req : Request]
      /\ \A i \in queue : sentAt[i.req] = NotYet
      /\ \A i, j \in queue : i.req = j.req => i = j
      /\ \A r \in Roots(S) \cup NonRoots(S) :
            r \in Request /\ r \notin pendingNodes \cup queuedNodes
  BY QueueWithRoots, ZenonT(60)
<1>p. /\ popped \subseteq (QueuedRequests \cup Roots(S)) \cap Request
      /\ \A r \in popped : sentAt[r] = NotYet /\ completions[r] = NotYet
      /\ sentAt' \in [Request -> Nat \cup {NotYet}]
      /\ \A r \in Request : sentAt'[r] = IF r \in popped THEN now ELSE sentAt[r]
      /\ history' \in [Request -> Seq([turn : Request, answered : BOOLEAN])]
      /\ QueuedRequests' = (QueuedRequests \cup Roots(S)) \ popped
      /\ Sent' = Sent \cup popped
  BY PopEffect
<1>r. readyQueue' = queue \ I
  BY DEF ActivateAndPop
<1> HIDE DEF queue, popped
<1> USE DEF CoreInv, ActivateAndPop
<1>s. \A r \in Roots(S) \cup NonRoots(S) : SessionOf[r] \in S
  BY DEF Roots, NonRoots
<1>u. \A s \in S : s \in Session /\ s \notin sessions \cup canceled
  BY DEF Untouched
<1>1. CoreTypeOK'
  BY <1>p, <1>q, <1>r DEF CoreTypeOK
<1>2. TimesPast'
  BY <1>p DEF TimesPast, CoreTypeOK, NotYet
<1>3. MapExact'
  BY DEF MapExact
<1>4. QueuedExact'
  BY <1>p DEF QueuedExact
<1>5. HeapOnce'
  <2>1. \A i \in queue \ I : i.req \notin popped /\ i.req \in Request
    BY <1>q DEF popped, ActivateAndPop, Due, queue
  <2>2. \A i \in readyQueue' : sentAt'[i.req] = NotYet
    BY <2>1, <1>p, <1>q, <1>r
  <2> QED
    BY <2>2, <1>q, <1>r DEF HeapOnce
<1>6. PendingUnsent'
  <2>1. \A r \in pendingNodes' : r \notin popped
    BY <1>p, <1>q DEF PendingUnsent, QueuedExact, Roots, NonRoots
  <2>2. \A r \in NonRoots(S) : r \in Request /\ sentAt[r] = NotYet /\ r \notin Roots(S)
    BY <1>s DEF NonRoots, Roots, Untouched, NodesOf
  <2>3. \A r \in pendingNodes' : sentAt'[r] = NotYet
    BY <2>1, <2>2, <1>p DEF PendingUnsent, CoreTypeOK
  <2>4. \A r \in pendingNodes' : r \notin queuedNodes'
    BY <2>2, <1>q DEF PendingUnsent
  <2> QED
    BY <2>3, <2>4 DEF PendingUnsent
<1>7. PendingBlocked'
  <2>1. ASSUME NEW r \in NonRoots(S)
        PROVE  \E p \in Parents(r) : completions[p] = NotYet
    <3>1. PICK p \in Request : <<p, r>> \in Edge
      BY DEF NonRoots, IsRoot, Parents
    <3>2. SessionOf[p] = SessionOf[r]
      BY <3>1, EdgeAssumption
    <3>3. completions[p] = NotYet
      BY <3>1, <3>2, <1>s DEF Untouched, NodesOf
    <3> QED
      BY <3>1, <3>3 DEF Parents
  <2> QED
    BY <2>1 DEF PendingBlocked
<1>8. HeldByActive'
  BY <1>s DEF HeldByActive
<1>9. ActiveHasWork'
  <2>1. ASSUME NEW s \in S PROVE \E r \in pendingNodes' \cup queuedNodes' : SessionOf[r] = s
    <3>1. PICK r \in Request : SessionOf[r] = s
      BY SessionAssumption
    <3> QED
      BY <3>1 DEF Roots, NonRoots
  <2> QED
    BY <2>1 DEF ActiveHasWork
<1>10. CanceledDropped'
  BY <1>s, <1>u DEF CanceledDropped
<1>11. ActiveCovered'
  <2>1. \A r \in Request : SessionOf[r] \in S => r \in Roots(S) \cup NonRoots(S)
    BY DEF Roots, NonRoots
  <2> QED
    BY <2>1 DEF ActiveCovered
<1> QED
  BY <1>1, <1>2, <1>3, <1>4, <1>5, <1>6, <1>7, <1>8, <1>9, <1>10, <1>11

\* Such a step touches only the sessions it activates and active ones.
LEMMA ActivateAndPopUntouched ==
    ASSUME CoreInv, NEW S \in SUBSET Session, \A s \in S : Untouched(s),
           NEW start \in Nat, NEW I, ActivateAndPop(S, start, I),
           NEW s \in Session \ S, Untouched(s)
    PROVE  Untouched(s)'
<1> DEFINE popped == {i.req : i \in I}
<1>1. /\ popped \subseteq (QueuedRequests \cup Roots(S)) \cap Request
      /\ \A r \in Request : sentAt'[r] = IF r \in popped THEN now ELSE sentAt[r]
  BY PopEffect
<1> HIDE DEF popped
<1>2. \A r \in NodesOf(s) : r \notin popped
  BY <1>1 DEF CoreInv, HeldByActive, QueuedExact, Roots, NodesOf, Untouched
<1> QED
  BY <1>1, <1>2 DEF Untouched, ActivateAndPop, NodesOf
-----------------------------------------------------------------------------
(* The completion of r, which may activate the sessions S at its end.      *)

\* What the completion of r releases was pending, with all its parents done;
\* its items are well typed.
LEMMA ReleasedProperties ==
    ASSUME CoreInv, NEW r \in Sent, NEW outcome \in Reports, NEW t \in AnswerTimes(r),
           NEW done, done = [completions EXCEPT ![r] = t]
    PROVE  /\ t \in Nat /\ t <= now
           /\ done \in [Request -> Nat \cup {NotYet}]
           /\ Released(r, outcome, done) \subseteq pendingNodes
           /\ Released(r, outcome, done) \cap Dropped(r, outcome) = {}
           /\ ReleasedItems(r, outcome, done) \subseteq [at : Nat, req : Request]
           /\ {i.req : i \in ReleasedItems(r, outcome, done)} = Released(r, outcome, done)
           /\ \A i, j \in ReleasedItems(r, outcome, done) : i.req = j.req => i = j
<1> USE DEF CoreInv
<1> DEFINE released == Released(r, outcome, done)
           items == ReleasedItems(r, outcome, done)
<1>1. r \in Request /\ sentAt[r] \in Nat /\ now \in Nat
  BY DEF Sent, CoreTypeOK
<1>2. t \in Nat /\ t <= now
  BY <1>1 DEF AnswerTimes
<1>3. done \in [Request -> Nat \cup {NotYet}]
  BY <1>1, <1>2 DEF CoreTypeOK
<1>4. \A x \in Request : done[x] # NotYet => done[x] <= now
  BY <1>1, <1>2 DEF TimesPast, CoreTypeOK
<1>5. released \subseteq pendingNodes /\ released \cap Dropped(r, outcome) = {}
  BY DEF Released, Dropped
<1>6. ASSUME NEW c \in released PROVE ReadyAt(c, done) \in Nat /\ c \in Request
  <2>1. c \in Children(r) /\ ParentsDone(c, done) /\ c \in Request
    BY DEF Released, CoreTypeOK
  <2>2. r \in Parents(c)
    BY <1>1, <2>1 DEF Children, Parents
  <2>3. Parents(c) # {}
    BY <2>2
  <2> HIDE DEF released
  <2> QED
    BY <1>1, <1>3, <1>4, <2>1, <2>3, ReadyAtType
<1> HIDE DEF released
<1>7. items = {[at |-> ReadyAt(c, done), req |-> c] : c \in released}
  BY DEF ReleasedItems, released
<1> HIDE DEF items
<1>9. ASSUME NEW i \in items
      PROVE  /\ i.req \in released
             /\ i = [at |-> ReadyAt(i.req, done), req |-> i.req]
             /\ i \in [at : Nat, req : Request]
  <2>1. PICK c \in released : i = [at |-> ReadyAt(c, done), req |-> c]
    BY <1>7
  <2>2. ReadyAt(c, done) \in Nat /\ c \in Request
    BY <1>6
  <2> QED
    BY <2>1, <2>2
<1>8. items \subseteq [at : Nat, req : Request]
  BY <1>9
<1>10. ASSUME NEW c \in released PROVE \E i \in items : i.req = c
  <2>1. [at |-> ReadyAt(c, done), req |-> c] \in items
    BY <1>7
  <2> QED
    BY <2>1
<1>11. {i.req : i \in items} = released
  BY <1>9, <1>10
<1>12. \A i, j \in items : i.req = j.req => i = j
  BY <1>9
<1> QED
  BY <1>2, <1>3, <1>5, <1>8, <1>11, <1>12 DEF items, released

\* A completion, with or without the activation of fresh sessions at its end,
\* preserves the invariant.
LEMMA CompletionStep ==
    ASSUME CoreInv, NEW r \in Sent, NEW outcome \in Reports, NEW t \in AnswerTimes(r),
           NEW S \in SUBSET Session, \A s \in S : Untouched(s),
           CompleteAndActivate(r, outcome, t, S)
    PROVE  CoreInv'
<1> DEFINE done     == [completions EXCEPT ![r] = t]
           released == Released(r, outcome, done)
           dropped  == Dropped(r, outcome)
           items    == ReleasedItems(r, outcome, done)
           queue    == readyQueue \cup RootItems(S, now)
<1>n. now \in Nat
  BY DEF CoreInv, CoreTypeOK
<1>q. /\ queue \subseteq [at : Nat, req : Request]
      /\ {i.req : i \in queue} = QueuedRequests \cup Roots(S)
      /\ \A i \in queue : sentAt[i.req] = NotYet
      /\ \A i, j \in queue : i.req = j.req => i = j
      /\ \A x \in Roots(S) \cup NonRoots(S) :
            x \in Request /\ x \notin pendingNodes \cup queuedNodes
  BY <1>n, QueueWithRoots, ZenonT(60)
<1>i. /\ t \in Nat /\ t <= now
      /\ done \in [Request -> Nat \cup {NotYet}]
      /\ released \subseteq pendingNodes
      /\ released \cap dropped = {}
      /\ items \subseteq [at : Nat, req : Request]
      /\ {i.req : i \in items} = released
      /\ \A i, j \in items : i.req = j.req => i = j
  BY ReleasedProperties
<1>c. /\ completions' = done
      /\ canceled' = IF Cancels(outcome) THEN canceled \cup {SessionOf[r]} ELSE canceled
      /\ pendingNodes' = (pendingNodes \ (released \cup dropped)) \cup NonRoots(S)
      /\ queuedNodes' = (queuedNodes \ {r}) \cup released \cup Roots(S)
      /\ inFlight' = (inFlight \ {r}) \cup released \cup Roots(S)
      /\ readyQueue' = queue \cup items
      /\ sessions' = (sessions \ Ended(r, outcome)) \cup S
      /\ nodeHistory' = [nodeHistory EXCEPT ![r] = RecordedHistory(r, outcome)]
      /\ outcomes' = [outcomes EXCEPT ![r] = outcome]
      /\ UNCHANGED <<now, unscheduled, sentAt, history>>
  BY DEF CompleteAndActivate
<1>d. dropped = IF Cancels(outcome) THEN pendingNodes \cap NodesOf(SessionOf[r]) ELSE {}
  BY DEF Dropped
<1>e. Ended(r, outcome) =
        IF ((pendingNodes \ dropped) \cup (queuedNodes \ {r})) \cap NodesOf(SessionOf[r]) = {}
        THEN {SessionOf[r]} ELSE {}
  BY DEF Ended
<1>t. \A x \in Request : done[x] = IF x = r THEN t ELSE completions[x]
  BY DEF CoreInv, CoreTypeOK
<1>z. released = IF Cancels(outcome) THEN {}
                 ELSE {c \in Children(r) \cap pendingNodes : ParentsDone(c, done)}
  BY DEF Released
<1> HIDE DEF done, released, dropped, items, queue
<1> USE DEF CoreInv
<1>r. r \in Request /\ r \in queuedNodes /\ r \notin QueuedRequests /\ SessionOf[r] \in sessions
      /\ sentAt[r] \in Nat /\ sentAt[r] # NotYet
  BY DEF Sent, QueuedExact, QueuedRequests, HeapOnce, HeldByActive, CoreTypeOK, NotYet
<1>s. \A x \in Roots(S) \cup NonRoots(S) : SessionOf[x] \in S
  BY DEF Roots, NonRoots
<1>u. \A s \in S : s \in Session /\ s \notin sessions \cup canceled
  BY DEF Untouched
<1>v. SessionOf[r] \in Session /\ SessionOf[r] \notin S
  BY <1>r, <1>u, SessionAssumption
<1>1. CoreTypeOK'
  <2>1. RecordedHistory(r, outcome) \in Seq([turn : Request, answered : BOOLEAN])
    <3> DEFINE turn == [turn |-> r, answered |-> outcome = "text"]
    <3>1. (outcome = "text") \in BOOLEAN
      OBVIOUS
    <3>2. turn \in [turn : Request, answered : BOOLEAN]
      BY <3>1, <1>r
    <3> HIDE DEF turn
    <3>3. /\ history[r] \in Seq([turn : Request, answered : BOOLEAN])
          /\ nodeHistory[r] \in Seq([turn : Request, answered : BOOLEAN])
      BY <1>r DEF CoreTypeOK
    <3>4. Append(history[r], turn) \in Seq([turn : Request, answered : BOOLEAN])
      BY <3>2, <3>3
    <3>5. RecordedHistory(r, outcome) =
            IF IsHistoryParent(r) THEN Append(history[r], turn) ELSE nodeHistory[r]
      BY DEF RecordedHistory, turn
    <3> QED
      BY <3>3, <3>4, <3>5
  <2>2. nodeHistory' \in [Request -> Seq([turn : Request, answered : BOOLEAN])]
    BY <2>1, <1>c, <1>r DEF CoreTypeOK
  <2>3. readyQueue' \subseteq [at : Nat, req : Request]
    BY <1>c, <1>i, <1>q
  <2>4. /\ pendingNodes' \subseteq Request
        /\ queuedNodes' \subseteq Request
        /\ inFlight' \subseteq Request
        /\ sessions' \subseteq Session
        /\ canceled' \subseteq Session
    BY <1>c, <1>i, <1>q, <1>v DEF CoreTypeOK
  <2>5. outcomes' \in [Request -> Reports]
    BY <1>c DEF CoreTypeOK
  <2> QED
    BY <2>2, <2>3, <2>4, <2>5, <1>c, <1>i DEF CoreTypeOK
<1>2. TimesPast'
  BY <1>c, <1>i, <1>r, <1>t DEF TimesPast
<1>3. MapExact'
  BY <1>c DEF MapExact
<1>w. \A x \in pendingNodes : x \in Request /\ sentAt[x] = NotYet /\ x \notin queuedNodes /\ x # r
  BY <1>r DEF PendingUnsent, CoreTypeOK
<1>4. QueuedExact'
  <2>1. QueuedRequests' = {i.req : i \in queue} \cup {i.req : i \in items}
    BY <1>c DEF QueuedRequests
  <2>2. Sent' = Sent \ {r}
    BY <1>c, <1>t, <1>i DEF Sent, NotYet
  <2> QED
    BY <2>1, <2>2, <1>c, <1>i, <1>q, <1>r DEF QueuedExact
<1>5. HeapOnce'
  <2>1. \A i \in items : i.req \in released /\ i.req \in pendingNodes /\ sentAt[i.req] = NotYet
    BY <1>i, <1>w
  <2>2. \A i \in queue : i.req \in QueuedRequests \cup Roots(S)
    BY <1>q
  <2>3. \A i \in queue : i.req \notin pendingNodes
    BY <2>2, <1>q, <1>w DEF QueuedExact
  <2> QED
    BY <2>1, <2>3, <1>c, <1>i, <1>q DEF HeapOnce
<1>6. PendingUnsent'
  <2>1. \A x \in NonRoots(S) : x \in Request /\ sentAt[x] = NotYet /\ x \notin Roots(S)
    BY <1>s DEF NonRoots, Roots, Untouched, NodesOf
  <2> QED
    BY <2>1, <1>c, <1>i, <1>q, <1>w DEF PendingUnsent
<1>7. PendingBlocked'
  <2>1. ASSUME NEW x \in NonRoots(S)
        PROVE  \E p \in Parents(x) : completions'[p] = NotYet
    <3>1. PICK p \in Request : <<p, x>> \in Edge
      BY DEF NonRoots, IsRoot, Parents
    <3>2. SessionOf[p] = SessionOf[x]
      BY <3>1, EdgeAssumption
    <3>3. completions[p] = NotYet /\ p # r
      BY <3>1, <3>2, <1>s, <1>v DEF Untouched, NodesOf
    <3> QED
      BY <3>1, <3>3, <1>c, <1>t DEF Parents
  <2>2. ASSUME NEW x \in pendingNodes \ (released \cup dropped)
        PROVE  \E p \in Parents(x) : completions'[p] = NotYet
    <3>1. CASE x \in Children(r)
      <4>1. SessionOf[x] = SessionOf[r]
        BY <3>1, EdgeAssumption DEF Children
      <4>2. ~ Cancels(outcome)
        BY <4>1, <1>d, <1>w DEF NodesOf
      <4>3. ~ ParentsDone(x, done)
        BY <4>2, <3>1, <1>z
      <4> QED
        BY <4>3, <1>c DEF ParentsDone
    <3>2. CASE x \notin Children(r)
      <4>1. PICK p \in Parents(x) : completions[p] = NotYet
        BY DEF PendingBlocked
      <4>2. p # r /\ p \in Request
        BY <3>2, <4>1, <1>w DEF Children, Parents
      <4> QED
        BY <4>1, <4>2, <1>c, <1>t
    <3> QED
      BY <3>1, <3>2
  <2> QED
    BY <2>1, <2>2, <1>c DEF PendingBlocked
<1>8. HeldByActive'
  <2>1. ASSUME NEW x \in (pendingNodes \ dropped) \cup (queuedNodes \ {r})
        PROVE  SessionOf[x] \in sessions'
    <3>1. SessionOf[x] \in sessions /\ x \in Request
      BY DEF HeldByActive, CoreTypeOK
    <3>2. SessionOf[x] \notin Ended(r, outcome)
      BY <3>1, <1>e DEF NodesOf
    <3> QED
      BY <3>1, <3>2, <1>c
  <2> QED
    BY <2>1, <1>c, <1>i, <1>s DEF HeldByActive
<1>9. ActiveHasWork'
  <2>1. ASSUME NEW s \in S PROVE \E x \in pendingNodes' \cup queuedNodes' : SessionOf[x] = s
    <3>1. PICK x \in Request : SessionOf[x] = s
      BY SessionAssumption
    <3> QED
      BY <3>1, <1>c DEF Roots, NonRoots
  <2>2. ASSUME NEW s \in sessions \ Ended(r, outcome)
        PROVE  \E x \in (pendingNodes \ dropped) \cup (queuedNodes \ {r}) : SessionOf[x] = s
    <3>1. CASE s = SessionOf[r]
      BY <3>1, <1>e DEF NodesOf
    <3>2. CASE s # SessionOf[r]
      <4>1. PICK x \in pendingNodes \cup queuedNodes : SessionOf[x] = s
        BY DEF ActiveHasWork
      <4> QED
        BY <3>2, <4>1, <1>d DEF NodesOf
    <3> QED
      BY <3>1, <3>2
  <2> QED
    BY <2>1, <2>2, <1>c DEF ActiveHasWork
<1>10. CanceledDropped'
  BY <1>c, <1>d, <1>s, <1>u, <1>v, <1>w DEF CanceledDropped, NodesOf
<1>11. ActiveCovered'
  <2>1. \A x \in Request : SessionOf[x] \in S => x \in Roots(S) \cup NonRoots(S)
    BY DEF Roots, NonRoots
  <2>2. ASSUME NEW x \in Request, SessionOf[x] \in sessions \ canceled'
        PROVE  x \in pendingNodes' \cup queuedNodes' \/ completions'[x] # NotYet
    <3>1. x \in pendingNodes \cup queuedNodes \/ completions[x] # NotYet
      BY <2>2, <1>c DEF ActiveCovered
    <3>2. x \notin dropped
      BY <2>2, <1>c, <1>d DEF NodesOf
    <3> QED
      BY <3>1, <3>2, <1>c, <1>i, <1>t DEF NotYet
  <2> QED
    BY <2>1, <2>2, <1>c DEF ActiveCovered
<1> QED
  BY <1>1, <1>2, <1>3, <1>4, <1>5, <1>6, <1>7, <1>8, <1>9, <1>10, <1>11

\* A completion touches only its own session and those it activates.
LEMMA CompletionUntouched ==
    ASSUME CoreInv, NEW r \in Sent, NEW outcome \in Reports, NEW t,
           NEW S \in SUBSET Session, CompleteAndActivate(r, outcome, t, S),
           NEW s \in Session \ S, Untouched(s)
    PROVE  Untouched(s)'
<1>1. r \in Request /\ sentAt[r] # NotYet
  BY DEF Sent
<1>2. s # SessionOf[r]
  BY <1>1 DEF Untouched, NodesOf
<1> QED
  BY <1>1, <1>2 DEF Untouched, CompleteAndActivate, NodesOf, CoreInv, CoreTypeOK
-----------------------------------------------------------------------------
(* The other steps, the start, and what the invariant implies.             *)

LEMMA CoreInitially ==
    ASSUME CoreInit
    PROVE  CoreInv /\ \A s \in Session : Untouched(s)
<1> USE DEF CoreInit
<1>1. QueuedRequests = {} /\ Sent = {}
  BY DEF QueuedRequests, Sent
<1>2. CoreTypeOK
  <2>1. <<>> \in Seq([turn : Request, answered : BOOLEAN])
    OBVIOUS
  <2> QED
    BY <2>1 DEF CoreTypeOK, Reports
<1>3. CoreInv
  BY <1>1, <1>2 DEF CoreInv, TimesPast, MapExact, QueuedExact, HeapOnce, PendingUnsent,
     PendingBlocked, HeldByActive, ActiveHasWork, CanceledDropped, ActiveCovered
<1> QED
  BY <1>3 DEF Untouched, NodesOf

LEMMA TickStep ==
    ASSUME CoreInv, Tick
    PROVE  CoreInv' /\ \A s \in Session : Untouched(s) => Untouched(s)'
<1> USE DEF CoreInv, Tick
<1>1. CoreTypeOK'
  <2>1. now' \in Nat
    BY DEF CoreTypeOK
  <2>2. UNCHANGED <<unscheduled, sessions, canceled, pendingNodes, queuedNodes,
                    completions, outcomes, nodeHistory, readyQueue, inFlight, sentAt, history>>
    OBVIOUS
  <2> QED
    BY <2>1, <2>2, Zenon DEF CoreTypeOK
<1>2. TimesPast'
  BY DEF TimesPast, CoreTypeOK, NotYet
<1>3. MapExact' /\ HeapOnce' /\ PendingUnsent' /\ PendingBlocked'
  BY DEF MapExact, HeapOnce, PendingUnsent, PendingBlocked
<1>4. QueuedExact'
  BY DEF QueuedExact, QueuedRequests, Sent
<1>5. HeldByActive' /\ ActiveHasWork' /\ CanceledDropped' /\ ActiveCovered'
  BY DEF HeldByActive, ActiveHasWork, CanceledDropped, ActiveCovered
<1>6. \A s \in Session : Untouched(s) => Untouched(s)'
  BY DEF Untouched
<1> QED
  BY <1>1, <1>2, <1>3, <1>4, <1>5, <1>6

LEMMA CoreStutter ==
    ASSUME CoreInv, UNCHANGED coreVars
    PROVE  CoreInv' /\ \A s \in Session : Untouched(s) => Untouched(s)'
<1> USE DEF CoreInv, coreVars
<1>1. CoreTypeOK' /\ TimesPast' /\ MapExact' /\ HeapOnce' /\ PendingUnsent' /\ PendingBlocked'
  BY DEF CoreTypeOK, TimesPast, MapExact, HeapOnce, PendingUnsent, PendingBlocked
<1>2. QueuedExact'
  BY DEF QueuedExact, QueuedRequests, Sent
<1>3. HeldByActive' /\ ActiveHasWork' /\ CanceledDropped' /\ ActiveCovered'
  BY DEF HeldByActive, ActiveHasWork, CanceledDropped, ActiveCovered
<1>4. \A s \in Session : Untouched(s) => Untouched(s)'
  BY DEF Untouched
<1> QED
  BY <1>1, <1>2, <1>3, <1>4

\* Whatever is queued or sent is in the map, and its session is active.
LEMMA LookupsHit == CoreInv => LookupsNeverFail /\ InFlightIsQueuedOrSent
  BY DEF CoreInv, MapExact, QueuedExact, HeldByActive, LookupsNeverFail, InFlightIsQueuedOrSent

\* In an active session with nothing queued or sent, take the pending requests:
\* one of them has no parent among them, so its parents are complete, which
\* PendingBlocked excludes.
LEMMA NothingStuck == CoreInv => NoStuckSession
<1> SUFFICES ASSUME CoreInv, NEW s \in sessions
             PROVE  \E r \in queuedNodes : SessionOf[r] = s
  BY DEF NoStuckSession, CoreInv, QueuedExact
<1> USE DEF CoreInv
<1> DEFINE R == {r \in pendingNodes : SessionOf[r] = s}
<1>1. SUFFICES ASSUME \A r \in queuedNodes : SessionOf[r] # s PROVE FALSE
  OBVIOUS
<1>2. R # {} /\ R \in SUBSET Request
  BY <1>1 DEF ActiveHasWork, CoreTypeOK
<1>3. PICK r \in R : \A p \in R : <<p, r>> \notin Edge
  BY <1>2, AcyclicAssumption
<1>4. PICK p \in Parents(r) : completions[p] = NotYet
  BY <1>3 DEF PendingBlocked
<1>5. p \in Request /\ <<p, r>> \in Edge /\ SessionOf[p] = s
  BY <1>3, <1>4, EdgeAssumption DEF Parents
<1>6. s \notin canceled
  BY <1>3 DEF CanceledDropped
<1>7. p \in pendingNodes
  BY <1>1, <1>4, <1>5, <1>6 DEF ActiveCovered
<1> QED
  BY <1>3, <1>5, <1>7
-----------------------------------------------------------------------------
(* When a request is sent, and with which history.                         *)

\* What is queued waits for no parent, and is ready no earlier than the last
\* of them and the delay allow.
QueuedTimely ==
    \A i \in readyQueue : \A p \in Parents(i.req) :
        completions[p] # NotYet /\ i.at >= completions[p] + Wait[i.req]

\* The completion of a history parent recorded its turn.
TurnsRecorded ==
    \A p \in Request : completions[p] # NotYet /\ IsHistoryParent(p) =>
        nodeHistory[p] = Append(history[p], [turn |-> p, answered |-> outcomes[p] = "text"])

Conversation == QueuedTimely /\ NeverEarly /\ TurnsRecorded /\ HistoryIsAncestry

\* A dispatch sends what is due, with the history of its parent, of which
\* QueuedTimely says that it is complete.
LEMMA ConversationPop ==
    ASSUME CoreInv, Conversation, NEW S \in SUBSET Session, \A s \in S : Untouched(s),
           NEW start \in Nat, NEW I, ActivateAndPop(S, start, I)
    PROVE  Conversation'
<1> USE DEF Conversation
<1> DEFINE queue == readyQueue \cup RootItems(S, start)
           popped == {i.req : i \in I}
<1>1. /\ popped \subseteq Request
      /\ \A r \in popped : sentAt[r] = NotYet /\ completions[r] = NotYet
      /\ \A r \in Request : sentAt'[r] = IF r \in popped THEN now ELSE sentAt[r]
  BY PopEffect
<1>2. queue \subseteq [at : Nat, req : Request]
  BY QueueWithRoots
<1>3. /\ readyQueue' = queue \ I /\ completions' = completions
      /\ nodeHistory' = nodeHistory /\ outcomes' = outcomes
      /\ \A i \in I : i \in queue /\ i.at <= now
  BY DEF ActivateAndPop, Due
<1>4. \A i \in queue : \A p \in Parents(i.req) :
          completions[p] # NotYet /\ i.at >= completions[p] + Wait[i.req]
  <2>1. \A i \in RootItems(S, start) : Parents(i.req) = {}
    BY DEF RootItems, Roots, IsRoot
  <2> QED
    BY <2>1 DEF QueuedTimely
<1>5. /\ completions \in [Request -> Nat \cup {NotYet}] /\ now \in Nat
      /\ history \in [Request -> Seq([turn : Request, answered : BOOLEAN])]
  BY DEF CoreInv, CoreTypeOK
<1>6. QueuedTimely'
  BY <1>3, <1>4 DEF QueuedTimely
<1>7. NeverEarly'
  <2> SUFFICES ASSUME NEW r \in Request, sentAt'[r] # NotYet, NEW p \in Parents(r)
               PROVE  completions[p] # NotYet /\ sentAt'[r] >= completions[p] + Wait[r]
    BY <1>3 DEF NeverEarly
  <2>1. CASE r \notin popped
    BY <2>1, <1>1 DEF NeverEarly
  <2>2. CASE r \in popped
    <3>1. PICK i \in I : i.req = r
      BY <2>2
    <3>2. completions[p] # NotYet /\ i.at >= completions[p] + Wait[r] /\ i.at <= now
          /\ i.at \in Nat
      BY <3>1, <1>2, <1>3, <1>4
    <3>3. sentAt'[r] = now /\ Wait[r] \in Nat /\ completions[p] \in Nat
      BY <2>2, <3>2, <1>1, <1>5, WaitAssumption DEF Parents
    <3> HIDE DEF popped, queue
    <3> QED
      BY <3>2, <3>3, <1>5
  <2> QED
    BY <2>1, <2>2
<1>8. \A r \in Request : r \notin popped => history'[r] = history[r]
  <2>1. CASE I = {} /\ UNCHANGED <<sentAt, history>>
    BY <2>1
  <2>2. ASSUME NEW i \in queue, I = {i}, MarkSent(i.req)
        PROVE  \A r \in Request : r \notin popped => history'[r] = history[r]
    BY <2>2, <1>5 DEF MarkSent
  <2> QED
    BY <2>1, <2>2 DEF ActivateAndPop, Due
<1>9. \A p \in Request : completions[p] # NotYet => history'[p] = history[p]
  BY <1>1, <1>8
<1>10. TurnsRecorded'
  BY <1>3, <1>9 DEF TurnsRecorded
<1>11. HistoryIsAncestry'
  <2> SUFFICES ASSUME NEW r \in Request, sentAt'[r] # NotYet
               PROVE  IF HistParents(r) = {} THEN history'[r] = <<>>
                      ELSE \E p \in HistParents(r) : history'[r] =
                               Append(history'[p], [turn |-> p, answered |-> outcomes[p] = "text"])
    BY <1>3 DEF HistoryIsAncestry
  <2>1. \A p \in HistParents(r) : p \in Parents(r) /\ p \in Request /\ IsHistoryParent(p)
    BY HistoryAssumption DEF HistParents, Parents, IsHistoryParent
  <2>2. CASE r \notin popped
    <3>1. sentAt[r] # NotYet /\ history'[r] = history[r]
      BY <2>2, <1>1, <1>8
    <3>2. \A p \in HistParents(r) : history'[p] = history[p]
      BY <3>1, <2>1, <1>9 DEF NeverEarly
    <3> QED
      BY <3>1, <3>2, Zenon DEF HistoryIsAncestry
  <2>3. CASE r \in popped
    <3>1. PICK i \in I : i.req = r
      BY <2>3
    <3>2. history'[r] = InheritedHistory(r)
      BY <3>1, <1>5 DEF ActivateAndPop, MarkSent
    <3>3. \A p \in HistParents(r) : completions[p] # NotYet /\ history'[p] = history[p]
      BY <3>1, <2>1, <1>3, <1>4, <1>9
    <3>4. CASE HistParents(r) = {}
      BY <3>2, <3>4 DEF InheritedHistory
    <3>5. CASE HistParents(r) # {}
      <4> DEFINE p == CHOOSE p \in HistParents(r) : TRUE
      <4>1. p \in HistParents(r) /\ history'[r] = nodeHistory[p]
        BY <3>2, <3>5 DEF InheritedHistory
      <4> HIDE DEF p
      <4>2. nodeHistory[p] = Append(history[p], [turn |-> p, answered |-> outcomes[p] = "text"])
        BY <4>1, <3>3, <2>1 DEF TurnsRecorded
      <4>3. history'[r] = Append(history'[p], [turn |-> p, answered |-> outcomes[p] = "text"])
        BY <4>1, <4>2, <3>3
      <4> QED
        BY <3>5, <4>1, <4>3
    <3> QED
      BY <3>4, <3>5
  <2> QED
    BY <2>2, <2>3
<1> QED
  BY <1>6, <1>7, <1>10, <1>11

\* A completion releases with the time of the last parent and records the turn.
LEMMA ConversationCompletion ==
    ASSUME CoreInv, Conversation, NEW r \in Sent, NEW outcome \in Reports, NEW t \in AnswerTimes(r),
           NEW S, CompleteAndActivate(r, outcome, t, S)
    PROVE  Conversation'
<1> USE DEF Conversation
<1> DEFINE done  == [completions EXCEPT ![r] = t]
           items == ReleasedItems(r, outcome, done)
           queue == readyQueue \cup RootItems(S, now)
<1>1. /\ completions' = done /\ readyQueue' = queue \cup items
      /\ nodeHistory' = [nodeHistory EXCEPT ![r] = RecordedHistory(r, outcome)]
      /\ outcomes' = [outcomes EXCEPT ![r] = outcome]
      /\ UNCHANGED <<sentAt, history>>
  BY DEF CompleteAndActivate
<1>2. /\ t \in Nat /\ t <= now /\ r \in Request /\ completions[r] = NotYet /\ now \in Nat
      /\ done \in [Request -> Nat \cup {NotYet}]
      /\ nodeHistory \in [Request -> Seq([turn : Request, answered : BOOLEAN])]
      /\ outcomes \in [Request -> Reports]
  BY ReleasedProperties DEF Sent, CoreInv, CoreTypeOK
<1>3. \A x \in Request : done[x] = IF x = r THEN t ELSE completions[x]
  BY DEF CoreInv, CoreTypeOK
<1>4. \A x \in Request : completions[x] # NotYet => done[x] = completions[x] /\ x # r
  BY <1>2, <1>3
<1>5. \A x \in Request : done[x] # NotYet => done[x] <= now
  BY <1>2, <1>3 DEF CoreInv, TimesPast
<1>6. ASSUME NEW i \in items, NEW p \in Parents(i.req)
      PROVE  done[p] # NotYet /\ i.at >= done[p] + Wait[i.req]
  <2>1. PICK c \in Released(r, outcome, done) : i = [at |-> ReadyAt(c, done), req |-> c]
    BY DEF ReleasedItems
  <2>2. c \in Children(r) /\ ParentsDone(c, done) /\ c \in Request
    BY <2>1 DEF Released, Children
  <2>3. r \in Parents(c) /\ i.req = c /\ i.at = ReadyAt(c, done) /\ p \in Parents(c)
    BY <1>2, <2>1, <2>2 DEF Children, Parents
  <2>4. Parents(c) # {}
    BY <2>3
  <2> HIDE DEF done
  <2>5. ReadyAt(c, done) \in Nat /\ \A q \in Parents(c) : done[q] + Wait[c] <= ReadyAt(c, done)
    BY <1>2, <1>5, <2>2, <2>4, ReadyAtType
  <2>6. p \in Request /\ done[p] # NotYet
    BY <2>2, <2>3 DEF Parents, ParentsDone
  <2>7. done[p] \in Nat /\ Wait[c] \in Nat
    BY <2>6, <2>2, <1>2, WaitAssumption
  <2>8. done[p] + Wait[c] <= ReadyAt(c, done)
    BY <2>3, <2>5
  <2> QED
    BY <2>3, <2>5, <2>6, <2>7, <2>8
<1> HIDE DEF done, items
<1>7. QueuedTimely'
  <2>1. \A i \in RootItems(S, now) : Parents(i.req) = {}
    BY DEF RootItems, Roots, IsRoot
  <2>2. \A i \in readyQueue : \A p \in Parents(i.req) :
            done[p] # NotYet /\ i.at >= done[p] + Wait[i.req]
    BY <1>4 DEF QueuedTimely, Parents
  <2> QED
    BY <2>1, <2>2, <1>1, <1>6 DEF QueuedTimely
<1>8. NeverEarly'
  BY <1>1, <1>4 DEF NeverEarly, Parents
<1>9. TurnsRecorded'
  <2> SUFFICES ASSUME NEW p \in Request, done[p] # NotYet, IsHistoryParent(p)
               PROVE  nodeHistory'[p] =
                          Append(history[p], [turn |-> p, answered |-> outcomes'[p] = "text"])
    BY <1>1 DEF TurnsRecorded
  <2>1. CASE p = r
    <3>1. nodeHistory'[r] = Append(history[r], [turn |-> r, answered |-> outcome = "text"])
      BY <2>1, <1>1, <1>2 DEF RecordedHistory
    <3>2. outcomes'[r] = outcome
      BY <1>1, <1>2
    <3> QED
      BY <2>1, <3>1, <3>2
  <2>2. CASE p # r
    BY <2>2, <1>1, <1>2, <1>3 DEF TurnsRecorded
  <2> QED
    BY <2>1, <2>2
<1>10. HistoryIsAncestry'
  <2> SUFFICES ASSUME NEW x \in Request, sentAt[x] # NotYet
               PROVE  IF HistParents(x) = {} THEN history[x] = <<>>
                      ELSE \E p \in HistParents(x) : history[x] =
                               Append(history[p], [turn |-> p, answered |-> outcomes'[p] = "text"])
    BY <1>1 DEF HistoryIsAncestry
  <2>1. ASSUME NEW p \in HistParents(x) PROVE outcomes'[p] = outcomes[p]
    <3>1. p \in Parents(x) /\ p \in Request
      BY HistoryAssumption DEF HistParents, Parents
    <3>2. p # r
      BY <3>1, <1>2 DEF NeverEarly
    <3> QED
      BY <3>1, <3>2, <1>1, <1>2
  <2> QED
    BY <2>1, Zenon DEF HistoryIsAncestry
<1> QED
  BY <1>7, <1>8, <1>9, <1>10

\* Nothing of a conversation depends on the time.
LEMMA ConversationUnmoved ==
    ASSUME Conversation,
           UNCHANGED <<completions, outcomes, nodeHistory, readyQueue, sentAt, history>>
    PROVE  Conversation'
  BY DEF Conversation, QueuedTimely, NeverEarly, TurnsRecorded, HistoryIsAncestry

LEMMA ConversationInitially == CoreInit => Conversation
  BY DEF CoreInit, Conversation, QueuedTimely, NeverEarly, TurnsRecorded, HistoryIsAncestry
-----------------------------------------------------------------------------
(* What becomes of the requests of a session once it was activated.        *)

Accounted(r) ==
    \/ r \in pendingNodes \cup queuedNodes
    \/ completions[r] # NotYet
    \/ SessionOf[r] \in canceled /\ sentAt[r] = NotYet

\* A dispatch loses no request, and the requests of the sessions it activates
\* are accounted for.
LEMMA AccountedPop ==
    ASSUME CoreInv, NEW S \in SUBSET Session, \A s \in S : Untouched(s),
           NEW start \in Nat, NEW I, ActivateAndPop(S, start, I),
           NEW r \in Request, Accounted(r) \/ SessionOf[r] \in S
    PROVE  Accounted(r)'
<1> DEFINE popped == {i.req : i \in I}
<1>1. /\ popped \subseteq QueuedRequests \cup Roots(S)
      /\ sentAt'[r] = IF r \in popped THEN now ELSE sentAt[r]
  BY PopEffect
<1> HIDE DEF popped
<1>2. r \in popped => r \in queuedNodes'
  BY <1>1 DEF ActivateAndPop, CoreInv, QueuedExact
<1>3. SessionOf[r] \in S => r \in Roots(S) \cup NonRoots(S)
  BY DEF Roots, NonRoots
<1> QED
  BY <1>1, <1>2, <1>3 DEF Accounted, ActivateAndPop

\* A completion loses none either: what a cancel drops was never sent.
LEMMA AccountedCompletion ==
    ASSUME CoreInv, NEW x \in Sent, NEW outcome \in Reports, NEW t \in AnswerTimes(x),
           NEW S \in SUBSET Session, CompleteAndActivate(x, outcome, t, S),
           NEW r \in Request, Accounted(r) \/ SessionOf[r] \in S
    PROVE  Accounted(r)'
<1> DEFINE done == [completions EXCEPT ![x] = t]
           released == Released(x, outcome, done)
<1>1. /\ x \in Request /\ t \in Nat
      /\ \A y \in Request : done[y] = IF y = x THEN t ELSE completions[y]
  BY ReleasedProperties DEF Sent, CoreInv, CoreTypeOK
<1>2. /\ completions' = done
      /\ canceled' = IF Cancels(outcome) THEN canceled \cup {SessionOf[x]} ELSE canceled
      /\ pendingNodes' = (pendingNodes \ (released \cup Dropped(x, outcome))) \cup NonRoots(S)
      /\ queuedNodes' = (queuedNodes \ {x}) \cup released \cup Roots(S)
      /\ sentAt' = sentAt
  BY DEF CompleteAndActivate
<1> HIDE DEF done, released
<1>3. SessionOf[r] \in S => r \in Roots(S) \cup NonRoots(S)
  BY DEF Roots, NonRoots
<1>4. r \in Dropped(x, outcome) => SessionOf[r] \in canceled' /\ sentAt[r] = NotYet
  BY <1>2 DEF Dropped, NodesOf, CoreInv, PendingUnsent
<1>5. done[x] # NotYet
  BY <1>1 DEF NotYet
<1> QED
  BY <1>1, <1>2, <1>3, <1>4, <1>5 DEF Accounted
-----------------------------------------------------------------------------
(* The steps in the terms of TrafficContract.                              *)

\* The fate of a request, read off the completions, the requests sent and the
\* sessions canceled.
LEMMA FateIs ==
    ASSUME NEW r \in Request
    PROVE  /\ Fate \in [Request -> {"done", "sent", "dropped", "idle"}]
           /\ Fate[r] = "done" <=> completions[r] # NotYet
           /\ Fate[r] = "sent" <=> sentAt[r] # NotYet /\ completions[r] = NotYet
           /\ Fate[r] = "dropped" <=> /\ sentAt[r] = NotYet /\ completions[r] = NotYet
                                      /\ SessionOf[r] \in canceled /\ r \notin inFlight
           /\ Fate[r] = "idle" <=> /\ sentAt[r] = NotYet /\ completions[r] = NotYet
                                   /\ SessionOf[r] \notin canceled \/ r \in inFlight
<1>1. r \in Sent <=> sentAt[r] # NotYet /\ completions[r] = NotYet
  BY DEF Sent
<1>2. Fate[r] = IF completions[r] # NotYet THEN "done"
                ELSE IF r \in Sent THEN "sent"
                ELSE IF SessionOf[r] \in canceled /\ r \notin inFlight THEN "dropped"
                ELSE "idle"
  BY DEF Fate
<1>3. Fate \in [Request -> {"done", "sent", "dropped", "idle"}]
  BY DEF Fate
<1> QED
  BY <1>1, <1>2, <1>3

\* Requests that were not sent, of sessions that were: the fate of what the
\* invariant calls pending, queued or untouched.
LEMMA FateOfUnsent ==
    ASSUME CoreInv, TimesPast, NEW r \in Request
    PROVE  /\ r \in pendingNodes \cup QueuedRequests => Fate[r] = "idle"
           /\ \A s \in Session : Untouched(s) /\ SessionOf[r] = s => Fate[r] = "idle"
<1>1. r \in pendingNodes => /\ sentAt[r] = NotYet /\ completions[r] = NotYet
                            /\ SessionOf[r] \notin canceled
  BY DEF CoreInv, TimesPast, PendingUnsent, CanceledDropped
<1>2. r \in QueuedRequests => sentAt[r] = NotYet /\ completions[r] = NotYet /\ r \in inFlight
  BY DEF CoreInv, TimesPast, HeapOnce, QueuedRequests, QueuedExact, MapExact
<1>3. \A s \in Session : Untouched(s) /\ SessionOf[r] = s =>
          sentAt[r] = NotYet /\ completions[r] = NotYet /\ SessionOf[r] \notin canceled
  BY DEF Untouched, NodesOf
<1> QED
  BY <1>1, <1>2, <1>3, FateIs

\* A dispatch opens fresh sessions, and sends at most one request, all of whose
\* parents are done.
LEMMA FateOfPop ==
    ASSUME CoreInv, Conversation, NEW S \in SUBSET Session, \A s \in S : Untouched(s),
           NEW start \in Nat, NEW I, ActivateAndPop(S, start, I), CoreInv'
    PROVE  /\ S \subseteq {s \in Session \ sessions : \A r \in NodesOf(s) : Fate[r] = "idle"}
           /\ sessions' = sessions \cup S
           /\ \/ Fate' = Fate
              \/ \E r \in Request :
                    /\ Fate[r] = "idle" /\ \A p \in Parents(r) : Fate[p] = "done"
                    /\ SessionOf[r] \in sessions'
                    /\ Fate' = [Fate EXCEPT ![r] = "sent"]
<1> DEFINE queue == readyQueue \cup RootItems(S, start)
           popped == {i.req : i \in I}
<1>1. /\ popped \subseteq (QueuedRequests \cup Roots(S)) \cap Request
      /\ \A r \in popped : sentAt[r] = NotYet /\ completions[r] = NotYet
      /\ \A r \in Request : sentAt'[r] = IF r \in popped THEN now ELSE sentAt[r]
      /\ Sent' = Sent \cup popped
  BY PopEffect
<1>2. /\ sessions' = sessions \cup S /\ inFlight' = inFlight \cup Roots(S)
      /\ canceled' = canceled /\ completions' = completions
  BY DEF ActivateAndPop
<1>3. \A r \in Roots(S) : r \in Request /\ SessionOf[r] \in S
  BY DEF Roots
<1>4. S \subseteq {s \in Session \ sessions : \A r \in NodesOf(s) : Fate[r] = "idle"}
  BY FateOfUnsent DEF Untouched, NodesOf, CoreInv
<1>5. \A r \in Request : r \in popped =>
          Fate[r] = "idle" /\ \A p \in Parents(r) : Fate[p] = "done"
  <2> SUFFICES ASSUME NEW r \in popped
               PROVE  Fate[r] = "idle" /\ \A p \in Parents(r) : Fate[p] = "done"
    OBVIOUS
  <2>1. Fate[r] = "idle"
    BY <1>1, <1>3, FateOfUnsent DEF CoreInv
  <2>2. CASE r \in Roots(S)
    BY <2>1, <2>2 DEF Roots, IsRoot
  <2>3. CASE r \in QueuedRequests
    <3>1. \A p \in Parents(r) : p \in Request /\ completions[p] # NotYet
      BY <2>3 DEF QueuedRequests, Conversation, QueuedTimely, Parents
    <3> QED
      BY <2>1, <3>1, FateIs
  <2> QED
    BY <1>1, <2>2, <2>3
<1>6. Fate' = [r \in Request |-> IF r \in popped THEN "sent" ELSE Fate[r]]
  <2>1. \A r \in Request : r \in Roots(S) => SessionOf[r] \notin canceled
    BY <1>3 DEF Untouched
  <2>2. Fate \in [Request -> {"done", "sent", "dropped", "idle"}]
    BY DEF Fate
  <2>3. Fate' = [r \in Request |->
                   IF completions[r] # NotYet THEN "done"
                   ELSE IF r \in Sent \cup popped THEN "sent"
                   ELSE IF SessionOf[r] \in canceled /\ r \notin inFlight' THEN "dropped"
                   ELSE "idle"]
    BY <1>1, <1>2 DEF Fate
  <2>4. ASSUME NEW r \in Request
        PROVE  Fate'[r] = IF r \in popped THEN "sent" ELSE Fate[r]
    <3>1. CASE r \in popped
      BY <3>1, <2>3, <1>1
    <3>2. CASE r \notin popped
      BY <3>2, <2>1, <2>3, <1>2 DEF Fate
    <3> QED
      BY <3>1, <3>2
  <2> QED
    BY <2>3, <2>4
<1>7. CASE I = {}
  <2>1. Fate' = Fate
    BY <1>6, <1>7 DEF Fate
  <2> QED
    BY <1>2, <1>4, <2>1
<1>8. CASE \E i \in Due(queue) : I = {i}
  <2>1. PICK r \in Request : popped = {r}
    BY <1>1, <1>8
  <2>2. Fate' = [Fate EXCEPT ![r] = "sent"]
    BY <1>6, <2>1 DEF Fate
  <2>3. SessionOf[r] \in sessions'
    <3>1. r \in Sent'
      BY <1>1, <2>1
    <3> QED
      BY <3>1 DEF CoreInv, QueuedExact, HeldByActive
  <2> QED
    BY <1>2, <1>4, <1>5, <2>1, <2>2, <2>3
<1> QED
  BY <1>7, <1>8 DEF ActivateAndPop

\* The requests of r's session that still wait for a parent.
BlockedWith(r) ==
    {q \in NodesOf(SessionOf[r]) :
        Fate[q] = "idle" /\ \E p \in Parents(q) : Fate[p] # "done"}

\* What is pending is what waits for a parent: of the rest of the session, what
\* is queued has its parents done, and a session that is not canceled has no
\* others.
LEMMA PendingIsBlocked ==
    ASSUME CoreInv, Conversation, NEW r \in Sent
    PROVE  pendingNodes \cap NodesOf(SessionOf[r]) = BlockedWith(r)
<1> USE DEF CoreInv
<1>1. r \in Request /\ SessionOf[r] \in sessions
  BY DEF Sent, QueuedExact, HeldByActive
<1>2. ASSUME NEW q \in pendingNodes, q \in NodesOf(SessionOf[r]) PROVE q \in BlockedWith(r)
  <2>1. q \in Request /\ Fate[q] = "idle"
    BY FateOfUnsent DEF CoreTypeOK
  <2>2. PICK p \in Parents(q) : completions[p] = NotYet
    BY DEF PendingBlocked
  <2>3. p \in Request /\ Fate[p] # "done"
    BY <2>2, FateIs DEF Parents
  <2> QED
    BY <1>2, <2>1, <2>2, <2>3 DEF BlockedWith
<1>3. ASSUME NEW q \in BlockedWith(r) PROVE q \in pendingNodes
  <2>1. q \in Request /\ Fate[q] = "idle" /\ SessionOf[q] = SessionOf[r]
    BY DEF BlockedWith, NodesOf
  <2>2. PICK p \in Parents(q) : Fate[p] # "done"
    BY DEF BlockedWith
  <2>3. p \in Request /\ completions[p] = NotYet
    BY <2>2, FateIs DEF Parents
  <2>4. q \notin QueuedRequests
    BY <2>2, <2>3 DEF QueuedRequests, Conversation, QueuedTimely
  <2>5. sentAt[q] = NotYet /\ completions[q] = NotYet
        /\ (SessionOf[q] \notin canceled \/ q \in inFlight)
    BY <2>1, FateIs
  <2>6. q \notin queuedNodes
    BY <2>4, <2>5 DEF QueuedExact, Sent
  <2>7. SessionOf[q] \in sessions \ canceled
    BY <1>1, <2>1, <2>5, <2>6 DEF MapExact
  <2> QED
    BY <2>1, <2>5, <2>6, <2>7 DEF ActiveCovered
<1>4. BlockedWith(r) \subseteq NodesOf(SessionOf[r])
  BY DEF BlockedWith
<1> QED
  BY <1>2, <1>3, <1>4

Lost(r, outcome) == IF Cancels(outcome) THEN BlockedWith(r) ELSE {}

\* A completion makes the request done, a canceling one drops what waited for
\* a parent, and the session closes when all its requests are done or dropped.
LEMMA FateOfCompletion ==
    ASSUME CoreInv, Conversation, NEW r \in Sent, NEW outcome \in Reports, NEW t \in AnswerTimes(r),
           NEW S \in SUBSET Session, \A s \in S : Untouched(s),
           CompleteAndActivate(r, outcome, t, S)
    PROVE  /\ Fate[r] = "sent"
           /\ Fate' = [q \in Request |-> IF q = r THEN "done"
                                         ELSE IF q \in Lost(r, outcome) THEN "dropped" ELSE Fate[q]]
           /\ Ended(r, outcome) = {s \in {SessionOf[r]} :
                                     \A q \in NodesOf(s) : Fate'[q] \in {"done", "dropped"}}
           /\ S \subseteq {s \in Session \ sessions : \A q \in NodesOf(s) : Fate[q] = "idle"}
           /\ sessions' = (sessions \ Ended(r, outcome)) \cup S
<1> USE DEF CoreInv
<1> DEFINE done     == [completions EXCEPT ![r] = t]
           released == Released(r, outcome, done)
<1>1. /\ r \in Request /\ SessionOf[r] \in sessions /\ sentAt[r] # NotYet
      /\ completions[r] = NotYet /\ t \in Nat /\ t # NotYet
      /\ released \subseteq pendingNodes
      /\ \A q \in Request : done[q] = IF q = r THEN t ELSE completions[q]
  <2>1. r \in Request /\ sentAt[r] # NotYet /\ completions[r] = NotYet
    BY DEF Sent
  <2>2. SessionOf[r] \in sessions
    BY DEF QueuedExact, HeldByActive
  <2>3. t \in Nat /\ released \subseteq pendingNodes
    BY ReleasedProperties
  <2>4. \A q \in Request : done[q] = IF q = r THEN t ELSE completions[q]
    BY DEF CoreTypeOK
  <2> HIDE DEF done, released
  <2> QED
    BY <2>1, <2>2, <2>3, <2>4 DEF NotYet
<1>2. /\ completions' = done /\ sentAt' = sentAt
      /\ canceled' = IF Cancels(outcome) THEN canceled \cup {SessionOf[r]} ELSE canceled
      /\ inFlight' = (inFlight \ {r}) \cup released \cup Roots(S)
      /\ sessions' = (sessions \ Ended(r, outcome)) \cup S
  BY DEF CompleteAndActivate
<1>3. Lost(r, outcome) = Dropped(r, outcome)
  BY PendingIsBlocked DEF Dropped, Lost
<1>4. Cancels(outcome) => released = {}
  BY DEF Released
<1> HIDE DEF done, released
<1>5. Fate[r] = "sent"
  BY <1>1, FateIs
<1>6. S \subseteq {s \in Session \ sessions : \A q \in NodesOf(s) : Fate[q] = "idle"}
  BY FateOfUnsent DEF Untouched, NodesOf
<1>7. \A q \in Roots(S) : q \in Request /\ SessionOf[q] \in S /\ SessionOf[q] \notin canceled
                          /\ SessionOf[q] # SessionOf[r]
  BY <1>1 DEF Roots, Untouched
<1>8. \A q \in pendingNodes : /\ q \in Request /\ q # r /\ q \notin inFlight /\ q \notin Roots(S)
                              /\ SessionOf[q] \notin canceled
                              /\ sentAt[q] = NotYet /\ completions[q] = NotYet
                              /\ Fate[q] = "idle"
  BY <1>1, <1>7, FateOfUnsent, ZenonT(60)
     DEF PendingUnsent, MapExact, CanceledDropped, TimesPast, CoreTypeOK, HeldByActive, Untouched
<1>9. ASSUME NEW q \in Request
      PROVE  Fate'[q] = IF q = r THEN "done" ELSE IF q \in Lost(r, outcome) THEN "dropped" ELSE Fate[q]
  <2>1. Fate'[q] = IF completions'[q] # NotYet THEN "done"
                   ELSE IF q \in Sent' THEN "sent"
                   ELSE IF SessionOf[q] \in canceled' /\ q \notin inFlight' THEN "dropped"
                   ELSE "idle"
    BY DEF Fate
  <2>2. q \in Sent' <=> q \in Sent /\ q # r
    BY <1>1, <1>2 DEF Sent
  <2>3. CASE q = r
    BY <2>1, <2>3, <1>1, <1>2
  <2>4. CASE q # r /\ q \in Lost(r, outcome)
    <3>1. /\ q \in pendingNodes /\ Cancels(outcome) /\ SessionOf[q] = SessionOf[r]
      BY <2>4, <1>3 DEF Dropped, NodesOf
    <3>2. /\ completions'[q] = NotYet /\ q \notin Sent'
          /\ SessionOf[q] \in canceled' /\ q \notin inFlight'
      BY <2>2, <2>4, <3>1, <1>1, <1>2, <1>4, <1>8 DEF Sent
    <3> QED
      BY <2>1, <2>4, <3>2
  <2>5. CASE q # r /\ q \notin Lost(r, outcome)
    <3>1. completions'[q] = completions[q] /\ (q \in Sent' <=> q \in Sent)
      BY <2>2, <2>5, <1>1, <1>2
    <3>2. ASSUME completions[q] = NotYet, q \notin Sent
          PROVE  (SessionOf[q] \in canceled' /\ q \notin inFlight')
                     <=> (SessionOf[q] \in canceled /\ q \notin inFlight)
      <4>1. CASE q \in released \cup Roots(S)
        BY <4>1, <1>1, <1>2, <1>4, <1>7, <1>8
      <4>2. CASE q \notin released \cup Roots(S)
        <5>1. q \in inFlight' <=> q \in inFlight
          BY <2>5, <4>2, <1>2
        <5>2. CASE SessionOf[q] \in canceled' \ canceled
          <6>1. Cancels(outcome) /\ SessionOf[q] = SessionOf[r]
                /\ SessionOf[q] \in sessions \ canceled
            BY <5>2, <1>1, <1>2
          <6>2. q \in pendingNodes \cup queuedNodes
            BY <6>1, <3>2 DEF ActiveCovered
          <6>3. q \notin pendingNodes
            BY <6>1, <2>5, <1>3 DEF Dropped, NodesOf
          <6> QED
            BY <5>1, <6>2, <6>3 DEF MapExact
        <5>3. CASE SessionOf[q] \notin canceled' \ canceled
          BY <5>1, <5>3, <1>2
        <5> QED
          BY <5>2, <5>3
      <4> QED
        BY <4>1, <4>2
    <3> QED
      BY <2>1, <2>5, <3>1, <3>2 DEF Fate
  <2> QED
    BY <2>3, <2>4, <2>5
<1>10. Fate' = [q \in Request |-> IF q = r THEN "done"
                                  ELSE IF q \in Lost(r, outcome) THEN "dropped" ELSE Fate[q]]
  BY <1>9 DEF Fate
<1>11. ASSUME NEW q \in NodesOf(SessionOf[r])
       PROVE  Fate'[q] \in {"done", "dropped"}
                  <=> q \notin (pendingNodes \ Dropped(r, outcome)) \cup (queuedNodes \ {r})
  <2>1. q \in Request /\ SessionOf[q] = SessionOf[r]
    BY DEF NodesOf
  <2>2. CASE q = r
    BY <2>1, <2>2, <1>8, <1>9
  <2>3. CASE q # r /\ q \in Lost(r, outcome)
    <3>1. q \in pendingNodes
      BY <2>3, <1>3 DEF Dropped
    <3> QED
      BY <2>1, <2>3, <3>1, <1>3, <1>9 DEF PendingUnsent
  <2>4. CASE q # r /\ q \notin Lost(r, outcome)
    <3>1. Fate'[q] = Fate[q]
      BY <2>1, <2>4, <1>9
    <3>2. q \in pendingNodes \cup queuedNodes => Fate[q] \in {"idle", "sent"}
      BY <2>1, FateOfUnsent, FateIs DEF QueuedExact, Sent
    <3>3. q \notin pendingNodes \cup queuedNodes => Fate[q] \in {"done", "dropped"}
      <4> SUFFICES ASSUME q \notin pendingNodes \cup queuedNodes, completions[q] = NotYet
                   PROVE  Fate[q] = "dropped"
        BY <2>1, FateIs
      <4>1. SessionOf[q] \in canceled
        BY <2>1, <1>1 DEF ActiveCovered
      <4>2. q \notin inFlight /\ sentAt[q] = NotYet
        BY <2>1 DEF MapExact, QueuedExact, Sent
      <4> QED
        BY <2>1, <4>1, <4>2, FateIs
    <3> QED
      BY <2>4, <3>1, <3>2, <3>3, <1>3
  <2> QED
    BY <2>2, <2>3, <2>4
<1>12. Ended(r, outcome) = {s \in {SessionOf[r]} :
                              \A q \in NodesOf(s) : Fate'[q] \in {"done", "dropped"}}
  BY <1>11 DEF Ended
<1> QED
  BY <1>2, <1>5, <1>6, <1>10, <1>12
-----------------------------------------------------------------------------
(* A scheduler with a place for every session implements TrafficContract.  *)

\* The contract counts as this module does.
LEMMA OpenCardinality == \A S : OpenContract!Cardinality(S) = Cardinality(S)
  BY DEF OpenContract!Cardinality, Cardinality

\* Sessions open freely: there is a place for each.
LEMMA OpensUp ==
    ASSUME sessions' \in SUBSET Session, NEW closed,
           NEW S \in SUBSET {s \in Session \ sessions : \A q \in NodesOf(s) : Fate[q] = "idle"},
           sessions' = (sessions \ closed) \cup S
    PROVE  OpenContract!OpenUp(closed)
<1>1. S \in SUBSET OpenContract!Fresh
  BY DEF OpenContract!Fresh, OpenContract!NodesOf, NodesOf
<1>2. Cardinality(sessions') <= Cardinality(Session)
  BY SessionAssumption, FS_Subset
<1> QED
  BY <1>1, <1>2, OpenCardinality DEF OpenContract!OpenUp

\* What activates and pops opens sessions and sends at most one request.
LEMMA OpenContractPop ==
    ASSUME CoreInv, Conversation, CoreInv', NEW S \in SUBSET Session, \A s \in S : Untouched(s),
           NEW start \in Nat, NEW I, ActivateAndPop(S, start, I)
    PROVE  OpenContract!Next
<1>1. sessions' \in SUBSET Session
  BY DEF CoreInv, CoreTypeOK
<1>2. /\ S \subseteq {s \in Session \ sessions : \A q \in NodesOf(s) : Fate[q] = "idle"}
      /\ sessions' = sessions \cup S
      /\ \/ Fate' = Fate
         \/ \E r \in Request :
               /\ Fate[r] = "idle" /\ \A p \in Parents(r) : Fate[p] = "done"
               /\ SessionOf[r] \in sessions'
               /\ Fate' = [Fate EXCEPT ![r] = "sent"]
  BY FateOfPop
<1>3. OpenContract!OpenUp({})
  <2>1. sessions' = (sessions \ {}) \cup S
    BY <1>2
  <2> QED
    BY <1>1, <1>2, <2>1, OpensUp
<1>4. CASE Fate' = Fate
  BY <1>3, <1>4 DEF OpenContract!Next, OpenContract!Admission
<1>5. ASSUME NEW r \in Request, Fate[r] = "idle", \A p \in Parents(r) : Fate[p] = "done",
             SessionOf[r] \in sessions', Fate' = [Fate EXCEPT ![r] = "sent"]
      PROVE  OpenContract!Next
  <2>1. ~ OpenContract!Blocked(r)
    BY <1>5 DEF OpenContract!Blocked, OpenContract!Parents, Parents
  <2> QED
    BY <1>3, <1>5, <2>1 DEF OpenContract!Next, OpenContract!Send
<1> QED
  BY <1>2, <1>4, <1>5

\* A completion that activates nothing is a success or a failure.
LEMMA OpenContractCompletion ==
    ASSUME CoreInv, Conversation, CoreInv', NEW r \in Sent, NEW outcome \in Reports, NEW t \in AnswerTimes(r),
           CompleteAndActivate(r, outcome, t, {})
    PROVE  OpenContract!Next
<1>1. r \in Request /\ sessions' \in SUBSET Session
  BY DEF Sent, CoreInv, CoreTypeOK
<1>2. /\ Fate[r] = "sent"
      /\ Fate' = [q \in Request |-> IF q = r THEN "done"
                                    ELSE IF q \in Lost(r, outcome) THEN "dropped" ELSE Fate[q]]
      /\ Ended(r, outcome) = {s \in {SessionOf[r]} :
                                \A q \in NodesOf(s) : Fate'[q] \in {"done", "dropped"}}
      /\ sessions' = (sessions \ Ended(r, outcome)) \cup {}
  <2>1. PICK S \in SUBSET Session : S = {}
    OBVIOUS
  <2>2. CompleteAndActivate(r, outcome, t, S) /\ \A s \in S : Untouched(s)
    BY <2>1
  <2>3. /\ Fate[r] = "sent"
        /\ Fate' = [q \in Request |-> IF q = r THEN "done"
                                      ELSE IF q \in Lost(r, outcome) THEN "dropped" ELSE Fate[q]]
        /\ Ended(r, outcome) = {s \in {SessionOf[r]} :
                                  \A q \in NodesOf(s) : Fate'[q] \in {"done", "dropped"}}
        /\ sessions' = (sessions \ Ended(r, outcome)) \cup S
    BY <2>2, FateOfCompletion, SMTT(60)
  <2> QED
    BY <2>1, <2>3
<1>3. Ended(r, outcome) = {s \in {SessionOf[r]} : OpenContract!Settled(Fate', s)}
  BY <1>2 DEF OpenContract!Settled, OpenContract!NodesOf, NodesOf
<1>4. OpenContract!OpenUp({s \in {SessionOf[r]} : OpenContract!Settled(Fate', s)})
  <2>1. {} \in SUBSET {s \in Session \ sessions : \A q \in NodesOf(s) : Fate[q] = "idle"}
    OBVIOUS
  <2> QED
    BY <1>1, <1>2, <1>3, <2>1, OpensUp
<1>5. OpenContract!Finish(r, Lost(r, outcome))
  BY <1>2, <1>4 DEF OpenContract!Finish
<1>6. CASE Cancels(outcome)
  <2>1. Lost(r, outcome) = {q \in OpenContract!NodesOf(SessionOf[r]) : OpenContract!Blocked(q)}
    BY <1>6 DEF Lost, BlockedWith, OpenContract!Blocked, OpenContract!NodesOf, NodesOf,
                OpenContract!Parents, Parents
  <2> QED
    BY <1>1, <1>5, <1>6, <2>1 DEF OpenContract!Next, OpenContract!Fail, Cancels
<1>7. CASE ~ Cancels(outcome)
  BY <1>1, <1>5, <1>7 DEF Lost, OpenContract!Next, OpenContract!Succeed
<1> QED
  BY <1>6, <1>7

\* What leaves requests and sessions alone leaves their fates alone.
LEMMA OpenContractRests ==
    ASSUME UNCHANGED <<sessions, canceled, completions, inFlight, sentAt>>
    PROVE  UNCHANGED OpenContract!contractVars
<1>1. Fate' = Fate
  BY DEF Fate, Sent
<1> QED
  BY <1>1 DEF OpenContract!contractVars

\* At first every request is idle and no session open.
LEMMA OpenContractBegins == CoreInit => OpenContract!Init
<1> SUFFICES ASSUME CoreInit PROVE Fate = [r \in Request |-> "idle"] /\ sessions = {}
  BY DEF OpenContract!Init
<1>1. \A r \in Request : completions[r] = NotYet /\ r \notin Sent /\ SessionOf[r] \notin canceled
  BY DEF CoreInit, Sent
<1> QED
  BY <1>1 DEF Fate, CoreInit
=============================================================================
