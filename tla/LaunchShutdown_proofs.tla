------------------------ MODULE LaunchShutdown_proofs ------------------------
(***************************************************************************)
(* The order of the turns for any number of sessions, requests, client     *)
(* workers, dispatchers and executor threads, with a stop at any moment,   *)
(* and that the scheduler keeps TrafficContract whatever the threads that  *)
(* carry its tickets out do.  None of that rests on the executor's jobs: a *)
(* turn is passed by a request at the gate whose ticket has come up.  The  *)
(* jobs come in at the end, where no request is in two hands.              *)
(***************************************************************************)
EXTENDS LaunchShutdown, TrafficScheduler_proofs, SequenceTheorems, FiniteSetTheorems

FreshUntouched == \A s \in unscheduled : Untouched(s)

SchedulerInv == CoreInv /\ Conversation /\ FreshUntouched

CarrierTypeOK ==
    /\ nextTicket \in Nat /\ counter \in Nat
    /\ ticket \in [Request -> Nat]
    /\ stage \in [Request -> Stages]
    /\ clientQueue \in [Worker -> Seq(Request)]

\* The stage of a request agrees with what the scheduler knows of it.
StagesAgree ==
    \A r \in Request :
        /\ stage[r] = "scheduler" <=> sentAt[r] = NotYet
        /\ stage[r] = "processed" <=> completions[r] # NotYet

\* The client queues hold queued requests, each in one place.
QueuesHoldQueued ==
    /\ \A w \in Worker : \A k \in DOMAIN clientQueue[w] : stage[clientQueue[w][k]] = "queued"
    /\ \A v, w \in Worker : \A j \in DOMAIN clientQueue[v], k \in DOMAIN clientQueue[w] :
          clientQueue[v][j] = clientQueue[w][k] => v = w /\ j = k

Numbered(r) == IsRoot(r) /\ SessionOf[r] \notin unscheduled

\* Every root of a scheduled session has a ticket of its own; a request that
\* waits for others has ticket 0.
TicketsGiven ==
    /\ counter <= nextTicket
    /\ \A r \in Request : Numbered(r) => ticket[r] < nextTicket
    /\ \A q, r \in Request : Numbered(q) /\ Numbered(r) /\ ticket[q] = ticket[r] => q = r
    /\ \A r \in Request : ~IsRoot(r) => ticket[r] = 0

\* The first request to complete is a root.
RootsFirst ==
    (\E r \in Request : stage[r] = "processed")
        => \E q \in Request : IsRoot(q) /\ stage[q] = "processed"

\* What is past the gate had its turn.
HadItsTurn == \A r \in Request : stage[r] \in PastGate => ticket[r] <= counter

\* The counter passes the ticket of a root only when that root is launched.
CounterBehind ==
    \A r \in Request : Numbered(r) /\ ticket[r] < counter => stage[r] \in Launched

CarrierInv ==
    /\ CarrierTypeOK /\ StagesAgree /\ QueuesHoldQueued /\ TicketsGiven
    /\ RootsFirst /\ HadItsTurn /\ CounterBehind

ResultsTyped == result \in [Request -> Reports]

IInv == SchedulerInv /\ CarrierInv /\ ResultsTyped

-----------------------------------------------------------------------------
(* Facts about stages and sessions.                                        *)

LEMMA LaunchedStages ==
    /\ "processed" \in Launched /\ "answered" \in Launched
    /\ Launched \subseteq PastGate
    /\ "accepted" \in Launched => "streaming" \in Launched
    /\ Ordering = "dispatch" => "accepted" \in Launched
    /\ Ordering = "prefill" => "streaming" \in Launched
  BY DispatchAssumption DEF Launched, PastGate

\* What was sent belongs to a scheduled session.
LEMMA SentIsScheduled ==
    ASSUME FreshUntouched, NEW r \in Request, sentAt[r] # NotYet
    PROVE  SessionOf[r] \notin unscheduled
  BY DEF FreshUntouched, Untouched, NodesOf

\* A root that is past the gate has a ticket.
LEMMA PastGateIsNumbered ==
    ASSUME FreshUntouched, StagesAgree, NEW r \in Request, stage[r] \in PastGate, IsRoot(r)
    PROVE  Numbered(r)
<1>1. sentAt[r] # NotYet
  BY DEF StagesAgree, PastGate
<1> QED
  BY <1>1, SentIsScheduled DEF Numbered

\* A request that waits for others is sent after a root has completed, which
\* is then the one with ticket 0 if the counter still shows 0.
LEMMA RootBefore ==
    ASSUME IInv, NEW r \in Request, sentAt[r] # NotYet, ~IsRoot(r)
    PROVE  \E q \in Request : IsRoot(q) /\ stage[q] = "processed"
<1>1. PICK p \in Parents(r) : TRUE
  BY DEF IsRoot
<1>2. p \in Request /\ completions[p] # NotYet
  BY <1>1 DEF IInv, SchedulerInv, Conversation, NeverEarly, Parents
<1>3. stage[p] = "processed"
  BY <1>2 DEF IInv, CarrierInv, StagesAgree
<1> QED
  BY <1>2, <1>3 DEF IInv, CarrierInv, RootsFirst

-----------------------------------------------------------------------------
(* The scheduler's part of the invariant.                                  *)

\* schedule_session as an activation of one session.
LEMMA ScheduleActivates ==
    ASSUME IInv, NEW s \in Session, Schedule(s)
    PROVE  /\ ActivateAndPop({s}, now, {}) /\ now \in Nat
           /\ s \in unscheduled /\ unscheduled' = unscheduled \ {s}
           /\ \A x \in {s} : Untouched(x)
<1>1. ScheduleSession(s)
  BY DEF Schedule
<1>2. s \in unscheduled /\ unscheduled' = unscheduled \ {s}
  BY <1>1 DEF ScheduleSession
<1>3. ActivateAndPop({s}, now, {})
  BY <1>1 DEF ScheduleSession, ActivateOnto, ActivateAndPop
<1> QED
  BY <1>2, <1>3 DEF IInv, SchedulerInv, CoreInv, CoreTypeOK, FreshUntouched

\* A dispatcher's pop.
LEMMA DispatchPops ==
    ASSUME IInv, NEW i \in readyQueue, Dispatch(i)
    PROVE  /\ ActivateAndPop({}, now, {i}) /\ now \in Nat
           /\ i.req \in Request /\ sentAt[i.req] = NotYet
           /\ SessionOf[i.req] \notin unscheduled
           /\ sentAt' = [sentAt EXCEPT ![i.req] = now]
           /\ UNCHANGED <<unscheduled, completions, nextTicket, ticket>>
<1>1. Pop(i)
  BY DEF Dispatch
<1>2. readyQueue \cup RootItems({}, now) = readyQueue
  BY NothingActivated
<1>3. ActivateAndPop({}, now, {i})
  BY <1>1, <1>2, NothingActivated DEF ActivateAndPop, Pop
<1>4. i.req \in Request /\ sentAt[i.req] = NotYet
  BY DEF IInv, SchedulerInv, CoreInv, CoreTypeOK, HeapOnce
<1>5. SessionOf[i.req] \in sessions
  BY DEF IInv, SchedulerInv, CoreInv, QueuedExact, QueuedRequests, HeldByActive
<1>6. SessionOf[i.req] \notin unscheduled
  BY <1>5 DEF IInv, SchedulerInv, FreshUntouched, Untouched
<1> QED
  BY <1>1, <1>3, <1>4, <1>6 DEF Pop, MarkSent, IInv, SchedulerInv, CoreInv, CoreTypeOK

\* The completion worker's notification.
LEMMA ProcessCompletes ==
    ASSUME IInv, NEW r \in Request, Process(r)
    PROVE  /\ r \in Sent /\ now \in AnswerTimes(r)
           /\ CompleteAndActivate(r, result[r], now, {})
           /\ completions' = [completions EXCEPT ![r] = now]
           /\ now \in Nat /\ result[r] \in Reports
           /\ UNCHANGED <<unscheduled, sentAt, nextTicket, ticket>>
<1>1. result[r] \in Reports
  BY DEF IInv, ResultsTyped
<1> QED
  BY <1>1 DEF Process, NotifyCompletion, CompleteAndActivate, IInv, SchedulerInv, CoreInv,
     CoreTypeOK

LEMMA SchedulerSchedule ==
    ASSUME IInv, NEW s \in Session, Schedule(s)
    PROVE  SchedulerInv'
<1>1. /\ ActivateAndPop({s}, now, {}) /\ now \in Nat
      /\ s \in unscheduled /\ unscheduled' = unscheduled \ {s}
      /\ \A x \in {s} : Untouched(x)
  BY ScheduleActivates
<1>2. CoreInv /\ Conversation /\ FreshUntouched /\ unscheduled \subseteq Session
  BY DEF IInv, SchedulerInv, CoreInv, CoreTypeOK
<1>3. CoreInv' /\ Conversation'
  BY <1>1, <1>2, ActivateAndPopStep, ConversationPop
<1>4. \A x \in Session \ {s} : Untouched(x) => Untouched(x)'
  BY <1>1, <1>2, ActivateAndPopUntouched
<1> QED
  BY <1>1, <1>2, <1>3, <1>4 DEF SchedulerInv, FreshUntouched

LEMMA SchedulerDispatch ==
    ASSUME IInv, NEW i \in readyQueue, Dispatch(i)
    PROVE  SchedulerInv'
<1>1. ActivateAndPop({}, now, {i}) /\ now \in Nat /\ unscheduled' = unscheduled
  BY DispatchPops
<1>2. CoreInv /\ Conversation /\ FreshUntouched /\ unscheduled \subseteq Session
  BY DEF IInv, SchedulerInv, CoreInv, CoreTypeOK
<1>3. CoreInv' /\ Conversation'
  BY <1>1, <1>2, ActivateAndPopStep, ConversationPop
<1>4. \A x \in Session : Untouched(x) => Untouched(x)'
  BY <1>1, <1>2, ActivateAndPopUntouched
<1> QED
  BY <1>1, <1>2, <1>3, <1>4 DEF SchedulerInv, FreshUntouched

LEMMA SchedulerProcess ==
    ASSUME IInv, NEW r \in Request, Process(r)
    PROVE  SchedulerInv'
<1>1. /\ r \in Sent /\ now \in AnswerTimes(r) /\ result[r] \in Reports
      /\ CompleteAndActivate(r, result[r], now, {}) /\ unscheduled' = unscheduled
  BY ProcessCompletes
<1>2. CoreInv /\ Conversation /\ FreshUntouched /\ unscheduled \subseteq Session
  BY DEF IInv, SchedulerInv, CoreInv, CoreTypeOK
<1>3. CoreInv' /\ Conversation'
  BY <1>1, <1>2, CompletionStep, ConversationCompletion
<1>4. \A x \in Session : Untouched(x) => Untouched(x)'
  BY <1>1, <1>2, CompletionUntouched
<1> QED
  BY <1>1, <1>2, <1>3, <1>4 DEF SchedulerInv, FreshUntouched

LEMMA SchedulerRests ==
    ASSUME IInv, Tick \/ UNCHANGED coreVars
    PROVE  SchedulerInv'
<1>1. CoreInv /\ Conversation /\ FreshUntouched /\ unscheduled \subseteq Session
  BY DEF IInv, SchedulerInv, CoreInv, CoreTypeOK
<1>2. CoreInv' /\ \A s \in Session : Untouched(s) => Untouched(s)'
  BY <1>1, TickStep, CoreStutter
<1>3. UNCHANGED <<unscheduled, completions, outcomes, nodeHistory, readyQueue, sentAt, history>>
  BY DEF Tick, coreVars
<1>4. Conversation'
  BY <1>1, <1>3, ConversationUnmoved
<1> QED
  BY <1>1, <1>2, <1>3, <1>4 DEF SchedulerInv, FreshUntouched

-----------------------------------------------------------------------------
(* The carriers' part of the invariant, one lemma per kind of step.        *)

\* The roots of the session get the next tickets, which no request has and the
\* counter has not reached.
LEMMA CarrierSchedule ==
    ASSUME IInv, NEW s \in Session, Schedule(s)
    PROVE  CarrierInv'
<1> USE DEF IInv, CarrierInv
<1> DEFINE n == Cardinality(Roots({s}))
<1>1. /\ s \in unscheduled /\ unscheduled' = unscheduled \ {s}
      /\ Untouched(s)
  BY ScheduleActivates
<1>2. /\ ScheduleSession(s)
      /\ UNCHANGED <<stage, clientQueue, counter>>
  BY DEF Schedule, dispatchVars
<1>3. UNCHANGED <<completions, sentAt>> /\ nextTicket' = nextTicket + n
  BY <1>2 DEF ScheduleSession
<1>4. n \in Nat
  <2>1. IsFiniteSet(Roots({s}))
    BY DispatchAssumption, FS_Subset DEF Roots
  <2> QED
    BY <2>1, FS_CardinalityType
<1>5. PICK f \in Numberings(s) :
          ticket' = [r \in Request |-> IF r \in Roots({s}) THEN f[r] ELSE ticket[r]]
  BY <1>2 DEF ScheduleSession
<1>6. /\ f \in [Roots({s}) -> nextTicket .. nextTicket + n - 1]
      /\ \A q, r \in Roots({s}) : f[q] = f[r] => q = r
  BY <1>5 DEF Numberings
<1> HIDE DEF n
<1>7. /\ nextTicket \in Nat /\ counter \in Nat /\ counter <= nextTicket
      /\ \A r \in Request : ticket[r] \in Nat
      /\ \A r \in Roots({s}) : f[r] \in Nat /\ nextTicket <= f[r] /\ f[r] < nextTicket + n
  <2>1. /\ nextTicket \in Nat /\ counter \in Nat /\ counter <= nextTicket
        /\ \A r \in Request : ticket[r] \in Nat
    BY DEF CarrierTypeOK, TicketsGiven
  <2>2. ASSUME NEW r \in Roots({s})
        PROVE  f[r] \in Nat /\ nextTicket <= f[r] /\ f[r] < nextTicket + n
    <3>1. f[r] \in nextTicket .. nextTicket + n - 1
      BY <1>6
    <3> QED
      BY <3>1, <2>1, <1>4
  <2> QED
    BY <2>1, <2>2
<1>8. \A r \in Request : r \in Roots({s}) <=> IsRoot(r) /\ SessionOf[r] = s
  BY DEF Roots
<1>9. CarrierTypeOK'
  <2>1. ticket' \in [Request -> Nat]
    BY <1>5, <1>7
  <2>2. nextTicket' \in Nat /\ counter' \in Nat
    BY <1>2, <1>3, <1>4, <1>7
  <2> QED
    BY <2>1, <2>2, <1>2 DEF CarrierTypeOK
<1>10. StagesAgree' /\ QueuesHoldQueued' /\ RootsFirst'
  BY <1>2, <1>3 DEF StagesAgree, QueuesHoldQueued, RootsFirst
<1>11. ASSUME NEW r \in Request
       PROVE  /\ r \in Roots({s}) => Numbered(r)' /\ ticket'[r] = f[r]
              /\ r \notin Roots({s}) => Numbered(r)' = Numbered(r) /\ ticket'[r] = ticket[r]
  BY <1>1, <1>5, <1>8 DEF Numbered
<1>12. TicketsGiven'
  <2>1. counter' <= nextTicket'
    BY <1>2, <1>3, <1>4, <1>7
  <2>2. ASSUME NEW r \in Request, Numbered(r)' PROVE ticket'[r] < nextTicket'
    <3>1. CASE r \in Roots({s})
      BY <3>1, <1>3, <1>7, <1>11
    <3>2. CASE r \notin Roots({s})
      <4>1. ticket[r] \in Nat /\ ticket[r] < nextTicket /\ ticket'[r] = ticket[r]
        BY <3>2, <2>2, <1>7, <1>11 DEF TicketsGiven
      <4> QED
        BY <4>1, <1>3, <1>4, <1>7
    <3> QED
      BY <3>1, <3>2
  <2>3. ASSUME NEW q \in Request, NEW r \in Request,
               Numbered(q)', Numbered(r)', ticket'[q] = ticket'[r]
        PROVE  q = r
    <3>1. \A x \in Request \ Roots({s}), y \in Roots({s}) : Numbered(x) => ticket[x] # f[y]
      <4> SUFFICES ASSUME NEW x \in Request, NEW y \in Roots({s}), ticket[x] < nextTicket
                   PROVE  ticket[x] # f[y]
        BY DEF TicketsGiven
      <4>1. ticket[x] \in Nat /\ f[y] \in Nat /\ nextTicket <= f[y] /\ nextTicket \in Nat
        BY <1>7
      <4> QED
        BY <4>1
    <3>2. CASE q \in Roots({s}) /\ r \in Roots({s})
      BY <3>2, <2>3, <1>6, <1>11
    <3>3. CASE q \in Roots({s}) /\ r \notin Roots({s})
      BY <3>1, <3>3, <2>3, <1>11
    <3>4. CASE q \notin Roots({s}) /\ r \in Roots({s})
      BY <3>1, <3>4, <2>3, <1>11
    <3>5. CASE q \notin Roots({s}) /\ r \notin Roots({s})
      BY <3>5, <2>3, <1>11 DEF TicketsGiven
    <3> QED
      BY <3>2, <3>3, <3>4, <3>5
  <2>4. \A r \in Request : ~IsRoot(r) => ticket'[r] = 0
    BY <1>8, <1>11 DEF TicketsGiven
  <2> QED
    BY <2>1, <2>2, <2>3, <2>4 DEF TicketsGiven, IsRoot, Parents
<1>13. HadItsTurn'
  <2>1. \A r \in Roots({s}) : stage[r] = "scheduler"
    BY <1>1, <1>8 DEF Untouched, NodesOf, StagesAgree, Roots
  <2> QED
    BY <2>1, <1>2, <1>11 DEF HadItsTurn, PastGate
<1>14. CounterBehind'
  <2> SUFFICES ASSUME NEW r \in Request, Numbered(r)', ticket'[r] < counter
               PROVE  stage[r] \in Launched
    BY <1>2 DEF CounterBehind, Launched
  <2>1. ASSUME r \in Roots({s}) PROVE FALSE
    <3>1. ticket'[r] = f[r] /\ nextTicket <= f[r] /\ f[r] \in Nat
      BY <2>1, <1>7, <1>11
    <3> QED
      BY <3>1, <1>7
  <2> QED
    BY <2>1, <1>11 DEF CounterBehind
<1> QED
  BY <1>9, <1>10, <1>12, <1>13, <1>14

\* A request that does not pass the gate moves: from the heap to a dispatcher,
\* to a client queue, or from there to the gate.
LEMMA CarrierMoves ==
    ASSUME IInv, NEW r \in Request, NEW to \in {"held", "queued", "gate"},
           stage[r] \in {"scheduler", "held", "queued"}, Move(r, to),
           UNCHANGED <<unscheduled, completions, nextTicket, ticket, counter>>
    PROVE  /\ stage' \in [Request -> Stages]
           /\ \A q \in Request : stage'[q] = IF q = r THEN to ELSE stage[q]
           /\ TicketsGiven' /\ RootsFirst' /\ HadItsTurn' /\ CounterBehind'
<1> USE DEF IInv, CarrierInv
<1>1. /\ stage' \in [Request -> Stages]
      /\ \A q \in Request : stage'[q] = IF q = r THEN to ELSE stage[q]
  BY DEF Move, CarrierTypeOK, Stages
<1>2. Launched \subseteq PastGate
  BY LaunchedStages
<1>3. stage[r] \notin PastGate /\ to \notin PastGate /\ stage[r] # "processed" /\ to # "processed"
  BY DEF PastGate
<1>4. TicketsGiven'
  BY DEF TicketsGiven, Numbered
<1>5. RootsFirst'
  BY <1>1, <1>3 DEF RootsFirst
<1>6. HadItsTurn'
  BY <1>1, <1>3 DEF HadItsTurn
<1>7. CounterBehind'
  BY <1>1, <1>2, <1>3 DEF CounterBehind, Numbered
<1> QED
  BY <1>1, <1>4, <1>5, <1>6, <1>7

LEMMA CarrierDispatch ==
    ASSUME IInv, NEW i \in readyQueue, Dispatch(i)
    PROVE  CarrierInv'
<1> USE DEF IInv, CarrierInv
<1>1. /\ i.req \in Request /\ sentAt[i.req] = NotYet
      /\ sentAt' = [sentAt EXCEPT ![i.req] = now] /\ now \in Nat
      /\ UNCHANGED <<unscheduled, completions, nextTicket, ticket>>
  BY DispatchPops
<1>2. Move(i.req, "held") /\ UNCHANGED <<clientQueue, counter>>
  BY DEF Dispatch
<1>3. stage[i.req] = "scheduler"
  BY <1>1 DEF StagesAgree
<1>4. /\ stage' \in [Request -> Stages]
      /\ \A q \in Request : stage'[q] = IF q = i.req THEN "held" ELSE stage[q]
      /\ TicketsGiven' /\ RootsFirst' /\ HadItsTurn' /\ CounterBehind'
  BY <1>1, <1>2, <1>3, CarrierMoves
<1>5. StagesAgree'
  <2>1. \A q \in Request : sentAt'[q] = IF q = i.req THEN now ELSE sentAt[q]
    BY <1>1 DEF SchedulerInv, CoreInv, CoreTypeOK
  <2> QED
    BY <2>1, <1>1, <1>3, <1>4 DEF StagesAgree, NotYet
<1>6. QueuesHoldQueued'
  <2>1. \A w \in Worker : \A k \in DOMAIN clientQueue[w] : clientQueue[w][k] \in Request
    BY DEF CarrierTypeOK
  <2> QED
    BY <2>1, <1>2, <1>3, <1>4 DEF QueuesHoldQueued
<1> QED
  BY <1>1, <1>2, <1>4, <1>5, <1>6 DEF CarrierTypeOK

\* A request put on a queue was on none.
LEMMA CarrierPut ==
    ASSUME IInv, NEW r \in Request, NEW w \in Worker, Put(r, w)
    PROVE  CarrierInv'
<1> USE DEF IInv, CarrierInv
<1>1. /\ stage[r] = "held" /\ Move(r, "queued")
      /\ clientQueue' = [clientQueue EXCEPT ![w] = Append(@, r)]
      /\ UNCHANGED <<unscheduled, completions, sentAt, nextTicket, ticket, counter>>
  BY DEF Put, schedulerVars, coreVars
<1>2. /\ stage' \in [Request -> Stages]
      /\ \A q \in Request : stage'[q] = IF q = r THEN "queued" ELSE stage[q]
      /\ TicketsGiven' /\ RootsFirst' /\ HadItsTurn' /\ CounterBehind'
  BY <1>1, CarrierMoves
<1>3. StagesAgree'
  BY <1>1, <1>2 DEF StagesAgree
<1>4. /\ clientQueue' \in [Worker -> Seq(Request)]
      /\ \A v \in Worker \ {w} : clientQueue'[v] = clientQueue[v]
      /\ DOMAIN clientQueue'[w] = DOMAIN clientQueue[w] \cup {Len(clientQueue[w]) + 1}
      /\ \A k \in DOMAIN clientQueue[w] : clientQueue'[w][k] = clientQueue[w][k]
      /\ clientQueue'[w][Len(clientQueue[w]) + 1] = r
      /\ Len(clientQueue[w]) + 1 \notin DOMAIN clientQueue[w]
  <2>1. clientQueue[w] \in Seq(Request) /\ clientQueue'[w] = Append(clientQueue[w], r)
    BY <1>1 DEF CarrierTypeOK
  <2>2. /\ clientQueue' \in [Worker -> Seq(Request)]
        /\ \A v \in Worker \ {w} : clientQueue'[v] = clientQueue[v]
    BY <1>1, <2>1 DEF CarrierTypeOK
  <2> QED
    BY <2>1, <2>2
<1>5. \A v \in Worker : \A k \in DOMAIN clientQueue[v] :
          clientQueue[v][k] \in Request /\ clientQueue[v][k] # r
  BY <1>1 DEF CarrierTypeOK, QueuesHoldQueued
<1>6. ASSUME NEW v \in Worker, NEW k \in DOMAIN clientQueue'[v]
      PROVE  \/ k \in DOMAIN clientQueue[v] /\ clientQueue'[v][k] = clientQueue[v][k]
             \/ v = w /\ k = Len(clientQueue[w]) + 1 /\ clientQueue'[v][k] = r
  BY <1>4
<1>7. QueuesHoldQueued'
  <2>1. \A v \in Worker : \A k \in DOMAIN clientQueue'[v] : stage'[clientQueue'[v][k]] = "queued"
    BY <1>2, <1>5, <1>6 DEF QueuesHoldQueued
  <2>2. ASSUME NEW u \in Worker, NEW v \in Worker,
               NEW j \in DOMAIN clientQueue'[u], NEW k \in DOMAIN clientQueue'[v],
               clientQueue'[u][j] = clientQueue'[v][k]
        PROVE  u = v /\ j = k
    BY <2>2, <1>5, <1>6 DEF QueuesHoldQueued
  <2> QED
    BY <2>1, <2>2 DEF QueuesHoldQueued
<1> QED
  BY <1>1, <1>2, <1>3, <1>4, <1>7 DEF CarrierTypeOK

\* The head of a queue goes to the gate and is on no queue any more.
LEMMA CarrierTake ==
    ASSUME IInv, NEW w \in Worker, Take(w)
    PROVE  CarrierInv'
<1> USE DEF IInv, CarrierInv
<1> DEFINE r == Head(clientQueue[w])
<1>1. /\ clientQueue[w] # <<>> /\ Move(r, "gate")
      /\ clientQueue' = [clientQueue EXCEPT ![w] = Tail(@)]
      /\ UNCHANGED <<unscheduled, completions, sentAt, nextTicket, ticket, counter>>
  BY DEF Take, schedulerVars, coreVars
<1>2. /\ r \in Request /\ 1 \in DOMAIN clientQueue[w] /\ r = clientQueue[w][1]
      /\ clientQueue' \in [Worker -> Seq(Request)]
      /\ \A v \in Worker \ {w} : clientQueue'[v] = clientQueue[v]
      /\ \A k \in DOMAIN clientQueue'[w] :
            k + 1 \in DOMAIN clientQueue[w] /\ clientQueue'[w][k] = clientQueue[w][k + 1]
            /\ k \in Nat \ {0}
  <2>1. clientQueue[w] \in Seq(Request) /\ clientQueue'[w] = Tail(clientQueue[w])
    BY <1>1 DEF CarrierTypeOK
  <2>2. r \in Request /\ 1 \in DOMAIN clientQueue[w] /\ r = clientQueue[w][1]
    BY <2>1, <1>1
  <2>3. /\ clientQueue' \in [Worker -> Seq(Request)]
        /\ \A v \in Worker \ {w} : clientQueue'[v] = clientQueue[v]
    <3>1. Tail(clientQueue[w]) \in Seq(Request)
      BY <2>1, <1>1
    <3> QED
      BY <3>1, <1>1 DEF CarrierTypeOK
  <2>4. \A k \in DOMAIN clientQueue'[w] :
            k + 1 \in DOMAIN clientQueue[w] /\ clientQueue'[w][k] = clientQueue[w][k + 1]
            /\ k \in Nat \ {0}
    BY <2>1, <1>1
  <2> QED
    BY <2>2, <2>3, <2>4
<1> HIDE DEF r
<1>3. stage[r] = "queued"
  BY <1>2 DEF QueuesHoldQueued
<1>4. /\ stage' \in [Request -> Stages]
      /\ \A q \in Request : stage'[q] = IF q = r THEN "gate" ELSE stage[q]
      /\ TicketsGiven' /\ RootsFirst' /\ HadItsTurn' /\ CounterBehind'
  BY <1>1, <1>2, <1>3, CarrierMoves
<1>5. StagesAgree'
  BY <1>1, <1>3, <1>4 DEF StagesAgree
<1>6. ASSUME NEW v \in Worker, NEW k \in DOMAIN clientQueue'[v]
      PROVE  \E j \in DOMAIN clientQueue[v] :
                /\ clientQueue'[v][k] = clientQueue[v][j]
                /\ j = IF v = w THEN k + 1 ELSE k
                /\ <<v, j>> # <<w, 1>>
                /\ v = w => k \in Nat
  <2>1. CASE v = w
    BY <2>1, <1>2
  <2>2. CASE v # w
    BY <2>2, <1>2
  <2> QED
    BY <2>1, <2>2
<1>7. QueuesHoldQueued'
  <2>1. ASSUME NEW v \in Worker, NEW k \in DOMAIN clientQueue'[v]
        PROVE  stage'[clientQueue'[v][k]] = "queued"
    <3>1. PICK j \in DOMAIN clientQueue[v] :
              clientQueue'[v][k] = clientQueue[v][j] /\ <<v, j>> # <<w, 1>>
      BY <1>6
    <3>2. clientQueue[v][j] \in Request /\ clientQueue[v][j] # r
      BY <3>1, <1>2 DEF CarrierTypeOK, QueuesHoldQueued
    <3> QED
      BY <3>1, <3>2, <1>4 DEF QueuesHoldQueued
  <2>2. ASSUME NEW u \in Worker, NEW v \in Worker,
               NEW j \in DOMAIN clientQueue'[u], NEW k \in DOMAIN clientQueue'[v],
               clientQueue'[u][j] = clientQueue'[v][k]
        PROVE  u = v /\ j = k
    <3>1. PICK a \in DOMAIN clientQueue[u] :
              /\ clientQueue'[u][j] = clientQueue[u][a]
              /\ a = IF u = w THEN j + 1 ELSE j
              /\ u = w => j \in Nat
      BY <1>6
    <3>2. PICK b \in DOMAIN clientQueue[v] :
              /\ clientQueue'[v][k] = clientQueue[v][b]
              /\ b = IF v = w THEN k + 1 ELSE k
              /\ v = w => k \in Nat
      BY <1>6
    <3>3. clientQueue[u][a] = clientQueue[v][b]
      BY <2>2, <3>1, <3>2
    <3>4. \A x \in DOMAIN clientQueue[u], y \in DOMAIN clientQueue[v] :
              clientQueue[u][x] = clientQueue[v][y] => u = v /\ x = y
      BY DEF QueuesHoldQueued
    <3>5. u = v /\ a = b
      BY <3>3, <3>4
    <3> QED
      BY <3>1, <3>2, <3>5
  <2> QED
    BY <2>1, <2>2 DEF QueuesHoldQueued
<1> QED
  BY <1>1, <1>2, <1>4, <1>5, <1>7 DEF CarrierTypeOK

\* A request that passes the gate or gets on past it.  Where it advances the
\* counter, the counter showed its ticket, which then was that of a root that
\* is launched now.
LEMMA CarrierAdvances ==
    ASSUME IInv, NEW r \in Request, NEW to \in {"called", "accepted", "streaming", "answered"},
           stage[r] \in {"gate", "called", "accepted", "streaming"}, Move(r, to),
           ticket[r] <= counter, stage[r] \in Launched => to \in Launched,
           counter' = counter \/ (to \in Launched /\ counter' = Advanced(r)),
           UNCHANGED <<unscheduled, completions, sentAt, nextTicket, ticket, clientQueue>>
    PROVE  CarrierInv'
<1> USE DEF IInv, CarrierInv
<1>1. /\ stage' \in [Request -> Stages]
      /\ \A q \in Request : stage'[q] = IF q = r THEN to ELSE stage[q]
  BY DEF Move, CarrierTypeOK, Stages
<1>2. /\ counter \in Nat /\ nextTicket \in Nat /\ counter <= nextTicket
      /\ \A q \in Request : ticket[q] \in Nat
  BY DEF CarrierTypeOK, TicketsGiven
<1>3. \/ counter' = counter
      \/ to \in Launched /\ ticket[r] = counter /\ counter' = counter + 1
  BY <1>2 DEF Advanced
<1>4. counter' \in Nat /\ counter <= counter'
  BY <1>2, <1>3
<1>5. StagesAgree' /\ RootsFirst' /\ QueuesHoldQueued'
  <2>1. StagesAgree'
    BY <1>1 DEF StagesAgree
  <2>2. RootsFirst'
    BY <1>1 DEF RootsFirst
  <2>3. \A w \in Worker : \A k \in DOMAIN clientQueue[w] : clientQueue[w][k] \in Request
    BY DEF CarrierTypeOK
  <2>4. QueuesHoldQueued'
    BY <1>1, <2>3 DEF QueuesHoldQueued
  <2> QED
    BY <2>1, <2>2, <2>4
<1>6. HadItsTurn'
  <2> SUFFICES ASSUME NEW q \in Request, stage'[q] \in PastGate PROVE ticket[q] <= counter'
    BY DEF HadItsTurn
  <2>1. ticket[q] <= counter
    BY <1>1 DEF HadItsTurn
  <2> QED
    BY <2>1, <1>2, <1>4
<1>7. \A q \in Request : stage[q] \in Launched => stage'[q] \in Launched
  BY <1>1
<1>8. ASSUME to \in Launched, ticket[r] = counter
      PROVE  \E q \in Request : /\ Numbered(q) /\ ticket[q] = counter
                                /\ stage'[q] \in Launched
  <2>1. sentAt[r] # NotYet
    BY DEF StagesAgree
  <2>2. CASE IsRoot(r)
    BY <2>1, <2>2, <1>1, <1>8, SentIsScheduled DEF Numbered, SchedulerInv
  <2>3. CASE ~IsRoot(r)
    <3>1. PICK q \in Request : IsRoot(q) /\ stage[q] = "processed"
      BY <2>1, <2>3, RootBefore
    <3>2. Numbered(q)
      BY <3>1, PastGateIsNumbered DEF PastGate, SchedulerInv
    <3>3. counter = 0
      BY <2>3, <1>8 DEF TicketsGiven
    <3>4. ticket[q] <= counter /\ ticket[q] \in Nat
      BY <3>1, <1>2 DEF HadItsTurn, PastGate
    <3>5. stage'[q] \in Launched
      BY <3>1, <1>7, LaunchedStages
    <3> QED
      BY <3>2, <3>3, <3>4, <3>5
  <2> QED
    BY <2>2, <2>3
<1>9. TicketsGiven'
  <2>1. counter' <= nextTicket
    <3>1. CASE counter' = counter
      BY <3>1, <1>2
    <3>2. CASE to \in Launched /\ ticket[r] = counter /\ counter' = counter + 1
      <4>1. PICK q \in Request : Numbered(q) /\ ticket[q] = counter
        BY <3>2, <1>8
      <4>2. counter < nextTicket
        BY <4>1 DEF TicketsGiven
      <4> QED
        BY <3>2, <4>2, <1>2
    <3> QED
      BY <3>1, <3>2, <1>3
  <2> QED
    BY <2>1 DEF TicketsGiven, Numbered
<1>10. CounterBehind'
  <2> SUFFICES ASSUME NEW x \in Request, Numbered(x), ticket[x] < counter'
               PROVE  stage'[x] \in Launched
    BY DEF CounterBehind, Numbered, Launched
  <2>1. CASE ticket[x] < counter
    BY <2>1, <1>7 DEF CounterBehind
  <2>2. CASE ~ (ticket[x] < counter)
    <3>1. to \in Launched /\ ticket[r] = counter /\ ticket[x] = counter
      BY <2>2, <1>2, <1>3
    <3>2. PICK q \in Request : Numbered(q) /\ ticket[q] = counter /\ stage'[q] \in Launched
      BY <3>1, <1>8
    <3>3. q = x
      BY <3>1, <3>2 DEF TicketsGiven
    <3> QED
      BY <3>2, <3>3
  <2> QED
    BY <2>1, <2>2
<1> QED
  BY <1>1, <1>4, <1>5, <1>6, <1>9, <1>10 DEF CarrierTypeOK

LEMMA CarrierGate ==
    ASSUME IInv, NEW w \in Worker, NEW r \in Request, PassGate(w, r)
    PROVE  CarrierInv'
<1>1. /\ stage[r] = "gate" /\ ticket[r] <= counter /\ Move(r, "called")
      /\ UNCHANGED <<unscheduled, completions, sentAt, nextTicket, ticket, clientQueue, counter>>
  BY DEF PassGate, schedulerVars, coreVars
<1>2. "gate" \notin Launched
  BY LaunchedStages DEF PastGate
<1> QED
  BY <1>1, <1>2, CarrierAdvances

\* Each of the client's events, the return and the exception included.
LEMMA CarrierAnswers ==
    ASSUME IInv, NEW r \in Request, Answers(r)
    PROVE  CarrierInv'
<1>1. UNCHANGED <<unscheduled, completions, sentAt, nextTicket, ticket, clientQueue>>
  BY DEF Answers, Accept, FirstChunk, Return, Raise, schedulerVars, coreVars
<1>2. PICK to \in {"accepted", "streaming", "answered"} :
          /\ stage[r] \in {"called", "accepted", "streaming"} /\ Move(r, to)
          /\ stage[r] \in Launched => to \in Launched
          /\ counter' = counter \/ (to \in Launched /\ counter' = Advanced(r))
  <2>1. "called" \notin Launched
    BY DispatchAssumption DEF Launched
  <2>2. CASE Accept(r)
    BY <2>1, <2>2, LaunchedStages DEF Accept, AdvanceIf
  <2>3. CASE FirstChunk(r)
    BY <2>3, LaunchedStages DEF FirstChunk, AdvanceIf
  <2>4. CASE Raise(r) \/ \E o \in Outcome : Return(r, o)
    BY <2>4, LaunchedStages DEF Raise, Return, AdvanceIf
  <2> QED
    BY <2>2, <2>3, <2>4 DEF Answers
<1>3. ticket[r] <= counter
  BY <1>2 DEF IInv, CarrierInv, HadItsTurn, PastGate
<1> QED
  BY <1>1, <1>2, <1>3, CarrierAdvances

\* The first request to be processed has no parents, for those would have been
\* processed before it was sent.
LEMMA CarrierProcess ==
    ASSUME IInv, NEW r \in Request, Process(r)
    PROVE  CarrierInv'
<1> USE DEF IInv, CarrierInv
<1>1. /\ stage[r] = "answered" /\ Move(r, "processed")
      /\ UNCHANGED <<clientQueue, counter>>
  BY DEF Process
<1>2. /\ completions' = [completions EXCEPT ![r] = now] /\ now \in Nat
      /\ UNCHANGED <<unscheduled, sentAt, nextTicket, ticket>>
  BY ProcessCompletes
<1>3. /\ stage' \in [Request -> Stages]
      /\ \A q \in Request : stage'[q] = IF q = r THEN "processed" ELSE stage[q]
  BY <1>1 DEF Move, CarrierTypeOK, Stages
<1>4. StagesAgree'
  <2>1. \A q \in Request : completions'[q] = IF q = r THEN now ELSE completions[q]
    BY <1>2 DEF SchedulerInv, CoreInv, CoreTypeOK
  <2> QED
    BY <2>1, <1>1, <1>2, <1>3 DEF StagesAgree, NotYet
<1>5. QueuesHoldQueued'
  <2>1. \A w \in Worker : \A k \in DOMAIN clientQueue[w] : clientQueue[w][k] \in Request
    BY DEF CarrierTypeOK
  <2> QED
    BY <2>1, <1>1, <1>3 DEF QueuesHoldQueued
<1>6. RootsFirst'
  <2>1. CASE IsRoot(r)
    BY <2>1, <1>3 DEF RootsFirst
  <2>2. CASE ~IsRoot(r)
    <3>1. sentAt[r] # NotYet
      BY <1>1 DEF StagesAgree
    <3>2. PICK q \in Request : IsRoot(q) /\ stage[q] = "processed"
      BY <3>1, <2>2, RootBefore
    <3> QED
      BY <3>2, <1>3 DEF RootsFirst
  <2> QED
    BY <2>1, <2>2
<1>7. TicketsGiven'
  BY <1>1, <1>2 DEF TicketsGiven, Numbered
<1>8. HadItsTurn' /\ CounterBehind'
  BY <1>1, <1>2, <1>3, LaunchedStages DEF HadItsTurn, CounterBehind, Numbered, PastGate, Launched
<1> QED
  BY <1>1, <1>2, <1>3, <1>4, <1>5, <1>6, <1>7, <1>8 DEF CarrierTypeOK

\* Steps that leave tickets, stages and queues alone.
LEMMA CarrierRests ==
    ASSUME CarrierInv,
           UNCHANGED <<unscheduled, completions, sentAt, nextTicket, ticket,
                       stage, clientQueue, counter>>
    PROVE  CarrierInv'
<1>1. CarrierTypeOK' /\ StagesAgree' /\ QueuesHoldQueued'
  BY DEF CarrierInv, CarrierTypeOK, StagesAgree, QueuesHoldQueued
<1>2. \A r \in Request : Numbered(r)' = Numbered(r)
  BY DEF Numbered
<1>3. TicketsGiven'
  BY DEF CarrierInv, TicketsGiven, Numbered
<1>4. RootsFirst' /\ HadItsTurn' /\ CounterBehind'
  BY <1>2 DEF CarrierInv, RootsFirst, HadItsTurn, CounterBehind, Launched
<1> QED
  BY <1>1, <1>3, <1>4 DEF CarrierInv

-----------------------------------------------------------------------------
(* The invariant.                                                          *)

LEMMA Initially == InitShutdown => IInv
<1> SUFFICES ASSUME InitShutdown PROVE IInv
  OBVIOUS
<1>1. /\ CoreInit
      /\ nextTicket = 0 /\ ticket = [r \in Request |-> 0] /\ counter = 0
      /\ stage = [r \in Request |-> "scheduler"] /\ clientQueue = [w \in Worker |-> <<>>]
  BY DEF InitShutdown, Init, SchedulerInit
<1>2. SchedulerInv
  BY <1>1, CoreInitially, ConversationInitially
     DEF SchedulerInv, FreshUntouched, CoreInit
<1>3. /\ unscheduled = Session /\ sentAt = [r \in Request |-> NotYet]
      /\ completions = [r \in Request |-> NotYet]
  BY <1>1 DEF CoreInit
<1>4. \A r \in Request : ~ Numbered(r)
  BY <1>3, SessionAssumption DEF Numbered
<1>5. CarrierTypeOK
  BY <1>1 DEF CarrierTypeOK, Stages
<1>6. StagesAgree /\ QueuesHoldQueued /\ RootsFirst
  BY <1>1, <1>3 DEF StagesAgree, QueuesHoldQueued, RootsFirst
<1>7. TicketsGiven /\ HadItsTurn /\ CounterBehind
  BY <1>1, <1>4 DEF TicketsGiven, HadItsTurn, CounterBehind
<1>8. ResultsTyped
  BY DEF InitShutdown, Init, ResultsTyped, Reports
<1> QED
  BY <1>2, <1>5, <1>6, <1>7, <1>8 DEF IInv, CarrierInv

LEMMA ResultsStay == ResultsTyped /\ [NextShutdown]_allVars => ResultsTyped'
<1> SUFFICES ASSUME ResultsTyped, [NextShutdown]_allVars PROVE ResultsTyped'
  OBVIOUS
<1>1. ASSUME NEW r \in Request, Answers(r) PROVE ResultsTyped'
  BY <1>1 DEF Answers, Accept, FirstChunk, Return, Raise, ResultsTyped, Reports
<1>2. ASSUME UNCHANGED result PROVE ResultsTyped'
  BY <1>2 DEF ResultsTyped
<1>3. (\E r \in Request : Answers(r)) \/ UNCHANGED result
  BY DEF NextShutdown, Upstream, SetStop, OpenTake, OpenGetTimeout, CloseLoop, OpenPassGate,
     ReturnUnheard, OpenAnswers, Stopped, allVars, Schedule, Dispatch, Process, Put, TickAll,
     vars, dispatchVars, Take, GetTimeout, PassGate
<1> QED
  BY <1>1, <1>2, <1>3

LEMMA Inductive == IInv /\ [NextShutdown]_allVars => IInv'
<1> SUFFICES ASSUME IInv, [NextShutdown]_allVars PROVE IInv'
  OBVIOUS
<1>r. ResultsTyped'
  BY ResultsStay DEF IInv
<1>1. ASSUME Tick \/ UNCHANGED coreVars, UNCHANGED <<nextTicket, ticket, stage, clientQueue, counter>>
      PROVE  IInv'
  <2>1. SchedulerInv'
    BY <1>1, SchedulerRests
  <2>2. UNCHANGED <<unscheduled, completions, sentAt>>
    BY <1>1 DEF Tick, coreVars
  <2> QED
    BY <2>1, <2>2, <1>1, <1>r, CarrierRests DEF IInv
<1>2. ASSUME UNCHANGED schedulerVars, CarrierInv' PROVE IInv'
  BY <1>2, <1>r, SchedulerRests DEF IInv, schedulerVars
<1>3. CASE Upstream
  <2>1. ASSUME NEW s \in Session, Schedule(s) PROVE IInv'
    BY <2>1, <1>r, SchedulerSchedule, CarrierSchedule DEF IInv
  <2>2. ASSUME NEW i \in readyQueue, Dispatch(i) PROVE IInv'
    BY <2>2, <1>r, SchedulerDispatch, CarrierDispatch DEF IInv
  <2>3. ASSUME NEW r \in Request, Process(r) PROVE IInv'
    BY <2>3, <1>r, SchedulerProcess, CarrierProcess DEF IInv
  <2>4. ASSUME NEW r \in Request, NEW w \in Worker, Put(r, w) PROVE IInv'
    BY <2>4, <1>2, CarrierPut DEF Put
  <2>5. CASE TickAll
    BY <2>5, <1>1 DEF TickAll, TickLaunch, dispatchVars
  <2> QED
    BY <1>3, <2>1, <2>2, <2>3, <2>4, <2>5 DEF Upstream
<1>4. ASSUME NEW w \in Worker, OpenTake(w) PROVE IInv'
  <2>1. Take(w)
    BY <1>4 DEF OpenTake
  <2> QED
    BY <2>1, <1>2, CarrierTake DEF Take
<1>5. ASSUME NEW w \in Worker, NEW r \in Request, OpenPassGate(w, r) PROVE IInv'
  <2>1. PassGate(w, r)
    BY <1>5 DEF OpenPassGate
  <2> QED
    BY <2>1, <1>2, CarrierGate DEF PassGate
<1>6. ASSUME NEW r \in Request, OpenAnswers(r) PROVE IInv'
  <2>1. Answers(r)
    BY <1>6 DEF OpenAnswers
  <2>2. UNCHANGED schedulerVars
    BY <2>1 DEF Answers, Accept, FirstChunk, Return, Raise
  <2> QED
    BY <2>1, <2>2, <1>2, CarrierAnswers
<1>7. ASSUME NEW w \in Worker, OpenGetTimeout(w) \/ CloseLoop(w) PROVE IInv'
  BY <1>1, <1>7 DEF OpenGetTimeout, GetTimeout, CloseLoop, schedulerVars
<1>8. ASSUME NEW w \in Worker, NEW r \in Request, ReturnUnheard(w, r) PROVE IInv'
  BY <1>1, <1>8 DEF ReturnUnheard, schedulerVars
<1>9. CASE SetStop \/ Stopped \/ UNCHANGED allVars
  BY <1>1, <1>9 DEF SetStop, Stopped, allVars, vars, schedulerVars, dispatchVars
<1> QED
  BY <1>3, <1>4, <1>5, <1>6, <1>7, <1>8, <1>9 DEF NextShutdown

-----------------------------------------------------------------------------
(* The theorems.                                                           *)

\* The inductive invariant holds throughout.
THEOREM Invariance == StoppingSpec => []IInv
  BY Initially, Inductive, PTL DEF StoppingSpec

\* Roots are sent strictly in ticket order, each only when the one before is
\* launched, over any number of client workers and before, at and after a stop.
THEOREM TurnsKept == StoppingSpec => []TurnsInOrderToTheEnd
<1>1. IInv => TurnsInOrderToTheEnd
  <2> SUFFICES ASSUME IInv, NEW q \in Request, NEW r \in Request, IsRoot(q), IsRoot(r),
                      {SessionOf[q], SessionOf[r]} \cap unscheduled = {},
                      ticket[q] < ticket[r], stage[r] \in PastGate
               PROVE  stage[q] \in Launched
    BY DEF TurnsInOrderToTheEnd, TurnsInOrder
  <2>1. /\ counter \in Nat /\ ticket[q] \in Nat /\ ticket[r] \in Nat
        /\ ticket[r] <= counter
    BY DEF IInv, CarrierInv, CarrierTypeOK, HadItsTurn
  <2>2. ticket[q] < counter
    BY <2>1
  <2> QED
    BY <2>2 DEF IInv, CarrierInv, CounterBehind, Numbered
<1> QED
  BY <1>1, Invariance, PTL

\* No request is sent before the last of its parents and its own delay, and
\* what is sent or queued has its session active, with tickets as without.
THEOREM SentInTimeAndMapped == StoppingSpec => [](NeverEarly /\ LookupsNeverFail /\ NoStuckSession)
<1>1. IInv => NeverEarly /\ LookupsNeverFail /\ NoStuckSession
  BY LookupsHit, NothingStuck DEF IInv, SchedulerInv, Conversation
<1> QED
  BY <1>1, Invariance, PTL

-----------------------------------------------------------------------------
(* The scheduler implements TrafficContract, with a place for every session. *)

\* Only the prefetch worker, the dispatchers and the completion worker touch
\* what the contract speaks of.
LEMMA ContractStep ==
    IInv /\ [NextShutdown]_allVars => [OpenContract!Next]_(OpenContract!contractVars)
<1> SUFFICES ASSUME IInv, [NextShutdown]_allVars
             PROVE  [OpenContract!Next]_(OpenContract!contractVars)
  OBVIOUS
<1>1. CoreInv /\ Conversation /\ CoreInv'
  BY Inductive DEF IInv, SchedulerInv
<1>2. ASSUME NEW s \in Session, Schedule(s) PROVE OpenContract!Next
  <2>1. /\ ActivateAndPop({s}, now, {}) /\ now \in Nat
        /\ \A x \in {s} : Untouched(x)
    BY <1>2, ScheduleActivates
  <2> QED
    BY <1>1, <2>1, OpenContractPop
<1>3. ASSUME NEW i \in readyQueue, Dispatch(i) PROVE OpenContract!Next
  <2>1. ActivateAndPop({}, now, {i}) /\ now \in Nat
    BY <1>3, DispatchPops
  <2> QED
    BY <1>1, <2>1, OpenContractPop
<1>4. ASSUME NEW r \in Request, Process(r) PROVE OpenContract!Next
  <2>1. /\ r \in Sent /\ now \in AnswerTimes(r) /\ result[r] \in Reports
        /\ CompleteAndActivate(r, result[r], now, {})
    BY <1>4, ProcessCompletes
  <2> QED
    BY <1>1, <2>1, OpenContractCompletion
<1>5. ASSUME Tick \/ UNCHANGED schedulerVars
      PROVE  UNCHANGED OpenContract!contractVars
  BY <1>5, OpenContractRests DEF Tick, schedulerVars, coreVars
<1>6. CASE Upstream
  BY <1>2, <1>3, <1>4, <1>5, <1>6 DEF Upstream, Put, TickAll, TickLaunch
<1>7. CASE ~ Upstream
  <2>1. UNCHANGED schedulerVars
    BY <1>7 DEF NextShutdown, SetStop, OpenTake, Take, OpenGetTimeout, GetTimeout, CloseLoop,
                OpenPassGate, PassGate, ReturnUnheard, OpenAnswers, Answers, Accept, FirstChunk,
                Return, Raise, Stopped, allVars, vars
  <2> QED
    BY <2>1, <1>5
<1> QED
  BY <1>6, <1>7

\* Every behaviour of the sequential-launch scheduler, with its dispatchers,
\* client workers and their stop, is one of TrafficContract.
THEOREM KeepsContract == StoppingSpec => ImplementsContract
<1>1. InitShutdown => OpenContract!Init
  BY OpenContractBegins DEF InitShutdown, Init, SchedulerInit
<1> QED
  BY <1>1, Invariance, ContractStep, PTL DEF StoppingSpec, ImplementsContract, OpenContract!Spec
-----------------------------------------------------------------------------
(* Every request in one hand.  QueuesHoldQueued says that the client queues *)
(* hold nothing else and nothing twice; that they hold all that is queued,  *)
(* and the same of the executors' jobs and the requests at the gate, are    *)
(* shown here.  A stop makes the workers drop jobs, hence the condition.    *)

QueuedAreInQueues ==
    \A r \in Request : stage[r] = "queued" =>
        \E w \in Worker : \E k \in DOMAIN clientQueue[w] : clientQueue[w][k] = r

\* A job is the loop's get, of which a worker has one, or the wait of a request
\* at the gate, which has one wait in all.
JobsHoldGates ==
    /\ jobs \in [Worker -> Seq(Request \cup {Get})]
    /\ \A w \in Worker : \A k \in DOMAIN jobs[w] :
          jobs[w][k] # Get => stage[jobs[w][k]] = "gate"
    /\ \A v, w \in Worker : \A j \in DOMAIN jobs[v], k \in DOMAIN jobs[w] :
          jobs[v][j] = jobs[w][k] /\ (v = w \/ jobs[v][j] # Get) => v = w /\ j = k
    /\ \A r \in Request : stage[r] = "gate" =>
          \E w \in Worker : \E k \in DOMAIN jobs[w] : jobs[w][k] = r

HandsInv ==
    /\ QueuedAreInQueues
    /\ closed # {} => stop
    /\ ~stop => JobsHoldGates

\* Without takes one job out and keeps the others in their order.
LEMMA WithoutOne ==
    ASSUME NEW S, NEW s \in Seq(S), NEW e, NEW m \in DOMAIN s, s[m] = e,
           \A j, k \in DOMAIN s : s[j] = s[k] => j = k
    PROVE  /\ Without(s, e) \in Seq(S) /\ Len(Without(s, e)) = Len(s) - 1
           /\ \A k \in 1 .. Len(s) - 1 :
                 Without(s, e)[k] = s[IF k < m THEN k ELSE k + 1]
<1>1. (CHOOSE k \in DOMAIN s : s[k] = e) = m
  OBVIOUS
<1>2. Without(s, e) = SubSeq(s, 1, m - 1) \o SubSeq(s, m + 1, Len(s))
  BY <1>1 DEF Without, RemoveAt
<1>3. m \in 1 .. Len(s) /\ Len(s) \in Nat /\ \A k \in 1 .. Len(s) : s[k] \in S
  OBVIOUS
<1> DEFINE a == SubSeq(s, 1, m - 1)
           b == SubSeq(s, m + 1, Len(s))
<1>4. /\ a \in Seq(S) /\ Len(a) = m - 1
      /\ \A i \in 1 .. m - 1 : a[i] = s[i]
  <2>1. /\ a \in Seq(S) /\ Len(a) = IF 1 <= m - 1 THEN (m - 1) - 1 + 1 ELSE 0
        /\ \A i \in 1 .. (m - 1) - 1 + 1 : a[i] = s[1 + i - 1]
    <3>1. 1 \in Int /\ m - 1 \in Int /\ \A i \in 1 .. m - 1 : s[i] \in S
      BY <1>3
    <3> QED
      BY <3>1, SubSeqProperties
  <2> QED
    BY <2>1, <1>3
<1>5. /\ b \in Seq(S) /\ Len(b) = Len(s) - m
      /\ \A i \in 1 .. Len(s) - m : b[i] = s[m + i]
  <2>1. /\ b \in Seq(S) /\ Len(b) = IF m + 1 <= Len(s) THEN Len(s) - (m + 1) + 1 ELSE 0
        /\ \A i \in 1 .. Len(s) - (m + 1) + 1 : b[i] = s[(m + 1) + i - 1]
    <3>1. m + 1 \in Int /\ Len(s) \in Int /\ \A i \in m + 1 .. Len(s) : s[i] \in S
      BY <1>3
    <3> QED
      BY <3>1, SubSeqProperties, SMTT(40)
  <2> QED
    BY <2>1, <1>3, SMTT(40)
<1> HIDE DEF a, b
<1>6. /\ a \o b \in Seq(S) /\ Len(a \o b) = Len(a) + Len(b)
      /\ \A i \in 1 .. Len(a) + Len(b) :
            (a \o b)[i] = IF i <= Len(a) THEN a[i] ELSE b[i - Len(a)]
  <2>1. a \in Seq(S) /\ b \in Seq(S)
    BY <1>4, <1>5
  <2> QED
    BY <2>1, ConcatProperties
<1>7. Without(s, e) = a \o b
  BY <1>2 DEF a, b
<1>8. Len(Without(s, e)) = Len(s) - 1
  BY <1>3, <1>4, <1>5, <1>6, <1>7, SMTT(40)
<1>9. ASSUME NEW k \in 1 .. Len(s) - 1
      PROVE  Without(s, e)[k] = s[IF k < m THEN k ELSE k + 1]
  <2>1. k \in 1 .. Len(a) + Len(b)
    BY <1>3, <1>4, <1>5, SMTT(40)
  <2>2. (a \o b)[k] = IF k <= Len(a) THEN a[k] ELSE b[k - Len(a)]
    BY <2>1, <1>6
  <2>3. CASE k < m
    <3>1. k <= Len(a) /\ k \in 1 .. m - 1
      BY <2>3, <1>3, <1>4
    <3>2. a[k] = s[k]
      BY <3>1, <1>4
    <3> QED
      BY <3>1, <3>2, <2>2, <2>3, <1>7
  <2>4. CASE ~ (k < m)
    <3>1. ~ (k <= Len(a)) /\ k - Len(a) \in 1 .. Len(s) - m /\ m + (k - Len(a)) = k + 1
      BY <2>4, <1>3, <1>4, SMTT(40)
    <3>2. b[k - Len(a)] = s[k + 1]
      BY <3>1, <1>5
    <3> QED
      BY <3>1, <3>2, <2>2, <2>4, <1>7
  <2> QED
    BY <2>3, <2>4
<1> QED
  BY <1>6, <1>7, <1>8, <1>9

\* A step in which the job at m of worker w ends and those of T come behind
\* the others: the one that ended again, and waits of requests that were not at
\* the gate and now are, nothing twice.
JobEnds(w, m, T) ==
    /\ T \in Seq(Request \cup {Get})
    /\ \A i, j \in DOMAIN T : T[i] = T[j] => i = j
    /\ \A i \in DOMAIN T : T[i] = jobs[w][m] \/ (T[i] # Get /\ stage[T[i]] # "gate")
    /\ jobs' = [jobs EXCEPT ![w] = Without(@, jobs[w][m]) \o T]
    /\ \A q \in Request : stage'[q] = "gate" <=>
           \/ \E i \in DOMAIN T : T[i] = q
           \/ stage[q] = "gate" /\ q # jobs[w][m]

LEMMA JobsReplaced ==
    ASSUME JobsHoldGates, NEW w \in Worker, NEW m \in DOMAIN jobs[w],
           NEW T, JobEnds(w, m, T)
    PROVE  JobsHoldGates'
<1> DEFINE J == Request \cup {Get}
           W == Without(jobs[w], jobs[w][m])
           n == Len(jobs[w]) - 1
<1>new. /\ T \in Seq(Request \cup {Get})
        /\ \A i, j \in DOMAIN T : T[i] = T[j] => i = j
        /\ \A i \in DOMAIN T : T[i] = jobs[w][m] \/ (T[i] # Get /\ stage[T[i]] # "gate")
  BY DEF JobEnds
<1>step. /\ jobs' = [jobs EXCEPT ![w] = Without(@, jobs[w][m]) \o T]
         /\ \A q \in Request : stage'[q] = "gate" <=>
               \/ \E i \in DOMAIN T : T[i] = q
               \/ stage[q] = "gate" /\ q # jobs[w][m]
  BY DEF JobEnds
<1>1. /\ jobs \in [Worker -> Seq(J)] /\ jobs[w] \in Seq(J)
      /\ \A v \in Worker : jobs[v] \in Seq(J) /\ \A k \in DOMAIN jobs[v] : jobs[v][k] \in J
  BY DEF JobsHoldGates
<1>2. \A v, u \in Worker : \A j \in DOMAIN jobs[v], k \in DOMAIN jobs[u] :
          jobs[v][j] = jobs[u][k] /\ (v = u \/ jobs[v][j] # Get) => v = u /\ j = k
  BY DEF JobsHoldGates
<1>3. /\ W \in Seq(J) /\ Len(W) = n
      /\ \A k \in 1 .. n : W[k] = jobs[w][IF k < m THEN k ELSE k + 1]
  <2>1. \A j, k \in DOMAIN jobs[w] : jobs[w][j] = jobs[w][k] => j = k
    BY <1>2
  <2> HIDE DEF J
  <2> QED
    BY <2>1, <1>1, WithoutOne
<1>4. m \in 1 .. n + 1 /\ n \in Nat /\ DOMAIN jobs[w] = 1 .. n + 1
  BY <1>1
<1>5. /\ jobs' \in [Worker -> Seq(J)]
      /\ jobs'[w] = W \o T /\ \A v \in Worker \ {w} : jobs'[v] = jobs[v]
  <2>1. W \o T \in Seq(J)
    BY <1>new, <1>3, ConcatProperties
  <2> HIDE DEF J
  <2> QED
    BY <2>1, <1>1, <1>step
<1>6. /\ DOMAIN jobs'[w] = 1 .. n + Len(T) /\ Len(T) \in Nat /\ DOMAIN T = 1 .. Len(T)
      /\ \A k \in 1 .. n : jobs'[w][k] = jobs[w][IF k < m THEN k ELSE k + 1]
      /\ \A k \in n + 1 .. n + Len(T) : jobs'[w][k] = T[k - n]
  <2>1. /\ W \o T \in Seq(J) /\ Len(W \o T) = n + Len(T)
        /\ \A i \in 1 .. n + Len(T) : (W \o T)[i] = IF i <= n THEN W[i] ELSE T[i - n]
    <3>1. T \in Seq(J) /\ W \in Seq(J)
      BY <1>new, <1>3
    <3> HIDE DEF W, n, J
    <3>2. /\ W \o T \in Seq(J) /\ Len(W \o T) = Len(W) + Len(T)
          /\ \A i \in 1 .. Len(W) + Len(T) :
                (W \o T)[i] = IF i <= Len(W) THEN W[i] ELSE T[i - Len(W)]
      BY ONLY <3>1, ConcatProperties
    <3> QED
      BY <3>2, <1>3
  <2>2. Len(T) \in Nat /\ DOMAIN T = 1 .. Len(T)
    BY <1>new, LenProperties
  <2>3. DOMAIN (W \o T) = 1 .. n + Len(T)
    BY <2>1, LenProperties
  <2> HIDE DEF W, n, J
  <2> QED
    BY <2>1, <2>2, <2>3, <1>3, <1>4, <1>5, SMTT(40)
<1> HIDE DEF J, W, n
\* Each job is an old one other than the one that ended, or a new one.
<1>7. ASSUME NEW v \in Worker, NEW k \in DOMAIN jobs'[v]
      PROVE  \/ \E j \in DOMAIN jobs[v] :
                    /\ jobs'[v][k] = jobs[v][j] /\ <<v, j>> # <<w, m>>
                    /\ j = IF v = w /\ ~ (k < m) THEN k + 1 ELSE k
                    /\ v = w => k \in Nat
             \/ /\ v = w /\ k \in n + 1 .. n + Len(T) /\ k - n \in DOMAIN T
                /\ jobs'[v][k] = T[k - n]
  <2>1. CASE v # w
    BY <2>1, <1>5
  <2>2. CASE v = w /\ k \in 1 .. n
    <3> DEFINE j == IF k < m THEN k ELSE k + 1
    <3>1. j \in 1 .. n + 1 /\ j # m
      BY <2>2, <1>4
    <3>2. jobs'[v][k] = jobs[v][j]
      BY <2>2, <1>6
    <3> QED
      BY <3>1, <3>2, <2>2, <1>4
  <2>3. CASE v = w /\ k \notin 1 .. n
    BY <2>3, <1>4, <1>6, SMTT(40)
  <2> QED
    BY <2>1, <2>2, <2>3
<1>8. ASSUME NEW v \in Worker, NEW k \in DOMAIN jobs'[v], jobs'[v][k] # Get
      PROVE  stage'[jobs'[v][k]] = "gate"
  <2>1. CASE \E j \in DOMAIN jobs[v] : jobs'[v][k] = jobs[v][j] /\ <<v, j>> # <<w, m>>
    <3>1. PICK j \in DOMAIN jobs[v] : jobs'[v][k] = jobs[v][j] /\ <<v, j>> # <<w, m>>
      BY <2>1
    <3>2. jobs[v][j] \in Request /\ stage[jobs[v][j]] = "gate"
      BY <3>1, <1>1, <1>8 DEF JobsHoldGates, J
    <3>3. jobs[v][j] # jobs[w][m]
      BY <3>1, <1>2, <1>8
    <3> QED
      BY <3>1, <3>2, <3>3, <1>step
  <2>2. CASE v = w /\ k - n \in DOMAIN T /\ jobs'[v][k] = T[k - n]
    <3>1. T[k - n] \in Request
      BY <1>new, <2>2, <1>8, ElementOfSeq DEF J
    <3> QED
      BY <2>2, <3>1, <1>step
  <2> QED
    BY <2>1, <2>2, <1>7
<1>9. ASSUME NEW u \in Worker, NEW v \in Worker,
             NEW j \in DOMAIN jobs'[u], NEW k \in DOMAIN jobs'[v],
             jobs'[u][j] = jobs'[v][k], u = v \/ jobs'[u][j] # Get
      PROVE  u = v /\ j = k
  \* A job that stays and a new one differ.
  <2>1. ASSUME NEW x \in Worker, NEW a \in DOMAIN jobs[x], <<x, a>> # <<w, m>>,
               NEW i \in DOMAIN T, jobs[x][a] = T[i], x = w \/ T[i] # Get
        PROVE  FALSE
    <3>1. jobs[x][a] # jobs[w][m]
      BY <2>1, <1>2
    <3>2. T[i] # Get /\ stage[T[i]] # "gate"
      BY <2>1, <3>1, <1>new
    <3> QED
      BY <2>1, <3>2 DEF JobsHoldGates
  <2>2. CASE \E a \in DOMAIN jobs[u] :
                /\ jobs'[u][j] = jobs[u][a] /\ <<u, a>> # <<w, m>>
                /\ a = IF u = w /\ ~ (j < m) THEN j + 1 ELSE j
                /\ u = w => j \in Nat
    <3>1. PICK a \in DOMAIN jobs[u] :
                /\ jobs'[u][j] = jobs[u][a] /\ <<u, a>> # <<w, m>>
                /\ a = IF u = w /\ ~ (j < m) THEN j + 1 ELSE j
                /\ u = w => j \in Nat
      BY <2>2
    <3>2. CASE v = w /\ k - n \in DOMAIN T /\ jobs'[v][k] = T[k - n]
      BY <3>1, <3>2, <2>1, <1>9
    <3>3. CASE \E b \in DOMAIN jobs[v] :
                  /\ jobs'[v][k] = jobs[v][b] /\ <<v, b>> # <<w, m>>
                  /\ b = IF v = w /\ ~ (k < m) THEN k + 1 ELSE k
                  /\ v = w => k \in Nat
      <4>1. PICK b \in DOMAIN jobs[v] :
                  /\ jobs'[v][k] = jobs[v][b] /\ <<v, b>> # <<w, m>>
                  /\ b = IF v = w /\ ~ (k < m) THEN k + 1 ELSE k
                  /\ v = w => k \in Nat
        BY <3>3
      <4>2. u = v /\ a = b
        BY <3>1, <4>1, <1>2, <1>9
      <4> QED
        BY <3>1, <4>1, <4>2, <1>4
    <3> QED
      BY <3>2, <3>3, <1>7
  <2>3. CASE u = w /\ j \in n + 1 .. n + Len(T) /\ j - n \in DOMAIN T /\ jobs'[u][j] = T[j - n]
    <3>1. CASE \E b \in DOMAIN jobs[v] : jobs'[v][k] = jobs[v][b] /\ <<v, b>> # <<w, m>>
      <4>1. PICK b \in DOMAIN jobs[v] : jobs'[v][k] = jobs[v][b] /\ <<v, b>> # <<w, m>>
        BY <3>1
      <4>2. jobs[v][b] = T[j - n] /\ (v = w \/ T[j - n] # Get)
        BY <4>1, <2>3, <1>9
      <4> QED
        BY <4>1, <4>2, <2>1, <2>3
    <3>2. CASE v = w /\ k \in n + 1 .. n + Len(T) /\ k - n \in DOMAIN T /\ jobs'[v][k] = T[k - n]
      <4>1. j - n = k - n
        BY <2>3, <3>2, <1>new, <1>9
      <4> QED
        BY <4>1, <2>3, <3>2, <1>4, <1>6
    <3> QED
      BY <3>1, <3>2, <1>7
  <2> QED
    BY <2>2, <2>3, <1>7
<1>10. ASSUME NEW q \in Request, stage'[q] = "gate"
       PROVE  \E v \in Worker : \E k \in DOMAIN jobs'[v] : jobs'[v][k] = q
  <2>1. CASE \E i \in DOMAIN T : T[i] = q
    <3>1. PICK i \in DOMAIN T : T[i] = q
      BY <2>1
    <3>2. n + i \in n + 1 .. n + Len(T) /\ (n + i) - n = i /\ n + i \in 1 .. n + Len(T)
      BY <1>4, <1>6
    <3>3. n + i \in DOMAIN jobs'[w] /\ jobs'[w][n + i] = q
      BY <3>1, <3>2, <1>6
    <3> QED
      BY <3>3
  <2>2. CASE stage[q] = "gate" /\ q # jobs[w][m]
    <3>0. PICK v \in Worker : \E k \in DOMAIN jobs[v] : jobs[v][k] = q
      BY <2>2 DEF JobsHoldGates
    <3>1. PICK k \in DOMAIN jobs[v] : jobs[v][k] = q
      BY <3>0
    <3>2. CASE v # w
      BY <3>1, <3>2, <1>5
    <3>3. CASE v = w
      <4> DEFINE i == IF k < m THEN k ELSE k - 1
      <4>1. k \in 1 .. n + 1 /\ k # m
        BY <3>1, <3>3, <2>2, <1>4
      <4>2. i \in 1 .. n /\ (IF i < m THEN i ELSE i + 1) = k
        BY <4>1, <1>4
      <4>3. i \in DOMAIN jobs'[w] /\ jobs'[w][i] = jobs[w][k]
        <5> HIDE DEF i
        <5>1. i \in DOMAIN jobs'[w]
          BY <4>2, <1>4, <1>6
        <5> QED
          BY <5>1, <4>2, <1>6
      <4> QED
        BY <4>3, <3>1, <3>3
    <3> QED
      BY <3>2, <3>3
  <2> QED
    BY <2>1, <2>2, <1>10, <1>step
<1>11. jobs' \in [Worker -> Seq(Request \cup {Get})]
  BY <1>5 DEF J
<1>12. \A v, u \in Worker : \A j \in DOMAIN jobs'[v], k \in DOMAIN jobs'[u] :
           jobs'[v][j] = jobs'[u][k] /\ (v = u \/ jobs'[v][j] # Get) => v = u /\ j = k
  BY <1>9
<1>13. Get' = Get
  BY DEF Get
<1> QED
  BY <1>8, <1>10, <1>11, <1>12, <1>13 DEF JobsHoldGates

LEMMA HandsInitially == InitShutdown => HandsInv
<1> SUFFICES ASSUME InitShutdown PROVE HandsInv
  OBVIOUS
<1>1. /\ stage = [r \in Request |-> "scheduler"] /\ jobs = [w \in Worker |-> <<Get>>]
      /\ closed = {}
  BY DEF InitShutdown, Init
<1>2. QueuedAreInQueues
  BY <1>1 DEF QueuedAreInQueues
<1>3. \A w \in Worker : jobs[w] = <<Get>> /\ DOMAIN jobs[w] = {1} /\ jobs[w][1] = Get
  BY <1>1
<1>4. jobs \in [Worker -> Seq(Request \cup {Get})]
  BY <1>1
<1>5. JobsHoldGates
  BY <1>1, <1>3, <1>4 DEF JobsHoldGates
<1> QED
  BY <1>1, <1>2, <1>5 DEF HandsInv

\* Neither a queue nor a job changes, nor does a request come to either.
LEMMA HandsPassBy ==
    ASSUME CarrierTypeOK, HandsInv, NEW r \in Request, NEW to \in Stages \ {"queued", "gate"},
           stage[r] \notin {"queued", "gate"}, Move(r, to),
           UNCHANGED <<clientQueue, jobs, stop, closed>>
    PROVE  HandsInv'
<1>1. \A q \in Request : stage'[q] = IF q = r THEN to ELSE stage[q]
  BY DEF Move, CarrierTypeOK
<1>2. QueuedAreInQueues'
  BY <1>1 DEF HandsInv, QueuedAreInQueues
<1>3. ASSUME ~stop PROVE JobsHoldGates'
  <2>1. JobsHoldGates
    BY <1>3 DEF HandsInv
  <2>2. ASSUME NEW w \in Worker, NEW k \in DOMAIN jobs[w], jobs[w][k] # Get
        PROVE  stage'[jobs[w][k]] = "gate"
    <3>1. jobs[w][k] \in Request /\ stage[jobs[w][k]] = "gate"
      BY <2>1, <2>2 DEF JobsHoldGates
    <3> QED
      BY <3>1, <1>1
  <2> QED
    BY <1>1, <2>1, <2>2 DEF JobsHoldGates
<1> QED
  BY <1>2, <1>3 DEF HandsInv

\* A dispatcher's put.
LEMMA HandsPut ==
    ASSUME CarrierTypeOK, HandsInv, NEW r \in Request, NEW w \in Worker, Put(r, w),
           UNCHANGED <<stop, closed>>
    PROVE  HandsInv'
<1>1. /\ stage[r] = "held" /\ Move(r, "queued") /\ jobs' = jobs
      /\ clientQueue' = [clientQueue EXCEPT ![w] = Append(@, r)]
  BY DEF Put
<1>2. \A q \in Request : stage'[q] = IF q = r THEN "queued" ELSE stage[q]
  BY <1>1 DEF Move, CarrierTypeOK
<1>3. /\ \A v \in Worker : \A k \in DOMAIN clientQueue[v] :
            k \in DOMAIN clientQueue'[v] /\ clientQueue'[v][k] = clientQueue[v][k]
      /\ \E k \in DOMAIN clientQueue'[w] : clientQueue'[w][k] = r
  <2>1. clientQueue[w] \in Seq(Request) /\ clientQueue'[w] = Append(clientQueue[w], r)
    BY <1>1 DEF CarrierTypeOK
  <2>2. \A v \in Worker \ {w} : clientQueue'[v] = clientQueue[v]
    BY <1>1 DEF CarrierTypeOK
  <2>3. /\ DOMAIN clientQueue'[w] = 1 .. Len(clientQueue[w]) + 1
        /\ DOMAIN clientQueue[w] = 1 .. Len(clientQueue[w])
        /\ Len(clientQueue[w]) \in Nat
        /\ \A k \in DOMAIN clientQueue[w] : clientQueue'[w][k] = clientQueue[w][k]
        /\ clientQueue'[w][Len(clientQueue[w]) + 1] = r
    BY <2>1
  <2>4. Len(clientQueue[w]) + 1 \in DOMAIN clientQueue'[w]
    BY <2>3
  <2>5. \A k \in DOMAIN clientQueue[w] : k \in DOMAIN clientQueue'[w]
    BY <2>3
  <2> QED
    BY <2>2, <2>3, <2>4, <2>5
<1>4. QueuedAreInQueues'
  BY <1>2, <1>3 DEF HandsInv, QueuedAreInQueues
<1>5. ASSUME ~stop PROVE JobsHoldGates'
  <2>1. JobsHoldGates
    BY <1>5 DEF HandsInv
  <2>2. ASSUME NEW v \in Worker, NEW k \in DOMAIN jobs[v], jobs[v][k] # Get
        PROVE  stage'[jobs[v][k]] = "gate"
    <3>1. jobs[v][k] \in Request /\ stage[jobs[v][k]] = "gate"
      BY <2>1, <2>2 DEF JobsHoldGates
    <3> QED
      BY <3>1, <1>1, <1>2
  <2> QED
    BY <1>1, <1>2, <2>1, <2>2 DEF JobsHoldGates
<1> QED
  BY <1>4, <1>5 DEF HandsInv

\* A job of the executor that runs is one of its jobs.
LEMMA RunningIsJob ==
    ASSUME JobsHoldGates, NEW w \in Worker, NEW x \in Running(w)
    PROVE  \E m \in DOMAIN jobs[w] : jobs[w][m] = x
<1>1. jobs[w] \in Seq(Request \cup {Get})
  BY DEF JobsHoldGates
<1>2. Len(jobs[w]) \in Nat /\ DOMAIN jobs[w] = 1 .. Len(jobs[w])
  BY <1>1
<1> QED
  BY <1>2, DispatchAssumption DEF Running

\* The loop's get returns the head of the queue, whose wait is submitted.
LEMMA HandsTake ==
    ASSUME CarrierTypeOK, QueuesHoldQueued, HandsInv, NEW w \in Worker, ~stop, Take(w),
           UNCHANGED <<stop, closed>>
    PROVE  HandsInv'
<1> DEFINE h == Head(clientQueue[w])
<1>1. /\ Get \in Running(w) /\ clientQueue[w] # <<>>
      /\ clientQueue' = [clientQueue EXCEPT ![w] = Tail(@)]
      /\ jobs' = [jobs EXCEPT ![w] = Without(@, Get) \o <<Get, h>>]
      /\ Move(h, "gate")
  BY DEF Take
<1>2. /\ h \in Request /\ h = clientQueue[w][1] /\ 1 \in DOMAIN clientQueue[w]
      /\ \A k \in DOMAIN clientQueue[w] : k # 1 =>
            k - 1 \in DOMAIN clientQueue'[w] /\ clientQueue'[w][k - 1] = clientQueue[w][k]
  <2>1. clientQueue[w] \in Seq(Request) /\ clientQueue'[w] = Tail(clientQueue[w])
    BY <1>1 DEF CarrierTypeOK
  <2>2. h \in Request /\ 1 \in DOMAIN clientQueue[w] /\ h = clientQueue[w][1]
    BY <2>1, <1>1
  <2>3. \A k \in DOMAIN clientQueue[w] : k # 1 =>
            k - 1 \in DOMAIN clientQueue'[w] /\ clientQueue'[w][k - 1] = clientQueue[w][k]
    BY <2>1, <1>1, SMTT(40)
  <2> QED
    BY <2>2, <2>3
<1> HIDE DEF h
<1>3. stage[h] = "queued"
  BY <1>2 DEF QueuesHoldQueued
<1>4. \A q \in Request : stage'[q] = IF q = h THEN "gate" ELSE stage[q]
  BY <1>1 DEF Move, CarrierTypeOK
<1>5. QueuedAreInQueues'
  <2> SUFFICES ASSUME NEW q \in Request, stage'[q] = "queued"
               PROVE  \E v \in Worker : \E k \in DOMAIN clientQueue'[v] : clientQueue'[v][k] = q
    BY DEF QueuedAreInQueues
  <2>1. stage[q] = "queued" /\ q # h
    BY <1>4
  <2>2. PICK v \in Worker : \E k \in DOMAIN clientQueue[v] : clientQueue[v][k] = q
    BY <2>1 DEF HandsInv, QueuedAreInQueues
  <2>3. PICK k \in DOMAIN clientQueue[v] : clientQueue[v][k] = q
    BY <2>2
  <2>4. CASE v = w
    BY <2>1, <2>3, <2>4, <1>2
  <2>5. CASE v # w
    BY <2>3, <2>5, <1>1 DEF CarrierTypeOK
  <2> QED
    BY <2>4, <2>5
<1>6. JobsHoldGates'
  <2>1. JobsHoldGates
    BY DEF HandsInv
  <2>2. PICK m \in DOMAIN jobs[w] : jobs[w][m] = Get
    BY <1>1, <2>1, RunningIsJob
  <2> DEFINE T == <<Get, h>>
  <2>3. T \in Seq(Request \cup {Get}) /\ DOMAIN T = {1, 2} /\ T[1] = Get /\ T[2] = h
    BY <1>2
  <2>4. h # Get
    BY <1>2, DispatchAssumption DEF Get
  <2>5. jobs' = [jobs EXCEPT ![w] = Without(@, jobs[w][m]) \o T]
    BY <1>1, <2>2
  <2> HIDE DEF T
  <2>6. \A q \in Request : stage'[q] = "gate" <=>
            \/ \E i \in DOMAIN T : T[i] = q
            \/ stage[q] = "gate" /\ q # jobs[w][m]
    BY <1>4, <2>2, <2>3, DispatchAssumption DEF Get
  <2>7. JobEnds(w, m, T)
    BY <2>2, <2>3, <2>4, <2>5, <2>6, <1>3 DEF JobEnds
  <2> QED
    BY <2>1, <2>7, JobsReplaced
<1> QED
  BY <1>5, <1>6 DEF HandsInv

\* The loop's get goes behind the other jobs.
LEMMA HandsGetTimeout ==
    ASSUME HandsInv, NEW w \in Worker, ~stop, GetTimeout(w), UNCHANGED <<stop, closed>>
    PROVE  HandsInv'
<1>1. /\ Get \in Running(w) /\ UNCHANGED <<stage, clientQueue>>
      /\ jobs' = [jobs EXCEPT ![w] = Append(Without(@, Get), Get)]
  BY DEF GetTimeout
<1>2. JobsHoldGates
  BY DEF HandsInv
<1>3. PICK m \in DOMAIN jobs[w] : jobs[w][m] = Get
  BY <1>1, <1>2, RunningIsJob
<1> DEFINE T == <<Get>>
<1>4. T \in Seq(Request \cup {Get}) /\ DOMAIN T = {1} /\ T[1] = Get
  OBVIOUS
<1>5. Append(Without(jobs[w], Get), Get) = Without(jobs[w], Get) \o T
  <2>1. jobs[w] \in Seq(Request \cup {Get}) /\ \A j, k \in DOMAIN jobs[w] : jobs[w][j] = jobs[w][k] => j = k
    BY <1>2 DEF JobsHoldGates
  <2>2. Without(jobs[w], Get) \in Seq(Request \cup {Get})
    BY <2>1, <1>3, WithoutOne
  <2> QED
    BY <2>2, AppendIsConcat
<1>6. jobs' = [jobs EXCEPT ![w] = Without(@, jobs[w][m]) \o T]
  BY <1>1, <1>3, <1>5
<1> HIDE DEF T
<1>7. \A q \in Request : stage'[q] = "gate" <=>
          \/ \E i \in DOMAIN T : T[i] = q
          \/ stage[q] = "gate" /\ q # jobs[w][m]
  BY <1>1, <1>3, <1>4, DispatchAssumption DEF Get
<1>8. JobsHoldGates'
  <2>1. JobEnds(w, m, T)
    BY <1>3, <1>4, <1>6, <1>7 DEF JobEnds
  <2> QED
    BY <2>1, <1>2, JobsReplaced
<1> QED
  BY <1>1, <1>8 DEF HandsInv, QueuedAreInQueues

\* A request passes the gate, and its wait is over.
LEMMA HandsGate ==
    ASSUME CarrierTypeOK, HandsInv, NEW w \in Worker, NEW r \in Request, PassGate(w, r),
           UNCHANGED <<stop, closed>>
    PROVE  HandsInv'
<1>1. /\ r \in Running(w) /\ stage[r] = "gate" /\ Move(r, "called") /\ clientQueue' = clientQueue
      /\ jobs' = [jobs EXCEPT ![w] = Without(@, r)]
  BY DEF PassGate
<1>2. \A q \in Request : stage'[q] = IF q = r THEN "called" ELSE stage[q]
  BY <1>1 DEF Move, CarrierTypeOK
<1>3. QueuedAreInQueues'
  BY <1>1, <1>2 DEF HandsInv, QueuedAreInQueues
<1>4. ASSUME ~stop PROVE JobsHoldGates'
  <2>1. JobsHoldGates
    BY <1>4 DEF HandsInv
  <2>2. PICK m \in DOMAIN jobs[w] : jobs[w][m] = r
    BY <1>1, <2>1, RunningIsJob
  <2> DEFINE T == <<>>
  <2>3. T \in Seq(Request \cup {Get}) /\ DOMAIN T = {}
    OBVIOUS
  <2>4. Without(jobs[w], r) = Without(jobs[w], r) \o T
    <3>1. jobs[w] \in Seq(Request \cup {Get}) /\ \A j, k \in DOMAIN jobs[w] : jobs[w][j] = jobs[w][k] => j = k
      BY <2>1 DEF JobsHoldGates
    <3>2. Without(jobs[w], r) \in Seq(Request \cup {Get})
      BY <3>1, <2>2, WithoutOne
    <3> QED
      BY <3>2, ConcatEmptySeq
  <2>5. jobs' = [jobs EXCEPT ![w] = Without(@, jobs[w][m]) \o T]
    BY <1>1, <2>2, <2>4
  <2> HIDE DEF T
  <2>6. \A q \in Request : stage'[q] = "gate" <=>
            \/ \E i \in DOMAIN T : T[i] = q
            \/ stage[q] = "gate" /\ q # jobs[w][m]
    BY <1>2, <2>2, <2>3
  <2>7. JobEnds(w, m, T)
    BY <2>3, <2>5, <2>6 DEF JobEnds
  <2> QED
    BY <2>1, <2>7, JobsReplaced
<1> QED
  BY <1>3, <1>4 DEF HandsInv

LEMMA HandsRest ==
    ASSUME HandsInv,
           UNCHANGED <<stage, clientQueue, jobs>>, stop => stop', closed' # {} => stop'
    PROVE  HandsInv'
  BY DEF HandsInv, QueuedAreInQueues, JobsHoldGates

\* The workers drop jobs only once there is a stop.
LEMMA HandsInductive == IInv /\ HandsInv /\ [NextShutdown]_allVars => HandsInv'
<1> SUFFICES ASSUME IInv, HandsInv, [NextShutdown]_allVars PROVE HandsInv'
  OBVIOUS
<1>1. CarrierTypeOK /\ QueuesHoldQueued /\ StagesAgree /\ (closed # {} => stop)
  BY DEF IInv, CarrierInv, HandsInv
<1>2. ASSUME UNCHANGED <<stage, clientQueue, jobs>>, stop => stop', closed' # {} => stop'
      PROVE  HandsInv'
  BY <1>1, <1>2, HandsRest
<1>3. CASE Upstream
  <2>1. UNCHANGED <<stop, closed>>
    BY <1>3 DEF Upstream, shutdownVars
  <2>2. ASSUME NEW i \in readyQueue, Dispatch(i) PROVE HandsInv'
    <3>1. i.req \in Request /\ stage[i.req] = "scheduler"
      BY <2>2, <1>1, DispatchPops DEF StagesAgree
    <3>2. Move(i.req, "held") /\ UNCHANGED <<clientQueue, jobs>>
      BY <2>2 DEF Dispatch
    <3> QED
      BY <3>1, <3>2, <2>1, <1>1, HandsPassBy DEF Stages
  <2>3. ASSUME NEW r \in Request, Process(r) PROVE HandsInv'
    <3>1. stage[r] = "answered" /\ Move(r, "processed") /\ UNCHANGED <<clientQueue, jobs>>
      BY <2>3 DEF Process
    <3> QED
      BY <3>1, <2>1, <1>1, HandsPassBy DEF Stages
  <2>4. ASSUME NEW r \in Request, NEW w \in Worker, Put(r, w) PROVE HandsInv'
    BY <2>1, <2>4, <1>1, HandsPut
  <2>5. ASSUME UNCHANGED dispatchVars PROVE HandsInv'
    BY <2>1, <2>5, <1>1, <1>2 DEF dispatchVars
  <2> QED
    BY <1>3, <2>2, <2>3, <2>4, <2>5 DEF Upstream, Schedule, TickAll
<1>4. ASSUME NEW w \in Worker, OpenTake(w) PROVE HandsInv'
  BY <1>1, <1>4, HandsTake DEF OpenTake
<1>5. ASSUME NEW w \in Worker, OpenGetTimeout(w) PROVE HandsInv'
  BY <1>5, HandsGetTimeout DEF OpenGetTimeout, shutdownVars
<1>6. ASSUME NEW w \in Worker, NEW r \in Request, OpenPassGate(w, r) PROVE HandsInv'
  BY <1>1, <1>6, HandsGate DEF OpenPassGate, shutdownVars
<1>7. ASSUME NEW r \in Request, OpenAnswers(r) PROVE HandsInv'
  <2>1. UNCHANGED <<clientQueue, jobs, stop, closed>> /\ Answers(r)
    BY <1>7 DEF OpenAnswers, Answers, Accept, FirstChunk, Return, Raise, shutdownVars
  <2>2. PICK to \in {"accepted", "streaming", "answered"} :
            stage[r] \in {"called", "accepted", "streaming"} /\ Move(r, to)
    BY <2>1 DEF Answers, Accept, FirstChunk, Return, Raise
  <2> QED
    BY <2>1, <2>2, <1>1, HandsPassBy DEF Stages
<1>8. ASSUME stop, stop', UNCHANGED <<stage, clientQueue>> PROVE HandsInv'
  BY <1>8 DEF HandsInv, QueuedAreInQueues
<1>9. CASE SetStop \/ Stopped \/ UNCHANGED allVars
  BY <1>1, <1>2, <1>9 DEF SetStop, Stopped, allVars, vars, dispatchVars
<1>10. ASSUME NEW w \in Worker, CloseLoop(w) PROVE HandsInv'
  BY <1>8, <1>10 DEF CloseLoop
<1>11. ASSUME NEW w \in Worker, NEW r \in Request, ReturnUnheard(w, r) PROVE HandsInv'
  BY <1>1, <1>8, <1>11 DEF ReturnUnheard, shutdownVars
<1> QED
  BY <1>3, <1>4, <1>5, <1>6, <1>7, <1>9, <1>10, <1>11 DEF NextShutdown

\* What is in one place occurs once, and what is in none not at all.
OnlyAt(w, k, x, queues) ==
    /\ k \in DOMAIN queues[w] /\ queues[w][k] = x
    /\ \A v \in Worker : \A j \in DOMAIN queues[v] : queues[v][j] = x => v = w /\ j = k

LEMMA OccursOnce ==
    ASSUME NEW queues, NEW x, NEW w \in Worker, NEW k, OnlyAt(w, k, x, queues)
    PROVE  Cardinality(Occurrences(x, queues)) = 1
<1>1. Occurrences(x, queues) = {<<w, k>>}
  <2>1. <<w, k>> \in Occurrences(x, queues)
    BY DEF Occurrences, OnlyAt
  <2>2. \A o \in Occurrences(x, queues) : o = <<w, k>>
    BY DEF Occurrences, OnlyAt
  <2> QED
    BY <2>1, <2>2
<1> QED
  BY <1>1, FS_Singleton

LEMMA OccursNever ==
    ASSUME NEW queues, NEW x,
           \A v \in Worker : \A j \in DOMAIN queues[v] : queues[v][j] # x
    PROVE  Cardinality(Occurrences(x, queues)) = 0
<1>1. Occurrences(x, queues) = {}
  BY DEF Occurrences
<1> QED
  BY <1>1, FS_EmptySet

\* Until a stop no request is lost, doubled or in two hands on its way from the
\* scheduler's heap through the dispatchers, the client queues and the executors
\* to its notification, for any number of each.
THEOREM OneHand == StoppingSpec => []InOneHandUntilStop
<1>1. IInv /\ HandsInv => InOneHandUntilStop
  <2> SUFFICES ASSUME IInv, HandsInv, ~stop, NEW r \in Request
               PROVE  /\ Cardinality(Occurrences(r, clientQueue)) =
                             IF stage[r] = "queued" THEN 1 ELSE 0
                      /\ Cardinality(Occurrences(r, jobs)) = IF stage[r] = "gate" THEN 1 ELSE 0
                      /\ r \in Sent <=> stage[r] \notin {"scheduler", "processed"}
    BY DEF InOneHandUntilStop, InOneHand
  <2>1. r \in Sent <=> stage[r] \notin {"scheduler", "processed"}
    BY DEF Sent, IInv, CarrierInv, StagesAgree
  <2>2. QueuesHoldQueued /\ QueuedAreInQueues /\ JobsHoldGates
    BY DEF IInv, CarrierInv, HandsInv
  <2>3. r # Get
    BY DispatchAssumption DEF Get
  <2>4. CASE stage[r] = "queued"
    <3>1. PICK w \in Worker : \E k \in DOMAIN clientQueue[w] : clientQueue[w][k] = r
      BY <2>2, <2>4 DEF QueuedAreInQueues
    <3>2. PICK k \in DOMAIN clientQueue[w] : clientQueue[w][k] = r
      BY <3>1
    <3>3. OnlyAt(w, k, r, clientQueue)
      BY <2>2, <3>2 DEF QueuesHoldQueued, OnlyAt
    <3>4. Cardinality(Occurrences(r, clientQueue)) = 1
      BY <3>3, OccursOnce
    <3>5. Cardinality(Occurrences(r, jobs)) = 0
      BY <2>2, <2>3, <2>4, OccursNever DEF JobsHoldGates
    <3> QED
      BY <2>1, <2>4, <3>4, <3>5
  <2>5. CASE stage[r] = "gate"
    <3>1. PICK w \in Worker : \E k \in DOMAIN jobs[w] : jobs[w][k] = r
      BY <2>2, <2>5 DEF JobsHoldGates
    <3>2. PICK k \in DOMAIN jobs[w] : jobs[w][k] = r
      BY <3>1
    <3>3. OnlyAt(w, k, r, jobs)
      BY <2>2, <2>3, <3>2 DEF JobsHoldGates, OnlyAt
    <3>4. Cardinality(Occurrences(r, jobs)) = 1
      BY <3>3, OccursOnce
    <3>5. Cardinality(Occurrences(r, clientQueue)) = 0
      BY <2>2, <2>5, OccursNever DEF QueuesHoldQueued
    <3> QED
      BY <2>1, <2>5, <3>4, <3>5
  <2>6. CASE stage[r] \notin {"queued", "gate"}
    <3>1. Cardinality(Occurrences(r, clientQueue)) = 0
      BY <2>2, <2>6, OccursNever DEF QueuesHoldQueued
    <3>2. Cardinality(Occurrences(r, jobs)) = 0
      BY <2>2, <2>3, <2>6, OccursNever DEF JobsHoldGates
    <3> QED
      BY <2>1, <2>6, <3>1, <3>2
  <2> QED
    BY <2>4, <2>5, <2>6
<1>2. StoppingSpec => []HandsInv
  BY Invariance, HandsInitially, HandsInductive, PTL DEF StoppingSpec
<1> QED
  BY <1>1, <1>2, Invariance, PTL
=============================================================================
