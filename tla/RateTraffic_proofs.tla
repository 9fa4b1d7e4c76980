--------------------------- MODULE RateTraffic_proofs ---------------------------
(***************************************************************************)
(* Safety of RateTraffic for any sessions, graphs and intervals: the       *)
(* invariant of the shared part, what it implies of sending times and      *)
(* histories, and the order of the arrivals.                               *)
(***************************************************************************)
EXTENDS RateTraffic, TrafficScheduler_proofs

FreshUntouched == \A s \in unscheduled : Untouched(s)

\* A session starts when it is scheduled to, no later than any after it.
StartsKnown ==
    /\ \A s \in Session : startTime[s] # NotYet <=> s \notin unscheduled
    /\ \A s \in Session : startTime[s] <= nextStart

\* A root not sent yet is in the heap from the start of its session on.
RootsQueued ==
    \A r \in Request :
        /\ IsRoot(r) /\ sentAt[r] = NotYet /\ SessionOf[r] \notin unscheduled =>
              [at |-> startTime[SessionOf[r]] + Wait[r], req |-> r] \in readyQueue
        /\ sentAt[r] # NotYet => SessionOf[r] \notin unscheduled

\* A root in the heap is there at its time.
RootTimes ==
    \A i \in readyQueue : IsRoot(i.req) =>
        SessionOf[i.req] \notin unscheduled /\ i.at = startTime[SessionOf[i.req]] + Wait[i.req]

IInv ==
    /\ TypeOK /\ CoreInv /\ FreshUntouched /\ Conversation
    /\ StartsKnown /\ RootsQueued /\ RootTimes /\ ArrivalsInOrder

-----------------------------------------------------------------------------
\* schedule_session hands over one session, whose roots are queued.
LEMMA ScheduleStep ==
    ASSUME IInv, NEW s \in Session, ScheduleSession(s)
    PROVE  IInv'
<1> USE DEF IInv
<1>1. PICK d \in Interval : nextStart' = nextStart + d
  BY DEF ScheduleSession
<1>2. /\ s \in unscheduled /\ unscheduled' = unscheduled \ {s}
      /\ startTime' = [startTime EXCEPT ![s] = nextStart]
      /\ readyQueue' = readyQueue \cup RootItems({s}, nextStart)
      /\ UNCHANGED <<now, completions, sentAt>>
  BY DEF ScheduleSession, ActivateOnto
<1>3. ActivateAndPop({s}, nextStart, {})
  BY DEF ScheduleSession, ActivateOnto, ActivateAndPop
<1>4. /\ nextStart \in Nat /\ d \in Nat /\ startTime \in [Session -> Nat \cup {NotYet}]
      /\ unscheduled \subseteq Session
  BY <1>1, IntervalAssumption DEF TypeOK, CoreTypeOK
<1>5. \A x \in {s} : Untouched(x)
  BY <1>2 DEF FreshUntouched
<1>6. CoreInv' /\ Conversation'
  BY <1>2, <1>3, <1>4, <1>5, ActivateAndPopStep, ConversationPop
<1>7. FreshUntouched'
  <2>1. \A x \in Session \ {s} : Untouched(x) => Untouched(x)'
    BY <1>3, <1>4, <1>5, ActivateAndPopUntouched
  <2> QED
    BY <2>1, <1>2, <1>4 DEF FreshUntouched
<1>8. TypeOK'
  BY <1>1, <1>2, <1>4, <1>6 DEF TypeOK, CoreInv
<1>9. \A x \in Session : startTime'[x] = IF x = s THEN nextStart ELSE startTime[x]
  BY <1>2, <1>4
<1>10. StartsKnown'
  <2>1. \A x \in Session : startTime[x] <= nextStart /\ startTime[x] \in Nat \cup {NotYet}
    BY <1>4 DEF StartsKnown
  <2>2. ASSUME NEW x \in Session PROVE startTime'[x] <= nextStart'
    BY <2>1, <1>1, <1>4, <1>9 DEF NotYet
  <2>3. nextStart # NotYet
    BY <1>4 DEF NotYet
  <2> QED
    BY <2>2, <2>3, <1>2, <1>9 DEF StartsKnown
<1>11. \A r \in Request : SessionOf[r] \in Session
  BY SessionAssumption
<1>12. \A r \in Request : SessionOf[r] = s => sentAt[r] = NotYet
  BY <1>5 DEF Untouched, NodesOf
<1>13. RootsQueued'
  <2> SUFFICES ASSUME NEW r \in Request
               PROVE  /\ IsRoot(r) /\ sentAt[r] = NotYet /\ SessionOf[r] \notin unscheduled' =>
                            [at |-> startTime'[SessionOf[r]] + Wait[r], req |-> r] \in readyQueue'
                      /\ sentAt[r] # NotYet => SessionOf[r] \notin unscheduled'
    BY <1>2 DEF RootsQueued
  <2>1. CASE SessionOf[r] = s
    BY <2>1, <1>2, <1>9, <1>12 DEF RootItems, Roots
  <2>2. CASE SessionOf[r] # s
    BY <2>2, <1>2, <1>9, <1>11 DEF RootsQueued
  <2> QED
    BY <2>1, <2>2
<1>14. RootTimes'
  <2>1. \A i \in RootItems({s}, nextStart) :
            SessionOf[i.req] = s /\ i.at = nextStart + Wait[i.req]
    BY DEF RootItems, Roots
  <2>2. \A i \in readyQueue : i.req \in Request
    BY DEF CoreInv, CoreTypeOK
  <2>3. \A i \in readyQueue : IsRoot(i.req) => SessionOf[i.req] # s
    BY <1>2 DEF RootTimes
  <2>4. ASSUME NEW i \in readyQueue', IsRoot(i.req)
        PROVE  /\ SessionOf[i.req] \notin unscheduled'
               /\ i.at = startTime'[SessionOf[i.req]] + Wait[i.req]
    <3>1. CASE i \in readyQueue
      BY <3>1, <2>2, <2>3, <2>4, <1>2, <1>9, <1>11 DEF RootTimes
    <3>2. CASE i \in RootItems({s}, nextStart)
      BY <3>2, <2>1, <1>2, <1>9
    <3> QED
      BY <3>1, <3>2, <1>2
  <2> QED
    BY <2>4 DEF RootTimes
<1>15. ArrivalsInOrder'
  <2> SUFFICES ASSUME NEW q \in Request, NEW r \in Request,
                      IsRoot(q), IsRoot(r), sentAt[r] # NotYet,
                      startTime'[SessionOf[q]] # NotYet,
                      startTime'[SessionOf[q]] < startTime'[SessionOf[r]],
                      startTime'[SessionOf[q]] + Wait[q] < startTime'[SessionOf[r]] + Wait[r]
               PROVE  sentAt[q] # NotYet
    BY <1>2 DEF ArrivalsInOrder
  <2>1. SessionOf[r] # s
    BY <1>12
  <2>2. SessionOf[q] # s
    <3>1. startTime[SessionOf[r]] <= nextStart /\ startTime[SessionOf[r]] \in Nat \cup {NotYet}
      BY <1>4, <1>11 DEF StartsKnown
    <3> QED
      BY <2>1, <3>1, <1>4, <1>9, <1>11 DEF NotYet
  <2> QED
    BY <2>1, <2>2, <1>9, <1>11 DEF ArrivalsInOrder
<1> QED
  BY <1>6, <1>7, <1>8, <1>10, <1>13, <1>14, <1>15

\* pop_ready takes the least of the heap, in which the roots of the earlier
\* sessions are too unless they were sent.
LEMMA PopStep ==
    ASSUME IInv, PopReady
    PROVE  IInv'
<1> USE DEF IInv
<1>1. PICK i \in Due(readyQueue) : readyQueue' = readyQueue \ {i} /\ MarkSent(i.req)
  BY DEF PopReady
<1>2. UNCHANGED <<now, unscheduled, completions, nextStart, startTime>>
  BY DEF PopReady
<1>3. ActivateAndPop({}, now, {i})
  <2>1. readyQueue \cup RootItems({}, now) = readyQueue
    BY NothingActivated
  <2> QED
    BY <1>1, <2>1, NothingActivated DEF ActivateAndPop, PopReady
<1>4. now \in Nat /\ unscheduled \subseteq Session
  BY DEF TypeOK, CoreTypeOK
<1>5. CoreInv' /\ Conversation'
  BY <1>2, <1>3, <1>4, ActivateAndPopStep, ConversationPop
<1>6. TypeOK'
  BY <1>2, <1>5 DEF TypeOK, CoreInv
<1>7. FreshUntouched'
  <2>1. \A x \in Session : Untouched(x) => Untouched(x)'
    BY <1>3, <1>4, ActivateAndPopUntouched
  <2> QED
    BY <2>1, <1>2, <1>4 DEF FreshUntouched
<1>8. StartsKnown' /\ RootTimes'
  BY <1>1, <1>2 DEF StartsKnown, RootTimes
<1>9. /\ i \in readyQueue /\ i.req \in Request /\ i.at \in Nat
      /\ \A j \in readyQueue : i.at <= j.at
  BY <1>1 DEF Due, CoreInv, CoreTypeOK
<1>10. \A r \in Request : sentAt'[r] = IF r = i.req THEN now ELSE sentAt[r]
  BY <1>1, <1>9 DEF MarkSent, CoreInv, CoreTypeOK
<1>11. SessionOf[i.req] \notin unscheduled
  <2>1. i.req \in queuedNodes /\ SessionOf[i.req] \in sessions
    BY <1>9 DEF CoreInv, QueuedExact, QueuedRequests, HeldByActive
  <2> QED
    BY <2>1 DEF FreshUntouched, Untouched
<1>12. RootsQueued'
  BY <1>1, <1>2, <1>4, <1>10, <1>11 DEF RootsQueued, NotYet
<1>13. ArrivalsInOrder'
  <2> SUFFICES ASSUME NEW q \in Request, NEW r \in Request,
                      IsRoot(q), IsRoot(r), sentAt'[r] # NotYet,
                      startTime[SessionOf[q]] # NotYet,
                      startTime[SessionOf[q]] < startTime[SessionOf[r]],
                      startTime[SessionOf[q]] + Wait[q] < startTime[SessionOf[r]] + Wait[r],
                      sentAt'[q] = NotYet
               PROVE  FALSE
    BY <1>2 DEF ArrivalsInOrder
  <2>1. sentAt[q] = NotYet
    BY <1>4, <1>10 DEF NotYet
  <2>2. r = i.req
    BY <2>1, <1>10 DEF ArrivalsInOrder
  <2>3. [at |-> startTime[SessionOf[q]] + Wait[q], req |-> q] \in readyQueue
    BY <2>1, SessionAssumption DEF RootsQueued, StartsKnown
  <2>4. i.at = startTime[SessionOf[r]] + Wait[r]
    BY <2>2, <1>9 DEF RootTimes
  <2>5. i.at <= startTime[SessionOf[q]] + Wait[q]
    BY <2>3, <1>9
  <2>6. startTime[SessionOf[q]] \in Nat \cup {NotYet} /\ startTime[SessionOf[r]] \in Nat \cup {NotYet}
    BY SessionAssumption DEF TypeOK
  <2>7. Wait[q] \in Nat /\ Wait[r] \in Nat
    BY WaitAssumption
  <2> QED
    BY <2>4, <2>5, <2>6, <2>7 DEF NotYet
<1> QED
  BY <1>5, <1>6, <1>7, <1>8, <1>12, <1>13

\* notify_completion queues children, never roots.
LEMMA NotifyStep ==
    ASSUME IInv, NEW r \in Request, NEW outcome \in Outcome, NEW t, NotifyCompletion(r, outcome, t)
    PROVE  IInv'
<1> USE DEF IInv
<1> DEFINE done == [completions EXCEPT ![r] = t]
<1>1. /\ r \in Sent /\ t \in AnswerTimes(r)
      /\ CompleteAndActivate(r, outcome, t, {})
      /\ UNCHANGED <<nextStart, startTime>>
  BY DEF NotifyCompletion
<1>2. /\ UNCHANGED <<now, unscheduled, sentAt>>
      /\ readyQueue' = readyQueue \cup ReleasedItems(r, outcome, done)
  BY <1>1, NothingActivated DEF CompleteAndActivate
<1>3. CoreInv' /\ Conversation'
  BY <1>1, CompletionStep, ConversationCompletion DEF Reports
<1>4. TypeOK'
  BY <1>1, <1>3 DEF TypeOK, CoreInv
<1>5. FreshUntouched'
  <2>1. \A x \in Session : Untouched(x) => Untouched(x)'
    BY <1>1, CompletionUntouched DEF Reports
  <2> QED
    BY <2>1, <1>2 DEF FreshUntouched, TypeOK, CoreTypeOK
<1>6. \A i \in ReleasedItems(r, outcome, done) : ~ IsRoot(i.req)
  <2>1. ASSUME NEW c \in Released(r, outcome, done) PROVE ~ IsRoot(c)
    <3>1. <<r, c>> \in Edge
      BY DEF Released, Children
    <3> QED
      BY <3>1 DEF IsRoot, Parents
  <2>2. \A i \in ReleasedItems(r, outcome, done) : i.req \in Released(r, outcome, done)
    <3>1. {i.req : i \in ReleasedItems(r, outcome, done)} = Released(r, outcome, done)
      BY <1>1, ReleasedProperties DEF Reports
    <3> HIDE DEF done
    <3> QED
      BY <3>1
  <2> HIDE DEF done
  <2> QED
    BY <2>1, <2>2
<1>7. StartsKnown' /\ RootsQueued' /\ RootTimes' /\ ArrivalsInOrder'
  BY <1>1, <1>2, <1>6 DEF StartsKnown, RootsQueued, RootTimes, ArrivalsInOrder
<1> QED
  BY <1>3, <1>4, <1>5, <1>7

\* Time alone, or nothing, passes.
LEMMA IdleStep ==
    ASSUME IInv, Tick \/ UNCHANGED coreVars, UNCHANGED <<nextStart, startTime>>
    PROVE  IInv'
<1> USE DEF IInv
<1>1. CoreInv' /\ \A s \in Session : Untouched(s) => Untouched(s)'
  BY TickStep, CoreStutter
<1>2. UNCHANGED <<unscheduled, completions, outcomes, nodeHistory, readyQueue, sentAt, history>>
  BY DEF Tick, coreVars
<1>3. Conversation'
  BY <1>2, ConversationUnmoved
<1>4. TypeOK' /\ FreshUntouched'
  BY <1>1, <1>2 DEF TypeOK, CoreInv, FreshUntouched, CoreTypeOK
<1>5. StartsKnown' /\ RootsQueued' /\ RootTimes' /\ ArrivalsInOrder'
  BY <1>2 DEF StartsKnown, RootsQueued, RootTimes, ArrivalsInOrder
<1> QED
  BY <1>1, <1>3, <1>4, <1>5

LEMMA Initially == Init => IInv
<1> SUFFICES ASSUME Init PROVE IInv
  OBVIOUS
<1>1. CoreInv /\ (\A s \in Session : Untouched(s)) /\ Conversation
  BY CoreInitially, ConversationInitially DEF Init
<1>2. /\ unscheduled = Session /\ nextStart = 0 /\ readyQueue = {}
      /\ startTime = [s \in Session |-> NotYet] /\ sentAt = [r \in Request |-> NotYet]
  BY DEF Init, CoreInit
<1>3. TypeOK
  BY <1>1, <1>2 DEF TypeOK, CoreInv
<1>4. StartsKnown /\ RootsQueued /\ RootTimes /\ ArrivalsInOrder
  BY <1>2, SessionAssumption DEF StartsKnown, RootsQueued, RootTimes, ArrivalsInOrder, NotYet
<1> QED
  BY <1>1, <1>2, <1>3, <1>4 DEF IInv, FreshUntouched

LEMMA Inductive == IInv /\ [Next]_vars => IInv'
<1> SUFFICES ASSUME IInv, [Next]_vars PROVE IInv'
  OBVIOUS
<1>1. ASSUME NEW s \in Session, ScheduleSession(s) PROVE IInv'
  BY <1>1, ScheduleStep
<1>2. CASE WaitForReady
  BY <1>2, PopStep, IdleStep DEF WaitForReady, vars
<1>3. ASSUME NEW r \in Request, Completes(r) PROVE IInv'
  <2>1. PICK outcome \in Outcome, t \in AnswerTimes(r) : NotifyCompletion(r, outcome, t)
    BY <1>3 DEF Completes
  <2> QED
    BY <2>1, NotifyStep
<1>4. CASE TickRate
  BY <1>4, IdleStep DEF TickRate
<1>5. CASE UNCHANGED vars
  BY <1>5, IdleStep DEF vars
<1> QED
  BY <1>1, <1>2, <1>3, <1>4, <1>5 DEF Next

-----------------------------------------------------------------------------
(* The theorems.                                                           *)

\* The inductive invariant holds throughout.
THEOREM Invariance == Spec => []IInv
  BY Initially, Inductive, PTL DEF Spec

\* Roots are sent in the order of the arrival process, for any intervals,
\* graphs and delays, however late the sessions are handed over.
THEOREM ArrivalsOrdered == Spec => []ArrivalsInOrder
<1>1. IInv => ArrivalsInOrder
  BY DEF IInv
<1> QED
  BY <1>1, Invariance, PTL

\* No request is sent before the last of its parents and its own delay.
THEOREM SentInTime == Spec => []NeverEarly
<1>1. IInv => NeverEarly
  BY DEF IInv, Conversation
<1> QED
  BY <1>1, Invariance, PTL

\* Every request sent carries its history parent's conversation and turn, with
\* an answer exactly if that turn succeeded with text: failed and text-less
\* parents release their children here, and leave none.
THEOREM HistoriesRight == Spec => []HistoryIsAncestry
<1>1. IInv => HistoryIsAncestry
  BY DEF IInv, Conversation
<1> QED
  BY <1>1, Invariance, PTL

\* No pop and no completion looks up what is not mapped or not active, and no
\* active session is left without work.
THEOREM NeverRaisesNorSticks == Spec => [](LookupsNeverFail /\ NoStuckSession)
<1>1. IInv => LookupsNeverFail /\ NoStuckSession
  BY LookupsHit, NothingStuck DEF IInv
<1> QED
  BY <1>1, Invariance, PTL

-----------------------------------------------------------------------------
(* The scheduler implements TrafficContract, with a place for every session. *)

\* Every step is one of the contract's or leaves fates and places alone.
LEMMA ContractStep == IInv /\ [Next]_vars => [OpenContract!Next]_(OpenContract!contractVars)
<1> SUFFICES ASSUME IInv, [Next]_vars
             PROVE  [OpenContract!Next]_(OpenContract!contractVars)
  OBVIOUS
<1>1. /\ CoreInv /\ Conversation /\ CoreInv' /\ now \in Nat /\ nextStart \in Nat
  BY Inductive DEF IInv, CoreInv, CoreTypeOK, TypeOK
<1>2. ASSUME NEW s \in Session, ScheduleSession(s) PROVE OpenContract!Next
  <2>1. ActivateAndPop({s}, nextStart, {}) /\ s \in unscheduled
    BY <1>2 DEF ScheduleSession, ActivateOnto, ActivateAndPop
  <2>2. \A x \in {s} : Untouched(x)
    BY <2>1 DEF IInv, FreshUntouched
  <2> QED
    BY <1>1, <2>1, <2>2, OpenContractPop
<1>3. ASSUME PopReady PROVE OpenContract!Next
  <2>1. PICK i \in Due(readyQueue) : readyQueue' = readyQueue \ {i} /\ MarkSent(i.req)
    BY <1>3 DEF PopReady
  <2>2. readyQueue \cup RootItems({}, now) = readyQueue
    BY NothingActivated
  <2>3. ActivateAndPop({}, now, {i})
    BY <1>3, <2>1, <2>2, NothingActivated DEF ActivateAndPop, PopReady
  <2> QED
    BY <1>1, <2>3, OpenContractPop
<1>4. ASSUME NEW r \in Request, Completes(r) PROVE OpenContract!Next
  <2>1. PICK outcome \in Outcome, t \in AnswerTimes(r) : NotifyCompletion(r, outcome, t)
    BY <1>4 DEF Completes
  <2> QED
    BY <1>1, <2>1, OpenContractCompletion DEF Reports, NotifyCompletion
<1>5. ASSUME UNCHANGED <<sessions, canceled, completions, inFlight, sentAt>>
      PROVE  UNCHANGED OpenContract!contractVars
  BY <1>5, OpenContractRests
<1> QED
  BY <1>2, <1>3, <1>4, <1>5 DEF Next, WaitForReady, TickRate, Tick, vars, coreVars

\* Every behaviour of the open-loop scheduler is one of TrafficContract.
THEOREM KeepsContract == Spec => ImplementsContract
<1>1. Init => OpenContract!Init
  BY OpenContractBegins DEF Init
<1> QED
  BY <1>1, Invariance, ContractStep, PTL DEF Spec, ImplementsContract, OpenContract!Spec
=============================================================================
