------------------------- MODULE BenchmarkRun_proofs -------------------------
(***************************************************************************)
(* Safety of BenchmarkRun for any sessions and graphs and any number of    *)
(* dispatchers, client workers and completion workers: no request is lost  *)
(* before the stop, the monitor ends the run only when there is nothing    *)
(* left to do, and the report is complete once every thread is joined.     *)
(***************************************************************************)
EXTENDS BenchmarkRun, TrafficScheduler_proofs, SequenceTheorems

-----------------------------------------------------------------------------
(* The conjuncts of the inductive invariant.                               *)

\* The scheduler by itself: what its own proofs show, and that a session handed
\* over leaves no request unaccounted for.
SchedulerSound ==
    /\ CoreInv
    /\ \A s \in unscheduled : Untouched(s)
    /\ \A r \in Request : SessionOf[r] \notin unscheduled => Accounted(r)

\* The stop comes after the monitor, and before it no thread of the pools has
\* left its loop and no sentinel is in the output queue.
StopComesFirst ==
    /\ pc \in {"watching", "deciding", "stopping"} <=> ~stop
    /\ pc \in {"watching", "deciding"} => exit = None
    /\ ~stop => /\ \A w \in Worker : client[w] = "reading"
                /\ \A c \in Completer : completer[c] = "getting"
                /\ \A k \in DOMAIN outputQueue : outputQueue[k] # Sentinel

\* The prefetch thread ends by itself only with its last session.
PrefetchThrough ==
    /\ prefetchSeen => prefetchDone
    /\ prefetchDone /\ ~stop => unscheduled = {}
    /\ exit = "finished" => unscheduled = {} /\ sessions = {}

\* What the evaluator is told of was dispatched; the snapshot is of that.
RegisteredWereSent ==
    /\ \A d \in Dispatcher : dispatching[d] # None => sentAt[dispatching[d]] # NotYet
    /\ baseline \subseteq registered
    /\ \A r \in registered : sentAt[r] # NotYet

\* After a timeout only requests that have completed are included.
IncludedHaveCompleted ==
    exit \in {"settled", "grace"} => \A r \in included : completions[r] # NotYet

Held(r) == \E c \in Completer : holding[c] = r
QueuedAt(r, k) == k \in DOMAIN outputQueue /\ outputQueue[k] = r
Queued(r) == \E k \in Nat : QueuedAt(r, k)

\* A result is on its way to the evaluator, which the scheduler is told before.
ResultsKept ==
    /\ \A r \in Request : result[r] # None => r \in recorded \/ Held(r) \/ Queued(r)
    /\ \A r \in Request : completions[r] # NotYet => r \in recorded \/ Held(r)
    /\ \A r \in recorded : completions[r] # NotYet
    /\ \A c \in Completer : holding[c] # None => completer[c] # "done"

\* What is owed is ahead of the sentinels, and held once a completion worker is
\* through: it has seen the queue empty, or a sentinel.
OwedAhead ==
    /\ \A r \in owed :
        \/ Held(r)
        \/ \E k \in Nat : QueuedAt(r, k) /\ \A j \in 1..k : outputQueue[j] # Sentinel
    /\ (\E c \in Completer : completer[c] = "done") => \A r \in owed : Held(r)

\* If the joins outlast their threads.
JoinedReport == Prompt => ReportIsComplete /\ IncludedAreReported

IInv ==
    /\ TypeOK /\ SchedulerSound /\ StopComesFirst /\ PrefetchThrough
    /\ RegisteredWereSent /\ IncludedHaveCompleted /\ ResultsKept /\ OwedAhead
    /\ NothingLostBeforeStop /\ JoinedReport

-----------------------------------------------------------------------------
(* The steps of the threads in which the scheduler moves.                  *)

\* schedule_session activates one session, whose roots are queued.
LEMMA ScheduleIs ==
    ASSUME NEW s \in Session, Schedule(s)
    PROVE  /\ s \in unscheduled /\ unscheduled' = unscheduled \ {s}
           /\ ActivateAndPop({s}, nextStart, {})
           /\ \E d \in Interval : nextStart' = nextStart + d
           /\ startTime' = [startTime EXCEPT ![s] = nextStart]
<1>1. Scheduler!Roots({s}) = Roots({s}) /\ Scheduler!NonRoots({s}) = NonRoots({s})
  BY DEF Scheduler!Roots, Scheduler!NonRoots, Scheduler!IsRoot, Scheduler!Parents,
     Roots, NonRoots, IsRoot, Parents
<1>2. Scheduler!RootItems({s}, nextStart) = RootItems({s}, nextStart)
  BY <1>1 DEF Scheduler!RootItems, RootItems
<1> QED
  BY <1>1, <1>2 DEF Schedule, Scheduler!ScheduleSession, Scheduler!ActivateOnto, ActivateAndPop

\* pop_ready pops one due item for the dispatcher.
LEMMA PopIs ==
    ASSUME NEW d \in Dispatcher, Pop(d)
    PROVE  \E i \in Due(readyQueue) :
               /\ ActivateAndPop({}, now, {i})
               /\ dispatching' = [dispatching EXCEPT ![d] = i.req]
               /\ UNCHANGED <<unscheduled, nextStart, startTime>>
<1>1. PICK i \in Due(readyQueue) :
          /\ Scheduler!PopReady
          /\ readyQueue' = readyQueue \ {i}
          /\ dispatching' = [dispatching EXCEPT ![d] = i.req]
  BY DEF Pop
<1>2. PICK j \in Scheduler!Due(readyQueue) :
          readyQueue' = readyQueue \ {j} /\ Scheduler!MarkSent(j.req)
  BY <1>1 DEF Scheduler!PopReady
<1>3. i = j
  BY <1>1, <1>2 DEF Due, Scheduler!Due
<1>4. Scheduler!InheritedHistory(i.req) = InheritedHistory(i.req)
  BY DEF Scheduler!InheritedHistory, Scheduler!HistParents, InheritedHistory, HistParents
<1>5. MarkSent(i.req)
  BY <1>2, <1>3, <1>4 DEF Scheduler!MarkSent, MarkSent
<1>6. readyQueue \cup RootItems({}, now) = readyQueue
  BY NothingActivated
<1> QED
  BY <1>1, <1>5, <1>6, NothingActivated DEF ActivateAndPop, Scheduler!PopReady

\* notify_completion is told of the request that the completion worker holds.
LEMMA NotifyIs ==
    ASSUME NEW c \in Completer, Notify(c)
    PROVE  /\ holding[c] \in Sent /\ now \in AnswerTimes(holding[c])
           /\ CompleteAndActivate(holding[c], result[holding[c]], now, {})
           /\ UNCHANGED <<nextStart, startTime>>
<1> DEFINE r == holding[c]
           o == result[r]
           done == [completions EXCEPT ![r] = now]
<1>1. /\ r \in Scheduler!Sent /\ now \in Scheduler!AnswerTimes(r)
      /\ Scheduler!CompleteAndActivate(r, o, now, {})
      /\ UNCHANGED <<nextStart, startTime>>
  BY DEF Notify, Scheduler!NotifyCompletion
<1>2. r \in Sent /\ now \in AnswerTimes(r)
  BY <1>1 DEF Scheduler!Sent, Scheduler!NotYet, Scheduler!AnswerTimes, Sent, NotYet, AnswerTimes
<1>3. Scheduler!Cancels(o) <=> Cancels(o)
  BY DEF Scheduler!Cancels, Cancels
<1>4. Scheduler!Released(r, o, done) = Released(r, o, done)
  BY <1>3 DEF Scheduler!Released, Scheduler!Children, Scheduler!ParentsDone, Scheduler!Parents,
     Scheduler!NotYet, Released, Children, ParentsDone, Parents, NotYet
<1>5. Scheduler!Dropped(r, o) = Dropped(r, o)
  BY <1>3 DEF Scheduler!Dropped, Scheduler!NodesOf, Dropped, NodesOf
<1>6. Scheduler!Ended(r, o) = Ended(r, o)
  BY <1>5 DEF Scheduler!Ended, Scheduler!NodesOf, Ended, NodesOf
<1>7. Scheduler!ReleasedItems(r, o, done) = ReleasedItems(r, o, done)
  <2> HIDE DEF done
  <2> QED
    BY <1>4 DEF Scheduler!ReleasedItems, ReleasedItems, Scheduler!ReadyAt, Scheduler!Parents,
       Scheduler!Max, ReadyAt, Parents, Max
<1>8. Scheduler!RecordedHistory(r, o) = RecordedHistory(r, o)
  BY DEF Scheduler!RecordedHistory, Scheduler!IsHistoryParent, RecordedHistory, IsHistoryParent
<1>9. /\ Scheduler!Roots({}) = Roots({}) /\ Scheduler!NonRoots({}) = NonRoots({})
      /\ Scheduler!RootItems({}, now) = RootItems({}, now)
  BY NothingActivated DEF Scheduler!Roots, Scheduler!NonRoots, Scheduler!RootItems
<1>10. CompleteAndActivate(r, o, now, {})
  BY <1>1, <1>3, <1>4, <1>5, <1>6, <1>7, <1>8, <1>9
     DEF Scheduler!CompleteAndActivate, CompleteAndActivate
<1> QED
  BY <1>1, <1>2, <1>10

\* No other step moves the scheduler.
LEMMA SchedulerMoves ==
    ASSUME [Next]_vars
    PROVE  \/ \E s \in Session : Schedule(s)
           \/ \E d \in Dispatcher : Pop(d)
           \/ \E c \in Completer : Notify(c)
           \/ UNCHANGED schedulerVars
  BY DEF Next, Prefetch, Dispatch, Read, Complete, Monitor, Shutdown, Terminated, vars,
     Generate, PrefetchEnds, Register, Put, DispatcherEnds, Take, Answer, CancelTasks,
     ClientEnds, GetResult, GetSentinel, Record, StartDrain, DrainEnds, TimePasses, Watch,
     KeepWatching, LeaveAfterGrace, LeaveSettled, LeaveFinished, LeaveInterrupted, Leave,
     SetStop, JoinWorkers, WaitForClients, Report

-----------------------------------------------------------------------------
(* The scheduler by itself.                                                *)

LEMMA SchedulerStays ==
    ASSUME TypeOK, SchedulerSound, [Next]_vars
    PROVE  SchedulerSound'
<1> USE DEF SchedulerSound
<1>1. /\ nextStart \in Nat /\ now \in Nat /\ unscheduled \subseteq Session
      /\ \A r \in Request : SessionOf[r] \in Session
  BY SessionAssumption DEF TypeOK, Scheduler!TypeOK, CoreInv, CoreTypeOK
<1>2. ASSUME NEW s \in Session, Schedule(s) PROVE SchedulerSound'
  <2>1. /\ s \in unscheduled /\ unscheduled' = unscheduled \ {s}
        /\ ActivateAndPop({s}, nextStart, {})
    BY <1>2, ScheduleIs
  <2>2. \A x \in {s} : Untouched(x)
    BY <2>1
  <2>3. CoreInv'
    BY <1>1, <2>1, <2>2, ActivateAndPopStep
  <2>4. ASSUME NEW x \in unscheduled' PROVE Untouched(x)'
    BY <1>1, <2>1, <2>2, ActivateAndPopUntouched
  <2>5. ASSUME NEW r \in Request, SessionOf[r] \notin unscheduled' PROVE Accounted(r)'
    <3>1. Accounted(r) \/ SessionOf[r] \in {s}
      BY <2>1, <2>5
    <3> QED
      BY <1>1, <2>1, <2>2, <3>1, AccountedPop
  <2> QED
    BY <2>3, <2>4, <2>5
<1>3. ASSUME NEW d \in Dispatcher, Pop(d) PROVE SchedulerSound'
  <2>1. PICK i \in Due(readyQueue) : ActivateAndPop({}, now, {i}) /\ unscheduled' = unscheduled
    BY <1>3, PopIs
  <2>2. CoreInv'
    BY <1>1, <2>1, ActivateAndPopStep
  <2>3. ASSUME NEW x \in unscheduled' PROVE Untouched(x)'
    BY <1>1, <2>1, ActivateAndPopUntouched
  <2>4. ASSUME NEW r \in Request, SessionOf[r] \notin unscheduled' PROVE Accounted(r)'
    BY <1>1, <2>1, <2>4, AccountedPop
  <2> QED
    BY <2>2, <2>3, <2>4
<1>4. ASSUME NEW c \in Completer, Notify(c) PROVE SchedulerSound'
  <2> DEFINE x == holding[c]
             o == result[x]
  <2>1. x \in Sent /\ now \in AnswerTimes(x) /\ CompleteAndActivate(x, o, now, {})
    BY <1>4, NotifyIs
  <2>2. unscheduled' = unscheduled
    BY <2>1 DEF CompleteAndActivate
  <2>r. o \in Reports
    BY <2>1 DEF TypeOK, Reports, None, Sent
  <2> HIDE DEF x, o
  <2>3. CoreInv'
    BY <2>1, <2>r, CompletionStep
  <2>4. ASSUME NEW s \in unscheduled' PROVE Untouched(s)'
    BY <1>1, <2>1, <2>r, <2>2, CompletionUntouched
  <2>5. ASSUME NEW r \in Request, SessionOf[r] \notin unscheduled' PROVE Accounted(r)'
    BY <2>1, <2>r, <2>2, <2>5, AccountedCompletion
  <2> QED
    BY <2>3, <2>4, <2>5
<1>5. CASE UNCHANGED schedulerVars
  <2>1. CoreInv' /\ \A s \in Session : Untouched(s) => Untouched(s)'
    BY <1>5, CoreStutter DEF schedulerVars
  <2>2. \A r \in Request : Accounted(r) => Accounted(r)'
    BY <1>5 DEF schedulerVars, coreVars, Accounted
  <2>3. unscheduled' = unscheduled
    BY <1>5 DEF schedulerVars, coreVars
  <2> QED
    BY <1>1, <2>1, <2>2, <2>3
<1> QED
  BY <1>2, <1>3, <1>4, <1>5, SchedulerMoves

\* What the scheduler's invariant says in the terms of the other threads: what
\* was sent stays sent, what has completed stays complete, nothing is active or
\* waiting to be scheduled again once nothing is, and a request that is neither
\* queued nor sent has completed if it ever was sent.
LEMMA SchedulerMonotonic ==
    ASSUME TypeOK, SchedulerSound, [Next]_vars
    PROVE  /\ \A r \in Request : sentAt[r] # NotYet => sentAt'[r] # NotYet
           /\ \A r \in Request : completions[r] # NotYet => completions'[r] # NotYet
           /\ unscheduled' \subseteq unscheduled
           /\ unscheduled = {} /\ sessions = {} =>
                  sessions' = {} /\ \A r \in Request : sentAt'[r] # NotYet => sentAt[r] # NotYet
<1> USE DEF SchedulerSound
<1>1. ASSUME NEW s \in Session, Schedule(s)
      PROVE  unscheduled # {} /\ unscheduled' \subseteq unscheduled /\ UNCHANGED <<sentAt, completions>>
  BY <1>1, ScheduleIs DEF ActivateAndPop
<1>2. ASSUME NEW d \in Dispatcher, Pop(d)
      PROVE  /\ \A r \in Request : sentAt[r] # NotYet => sentAt'[r] # NotYet
             /\ UNCHANGED <<completions, unscheduled, sessions>>
             /\ sessions # {}
  <2>1. PICK i \in Due(readyQueue) : ActivateAndPop({}, now, {i}) /\ unscheduled' = unscheduled
    BY <1>2, PopIs
  <2>2. MarkSent(i.req) /\ UNCHANGED <<completions, sessions>>
    BY <2>1 DEF ActivateAndPop
  <2>3. i \in readyQueue /\ i.req \in QueuedRequests
    BY <2>1 DEF Due, QueuedRequests
  <2>4. sessions # {}
    BY <2>3 DEF CoreInv, QueuedExact, HeldByActive
  <2>5. \A r \in Request : sentAt[r] # NotYet => sentAt'[r] # NotYet
    BY <2>2 DEF MarkSent, CoreInv, CoreTypeOK, NotYet
  <2> QED
    BY <2>1, <2>2, <2>4, <2>5
<1>3. ASSUME NEW c \in Completer, Notify(c)
      PROVE  /\ UNCHANGED <<sentAt, unscheduled>>
             /\ \A r \in Request : completions[r] # NotYet => completions'[r] # NotYet
             /\ sessions = {} => sessions' = {}
  <2> DEFINE x == holding[c]
             o == result[x]
  <2>1. x \in Sent /\ now \in AnswerTimes(x) /\ CompleteAndActivate(x, o, now, {})
    BY <1>3, NotifyIs
  <2> HIDE DEF x, o
  <2>2. completions' = [completions EXCEPT ![x] = now]
    BY <2>1 DEF CompleteAndActivate
  <2> QED
    BY <2>1, <2>2 DEF CompleteAndActivate, CoreInv, CoreTypeOK, NotYet
<1>4. CASE UNCHANGED schedulerVars
  BY <1>4 DEF schedulerVars, coreVars
<1> QED
  BY <1>1, <1>2, <1>3, <1>4, SchedulerMoves

LEMMA SchedulerSays ==
    ASSUME SchedulerSound
    PROVE  /\ \A r \in Request : sentAt[r] # NotYet /\ r \notin inFlight => completions[r] # NotYet
           /\ \A r \in Request : completions[r] # NotYet => sentAt[r] # NotYet
           /\ unscheduled = {} /\ sessions = {} =>
                  \A r \in Request : \/ completions[r] # NotYet
                                     \/ SessionOf[r] \in canceled /\ sentAt[r] = NotYet
  BY DEF SchedulerSound, CoreInv, MapExact, QueuedExact, Sent, TimesPast, HeldByActive, Accounted

-----------------------------------------------------------------------------
(* Types.                                                                  *)

LEMMA SchedulerTyped ==
    ASSUME TypeOK, SchedulerSound', [Next]_vars
    PROVE  Scheduler!TypeOK'
<1>1. Scheduler!CoreTypeOK'
  BY DEF SchedulerSound, CoreInv, CoreTypeOK, Scheduler!CoreTypeOK, Scheduler!NotYet, NotYet,
     Scheduler!Reports, Reports
<1>2. nextStart \in Nat /\ startTime \in [Session -> Nat \cup {NotYet}]
  BY DEF TypeOK, Scheduler!TypeOK, Scheduler!NotYet, NotYet
<1>3. nextStart' \in Nat /\ startTime' \in [Session -> Nat \cup {NotYet}]
  <2>1. ASSUME NEW s \in Session, Schedule(s)
        PROVE  nextStart' \in Nat /\ startTime' \in [Session -> Nat \cup {NotYet}]
    <3>1. PICK d \in Interval : nextStart' = nextStart + d
      BY <2>1, ScheduleIs
    <3>2. startTime' = [startTime EXCEPT ![s] = nextStart]
      BY <2>1, ScheduleIs
    <3> QED
      BY <1>2, <3>1, <3>2, RunAssumption
  <2>2. ASSUME NEW d \in Dispatcher, Pop(d) PROVE UNCHANGED <<nextStart, startTime>>
    BY <2>2, PopIs
  <2>3. ASSUME NEW c \in Completer, Notify(c) PROVE UNCHANGED <<nextStart, startTime>>
    BY <2>3, NotifyIs
  <2> QED
    BY <1>2, <2>1, <2>2, <2>3, SchedulerMoves DEF schedulerVars
<1> QED
  BY <1>1, <1>3 DEF Scheduler!TypeOK, Scheduler!NotYet, NotYet

\* What the output queue does in a step.
LEMMA OutputMoves ==
    ASSUME [Next]_vars
    PROVE  \/ \E w \in Worker, r \in Request, o \in Outcome : Answer(w, r, o)
           \/ \E c \in Completer : GetResult(c) \/ GetSentinel(c)
           \/ WaitForClients
           \/ UNCHANGED outputQueue
  BY DEF Next, Prefetch, Dispatch, Read, Complete, Monitor, Shutdown, Terminated, vars,
     completionVars, Generate, Schedule, PrefetchEnds, Pop, Register, Put, DispatcherEnds,
     Take, CancelTasks, ClientEnds, Notify, Record, StartDrain, DrainEnds, TimePasses, Watch,
     KeepWatching, LeaveAfterGrace, LeaveSettled, LeaveFinished, LeaveInterrupted, Leave,
     SetStop, JoinWorkers, Report

Sentinels == [k \in 1 .. Cardinality(Completer) |-> Sentinel]

LEMMA SentinelsAre ==
    /\ Cardinality(Completer) \in Nat
    /\ Sentinels \in Seq({Sentinel}) /\ Len(Sentinels) = Cardinality(Completer)
    /\ \A k \in DOMAIN Sentinels : Sentinels[k] = Sentinel
<1>1. Cardinality(Completer) \in Nat
  BY RunAssumption, FS_CardinalityType
<1> QED
  BY <1>1 DEF Sentinels

LEMMA OutputTyped ==
    ASSUME TypeOK, [Next]_vars
    PROVE  outputQueue' \in Seq(Request \cup {Sentinel})
<1>1. outputQueue \in Seq(Request \cup {Sentinel})
  BY DEF TypeOK
<1>2. CASE WaitForClients
  <2>1. outputQueue' = outputQueue \o Sentinels
    BY <1>2 DEF WaitForClients, Sentinels
  <2>2. Sentinels \in Seq(Request \cup {Sentinel})
    BY SentinelsAre
  <2> QED
    BY <1>1, <2>1, <2>2, ConcatProperties
<1>3. ASSUME NEW w \in Worker, NEW r \in Request, NEW o \in Outcome, Answer(w, r, o)
      PROVE  outputQueue' \in Seq(Request \cup {Sentinel})
  BY <1>1, <1>3, AppendProperties DEF Answer
<1>4. ASSUME NEW c \in Completer, GetResult(c) \/ GetSentinel(c)
      PROVE  outputQueue' \in Seq(Request \cup {Sentinel})
  <2>1. outputQueue # <<>> /\ outputQueue' = Tail(outputQueue)
    BY <1>4 DEF GetResult, GetSentinel
  <2> QED
    BY <1>1, <2>1, HeadTailProperties
<1> QED
  BY <1>1, <1>2, <1>3, <1>4, OutputMoves

LEMMA TypesStay ==
    ASSUME TypeOK, SchedulerSound, SchedulerSound', [Next]_vars
    PROVE  TypeOK'
<1>s. Scheduler!TypeOK'
  BY SchedulerTyped
<1>q. outputQueue' \in Seq(Request \cup {Sentinel})
  BY OutputTyped
<1> USE DEF schedulerVars, dispatchVars, clientVars, completionVars, mainVars, loopVars
<1>1. ASSUME NEW s \in Session, Generate(s) PROVE TypeOK'
  BY <1>s, <1>q, <1>1 DEF TypeOK, Generate
<1>2. ASSUME NEW s \in Session, Schedule(s) PROVE TypeOK'
  BY <1>s, <1>q, <1>2 DEF TypeOK, Schedule
<1>3. CASE PrefetchEnds
  BY <1>s, <1>q, <1>3 DEF TypeOK, PrefetchEnds
<1>4. ASSUME NEW d \in Dispatcher, Pop(d) PROVE TypeOK'
  <2>1. PICK i \in Due(readyQueue) : dispatching' = [dispatching EXCEPT ![d] = i.req]
    BY <1>4, PopIs
  <2>2. i.req \in Request
    BY <2>1 DEF Due, SchedulerSound, CoreInv, CoreTypeOK
  <2> QED
    BY <1>s, <1>q, <1>4, <2>1, <2>2 DEF TypeOK, Pop
<1>5. ASSUME NEW d \in Dispatcher, Register(d) PROVE TypeOK'
  BY <1>s, <1>q, <1>5 DEF TypeOK, Register
<1>6. ASSUME NEW d \in Dispatcher, NEW w \in Worker, Put(d, w) PROVE TypeOK'
  BY <1>s, <1>q, <1>6 DEF TypeOK, Put
<1>7. ASSUME NEW d \in Dispatcher, DispatcherEnds(d) PROVE TypeOK'
  BY <1>s, <1>q, <1>7 DEF TypeOK, DispatcherEnds
<1>8. ASSUME NEW w \in Worker, NEW r \in Request, Take(w, r) PROVE TypeOK'
  BY <1>s, <1>q, <1>8 DEF TypeOK, Take
<1>9. ASSUME NEW w \in Worker, NEW r \in Request, NEW o \in Outcome, Answer(w, r, o)
      PROVE  TypeOK'
  BY <1>s, <1>q, <1>9 DEF TypeOK, Answer
<1>10. ASSUME NEW w \in Worker, CancelTasks(w) PROVE TypeOK'
  BY <1>s, <1>q, <1>10 DEF TypeOK, CancelTasks
<1>11. ASSUME NEW w \in Worker, ClientEnds(w) PROVE TypeOK'
  BY <1>s, <1>q, <1>11 DEF TypeOK, ClientEnds
<1>12. ASSUME NEW c \in Completer, GetResult(c) PROVE TypeOK'
  <2>1. Head(outputQueue) \in Request
    <3>1. outputQueue \in Seq(Request \cup {Sentinel}) /\ outputQueue # <<>>
      BY <1>12 DEF TypeOK, GetResult
    <3>2. Head(outputQueue) \in Request \cup {Sentinel}
      BY <3>1, HeadTailProperties
    <3> QED
      BY <3>2, <1>12 DEF GetResult
  <2> QED
    BY <1>s, <1>q, <1>12, <2>1 DEF TypeOK, GetResult
<1>13. ASSUME NEW c \in Completer, GetSentinel(c) PROVE TypeOK'
  BY <1>s, <1>q, <1>13 DEF TypeOK, GetSentinel
<1>14. ASSUME NEW c \in Completer, Notify(c) PROVE TypeOK'
  BY <1>s, <1>q, <1>14 DEF TypeOK, Notify
<1>15. ASSUME NEW c \in Completer, Record(c) PROVE TypeOK'
  BY <1>s, <1>q, <1>15 DEF TypeOK, Record
<1>16. ASSUME NEW c \in Completer, StartDrain(c) PROVE TypeOK'
  BY <1>s, <1>q, <1>16 DEF TypeOK, StartDrain
<1>17. ASSUME NEW c \in Completer, DrainEnds(c) PROVE TypeOK'
  BY <1>s, <1>q, <1>17 DEF TypeOK, DrainEnds
<1>18. CASE TimePasses
  BY <1>s, <1>q, <1>18 DEF TypeOK, TimePasses
<1>19. CASE Watch
  BY <1>s, <1>q, <1>19 DEF TypeOK, Watch
<1>20. CASE KeepWatching
  BY <1>s, <1>q, <1>20 DEF TypeOK, KeepWatching
<1>21. CASE LeaveAfterGrace \/ LeaveSettled \/ LeaveFinished \/ LeaveInterrupted
  BY <1>s, <1>q, <1>21, ZenonT(60) DEF TypeOK, LeaveAfterGrace, LeaveSettled, LeaveFinished, LeaveInterrupted, Leave, Remaining
<1>22. CASE SetStop
  BY <1>s, <1>q, <1>22 DEF TypeOK, SetStop
<1>23. CASE JoinWorkers
  BY <1>s, <1>q, <1>23 DEF TypeOK, JoinWorkers
<1>24. CASE WaitForClients
  BY <1>s, <1>q, <1>24 DEF TypeOK, WaitForClients
<1>25. CASE Report
  BY <1>s, <1>q, <1>25 DEF TypeOK, Report
<1>26. CASE UNCHANGED vars
  BY <1>s, <1>q, <1>26 DEF TypeOK, vars
<1> QED
  BY <1>1, <1>2, <1>3, <1>4, <1>5, <1>6, <1>7, <1>8, <1>9, <1>10, <1>11, <1>12, <1>13, <1>14, <1>15, <1>16, <1>17, <1>18, <1>19, <1>20, <1>21, <1>22, <1>23, <1>24, <1>25, <1>26
     DEF Next, Prefetch, Dispatch, Read, Complete, Monitor, Shutdown, Terminated

-----------------------------------------------------------------------------
(* The output queue.                                                       *)

LEMMA ResultAppended ==
    ASSUME TypeOK, NEW r \in Request, outputQueue' = Append(outputQueue, r)
    PROVE  /\ \A k \in DOMAIN outputQueue :
                  k \in Nat /\ k \in DOMAIN outputQueue' /\ outputQueue'[k] = outputQueue[k]
           /\ \A k \in DOMAIN outputQueue' : k \in DOMAIN outputQueue \/ outputQueue'[k] = r
           /\ \E k \in DOMAIN outputQueue' : k \in Nat /\ outputQueue'[k] = r
<1>1. outputQueue \in Seq(Request \cup {Sentinel}) /\ r \in Request \cup {Sentinel}
  BY DEF TypeOK
<1>2. /\ outputQueue' \in Seq(Request \cup {Sentinel})
      /\ Len(outputQueue') = Len(outputQueue) + 1
      /\ \A k \in 1..Len(outputQueue) : outputQueue'[k] = outputQueue[k]
      /\ outputQueue'[Len(outputQueue) + 1] = r
  BY <1>1, AppendProperties
<1>3. /\ Len(outputQueue) \in Nat /\ DOMAIN outputQueue = 1..Len(outputQueue)
      /\ DOMAIN outputQueue' = 1..(Len(outputQueue) + 1)
  BY <1>1, <1>2, LenProperties
<1> QED
  BY <1>2, <1>3

LEMMA FirstTaken ==
    ASSUME TypeOK, outputQueue # <<>>, outputQueue' = Tail(outputQueue)
    PROVE  /\ 1 \in DOMAIN outputQueue /\ Head(outputQueue) = outputQueue[1]
           /\ \A k \in DOMAIN outputQueue' :
                  k \in Nat /\ k + 1 \in DOMAIN outputQueue /\ outputQueue'[k] = outputQueue[k + 1]
           /\ \A k \in DOMAIN outputQueue :
                  /\ k \in Nat /\ k >= 1
                  /\ k # 1 => k - 1 \in DOMAIN outputQueue' /\ outputQueue'[k - 1] = outputQueue[k]
<1>1. outputQueue \in Seq(Request \cup {Sentinel})
  BY DEF TypeOK
<1>2. /\ Head(outputQueue) = outputQueue[1]
      /\ outputQueue' \in Seq(Request \cup {Sentinel})
      /\ Len(outputQueue') = Len(outputQueue) - 1
      /\ \A k \in 1..Len(outputQueue') : outputQueue'[k] = outputQueue[k + 1]
  BY <1>1, HeadTailProperties
<1>3. /\ Len(outputQueue) \in Nat /\ DOMAIN outputQueue = 1..Len(outputQueue)
      /\ DOMAIN outputQueue' = 1..(Len(outputQueue) - 1)
  BY <1>1, <1>2, LenProperties
<1>4. Len(outputQueue) # 0
  BY <1>1, EmptySeq
<1> QED
  BY <1>2, <1>3, <1>4

LEMMA SentinelsPut ==
    ASSUME TypeOK, WaitForClients
    PROVE  \A k \in DOMAIN outputQueue :
               k \in Nat /\ k \in DOMAIN outputQueue' /\ outputQueue'[k] = outputQueue[k]
<1>1. outputQueue \in Seq(Request \cup {Sentinel})
  BY DEF TypeOK
<1>2. Sentinels \in Seq(Request \cup {Sentinel})
  BY SentinelsAre
<1>3. outputQueue' = outputQueue \o Sentinels
  BY DEF WaitForClients, Sentinels
<1>4. /\ outputQueue' \in Seq(Request \cup {Sentinel})
      /\ Len(outputQueue') = Len(outputQueue) + Len(Sentinels)
      /\ \A k \in 1..Len(outputQueue) : outputQueue'[k] = outputQueue[k]
  BY <1>1, <1>2, <1>3, ConcatProperties
<1>5. /\ Len(outputQueue) \in Nat /\ DOMAIN outputQueue = 1..Len(outputQueue)
      /\ DOMAIN outputQueue' = 1..Len(outputQueue') /\ Len(Sentinels) \in Nat
  BY <1>1, <1>2, <1>4, LenProperties, SMTT(40)
<1> QED
  BY <1>4, <1>5

-----------------------------------------------------------------------------
(* The main thread and the stop.                                           *)

LEMMA StopStays ==
    ASSUME TypeOK, StopComesFirst, [Next]_vars
    PROVE  StopComesFirst'
<1> USE DEF StopComesFirst, schedulerVars, dispatchVars, clientVars, completionVars,
            mainVars, loopVars
<1>1. CASE \/ Monitor \/ LeaveInterrupted
  BY <1>1 DEF Monitor, Watch, KeepWatching, LeaveAfterGrace, LeaveSettled, LeaveFinished,
     LeaveInterrupted, Leave
<1>2. CASE SetStop \/ JoinWorkers \/ Report
  BY <1>2 DEF SetStop, JoinWorkers, Report
<1>3. CASE WaitForClients
  BY <1>3 DEF WaitForClients
<1>4. ASSUME NEW w \in Worker, NEW r \in Request, NEW o \in Outcome, Answer(w, r, o)
      PROVE  StopComesFirst'
  <2>1. outputQueue' = Append(outputQueue, r)
    BY <1>4 DEF Answer
  <2>2. \A k \in DOMAIN outputQueue' :
            (k \in DOMAIN outputQueue /\ outputQueue'[k] = outputQueue[k]) \/ outputQueue'[k] = r
    BY <2>1, ResultAppended
  <2>3. r # Sentinel
    BY RunAssumption DEF Sentinel
  <2>4. UNCHANGED <<pc, stop, exit, client, completer>>
    BY <1>4 DEF Answer
  <2> QED
    BY <2>2, <2>3, <2>4
<1>5. ASSUME NEW w \in Worker, CancelTasks(w) \/ ClientEnds(w)
      PROVE  StopComesFirst'
  BY <1>5 DEF CancelTasks, ClientEnds
<1>6. ASSUME NEW c \in Completer, GetResult(c) PROVE StopComesFirst'
  <2>1. outputQueue # <<>> /\ outputQueue' = Tail(outputQueue)
    BY <1>6 DEF GetResult
  <2>2. \A k \in DOMAIN outputQueue' : k + 1 \in DOMAIN outputQueue /\ outputQueue'[k] = outputQueue[k + 1]
    BY <2>1, FirstTaken
  <2> QED
    BY <2>2, <1>6 DEF GetResult
<1>7. ASSUME NEW c \in Completer, GetSentinel(c) PROVE StopComesFirst'
  <2>1. outputQueue # <<>> /\ outputQueue' = Tail(outputQueue) /\ Head(outputQueue) = Sentinel
    BY <1>7 DEF GetSentinel
  <2>2. 1 \in DOMAIN outputQueue /\ Head(outputQueue) = outputQueue[1]
    BY <2>1, FirstTaken
  <2>3. stop /\ UNCHANGED <<pc, stop, exit>>
    BY <2>1, <2>2, <1>7 DEF GetSentinel
  <2> QED
    BY <2>3
<1>8. ASSUME NEW c \in Completer, StartDrain(c) \/ DrainEnds(c)
      PROVE  StopComesFirst'
  BY <1>8 DEF StartDrain, DrainEnds
<1>9. CASE UNCHANGED <<pc, stop, exit, client, completer, outputQueue>>
  BY <1>9, SMTT(40)
<1> QED
  BY <1>1, <1>2, <1>3, <1>4, <1>5, <1>6, <1>7, <1>8, <1>9
     DEF Next, Prefetch, Dispatch, Read, Complete, Shutdown, Terminated, vars, Generate, Schedule,
     PrefetchEnds, Pop, Register, Put, DispatcherEnds, Take, Notify, Record, TimePasses

LEMMA PrefetchStays ==
    ASSUME TypeOK, SchedulerSound, StopComesFirst, PrefetchThrough, [Next]_vars
    PROVE  PrefetchThrough'
<1> USE DEF PrefetchThrough, schedulerVars, dispatchVars, clientVars, completionVars,
            mainVars, loopVars
<1>1. /\ unscheduled' \subseteq unscheduled
      /\ unscheduled = {} /\ sessions = {} => sessions' = {}
  BY SchedulerMonotonic
<1>2. CASE PrefetchEnds
  BY <1>1, <1>2 DEF PrefetchEnds
<1>3. CASE Watch \/ SetStop
  BY <1>1, <1>3 DEF Watch, SetStop
<1>4. CASE LeaveAfterGrace \/ LeaveSettled \/ LeaveInterrupted
  BY <1>1, <1>4 DEF LeaveAfterGrace, LeaveSettled, LeaveInterrupted, Leave
<1>5. CASE LeaveFinished
  BY <1>1, <1>5 DEF LeaveFinished, Leave, HasPendingWork, StopComesFirst
<1>6. CASE UNCHANGED <<prefetchDone, prefetchSeen, stop, exit>>
  BY <1>1, <1>6, SMTT(40)
<1> QED
  BY <1>2, <1>3, <1>4, <1>5, <1>6
     DEF Next, Prefetch, Dispatch, Read, Complete, Monitor, Shutdown, Terminated, vars, Generate,
     Schedule, Pop, Register, Put, DispatcherEnds, Take, Answer, CancelTasks, ClientEnds,
     GetResult, GetSentinel, Notify, Record, StartDrain, DrainEnds, TimePasses, KeepWatching,
     JoinWorkers, WaitForClients, Report

-----------------------------------------------------------------------------
(* What the evaluator and the monitor know.                                *)

LEMMA RegisteredStay ==
    ASSUME TypeOK, SchedulerSound, RegisteredWereSent, [Next]_vars
    PROVE  RegisteredWereSent'
<1> USE DEF RegisteredWereSent, schedulerVars, dispatchVars, clientVars, completionVars,
            mainVars, loopVars
<1>1. \A r \in Request : sentAt[r] # NotYet => sentAt'[r] # NotYet
  BY SchedulerMonotonic
<1>2. /\ \A d \in Dispatcher : dispatching[d] # None => dispatching[d] \in Request
      /\ registered \subseteq Request
  BY DEF TypeOK
<1>3. ASSUME NEW d \in Dispatcher, Pop(d) PROVE RegisteredWereSent'
  <2>1. PICK i \in Due(readyQueue) :
            ActivateAndPop({}, now, {i}) /\ dispatching' = [dispatching EXCEPT ![d] = i.req]
    BY <1>3, PopIs
  <2>2. MarkSent(i.req)
    BY <2>1 DEF ActivateAndPop
  <2>3. i.req \in Request /\ now # NotYet /\ sentAt \in [Request -> Nat \cup {NotYet}]
    BY <2>1 DEF Due, SchedulerSound, CoreInv, CoreTypeOK, NotYet
  <2>4. sentAt'[i.req] # NotYet
    BY <2>2, <2>3 DEF MarkSent
  <2>5. \A e \in Dispatcher : dispatching'[e] = IF e = d THEN i.req ELSE dispatching[e]
    BY <2>1 DEF TypeOK
  <2>6. UNCHANGED <<baseline, registered>>
    BY <1>3 DEF Pop
  <2> QED
    BY <1>1, <1>2, <2>4, <2>5, <2>6
<1>4. ASSUME NEW d \in Dispatcher, Register(d) PROVE RegisteredWereSent'
  BY <1>1, <1>2, <1>4 DEF Register
<1>5. ASSUME NEW d \in Dispatcher, NEW w \in Worker, Put(d, w) PROVE RegisteredWereSent'
  <2>1. \A e \in Dispatcher : dispatching'[e] = IF e = d THEN None ELSE dispatching[e]
    BY <1>5 DEF Put, TypeOK
  <2> QED
    BY <1>1, <1>2, <1>5, <2>1 DEF Put
<1>6. CASE Watch \/ LeaveAfterGrace \/ LeaveSettled \/ LeaveFinished \/ LeaveInterrupted
  BY <1>1, <1>2, <1>6 DEF Watch, LeaveAfterGrace, LeaveSettled, LeaveFinished,
     LeaveInterrupted, Leave
<1>7. CASE UNCHANGED <<dispatching, baseline, registered>>
  BY <1>1, <1>2, <1>7, SMTT(40)
<1> QED
  BY <1>3, <1>4, <1>5, <1>6, <1>7
     DEF Next, Prefetch, Dispatch, Read, Complete, Monitor, Shutdown, Terminated, vars, Generate,
     Schedule, PrefetchEnds, DispatcherEnds, Take, Answer, CancelTasks, ClientEnds,
     GetResult, GetSentinel, Notify, Record, StartDrain, DrainEnds, TimePasses, KeepWatching,
     SetStop, JoinWorkers, WaitForClients, Report

LEMMA IncludedStay ==
    ASSUME TypeOK, SchedulerSound, RegisteredWereSent, IncludedHaveCompleted, [Next]_vars
    PROVE  IncludedHaveCompleted'
<1> USE DEF IncludedHaveCompleted, schedulerVars, dispatchVars, clientVars, completionVars,
            mainVars, loopVars
<1>1. \A r \in Request : completions[r] # NotYet => completions'[r] # NotYet
  BY SchedulerMonotonic
<1>2. included \subseteq Request /\ baseline \subseteq Request
  BY DEF TypeOK
<1>3. CASE LeaveAfterGrace \/ LeaveSettled
  <2>1. \A r \in baseline : r \notin inFlight => completions[r] # NotYet
    BY <1>2, SchedulerSays DEF RegisteredWereSent
  <2>2. \A r \in included' : r \in baseline /\ r \notin inFlight
    BY <1>3 DEF LeaveAfterGrace, LeaveSettled, Leave, Remaining
  <2> QED
    BY <1>1, <1>2, <2>1, <2>2
<1>4. CASE LeaveFinished \/ LeaveInterrupted
  BY <1>4 DEF LeaveFinished, LeaveInterrupted, Leave
<1>5. CASE UNCHANGED <<exit, included>>
  BY <1>1, <1>2, <1>5, SMTT(40)
<1> QED
  BY <1>3, <1>4, <1>5
     DEF Next, Prefetch, Dispatch, Read, Complete, Monitor, Shutdown, Terminated, vars, Generate,
     Schedule, Pop, Register, Put, PrefetchEnds, DispatcherEnds, Take, Answer, CancelTasks,
     ClientEnds, GetResult, GetSentinel, Notify, Record, StartDrain, DrainEnds, TimePasses, Watch,
     KeepWatching, SetStop, JoinWorkers, WaitForClients, Report

-----------------------------------------------------------------------------
(* The way of a result: queued, held, recorded.                            *)

LEMMA HeldMoves ==
    ASSUME TypeOK, NEW r \in Request, Held(r), [Next]_vars
    PROVE  Held(r)' \/ (r \in recorded' /\ r \notin owed')
<1> USE DEF schedulerVars, dispatchVars, clientVars, completionVars, mainVars, loopVars
<1>1. PICK c \in Completer : holding[c] = r
  BY DEF Held
<1>2. r # None /\ holding \in [Completer -> Request \cup {None}]
  BY RunAssumption DEF None, TypeOK
<1>3. ASSUME NEW e \in Completer, GetResult(e) PROVE Held(r)'
  BY <1>1, <1>2, <1>3 DEF GetResult, Idle, Held
<1>4. ASSUME NEW e \in Completer, Record(e) PROVE Held(r)' \/ (r \in recorded' /\ r \notin owed')
  BY <1>1, <1>2, <1>4 DEF Record, Held
<1>5. CASE UNCHANGED holding
  BY <1>1, <1>5 DEF Held
<1> QED
  BY <1>3, <1>4, <1>5
     DEF Next, Prefetch, Dispatch, Read, Complete, Monitor, Shutdown, Terminated, vars, Generate,
     Schedule, Pop, Register, Put, PrefetchEnds, DispatcherEnds, Take, Answer, CancelTasks,
     ClientEnds, GetSentinel, Notify, StartDrain, DrainEnds, TimePasses, Watch, KeepWatching,
     LeaveAfterGrace, LeaveSettled, LeaveFinished, LeaveInterrupted, Leave, SetStop, JoinWorkers,
     WaitForClients, Report

\* A queued result stays queued, no further back and behind no sentinel it was
\* not behind, until a completion worker takes it.
LEMMA QueuedMoves ==
    ASSUME TypeOK, NEW r \in Request, NEW k \in Nat, QueuedAt(r, k), [Next]_vars
    PROVE  \/ Held(r)'
           \/ \E l \in Nat :
                 /\ QueuedAt(r, l)'
                 /\ (\A j \in 1..k : outputQueue[j] # Sentinel) =>
                        \A j \in 1..l : outputQueue'[j] # Sentinel
<1>1. /\ k \in DOMAIN outputQueue /\ outputQueue[k] = r
      /\ DOMAIN outputQueue = 1..Len(outputQueue) /\ Len(outputQueue) \in Nat
  BY LenProperties DEF QueuedAt, TypeOK
<1>2. \A j \in 1..k : j \in DOMAIN outputQueue
  BY <1>1
<1>3. ASSUME \A j \in DOMAIN outputQueue : j \in DOMAIN outputQueue' /\ outputQueue'[j] = outputQueue[j]
      PROVE  /\ QueuedAt(r, k)'
             /\ (\A j \in 1..k : outputQueue[j] # Sentinel) =>
                    \A j \in 1..k : outputQueue'[j] # Sentinel
  BY <1>1, <1>2, <1>3 DEF QueuedAt
<1>4. ASSUME NEW w \in Worker, NEW q \in Request, NEW o \in Outcome, Answer(w, q, o)
      PROVE  \A j \in DOMAIN outputQueue : j \in DOMAIN outputQueue' /\ outputQueue'[j] = outputQueue[j]
  BY <1>4, ResultAppended DEF Answer
<1>5. ASSUME WaitForClients
      PROVE  \A j \in DOMAIN outputQueue : j \in DOMAIN outputQueue' /\ outputQueue'[j] = outputQueue[j]
  BY <1>5, SentinelsPut
<1>6. ASSUME NEW c \in Completer, GetResult(c) \/ GetSentinel(c)
      PROVE  \/ Held(r)'
             \/ /\ k - 1 \in Nat /\ QueuedAt(r, k - 1)'
                /\ (\A j \in 1..k : outputQueue[j] # Sentinel) =>
                       \A j \in 1..(k - 1) : outputQueue'[j] # Sentinel
  <2>1. /\ 1 \in DOMAIN outputQueue /\ Head(outputQueue) = outputQueue[1]
        /\ \A j \in DOMAIN outputQueue' :
               j \in Nat /\ j + 1 \in DOMAIN outputQueue /\ outputQueue'[j] = outputQueue[j + 1]
        /\ \A j \in DOMAIN outputQueue :
               /\ j \in Nat /\ j >= 1
               /\ j # 1 => j - 1 \in DOMAIN outputQueue' /\ outputQueue'[j - 1] = outputQueue[j]
    BY <1>6, FirstTaken DEF GetResult, GetSentinel
  <2>2. CASE k = 1
    <3>1. Head(outputQueue) = r /\ r # Sentinel
      BY <1>1, <2>1, <2>2, RunAssumption DEF Sentinel
    <3>2. GetResult(c)
      BY <3>1, <1>6 DEF GetSentinel
    <3> QED
      BY <3>1, <3>2 DEF GetResult, Held, TypeOK
  <2>3. CASE k # 1
    <3>1. k - 1 \in Nat /\ QueuedAt(r, k - 1)'
      BY <1>1, <2>1, <2>3 DEF QueuedAt
    <3>2. ASSUME \A j \in 1..k : outputQueue[j] # Sentinel, NEW j \in 1..(k - 1)
          PROVE  outputQueue'[j] # Sentinel
      <4>1. j + 1 \in 1..k /\ j + 1 \in DOMAIN outputQueue /\ j + 1 # 1 /\ (j + 1) - 1 = j
        BY <1>2, <3>2
      <4>2. outputQueue'[j] = outputQueue[j + 1]
        BY <2>1, <4>1
      <4> QED
        BY <3>2, <4>1, <4>2
    <3> QED
      BY <3>1, <3>2
  <2> QED
    BY <2>2, <2>3
<1>7. CASE UNCHANGED outputQueue
  BY <1>3, <1>7, SMTT(40)
<1> QED
  BY <1>3, <1>4, <1>5, <1>6, <1>7, OutputMoves

LEMMA RecordedGrows ==
    ASSUME [Next]_vars
    PROVE  recorded \subseteq recorded'
  BY DEF Next, Prefetch, Dispatch, Read, Complete, Monitor, Shutdown, Terminated, vars,
     schedulerVars, dispatchVars, clientVars, completionVars, mainVars, loopVars, Generate,
     Schedule, Pop, Register, Put, PrefetchEnds, DispatcherEnds, Take, Answer, CancelTasks,
     ClientEnds, GetResult, GetSentinel, Notify, Record, StartDrain, DrainEnds, TimePasses,
     Watch, KeepWatching, LeaveAfterGrace, LeaveSettled, LeaveFinished, LeaveInterrupted,
     Leave, SetStop, JoinWorkers, WaitForClients, Report

LEMMA ResultMoves ==
    ASSUME TypeOK, NEW r \in Request, r \in recorded \/ Held(r) \/ Queued(r), [Next]_vars
    PROVE  r \in recorded' \/ Held(r)' \/ Queued(r)'
<1>1. Queued(r) => Held(r)' \/ Queued(r)'
  BY QueuedMoves DEF Queued
<1>2. Held(r) => r \in recorded' \/ Held(r)'
  BY HeldMoves
<1> QED
  BY <1>1, <1>2, RecordedGrows

LEMMA ResultsStay ==
    ASSUME TypeOK, SchedulerSound, ResultsKept, [Next]_vars
    PROVE  ResultsKept'
<1> USE DEF schedulerVars, dispatchVars, clientVars, completionVars, mainVars, loopVars
<1>1. \A r \in Request : completions[r] # NotYet => completions'[r] # NotYet
  BY SchedulerMonotonic
<1>2. ASSUME NEW r \in Request, result'[r] # None
      PROVE  r \in recorded' \/ Held(r)' \/ Queued(r)'
  <2>1. CASE result[r] # None
    BY <2>1, ResultMoves DEF ResultsKept
  <2>2. CASE result[r] = None
    <3>1. PICK w \in Worker, q \in Request, o \in Outcome : Answer(w, q, o)
      BY <1>2, <2>2
         DEF Next, Prefetch, Dispatch, Read, Complete, Monitor, Shutdown, Terminated, vars,
         Generate, Schedule, Pop, Register, Put, PrefetchEnds, DispatcherEnds, Take, CancelTasks,
         ClientEnds, GetResult, GetSentinel, Notify, Record, StartDrain, DrainEnds, TimePasses,
         Watch, KeepWatching, LeaveAfterGrace, LeaveSettled, LeaveFinished, LeaveInterrupted,
         Leave, SetStop, JoinWorkers, WaitForClients, Report
    <3>2. outputQueue' = Append(outputQueue, q) /\ result' = [result EXCEPT ![q] = o]
      BY <3>1 DEF Answer
    <3>3. r = q
      BY <1>2, <2>2, <3>2 DEF TypeOK
    <3>4. \E k \in DOMAIN outputQueue' : k \in Nat /\ outputQueue'[k] = q
      BY <3>2, ResultAppended
    <3> QED
      BY <3>3, <3>4, SMTT(40) DEF Queued, QueuedAt
  <2> QED
    BY <2>1, <2>2
<1>3. ASSUME NEW r \in Request, completions'[r] # NotYet
      PROVE  r \in recorded' \/ Held(r)'
  <2>1. CASE completions[r] # NotYet
    <3>1. r \in recorded \/ Held(r)
      BY <2>1 DEF ResultsKept
    <3>2. Held(r) => r \in recorded' \/ Held(r)'
      BY HeldMoves
    <3> QED
      BY <3>1, <3>2, RecordedGrows
  <2>2. CASE completions[r] = NotYet
    <3>1. ASSUME NEW s \in Session, Schedule(s) PROVE UNCHANGED completions
      BY <3>1, ScheduleIs DEF ActivateAndPop
    <3>2. ASSUME NEW d \in Dispatcher, Pop(d) PROVE UNCHANGED completions
      BY <3>2, PopIs DEF ActivateAndPop
    <3>3. PICK c \in Completer : Notify(c)
      BY <1>3, <2>2, <3>1, <3>2, SchedulerMoves DEF coreVars
    <3>4. completions' = [completions EXCEPT ![holding[c]] = now]
      BY <3>3, NotifyIs DEF CompleteAndActivate
    <3>5. holding[c] = r
      BY <1>3, <2>2, <3>4 DEF SchedulerSound, CoreInv, CoreTypeOK
    <3> QED
      BY <3>3, <3>5 DEF Notify, Held
  <2> QED
    BY <2>1, <2>2
<1>4. ASSUME NEW r \in recorded' PROVE completions'[r] # NotYet
  <2>1. recorded \subseteq Request /\ \A c \in Completer : holding[c] \in Request \cup {None}
    BY DEF TypeOK
  <2>2. ASSUME NEW c \in Completer, Record(c) PROVE completions'[r] # NotYet
    BY <1>1, <1>4, <2>1, <2>2 DEF Record, ResultsKept
  <2>3. CASE UNCHANGED recorded
    BY <1>1, <1>4, <2>1, <2>3, SMTT(40) DEF ResultsKept
  <2> QED
    BY <2>2, <2>3
       DEF Next, Prefetch, Dispatch, Read, Complete, Monitor, Shutdown, Terminated, vars,
       Generate, Schedule, Pop, Register, Put, PrefetchEnds, DispatcherEnds, Take, Answer,
       CancelTasks, ClientEnds, GetResult, GetSentinel, Notify, StartDrain, DrainEnds,
       TimePasses, Watch, KeepWatching, LeaveAfterGrace, LeaveSettled, LeaveFinished,
       LeaveInterrupted, Leave, SetStop, JoinWorkers, WaitForClients, Report
<1>5. \A c \in Completer : holding'[c] # None => completer'[c] # "done"
  <2>1. \A c \in Completer : holding[c] # None => completer[c] # "done"
    BY DEF ResultsKept
  <2>2. holding \in [Completer -> Request \cup {None}] /\ DOMAIN completer = Completer
    BY DEF TypeOK
  <2>3. ASSUME NEW c \in Completer, GetResult(c) \/ Record(c)
        PROVE  \A e \in Completer : holding'[e] # None => completer'[e] # "done"
    BY <2>1, <2>2, <2>3 DEF GetResult, Record, Idle
  <2>4. ASSUME NEW c \in Completer, GetSentinel(c) \/ StartDrain(c) \/ DrainEnds(c)
        PROVE  \A e \in Completer : holding'[e] # None => completer'[e] # "done"
    BY <2>1, <2>2, <2>4 DEF GetSentinel, StartDrain, DrainEnds, Idle
  <2>5. CASE UNCHANGED <<holding, completer>>
    BY <2>1, <2>5, SMTT(40)
  <2> QED
    BY <2>3, <2>4, <2>5
       DEF Next, Prefetch, Dispatch, Read, Complete, Monitor, Shutdown, Terminated, vars,
       Generate, Schedule, Pop, Register, Put, PrefetchEnds, DispatcherEnds, Take, Answer,
       CancelTasks, ClientEnds, Notify, TimePasses, Watch, KeepWatching, LeaveAfterGrace,
       LeaveSettled, LeaveFinished, LeaveInterrupted, Leave, SetStop, JoinWorkers,
       WaitForClients, Report
<1> QED
  BY <1>2, <1>3, <1>4, <1>5 DEF ResultsKept

\* What is owed at the stop is fetched before a completion worker can end.
LEMMA OwedStay ==
    ASSUME TypeOK, StopComesFirst, ResultsKept, OwedAhead, [Next]_vars
    PROVE  OwedAhead'
<1> USE DEF schedulerVars, dispatchVars, clientVars, completionVars, mainVars, loopVars
<1>1. owed \subseteq Request /\ DOMAIN completer = Completer
  BY DEF TypeOK
<1>2. ASSUME NEW r \in owed, NEW k \in Nat, QueuedAt(r, k), outputQueue[1] = Sentinel
      PROVE  \E j \in 1..k : outputQueue[j] = Sentinel
  <2>1. k \in 1..Len(outputQueue)
    BY <1>2, LenProperties DEF QueuedAt, TypeOK
  <2> QED
    BY <1>2, <2>1
<1>3. CASE SetStop
  <2>1. /\ owed' = {r \in Request : result[r] # None} \ recorded
        /\ UNCHANGED <<outputQueue, holding, completer>>
        /\ ~stop
    BY <1>3 DEF SetStop, StopComesFirst
  <2>2. /\ \A c \in Completer : completer[c] = "getting"
        /\ \A k \in DOMAIN outputQueue : outputQueue[k] # Sentinel
    BY <2>1 DEF StopComesFirst
  <2>3. ASSUME NEW r \in owed', ~Held(r)
        PROVE  \E k \in Nat : QueuedAt(r, k) /\ \A j \in 1..k : outputQueue[j] # Sentinel
    <3>1. PICK k \in Nat : QueuedAt(r, k)
      BY <2>1, <2>3 DEF ResultsKept, Queued
    <3>2. \A j \in 1..k : j \in DOMAIN outputQueue
      BY <3>1, LenProperties DEF QueuedAt, TypeOK
    <3> QED
      BY <2>2, <3>1, <3>2
  <2> QED
    BY <2>1, <2>2, <2>3 DEF OwedAhead, Held, QueuedAt
<1>4. CASE owed' \subseteq owed
  <2>1. ASSUME NEW r \in owed'
        PROVE  \/ Held(r)'
               \/ \E k \in Nat : QueuedAt(r, k)' /\ \A j \in 1..k : outputQueue'[j] # Sentinel
    <3>1. r \in owed /\ r \in Request
      BY <1>1, <1>4, <2>1
    <3>2. CASE Held(r)
      BY <2>1, <3>1, <3>2, HeldMoves
    <3>3. CASE ~Held(r)
      <4>1. PICK k \in Nat : QueuedAt(r, k) /\ \A j \in 1..k : outputQueue[j] # Sentinel
        BY <3>1, <3>3 DEF OwedAhead
      <4> QED
        BY <3>1, <4>1, QueuedMoves
    <3> QED
      BY <3>2, <3>3
  <2>2. ASSUME NEW c \in Completer, completer'[c] = "done", NEW r \in owed'
        PROVE  Held(r)'
    <3>1. r \in owed /\ r \in Request
      BY <1>1, <1>4, <2>2
    <3>2. CASE \E e \in Completer : completer[e] = "done"
      <4>1. Held(r)
        BY <3>1, <3>2 DEF OwedAhead
      <4> QED
        BY <2>2, <3>1, <4>1, HeldMoves
    <3>3. CASE GetSentinel(c) \/ DrainEnds(c)
      <4>1. UNCHANGED holding
        BY <3>3 DEF GetSentinel, DrainEnds
      <4>2. Held(r)
        <5>1. SUFFICES ASSUME ~Held(r) PROVE FALSE
          OBVIOUS
        <5>2. PICK k \in Nat : QueuedAt(r, k) /\ \A j \in 1..k : outputQueue[j] # Sentinel
          BY <3>1, <5>1 DEF OwedAhead
        <5>3. CASE GetSentinel(c)
          <6>1. outputQueue[1] = Sentinel
            BY <5>3, FirstTaken DEF GetSentinel
          <6> QED
            BY <1>2, <3>1, <5>2, <6>1
        <5>4. CASE DrainEnds(c)
          BY <5>2, <5>4, SMTT(40) DEF DrainEnds, QueuedAt
        <5> QED
          BY <3>3, <5>3, <5>4
      <4> QED
        BY <4>1, <4>2 DEF Held
    <3>4. completer[c] = "done" \/ GetSentinel(c) \/ DrainEnds(c)
      <4>1. CASE \E e \in Completer : Complete(e)
        BY <1>1, <2>2, <4>1
           DEF Complete, GetResult, GetSentinel, DrainEnds, Notify, Record, StartDrain
      <4>2. CASE ~\E e \in Completer : Complete(e)
        <5>1. UNCHANGED completer
          BY <4>2
             DEF Next, Prefetch, Dispatch, Read, Monitor, Shutdown, Terminated, vars, Generate,
             Schedule, Pop, Register, Put, PrefetchEnds, DispatcherEnds, Take, Answer, CancelTasks,
             ClientEnds, TimePasses, Watch, KeepWatching, LeaveAfterGrace, LeaveSettled,
             LeaveFinished, LeaveInterrupted, Leave, SetStop, JoinWorkers, WaitForClients, Report
        <5> QED
          BY <2>2, <5>1
      <4> QED
        BY <4>1, <4>2
    <3> QED
      BY <3>2, <3>3, <3>4
  <2> QED
    BY <2>1, <2>2 DEF OwedAhead
<1> QED
  BY <1>3, <1>4
     DEF Next, Prefetch, Dispatch, Read, Complete, Monitor, Shutdown, Terminated, vars,
     Generate, Schedule, Pop, Register, Put, PrefetchEnds, DispatcherEnds, Take, Answer,
     CancelTasks, ClientEnds, GetResult, GetSentinel, Notify, Record, StartDrain, DrainEnds,
     TimePasses, Watch, KeepWatching, LeaveAfterGrace, LeaveSettled, LeaveFinished,
     LeaveInterrupted, Leave, JoinWorkers, WaitForClients, Report

-----------------------------------------------------------------------------
(* No request is lost before the stop.                                     *)

Carried(r) ==
    \/ \E d \in Dispatcher : dispatching[d] = r
    \/ \E w \in Worker : r \in clientQueue[w] \cup tasks[w]

LEMMA NothingLostStays ==
    ASSUME TypeOK, SchedulerSound, StopComesFirst, NothingLostBeforeStop, [Next]_vars
    PROVE  NothingLostBeforeStop'
<1> SUFFICES ASSUME ~stop', NEW r \in Request, sentAt'[r] # NotYet
             PROVE  r \in recorded' \/ Carried(r)' \/ Queued(r)' \/ Held(r)'
  BY SMTT(40) DEF NothingLostBeforeStop, Dispatched, Carried, Queued, QueuedAt, Held
<1> USE DEF schedulerVars, dispatchVars, clientVars, completionVars, mainVars, loopVars
<1>1. ~stop
  BY DEF Next, Prefetch, Dispatch, Read, Complete, Monitor, Shutdown, Terminated, vars,
     Generate, Schedule, Pop, Register, Put, PrefetchEnds, DispatcherEnds, Take, Answer,
     CancelTasks, ClientEnds, GetResult, GetSentinel, Notify, Record, StartDrain, DrainEnds,
     TimePasses, Watch, KeepWatching, LeaveAfterGrace, LeaveSettled, LeaveFinished,
     LeaveInterrupted, Leave, SetStop, JoinWorkers, WaitForClients, Report
<1>2. sentAt[r] # NotYet => r \in recorded \/ Carried(r) \/ Queued(r) \/ Held(r)
  <2>1. outputQueue \in Seq(Request \cup {Sentinel})
    BY DEF TypeOK
  <2>2. \A k \in DOMAIN outputQueue : k \in Nat
    BY <2>1, LenProperties
  <2> QED
    BY <1>1, <2>2 DEF NothingLostBeforeStop, Dispatched, Carried, Queued, QueuedAt, Held
<1>3. r \in recorded \/ Held(r) \/ Queued(r) => r \in recorded' \/ Held(r)' \/ Queued(r)'
  BY ResultMoves
<1>4. /\ DOMAIN dispatching = Dispatcher /\ DOMAIN clientQueue = Worker /\ DOMAIN tasks = Worker
      /\ r # None
  BY RunAssumption DEF TypeOK, None
<1>5. ASSUME NEW d \in Dispatcher, Pop(d) PROVE Carried(r)' \/ (sentAt[r] # NotYet /\ (Carried(r) => Carried(r)'))
  <2>1. PICK i \in Due(readyQueue) :
            ActivateAndPop({}, now, {i}) /\ dispatching' = [dispatching EXCEPT ![d] = i.req]
    BY <1>5, PopIs
  <2>2. MarkSent(i.req)
    BY <2>1 DEF ActivateAndPop
  <2>3. sentAt \in [Request -> Nat \cup {NotYet}]
    BY DEF SchedulerSound, CoreInv, CoreTypeOK
  <2>4. r = i.req \/ sentAt[r] # NotYet
    BY <2>2, <2>3 DEF MarkSent
  <2>5. r = i.req => Carried(r)'
    BY <1>4, <2>1 DEF Carried
  <2>6. Carried(r) => Carried(r)'
    BY <1>4, <1>5, <2>1 DEF Carried, Pop
  <2> QED
    BY <2>4, <2>5, <2>6
<1>6. ASSUME ~ \E d \in Dispatcher : Pop(d)
      PROVE  sentAt[r] # NotYet
  <2>1. ASSUME NEW s \in Session, Schedule(s) PROVE UNCHANGED sentAt
    BY <2>1, ScheduleIs DEF ActivateAndPop
  <2>2. ASSUME NEW c \in Completer, Notify(c) PROVE UNCHANGED sentAt
    BY <2>2, NotifyIs DEF CompleteAndActivate
  <2> QED
    BY <1>6, <2>1, <2>2, SchedulerMoves DEF coreVars
<1>7. ASSUME NEW d \in Dispatcher, NEW w \in Worker, Put(d, w), Carried(r) PROVE Carried(r)'
  BY <1>4, <1>7 DEF Put, Carried
<1>8. ASSUME NEW w \in Worker, NEW q \in Request, Take(w, q), Carried(r) PROVE Carried(r)'
  BY <1>4, <1>8 DEF Take, Carried
<1>9. ASSUME NEW w \in Worker, NEW q \in Request, NEW o \in Outcome, Answer(w, q, o), Carried(r)
      PROVE  Carried(r)' \/ Queued(r)'
  <2>1. outputQueue' = Append(outputQueue, q)
    BY <1>9 DEF Answer
  <2>2. \E k \in DOMAIN outputQueue' : k \in Nat /\ outputQueue'[k] = q
    BY <2>1, ResultAppended
  <2>3. r = q => Queued(r)'
    BY <2>2 DEF Queued, QueuedAt
  <2>4. r # q => Carried(r)'
    BY <1>4, <1>9 DEF Answer, Carried
  <2> QED
    BY <2>3, <2>4
<1>10. ASSUME NEW w \in Worker, ClientEnds(w) PROVE FALSE
  BY <1>1, <1>10, SMTT(40) DEF ClientEnds, StopComesFirst
<1>11. \/ \E d \in Dispatcher : Pop(d)
       \/ \E d \in Dispatcher, w \in Worker : Put(d, w)
       \/ \E w \in Worker, q \in Request : Take(w, q)
       \/ \E w \in Worker, q \in Request, o \in Outcome : Answer(w, q, o)
       \/ UNCHANGED <<dispatching, clientQueue, tasks>>
  BY <1>10 DEF Next, Prefetch, Dispatch, Read, Complete, Monitor, Shutdown, Terminated, vars,
     Generate, Schedule, Register, PrefetchEnds, DispatcherEnds, CancelTasks, GetResult,
     GetSentinel, Notify, Record, StartDrain, DrainEnds, TimePasses, Watch, KeepWatching,
     LeaveAfterGrace, LeaveSettled, LeaveFinished, LeaveInterrupted, Leave, SetStop,
     JoinWorkers, WaitForClients, Report
<1>12. Carried(r) => Carried(r)' \/ Queued(r)'
  <2>1. UNCHANGED <<dispatching, clientQueue, tasks>> /\ Carried(r) => Carried(r)'
    BY DEF Carried
  <2>2. ASSUME NEW d \in Dispatcher, Pop(d), Carried(r) PROVE Carried(r)'
    BY <1>5, <2>2
  <2> QED
    BY <1>7, <1>8, <1>9, <1>11, <2>1, <2>2
<1> QED
  BY <1>2, <1>3, <1>5, <1>6, <1>12

-----------------------------------------------------------------------------
(* The report.                                                             *)

\* When every completion worker is through, nothing is owed or held.
LEMMA AllThrough ==
    ASSUME TypeOK, ResultsKept, OwedAhead, \A c \in Completer : completer[c] = "done"
    PROVE  owed = {} /\ \A r \in Request : ~Held(r)
<1>1. \A c \in Completer : holding[c] = None
  BY DEF ResultsKept
<1>2. \A r : r # None => ~Held(r)
  BY <1>1 DEF Held
<1>3. ASSUME NEW r \in owed PROVE Held(r)
  BY RunAssumption DEF OwedAhead
<1>4. \A r \in Request : r # None
  BY RunAssumption DEF None
<1> QED
  BY <1>2, <1>3, <1>4 DEF TypeOK

LEMMA JoinedStays ==
    ASSUME TypeOK, SchedulerSound, PrefetchThrough, IncludedHaveCompleted, ResultsKept,
           OwedAhead, JoinedReport, [Next]_vars
    PROVE  JoinedReport'
<1> SUFFICES ASSUME Prompt PROVE ReportIsComplete' /\ IncludedAreReported'
  BY DEF JoinedReport
<1> USE DEF schedulerVars, dispatchVars, clientVars, completionVars, mainVars, loopVars
<1>1. /\ \A r \in Request : sentAt[r] # NotYet => sentAt'[r] # NotYet
      /\ exit = "finished" => \A r \in Request : sentAt'[r] # NotYet => sentAt[r] # NotYet
  BY SchedulerMonotonic DEF PrefetchThrough
<1>2. CASE Report
  <2>1. /\ \A c \in Completer : completer[c] = "done"
        /\ report' = recorded
        /\ UNCHANGED <<owed, exit, included, sentAt, completions>>
    BY <1>2 DEF Report, coreVars
  <2>2. owed = {} /\ \A r \in Request : ~Held(r)
    BY <2>1, AllThrough
  <2>3. \A r \in Request : completions[r] # NotYet <=> r \in recorded
    BY <2>2 DEF ResultsKept
  <2>4. ASSUME exit = "finished" PROVE recorded = Dispatched
    <3>1. \A r \in Request : completions[r] # NotYet <=> sentAt[r] # NotYet
      BY <2>4, SchedulerSays DEF PrefetchThrough
    <3> QED
      BY <2>3, <3>1 DEF Dispatched, TypeOK
  <2>5. exit \in {"settled", "grace"} => included \subseteq recorded
    BY <2>3 DEF IncludedHaveCompleted, TypeOK
  <2> QED
    BY <2>1, <2>2, <2>4, <2>5 DEF ReportIsComplete, IncludedAreReported, Dispatched
<1>3. CASE ~Report
  <2> SUFFICES ASSUME pc' = "done" PROVE ReportIsComplete' /\ IncludedAreReported'
    BY SMTT(40) DEF ReportIsComplete, IncludedAreReported
  <2>1. pc = "done" /\ UNCHANGED <<report, exit, included>> /\ owed' \subseteq owed
    BY <1>3
       DEF Next, Prefetch, Dispatch, Read, Complete, Monitor, Shutdown, Terminated, vars,
       Generate, Schedule, Pop, Register, Put, PrefetchEnds, DispatcherEnds, Take, Answer,
       CancelTasks, ClientEnds, GetResult, GetSentinel, Notify, Record, StartDrain, DrainEnds,
       TimePasses, Watch, KeepWatching, LeaveAfterGrace, LeaveSettled, LeaveFinished,
       LeaveInterrupted, Leave, SetStop, JoinWorkers, WaitForClients
  <2>2. exit = "finished" => Dispatched' = Dispatched
    BY <1>1 DEF Dispatched
  <2> QED
    BY <2>1, <2>2 DEF JoinedReport, ReportIsComplete, IncludedAreReported
<1> QED
  BY <1>2, <1>3

-----------------------------------------------------------------------------
(* The theorems.                                                           *)

LEMMA Initially == Init => IInv
<1> SUFFICES ASSUME Init PROVE IInv
  OBVIOUS
<1>1. CoreInit /\ nextStart = 0 /\ startTime = [s \in Session |-> NotYet]
  BY DEF Init, Scheduler!Init, Scheduler!CoreInit, CoreInit, Scheduler!NotYet, NotYet
<1>2. SchedulerSound
  BY <1>1, CoreInitially, SessionAssumption DEF SchedulerSound, CoreInit
<1>3. Scheduler!TypeOK
  <2>1. CoreTypeOK
    BY <1>2 DEF SchedulerSound, CoreInv
  <2> QED
    BY <1>1, <2>1 DEF Scheduler!TypeOK, Scheduler!CoreTypeOK, CoreTypeOK, Scheduler!NotYet, NotYet,
       Scheduler!Reports, Reports
<1>4. TypeOK
  <2>1. outputQueue \in Seq(Request \cup {Sentinel})
    BY DEF Init
  <2> QED
    BY <1>3, <2>1 DEF TypeOK, Init
<1>5. \A r \in Request : sentAt[r] = NotYet /\ completions[r] = NotYet
  BY <1>1 DEF CoreInit
<1>6. outputQueue = <<>> /\ DOMAIN outputQueue = {}
  BY DEF Init
<1>7. StopComesFirst /\ PrefetchThrough /\ RegisteredWereSent /\ IncludedHaveCompleted
  BY <1>6 DEF Init, StopComesFirst, PrefetchThrough, RegisteredWereSent, IncludedHaveCompleted, None
<1>8. ResultsKept /\ OwedAhead
  BY <1>5 DEF Init, ResultsKept, OwedAhead
<1>9. NothingLostBeforeStop /\ JoinedReport
  BY <1>5 DEF Init, NothingLostBeforeStop, Dispatched, JoinedReport, ReportIsComplete, IncludedAreReported
<1> QED
  BY <1>2, <1>4, <1>7, <1>8, <1>9 DEF IInv

LEMMA Inductive == IInv /\ [Next]_vars => IInv'
<1> SUFFICES ASSUME IInv, [Next]_vars PROVE IInv'
  OBVIOUS
<1> USE DEF IInv
<1>1. SchedulerSound'
  BY SchedulerStays
<1>2. TypeOK'
  BY <1>1, TypesStay
<1>3. StopComesFirst' /\ PrefetchThrough'
  BY StopStays, PrefetchStays
<1>4. RegisteredWereSent' /\ IncludedHaveCompleted'
  BY RegisteredStay, IncludedStay
<1>5. ResultsKept' /\ OwedAhead'
  BY ResultsStay, OwedStay
<1>6. NothingLostBeforeStop' /\ JoinedReport'
  BY NothingLostStays, JoinedStays
<1> QED
  BY <1>1, <1>2, <1>3, <1>4, <1>5, <1>6

\* The inductive invariant holds throughout, for any number of threads in each
\* pool, any timeouts, interrupts, and joins that may or may not outlast their
\* threads.
THEOREM Invariance == Spec => []IInv
  BY Initially, Inductive, PTL DEF Spec

\* Every field keeps its type.
THEOREM TypeCorrect == Spec => []TypeOK
<1>1. IInv => TypeOK
  BY DEF IInv
<1> QED
  BY <1>1, Invariance, PTL

\* The monitor declares the run finished only when the prefetch worker is
\* through and every request has completed or was dropped with its session,
\* though it reads the prefetch thread first and the scheduler later.
THEOREM FinishedIsDone == Spec => []EndsOnlyWhenDone
<1>1. IInv => EndsOnlyWhenDone
  BY SchedulerSays DEF IInv, PrefetchThrough, EndsOnlyWhenDone, Dispatched
<1> QED
  BY <1>1, Invariance, PTL

\* Until stop_event is set each dispatched request is in the hands of a thread,
\* in a queue, or recorded.
THEOREM NothingLost == Spec => []NothingLostBeforeStop
<1>1. IInv => NothingLostBeforeStop
  BY DEF IInv
<1> QED
  BY <1>1, Invariance, PTL

\* If every join outlasts its thread, the report has what was answered before
\* the stop, and all that was dispatched when the run was finished.
THEOREM ReportComplete == Spec => [](Prompt => ReportIsComplete)
<1>1. IInv => (Prompt => ReportIsComplete)
  BY DEF IInv, JoinedReport
<1> QED
  BY <1>1, Invariance, PTL

\* And it has every request that the monitor declared included.
THEOREM IncludedReported == Spec => [](Prompt => IncludedAreReported)
<1>1. IInv => (Prompt => IncludedAreReported)
  BY DEF IInv, JoinedReport
<1> QED
  BY <1>1, Invariance, PTL

-----------------------------------------------------------------------------
(* The run as the driver of its scheduler.                                 *)

\* A result on its way has an outcome.
OutcomesKnown == \A r \in Request : Held(r) \/ Queued(r) => result[r] \in Outcome

LEMMA OutcomesStay ==
    ASSUME TypeOK, OutcomesKnown, [Next]_vars
    PROVE  OutcomesKnown'
<1> SUFFICES ASSUME NEW r \in Request, Held(r)' \/ Queued(r)'
             PROVE  result'[r] \in Outcome
  BY DEF OutcomesKnown
<1> USE DEF schedulerVars, dispatchVars, clientVars, completionVars, mainVars, loopVars
<1>1. /\ r # Sentinel /\ r # None
      /\ DOMAIN result = Request /\ DOMAIN holding = Completer
      /\ outputQueue \in Seq(Request \cup {Sentinel})
  BY RunAssumption, SMTT(40) DEF None, Sentinel, TypeOK
<1>2. result'[r] = result[r] \/ result'[r] \in Outcome
  <2>1. ASSUME NEW w \in Worker, NEW q \in Request, NEW o \in Outcome, Answer(w, q, o)
        PROVE  result'[r] = result[r] \/ result'[r] \in Outcome
    BY <1>1, <2>1 DEF Answer
  <2>2. CASE UNCHANGED result
    BY <2>2
  <2> QED
    BY <2>1, <2>2
       DEF Next, Prefetch, Dispatch, Read, Complete, Monitor, Shutdown, Terminated, vars,
       Generate, Schedule, Pop, Register, Put, PrefetchEnds, DispatcherEnds, Take, CancelTasks,
       ClientEnds, GetResult, GetSentinel, Notify, Record, StartDrain, DrainEnds, TimePasses,
       Watch, KeepWatching, LeaveAfterGrace, LeaveSettled, LeaveFinished, LeaveInterrupted,
       Leave, SetStop, JoinWorkers, WaitForClients, Report
<1>3. ASSUME NEW w \in Worker, NEW q \in Request, NEW o \in Outcome, Answer(w, q, o)
      PROVE  Held(r) \/ Queued(r) \/ result'[r] \in Outcome
  <2>1. outputQueue' = Append(outputQueue, q) /\ UNCHANGED holding
    BY <1>3 DEF Answer
  <2>2. \A k \in DOMAIN outputQueue' :
            (k \in DOMAIN outputQueue /\ outputQueue'[k] = outputQueue[k]) \/ outputQueue'[k] = q
    BY <2>1, ResultAppended
  <2>3. r = q => result'[r] \in Outcome
    BY <1>1, <1>3 DEF Answer
  <2> QED
    BY <2>1, <2>2, <2>3 DEF Held, Queued, QueuedAt
<1>4. ASSUME NEW c \in Completer, GetResult(c) \/ GetSentinel(c)
      PROVE  Held(r) \/ Queued(r)
  <2>1. /\ 1 \in DOMAIN outputQueue /\ Head(outputQueue) = outputQueue[1]
        /\ \A k \in DOMAIN outputQueue' :
               k \in Nat /\ k + 1 \in DOMAIN outputQueue /\ outputQueue'[k] = outputQueue[k + 1]
    BY <1>4, FirstTaken DEF GetResult, GetSentinel
  <2>2. Queued(r)' => Queued(r)
    BY <2>1 DEF Queued, QueuedAt
  <2>3. Held(r)' => Held(r) \/ Head(outputQueue) = r
    BY <1>1, <1>4 DEF GetResult, GetSentinel, Held
  <2> QED
    BY <2>1, <2>2, <2>3 DEF Queued, QueuedAt
<1>5. CASE WaitForClients
  <2>1. outputQueue' = outputQueue \o Sentinels /\ UNCHANGED holding
    BY <1>5 DEF WaitForClients, Sentinels
  <2>2. \A k \in DOMAIN outputQueue' :
            (k \in DOMAIN outputQueue /\ outputQueue'[k] = outputQueue[k]) \/ outputQueue'[k] = Sentinel
    <3>1. Sentinels \in Seq(Request \cup {Sentinel})
      BY SentinelsAre
    <3>2. /\ outputQueue' \in Seq(Request \cup {Sentinel})
          /\ Len(outputQueue') = Len(outputQueue) + Len(Sentinels)
          /\ \A k \in 1..Len(outputQueue) : outputQueue'[k] = outputQueue[k]
          /\ \A k \in 1..Len(Sentinels) : outputQueue'[Len(outputQueue) + k] = Sentinels[k]
      BY <1>1, <2>1, <3>1, ConcatProperties
    <3>3. /\ Len(outputQueue) \in Nat /\ DOMAIN outputQueue = 1..Len(outputQueue)
          /\ DOMAIN outputQueue' = 1..Len(outputQueue')
          /\ Len(Sentinels) \in Nat /\ DOMAIN Sentinels = 1..Len(Sentinels)
      BY <1>1, <3>1, <3>2, LenProperties
    <3>4. ASSUME NEW k \in DOMAIN outputQueue', k \notin DOMAIN outputQueue
          PROVE  outputQueue'[k] = Sentinel
      <4>1. k - Len(outputQueue) \in 1..Len(Sentinels) /\ Len(outputQueue) + (k - Len(outputQueue)) = k
        BY <3>2, <3>3, <3>4
      <4> QED
        BY <3>2, <3>3, <4>1, SentinelsAre
    <3> QED
      BY <3>2, <3>3, <3>4
  <2>3. Held(r)' => Held(r)
    BY <2>1 DEF Held
  <2>4. Queued(r)' => Queued(r)
    BY <1>1, <2>2 DEF Queued, QueuedAt
  <2> QED
    BY <1>2, <2>3, <2>4 DEF OutcomesKnown
<1>6. UNCHANGED outputQueue => Held(r) \/ Queued(r)
  <2>1. ASSUME NEW c \in Completer, Record(c) PROVE Held(r)' => Held(r)
    BY <1>1, <2>1 DEF Record, Held
  <2>2. UNCHANGED holding => (Held(r)' => Held(r))
    BY SMTT(40) DEF Held
  <2>3. \/ \E c \in Completer : Record(c) \/ GetResult(c)
        \/ UNCHANGED holding
    BY DEF Next, Prefetch, Dispatch, Read, Complete, Monitor, Shutdown, Terminated, vars,
       Generate, Schedule, Pop, Register, Put, PrefetchEnds, DispatcherEnds, Take, Answer,
       CancelTasks, ClientEnds, GetSentinel, Notify, StartDrain, DrainEnds, TimePasses, Watch,
       KeepWatching, LeaveAfterGrace, LeaveSettled, LeaveFinished, LeaveInterrupted, Leave,
       SetStop, JoinWorkers, WaitForClients, Report
  <2>4. UNCHANGED outputQueue => (Queued(r)' => Queued(r))
    BY DEF Queued, QueuedAt
  <2> QED
    BY <1>4, <2>1, <2>2, <2>3, <2>4
<1> QED
  BY <1>2, <1>3, <1>4, <1>5, <1>6, OutputMoves DEF OutcomesKnown

\* The run moves the scheduler by the operations of its threads only, so what
\* RateTraffic_proofs shows of the open-loop scheduler holds in the run.
THEOREM DrivesScheduler == Spec => Scheduler!Spec
<1>1. Init => Scheduler!Init /\ OutcomesKnown
  <2> SUFFICES ASSUME Init PROVE Scheduler!Init /\ OutcomesKnown
    OBVIOUS
  <2>1. DOMAIN outputQueue = {} /\ \A c \in Completer : holding[c] = None
    BY DEF Init
  <2>2. \A r \in Request : r # None
    BY RunAssumption DEF None
  <2> QED
    BY <2>1, <2>2 DEF Init, OutcomesKnown, Held, Queued, QueuedAt
<1>2. IInv /\ OutcomesKnown /\ [Next]_vars => OutcomesKnown'
  BY OutcomesStay DEF IInv
<1>3. IInv /\ OutcomesKnown /\ [Next]_vars => [Scheduler!Next]_(Scheduler!vars)
  <2> SUFFICES ASSUME IInv, OutcomesKnown, [Next]_vars
               PROVE  [Scheduler!Next]_(Scheduler!vars)
    OBVIOUS
  <2>1. ASSUME NEW s \in Session, Schedule(s) PROVE Scheduler!Next
    BY <2>1 DEF Schedule, Scheduler!Next
  <2>2. ASSUME NEW d \in Dispatcher, Pop(d) PROVE Scheduler!Next
    BY <2>2 DEF Pop, Scheduler!Next, Scheduler!WaitForReady
  <2>3. ASSUME NEW c \in Completer, Notify(c) PROVE Scheduler!Next
    <3>1. Scheduler!NotifyCompletion(holding[c], result[holding[c]], now)
      BY <2>3 DEF Notify
    <3>2. now \in Scheduler!AnswerTimes(holding[c])
      BY <3>1 DEF Scheduler!NotifyCompletion
    <3>3. holding[c] \in Request /\ Held(holding[c])
      BY <2>3 DEF Notify, Held, IInv, TypeOK
    <3>4. result[holding[c]] \in Outcome
      BY <3>3 DEF OutcomesKnown
    <3> QED
      BY <3>1, <3>2, <3>3, <3>4 DEF Scheduler!Next, Scheduler!Completes
  <2>4. UNCHANGED schedulerVars => UNCHANGED Scheduler!vars
    BY DEF schedulerVars, coreVars, Scheduler!vars, Scheduler!coreVars
  <2> QED
    BY <2>1, <2>2, <2>3, <2>4, SchedulerMoves
<1> QED
  BY <1>1, <1>2, <1>3, Invariance, PTL DEF Spec, Scheduler!Spec

=============================================================================
