----------------------- MODULE ConcurrentTraffic_proofs -----------------------
(***************************************************************************)
(* Safety of ConcurrentTraffic for any sessions, graphs, target and ramp.  *)
(* The inductive invariant is CoreInv of the shared part, plus what the    *)
(* waiting line adds: sessions in it wait once, and nothing of them has    *)
(* happened yet.                                                           *)
(***************************************************************************)
EXTENDS ConcurrentTraffic, TrafficScheduler_proofs, SequenceTheorems, FiniteSetTheorems

Distinct(queue) == \A i, j \in 1 .. Len(queue) : queue[i] = queue[j] => i = j

WaitOnce == Distinct(pendingSessions) /\ unscheduled \cap Waiting = {}
FreshUntouched == \A s \in unscheduled \cup Waiting : Untouched(s)

IInv == TypeOK /\ CoreInv /\ WaitOnce /\ FreshUntouched /\ ConcurrencyHeld

-----------------------------------------------------------------------------
(* The target.                                                             *)

\* Dividing more by the same gives no less.
LEMMA DivMonotonic ==
    ASSUME NEW a \in Nat, NEW b \in Nat, a <= b, NEW d \in Nat \ {0}
    PROVE  a \div d \in Nat /\ a \div d <= b \div d
  BY SMTT(30)

\* The target is a number, and never shrinks.
LEMMA TargetGrows ==
    ASSUME now \in Nat, rampComplete \in BOOLEAN,
           now' = now \/ now' = now + 1,
           rampComplete' \in {rampComplete, rampComplete \/ now >= Ramp}
    PROVE  CurrentTarget \in Nat /\ CurrentTarget <= CurrentTarget'
<1> USE RampAssumption
<1>1. ASSUME now < Ramp
      PROVE  /\ Target * now \in Nat
             /\ Target * now <= Target * (now + 1)
             /\ Target * now <= Target * Ramp
             /\ Target * (now + 1) <= Target * Ramp
             /\ (Target * Ramp) \div Ramp = Target
  BY <1>1, SMTT(30)
<1>2. CASE rampComplete \/ now >= Ramp
  BY <1>2 DEF CurrentTarget
<1>3. CASE ~ rampComplete /\ now < Ramp
  <2> DEFINE old  == (Target * now) \div Ramp
             next == (Target * (now + 1)) \div Ramp
             full == (Target * Ramp) \div Ramp
  <2>1. Ramp \in Nat \ {0}
    BY <1>3
  <2>2. old \in Nat /\ old <= full
    <3>1. Target * now \in Nat /\ Target * Ramp \in Nat /\ Target * now <= Target * Ramp
      BY <1>1, <1>3
    <3> QED
      BY <2>1, <3>1, DivMonotonic
  <2>3. old <= next
    <3>1. /\ Target * now \in Nat /\ Target * (now + 1) \in Nat
          /\ Target * now <= Target * (now + 1)
      BY <1>1, <1>3
    <3> QED
      BY <2>1, <3>1, DivMonotonic
  <2>4. full = Target
    BY <1>1, <1>3
  <2>5. CurrentTarget = old
    BY <1>3 DEF CurrentTarget
  <2>6. CurrentTarget' \in {Target, old, next}
    BY DEF CurrentTarget
  <2> HIDE DEF old, next, full
  <2> QED
    BY <2>2, <2>3, <2>4, <2>5, <2>6
<1> QED
  BY <1>2, <1>3
-----------------------------------------------------------------------------
(* Admission.                                                              *)

LEMMA RoomBounds ==
    ASSUME NEW queue \in Seq(Session), NEW active \in SUBSET Session,
           CurrentTarget \in Nat, Cardinality(active) <= CurrentTarget
    PROVE  /\ Room(queue, active) \in 0 .. Len(queue)
           /\ Cardinality(active) + Room(queue, active) <= CurrentTarget
           /\ Cardinality(active) \in Nat
<1>1. IsFiniteSet(active)
  BY SessionAssumption, FS_Subset
<1>2. Cardinality(active) \in Nat
  BY <1>1, FS_CardinalityType
<1>3. Len(queue) \in Nat
  OBVIOUS
<1> DEFINE size == Cardinality(active)
           target == CurrentTarget
           length == Len(queue)
<1>4. Room(queue, active) =
        IF target - size <= 0 THEN 0
        ELSE IF target - size <= length THEN target - size ELSE length
  BY DEF Room
<1> HIDE DEF size, target, length
<1> QED
  BY <1>2, <1>3, <1>4 DEF size, target, length

\* Of a queue without repetition the first k and the rest are disjoint, and
\* the rest is without repetition.
LEMMA SplitQueue ==
    ASSUME NEW queue \in Seq(Session), Distinct(queue), NEW k \in 0 .. Len(queue),
           NEW rest, rest = SubSeq(queue, k + 1, Len(queue))
    PROVE  /\ FirstOf(queue, k) \subseteq Range(queue)
           /\ rest \in Seq(Session) /\ Distinct(rest)
           /\ Range(rest) \subseteq Range(queue) \ FirstOf(queue, k)
           /\ Range(queue) \subseteq Session
<1>1. Len(queue) \in Nat /\ DOMAIN queue = 1 .. Len(queue)
  OBVIOUS
<1>2. \A i \in 1 .. Len(queue) : queue[i] \in Session
  OBVIOUS
<1>3. /\ rest \in Seq(Session)
      /\ Len(rest) = Len(queue) - k
      /\ \A i \in 1 .. Len(queue) - k : rest[i] = queue[k + i]
  <2>1. \A i \in k + 1 .. Len(queue) : queue[i] \in Session
    BY <1>1, <1>2
  <2>2. /\ rest \in Seq(Session)
        /\ Len(rest) = IF k + 1 <= Len(queue) THEN Len(queue) - (k + 1) + 1 ELSE 0
        /\ \A i \in 1 .. Len(queue) - (k + 1) + 1 : rest[i] = queue[(k + 1) + i - 1]
    BY <1>1, <2>1, SubSeqProperties
  <2>3. Len(queue) - (k + 1) + 1 = Len(queue) - k
    BY <1>1
  <2>4. Len(rest) = Len(queue) - k
    <3>1. (IF k + 1 <= Len(queue) THEN Len(queue) - (k + 1) + 1 ELSE 0) = Len(queue) - k
      <4> DEFINE n == Len(queue)
      <4>1. n \in Nat /\ k \in 0 .. n
        BY <1>1
      <4> HIDE DEF n
      <4>2. (IF k + 1 <= n THEN n - (k + 1) + 1 ELSE 0) = n - k
        BY <4>1
      <4> QED
        BY <4>2 DEF n
    <3> QED
      BY <2>2, <3>1, Zenon
  <2>5. ASSUME NEW i \in 1 .. Len(queue) - k PROVE rest[i] = queue[k + i]
    <3>1. i \in 1 .. Len(queue) - (k + 1) + 1
      BY <2>3
    <3>2. (k + 1) + i - 1 = k + i
      BY <1>1
    <3> QED
      BY <2>2, <3>1, <3>2
  <2> QED
    BY <2>2, <2>4, <2>5
<1>8. ASSUME NEW i \in 1 .. Len(queue) - k PROVE k + i \in 1 .. Len(queue)
  BY <1>1
<1>4. DOMAIN rest = 1 .. Len(queue) - k
  BY <1>3
<1>5. FirstOf(queue, k) \subseteq Range(queue) /\ Range(queue) \subseteq Session
  BY <1>1, <1>2 DEF FirstOf, Range
<1>6. Distinct(rest)
  <2> SUFFICES ASSUME NEW i \in 1 .. Len(queue) - k, NEW j \in 1 .. Len(queue) - k,
                      rest[i] = rest[j]
               PROVE  i = j
    BY <1>3 DEF Distinct
  <2>1. k + i \in 1 .. Len(queue) /\ k + j \in 1 .. Len(queue) /\ queue[k + i] = queue[k + j]
    BY <1>3, <1>8, Zenon
  <2>2. k + i = k + j
    BY <2>1 DEF Distinct
  <2> QED
    BY <2>2, <1>1
<1>7. ASSUME NEW x \in Range(rest) PROVE x \in Range(queue) /\ x \notin FirstOf(queue, k)
  <2>1. PICK i \in 1 .. Len(queue) - k : x = rest[i]
    BY <1>4 DEF Range
  <2>2. k + i \in 1 .. Len(queue) /\ x = queue[k + i]
    BY <1>3, <1>8, <2>1, Zenon
  <2>3. \A j \in 1 .. k : j \in 1 .. Len(queue) /\ j # k + i
    BY <1>1
  <2>4. \A j \in 1 .. k : queue[j] # x
    BY <2>2, <2>3 DEF Distinct
  <2> QED
    BY <1>1, <2>2, <2>4 DEF Range, FirstOf
<1> QED
  BY <1>3, <1>5, <1>6, <1>7

\* The first k of a queue are at most k sessions.
LEMMA FirstOfSize ==
    ASSUME NEW queue \in Seq(Session), NEW k \in 0 .. Len(queue)
    PROVE  IsFiniteSet(FirstOf(queue, k)) /\ Cardinality(FirstOf(queue, k)) <= k
<1> DEFINE f == [i \in 1 .. k |-> queue[i]]
<1>1. k \in Nat /\ IsFiniteSet(1 .. k) /\ Cardinality(1 .. k) = k
  <2>1. k \in Nat /\ 0 \in Int /\ 1 \in Int /\ k \in Int
    OBVIOUS
  <2> QED
    BY <2>1, FS_Interval
<1>2. f \in Surjection(1 .. k, FirstOf(queue, k))
  BY DEF FirstOf, Surjection
<1> QED
  BY <1>1, <1>2, FS_Surjection

\* What an admission does to the line, and that it respects the target.
LEMMA Admission ==
    ASSUME NEW queue \in Seq(Session), Distinct(queue), NEW active \in SUBSET Session,
           CurrentTarget \in Nat, Cardinality(active) <= CurrentTarget,
           rampComplete \in BOOLEAN, Admit(queue, active)
    PROVE  LET S == Admitted(queue, active) IN
           /\ S \subseteq Range(queue) /\ Range(queue) \subseteq Session
           /\ pendingSessions' \in Seq(Session)
           /\ Distinct(pendingSessions)'
           /\ Waiting' \subseteq Range(queue) \ S
           /\ rampComplete' \in {rampComplete, rampComplete \/ now >= Ramp}
           /\ Cardinality(active \cup S) <= CurrentTarget
<1> DEFINE k == Room(queue, active)
           S == Admitted(queue, active)
<1>1. k \in 0 .. Len(queue) /\ Cardinality(active) + k <= CurrentTarget
      /\ Cardinality(active) \in Nat
  BY RoomBounds
<1>2. S = FirstOf(queue, k) /\ pendingSessions' = SubSeq(queue, k + 1, Len(queue))
  BY DEF Admitted, Admit
<1>3. rampComplete' \in {rampComplete, rampComplete \/ now >= Ramp}
  BY DEF Admit
<1> HIDE DEF k, S
<1>4. /\ S \subseteq Range(queue) /\ Range(queue) \subseteq Session
      /\ pendingSessions' \in Seq(Session)
      /\ Distinct(pendingSessions')
      /\ Range(pendingSessions') \subseteq Range(queue) \ S
  BY <1>1, <1>2, SplitQueue
<1>5. IsFiniteSet(S) /\ Cardinality(S) \in Nat /\ Cardinality(S) <= k
  BY <1>1, <1>2, FirstOfSize, FS_CardinalityType
<1>6. IsFiniteSet(active)
  BY SessionAssumption, FS_Subset
<1>7. /\ Cardinality(active \cup S) = Cardinality(active) + Cardinality(S) - Cardinality(active \cap S)
      /\ Cardinality(active \cap S) \in Nat
  BY <1>5, <1>6, FS_Union, FS_Intersection, FS_CardinalityType
<1>8. Cardinality(active \cup S) <= CurrentTarget
  BY <1>1, <1>5, <1>7
<1> QED
  BY <1>3, <1>4, <1>8 DEF S, Distinct, Waiting
-----------------------------------------------------------------------------
(* The steps.                                                              *)

\* The ramp never asks for more than the target.
LEMMA RampPart ==
    ASSUME NEW n \in Nat, ~ (n >= Ramp)
    PROVE  (Target * n) \div Ramp \in Nat /\ (Target * n) \div Ramp <= Target
<1>1. Ramp \in Nat \ {0} /\ Target \in Nat /\ n < Ramp
  BY RampAssumption
<1>2. /\ Target * n \in Nat /\ Target * Ramp \in Nat /\ Target * n <= Target * Ramp
      /\ (Target * Ramp) \div Ramp = Target
  BY <1>1, SMTT(30)
<1> QED
  BY <1>1, <1>2, DivMonotonic

LEMMA TargetAtMost ==
    /\ now \in Nat /\ rampComplete \in BOOLEAN =>
          CurrentTarget \in Nat /\ CurrentTarget <= Target
    /\ now' \in Nat /\ rampComplete' \in BOOLEAN =>
          CurrentTarget' \in Nat /\ CurrentTarget' <= Target
<1>1. Target \in Nat /\ Ramp \in Nat /\ Target <= Target
  BY RampAssumption
<1>2. ASSUME NEW n \in Nat, NEW complete \in BOOLEAN,
             NEW target, target = IF complete \/ n >= Ramp THEN Target
                                  ELSE (Target * n) \div Ramp
      PROVE  target \in Nat /\ target <= Target
  BY <1>1, <1>2, RampPart
<1> QED
  BY <1>2 DEF CurrentTarget

\* Fewer sessions are within the target too.
LEMMA FewerActive ==
    ASSUME NEW active \in SUBSET sessions, sessions \in SUBSET Session,
           CurrentTarget \in Nat, Cardinality(sessions) <= CurrentTarget
    PROVE  active \in SUBSET Session /\ Cardinality(active) <= CurrentTarget
<1>1. IsFiniteSet(sessions)
  BY SessionAssumption, FS_Subset
<1>2. /\ Cardinality(active) \in Nat /\ Cardinality(sessions) \in Nat
      /\ Cardinality(active) <= Cardinality(sessions)
  BY <1>1, FS_Subset, FS_CardinalityType
<1> QED
  BY <1>2

\* wait_for_ready activates what it admits and pops at most one item.
LEMMA WaitActivates ==
    ASSUME WaitForReady
    PROVE  \E I : ActivateAndPop(Admitted(pendingSessions, sessions), now, I)
<1> DEFINE S == Admitted(pendingSessions, sessions)
<1>1. UNCHANGED <<now, unscheduled, canceled, completions, outcomes, nodeHistory>>
  BY DEF WaitForReady
<1>2. CASE ActivateOnto(S, now, readyQueue) /\ UNCHANGED <<sentAt, history>>
  <2>1. ActivateAndPop(S, now, {})
    BY <1>1, <1>2 DEF ActivateOnto, ActivateAndPop
  <2> QED
    BY <2>1
<1>3. ASSUME NEW i \in Due(readyQueue \cup RootItems(S, now)),
             sessions' = sessions \cup S,
             pendingNodes' = pendingNodes \cup NonRoots(S),
             queuedNodes' = queuedNodes \cup Roots(S),
             inFlight' = inFlight \cup Roots(S),
             readyQueue' = (readyQueue \cup RootItems(S, now)) \ {i},
             MarkSent(i.req)
      PROVE  \E I : ActivateAndPop(S, now, I)
  <2>1. ActivateAndPop(S, now, {i})
    BY <1>1, <1>3 DEF ActivateAndPop
  <2> QED
    BY <2>1
<1> QED
  BY <1>2, <1>3 DEF WaitForReady

\* Common to the steps that admit: sessions of the queue are activated, the
\* rest of the queue waits, and untouched sessions outside stay untouched.
LEMMA AdmissionPreserves ==
    ASSUME IInv, NEW queue \in Seq(Session), Distinct(queue),
           \A s \in Range(queue) : Untouched(s),
           Waiting \subseteq Range(queue), Range(queue) \subseteq unscheduled \cup Waiting,
           unscheduled' \subseteq unscheduled, unscheduled' \cap Range(queue) = {},
           NEW active \in SUBSET sessions,
           Admit(queue, active),
           now' = now,
           sessions' = active \cup Admitted(queue, active),
           CoreInv',
           \A s \in Session \ Admitted(queue, active) : Untouched(s) => Untouched(s)'
    PROVE  IInv'
<1> USE DEF IInv
<1> DEFINE S == Admitted(queue, active)
<1>1. now \in Nat /\ rampComplete \in BOOLEAN /\ sessions \in SUBSET Session
  BY DEF TypeOK, CoreTypeOK
<1>3. Cardinality(active) <= Cardinality(sessions) /\ Cardinality(active) \in Nat
      /\ Cardinality(sessions) \in Nat
  BY <1>1, SessionAssumption, FS_Subset, FS_CardinalityType
<1>r. rampComplete' \in {rampComplete, rampComplete \/ now >= Ramp}
  BY <1>1, Zenon DEF Admit
<1>4. CurrentTarget \in Nat /\ CurrentTarget <= CurrentTarget'
  BY <1>1, <1>r, TargetGrows
<1>5. Cardinality(active) <= CurrentTarget
  BY <1>3, <1>4 DEF ConcurrencyHeld
<1>6. /\ S \subseteq Range(queue) /\ Range(queue) \subseteq Session
      /\ pendingSessions' \in Seq(Session)
      /\ Distinct(pendingSessions)'
      /\ Waiting' \subseteq Range(queue) \ S
      /\ Cardinality(active \cup S) <= CurrentTarget
  BY <1>1, <1>4, <1>5, Admission
<1> HIDE DEF S
<1>7. TypeOK'
  BY <1>1, <1>6, <1>r DEF TypeOK, CoreInv
<1>8. WaitOnce'
  BY <1>6 DEF WaitOnce
<1>9. FreshUntouched'
  <2>1. \A s \in unscheduled' \cup Waiting' : s \in Session \ S /\ Untouched(s)
    BY <1>6 DEF FreshUntouched, TypeOK, CoreTypeOK
  <2> QED
    BY <2>1 DEF FreshUntouched, S
<1>10. ConcurrencyHeld'
  <2>1. sessions' \subseteq Session
    BY DEF CoreInv, CoreTypeOK
  <2>2. Cardinality(sessions') \in Nat
    BY <2>1, SessionAssumption, FS_Subset, FS_CardinalityType
  <2>3. CurrentTarget' \in Int
    BY <1>1, <1>r, <1>4, RampAssumption DEF CurrentTarget
  <2>4. Cardinality(sessions') <= CurrentTarget
    BY <1>6 DEF S
  <2> QED
    BY <1>4, <2>2, <2>3, <2>4 DEF ConcurrencyHeld
<1> QED
  BY <1>7, <1>8, <1>9, <1>10
\* A session appended to the line is its last, and the rest stays.
LEMMA AppendToLine ==
    ASSUME NEW line \in Seq(Session), Distinct(line), NEW s \in Session, s \notin Range(line)
    PROVE  /\ Append(line, s) \in Seq(Session)
           /\ Distinct(Append(line, s))
           /\ Range(Append(line, s)) = Range(line) \cup {s}
<1> DEFINE queue == Append(line, s)
           n == Len(line)
<1>1. n \in Nat /\ DOMAIN line = 1 .. n /\ queue \in Seq(Session)
  OBVIOUS
<1>2. /\ Len(queue) = n + 1 /\ DOMAIN queue = 1 .. n + 1
      /\ \A i \in 1 .. n : queue[i] = line[i]
      /\ queue[n + 1] = s
  OBVIOUS
<1> HIDE DEF queue, n
<1>3. \A i \in 1 .. n + 1 : i \in 1 .. n \/ i = n + 1
  BY <1>1
<1>4. \A i \in 1 .. n : i \in 1 .. n + 1
  BY <1>1
<1>5. n + 1 \in 1 .. n + 1
  BY <1>1
<1>6. \A i \in 1 .. n : line[i] # s
  BY <1>1 DEF Range
<1>7. Distinct(queue)
  BY <1>2, <1>3, <1>6 DEF Distinct, n
<1>8. Range(queue) = Range(line) \cup {s}
  BY <1>1, <1>2, <1>3, <1>4, <1>5 DEF Range
<1> QED
  BY <1>1, <1>7, <1>8 DEF queue

\* schedule_session keeps the invariant.
LEMMA ScheduleStep ==
    ASSUME IInv, NEW s \in Session, ScheduleSession(s)
    PROVE  IInv'
<1> DEFINE queue == Append(pendingSessions, s)
           S == Admitted(queue, sessions)
<1>1. /\ s \in unscheduled /\ unscheduled' = unscheduled \ {s}
      /\ Admit(queue, sessions)
      /\ ActivateOnto(S, now, readyQueue)
      /\ UNCHANGED <<now, canceled, completions, outcomes, nodeHistory, sentAt, history>>
  BY DEF ScheduleSession
<1>2. pendingSessions \in Seq(Session) /\ Distinct(pendingSessions) /\ s \notin Waiting
  BY <1>1 DEF IInv, TypeOK, WaitOnce
<1>3. queue \in Seq(Session) /\ Distinct(queue) /\ Range(queue) = Waiting \cup {s}
  BY <1>2, AppendToLine DEF Waiting
<1> HIDE DEF queue, S
<1>4. \A x \in Range(queue) : Untouched(x) /\ x \in Session
  BY <1>1, <1>3 DEF IInv, FreshUntouched, Untouched
<1>5. now \in Nat /\ CurrentTarget \in Nat /\ rampComplete \in BOOLEAN
      /\ sessions \in SUBSET Session
  <2>1. now \in Nat /\ rampComplete \in BOOLEAN /\ sessions \in SUBSET Session
    BY DEF IInv, TypeOK, CoreTypeOK
  <2>2. rampComplete' \in {rampComplete, rampComplete \/ now >= Ramp}
    BY <1>1, <2>1, Zenon DEF Admit
  <2> QED
    BY <1>1, <2>1, <2>2, TargetGrows
<1>6. S \subseteq Range(queue)
  BY <1>1, <1>3, <1>5, Admission DEF IInv, ConcurrencyHeld, S
<1>7. ActivateAndPop(S, now, {})
  BY <1>1 DEF ActivateAndPop, ActivateOnto
<1>8. CoreInv'
  BY <1>1, <1>4, <1>5, <1>6, <1>7, ActivateAndPopStep DEF IInv
<1>9. \A x \in Session \ S : Untouched(x) => Untouched(x)'
  BY <1>4, <1>5, <1>6, <1>7, ActivateAndPopUntouched DEF IInv
<1> QED
  BY <1>1, <1>3, <1>4, <1>5, <1>8, <1>9, AdmissionPreserves
     DEF IInv, WaitOnce, ActivateOnto, S

\* wait_for_ready keeps the invariant.
LEMMA WaitStep ==
    ASSUME IInv, WaitForReady
    PROVE  IInv'
<1> DEFINE S == Admitted(pendingSessions, sessions)
<1>1. /\ Admit(pendingSessions, sessions)
      /\ UNCHANGED <<now, unscheduled, canceled, completions, outcomes, nodeHistory>>
  BY DEF WaitForReady
<1>2. pendingSessions \in Seq(Session) /\ Distinct(pendingSessions)
  BY DEF IInv, TypeOK, WaitOnce
<1>3. \E I : ActivateAndPop(S, now, I)
  BY WaitActivates
<1>4. \A x \in Waiting : Untouched(x) /\ x \in Session
  BY DEF IInv, FreshUntouched, Untouched
<1>5. now \in Nat /\ CurrentTarget \in Nat /\ rampComplete \in BOOLEAN
      /\ sessions \in SUBSET Session
  <2>1. now \in Nat /\ rampComplete \in BOOLEAN /\ sessions \in SUBSET Session
    BY DEF IInv, TypeOK, CoreTypeOK
  <2>2. rampComplete' \in {rampComplete, rampComplete \/ now >= Ramp}
    BY <1>1, <2>1, Zenon DEF Admit
  <2> QED
    BY <1>1, <2>1, <2>2, TargetGrows
<1>6. S \subseteq Waiting
  BY <1>1, <1>2, <1>5, Admission DEF IInv, ConcurrencyHeld, Waiting
<1> HIDE DEF S
<1>7. PICK I : ActivateAndPop(S, now, I)
  BY <1>3
<1>8. CoreInv'
  BY <1>1, <1>4, <1>5, <1>6, <1>7, ActivateAndPopStep DEF IInv
<1>9. \A x \in Session \ S : Untouched(x) => Untouched(x)'
  BY <1>4, <1>5, <1>6, <1>7, ActivateAndPopUntouched DEF IInv
<1>10. sessions' = sessions \cup S
  BY <1>7 DEF ActivateAndPop
<1> QED
  BY <1>1, <1>2, <1>4, <1>5, <1>8, <1>9, <1>10, AdmissionPreserves
     DEF IInv, WaitOnce, Waiting, S
\* Common to the steps that leave the line alone.
LEMMA LineUnchanged ==
    ASSUME IInv, UNCHANGED <<unscheduled, pendingSessions, rampComplete>>,
           sessions' \subseteq sessions, now' = now \/ now' = now + 1,
           CoreInv', \A s \in Session : Untouched(s) => Untouched(s)'
    PROVE  IInv'
<1> USE DEF IInv
<1>1. now \in Nat /\ rampComplete \in BOOLEAN /\ sessions \in SUBSET Session
  BY DEF TypeOK, CoreTypeOK
<1>2. TypeOK' /\ WaitOnce'
  BY DEF TypeOK, CoreInv, WaitOnce, Waiting
<1>3. FreshUntouched'
  BY DEF FreshUntouched, Waiting, TypeOK, CoreTypeOK, Untouched
<1>4. CurrentTarget \in Nat /\ CurrentTarget <= CurrentTarget'
  BY <1>1, TargetGrows
<1>5. CurrentTarget' \in Int
  <2>1. now' \in Nat /\ rampComplete' \in BOOLEAN
    BY <1>1
  <2> QED
    BY <2>1, RampAssumption DEF CurrentTarget
<1>6. /\ Cardinality(sessions) \in Nat /\ Cardinality(sessions') \in Nat
      /\ Cardinality(sessions') <= Cardinality(sessions)
  <2>1. IsFiniteSet(sessions) /\ sessions' \in SUBSET sessions
    BY <1>1, SessionAssumption, FS_Subset
  <2> QED
    BY <2>1, FS_Subset, FS_CardinalityType
<1>7. ConcurrencyHeld'
  BY <1>4, <1>5, <1>6 DEF ConcurrencyHeld
<1> QED
  BY <1>2, <1>3, <1>7

\* pop_ready keeps the invariant.
LEMMA PopStep ==
    ASSUME IInv, PopReady
    PROVE  IInv'
<1>1. PICK i \in Due(readyQueue) : readyQueue' = readyQueue \ {i} /\ MarkSent(i.req)
  BY DEF PopReady
<1>2. readyQueue \cup RootItems({}, now) = readyQueue
  BY NothingActivated
<1>3. ActivateAndPop({}, now, {i})
  BY <1>1, <1>2, NothingActivated DEF ActivateAndPop, PopReady
<1>4. now \in Nat /\ unscheduled' \subseteq unscheduled
  BY DEF IInv, TypeOK, CoreTypeOK, PopReady
<1>5. CoreInv'
  BY <1>3, <1>4, ActivateAndPopStep DEF IInv
<1>6. \A s \in Session : Untouched(s) => Untouched(s)'
  BY <1>3, <1>4, ActivateAndPopUntouched DEF IInv
<1> QED
  BY <1>5, <1>6, LineUnchanged DEF PopReady

\* notify_completion keeps the invariant.
LEMMA NotifyStep ==
    ASSUME IInv, NEW r \in Request, NEW outcome \in Outcome, NEW t, NotifyCompletion(r, outcome, t)
    PROVE  IInv'
<1> DEFINE ended  == Ended(r, outcome)
           active == sessions \ ended
           S      == Admitted(pendingSessions, active)
<1>1. r \in Sent /\ t \in AnswerTimes(r)
  BY DEF NotifyCompletion
<1>2. CASE /\ ended = {}
           /\ CompleteAndActivate(r, outcome, t, {})
           /\ UNCHANGED <<pendingSessions, rampComplete>>
  <2>1. CoreInv'
    BY <1>1, <1>2, CompletionStep DEF IInv, Reports
  <2>2. \A s \in Session : Untouched(s) => Untouched(s)'
    BY <1>1, <1>2, CompletionUntouched DEF IInv, Reports
  <2>3. /\ UNCHANGED <<unscheduled, pendingSessions, rampComplete>>
        /\ now' = now /\ sessions' \subseteq sessions
    BY <1>2 DEF CompleteAndActivate
  <2> QED
    BY <2>1, <2>2, <2>3, LineUnchanged
<1>3. CASE /\ CompleteAndActivate(r, outcome, t, S)
           /\ Admit(pendingSessions, active)
  <2>1. pendingSessions \in Seq(Session) /\ Distinct(pendingSessions)
    BY DEF IInv, TypeOK, WaitOnce
  <2>2. now \in Nat /\ rampComplete \in BOOLEAN /\ sessions \in SUBSET Session
        /\ now' = now /\ unscheduled' = unscheduled
        /\ sessions' = active \cup S
    BY <1>3 DEF IInv, TypeOK, CoreTypeOK, CompleteAndActivate
  <2>3. rampComplete' \in {rampComplete, rampComplete \/ now >= Ramp}
    BY <1>3, <2>2, Zenon DEF Admit
  <2>4. CurrentTarget \in Nat
    BY <2>2, <2>3, TargetGrows
  <2>5. active \in SUBSET sessions /\ active \in SUBSET Session
        /\ Cardinality(active) <= CurrentTarget
    <3>1. IsFiniteSet(sessions) /\ active \in SUBSET sessions
      BY <2>2, SessionAssumption, FS_Subset
    <3>2. /\ Cardinality(active) \in Nat /\ Cardinality(sessions) \in Nat
          /\ Cardinality(active) <= Cardinality(sessions)
      BY <3>1, FS_Subset, FS_CardinalityType
    <3>3. Cardinality(sessions) <= CurrentTarget
      BY DEF IInv, ConcurrencyHeld
    <3> HIDE DEF active
    <3> QED
      BY <2>2, <2>4, <3>1, <3>2, <3>3
  <2> HIDE DEF active
  <2>6. S \subseteq Waiting
    BY <1>3, <2>1, <2>2, <2>4, <2>5, Admission DEF Waiting
  <2>7. \A x \in Waiting : Untouched(x) /\ x \in Session
    BY DEF IInv, FreshUntouched, Untouched
  <2> HIDE DEF S
  <2>8. CoreInv'
    BY <1>1, <1>3, <2>6, <2>7, CompletionStep DEF IInv, Reports
  <2>9. \A x \in Session \ S : Untouched(x) => Untouched(x)'
    BY <1>1, <1>3, <2>6, <2>7, CompletionUntouched DEF IInv, Reports
  <2> QED
    BY <1>3, <2>1, <2>2, <2>5, <2>7, <2>8, <2>9, AdmissionPreserves
       DEF IInv, WaitOnce, Waiting, S
<1> QED
  BY <1>2, <1>3 DEF NotifyCompletion

-----------------------------------------------------------------------------
(* The theorems.                                                           *)

LEMMA Initially == Init => IInv
<1> SUFFICES ASSUME Init PROVE IInv
  OBVIOUS
<1>1. CoreInv /\ \A s \in Session : Untouched(s)
  BY CoreInitially DEF Init
<1>2. pendingSessions = <<>> /\ rampComplete = FALSE /\ sessions = {}
      /\ now = 0 /\ unscheduled = Session
  BY DEF Init, CoreInit
<1>3. pendingSessions \in Seq(Session) /\ Waiting = {} /\ Distinct(pendingSessions)
  BY <1>2 DEF Waiting, Range, Distinct
<1>4. Cardinality(sessions) = 0
  BY <1>2, FS_EmptySet
<1>5. 0 <= CurrentTarget
  <2>1. CASE 0 >= Ramp
    BY <1>2, <2>1, RampAssumption DEF CurrentTarget
  <2>2. CASE ~ (0 >= Ramp)
    <3>1. 0 \div Ramp \in Nat /\ Target * 0 = 0
      BY <2>2, RampAssumption, DivMonotonic
    <3> QED
      BY <1>2, <2>2, <3>1 DEF CurrentTarget
  <2> QED
    BY <2>1, <2>2
<1> QED
  BY <1>1, <1>2, <1>3, <1>4, <1>5
     DEF IInv, TypeOK, CoreInv, WaitOnce, FreshUntouched, ConcurrencyHeld

LEMMA Inductive == IInv /\ [Next]_vars => IInv'
<1> SUFFICES ASSUME IInv, [Next]_vars PROVE IInv'
  OBVIOUS
<1>1. ASSUME NEW s \in Session, ScheduleSession(s) PROVE IInv'
  BY <1>1, ScheduleStep
<1>2. CASE WaitForReady
  BY <1>2, WaitStep
<1>3. CASE PopReady
  BY <1>3, PopStep
<1>4. ASSUME NEW r \in Request, Completes(r) PROVE IInv'
  <2>1. PICK outcome \in Outcome, t \in AnswerTimes(r) : NotifyCompletion(r, outcome, t)
    BY <1>4 DEF Completes
  <2> QED
    BY <2>1, NotifyStep
<1>5. CASE TickConcurrent
  <2>1. CoreInv' /\ \A s \in Session : Untouched(s) => Untouched(s)'
    BY <1>5, TickStep DEF IInv, TickConcurrent
  <2> QED
    BY <1>5, <2>1, LineUnchanged DEF TickConcurrent, Tick
<1>6. CASE UNCHANGED vars
  <2>1. CoreInv' /\ \A s \in Session : Untouched(s) => Untouched(s)'
    BY <1>6, CoreStutter DEF IInv, vars
  <2> QED
    BY <1>6, <2>1, LineUnchanged DEF vars, coreVars
<1> QED
  BY <1>1, <1>2, <1>3, <1>4, <1>5, <1>6 DEF Next

\* The inductive invariant holds throughout.
THEOREM Invariance == Spec => []IInv
  BY Initially, Inductive, PTL DEF Spec

\* schedule_session, wait_for_ready, pop_ready and notify_completion keep every
\* field of the scheduler within its type.
THEOREM TypeCorrect == Spec => []TypeOK
<1>1. IInv => TypeOK
  BY DEF IInv
<1> QED
  BY <1>1, Invariance, PTL

\* No pop and no completion ever looks up a request that is not in
\* _request_to_session or a session that is not active.
THEOREM LookupsSafe == Spec => []LookupsNeverFail
<1>1. IInv => LookupsNeverFail
  BY LookupsHit DEF IInv
<1> QED
  BY <1>1, Invariance, PTL

\* get_in_flight_request_ids is exact.
THEOREM InFlightExact == Spec => []InFlightIsQueuedOrSent
<1>1. IInv => InFlightIsQueuedOrSent
  BY LookupsHit DEF IInv
<1> QED
  BY <1>1, Invariance, PTL

\* An active session always has a request queued or sent, for any acyclic graph.
THEOREM NeverStuck == Spec => []NoStuckSession
<1>1. IInv => NoStuckSession
  BY NothingStuck DEF IInv
<1> QED
  BY <1>1, Invariance, PTL

\* The sessions that are active never exceed what the ramp allows.
THEOREM LoadBounded == Spec => []ConcurrencyHeld
<1>1. IInv => ConcurrencyHeld
  BY DEF IInv
<1> QED
  BY <1>1, Invariance, PTL

-----------------------------------------------------------------------------
(* What a step does, and the properties that follow from it: when requests *)
(* are sent, what a finished session leaves, and that places stay taken.   *)

\* The first k of a queue without repetition are k sessions.
LEMMA FirstOfSizeExact ==
    ASSUME NEW queue \in Seq(Session), Distinct(queue), NEW k \in 0 .. Len(queue)
    PROVE  Cardinality(FirstOf(queue, k)) = k
<1> DEFINE f == [i \in 1 .. k |-> queue[i]]
<1>1. k \in Nat /\ IsFiniteSet(1 .. k) /\ Cardinality(1 .. k) = k
  <2>1. k \in Nat /\ 0 \in Int /\ 1 \in Int /\ k \in Int
    OBVIOUS
  <2> QED
    BY <2>1, FS_Interval
<1>2. \A i \in 1 .. k : i \in 1 .. Len(queue)
  OBVIOUS
<1>3. f \in Surjection(1 .. k, FirstOf(queue, k))
  BY DEF FirstOf, Surjection
<1>4. f \in Injection(1 .. k, FirstOf(queue, k))
  <2>1. f \in [1 .. k -> FirstOf(queue, k)] /\ DOMAIN f = 1 .. k
    BY DEF FirstOf
  <2>2. \A i, j \in 1 .. k : f[i] = f[j] => i = j
    BY <1>2 DEF Distinct
  <2> HIDE DEF f
  <2> QED
    BY <2>1, <2>2 DEF Injection, IsInjective
<1>5. IsFiniteSet(FirstOf(queue, k))
  BY FirstOfSize
<1> HIDE DEF f
<1>6. Cardinality(1 .. k) = Cardinality(FirstOf(queue, k))
  BY <1>3, <1>4, <1>5, FS_Injection
<1> QED
  BY <1>1, <1>6

\* A session of the queue is admitted or still waits; and when one still
\* waits after the ramp, the target is reached.
LEMMA AdmissionFills ==
    ASSUME NEW queue \in Seq(Session), Distinct(queue), NEW active \in SUBSET Session,
           CurrentTarget \in Nat, Cardinality(active) <= CurrentTarget,
           rampComplete \in BOOLEAN, Admit(queue, active),
           active \cap Admitted(queue, active) = {}
    PROVE  /\ Range(queue) \subseteq Admitted(queue, active) \cup Waiting'
           /\ rampComplete' /\ pendingSessions' # <<>> =>
                 Cardinality(active \cup Admitted(queue, active)) = Target
<1> DEFINE k == Room(queue, active)
           S == Admitted(queue, active)
           n == Len(queue)
           rest == SubSeq(queue, k + 1, n)
<1>1. k \in 0 .. n /\ Cardinality(active) \in Nat /\ n \in Nat
  BY RoomBounds
<1>2. S = FirstOf(queue, k) /\ pendingSessions' = rest
      /\ rampComplete' = (rampComplete \/ (queue # <<>> /\ now >= Ramp))
  BY DEF Admitted, Admit
<1>3. DOMAIN queue = 1 .. n
  OBVIOUS
<1>4. k = IF CurrentTarget - Cardinality(active) <= 0 THEN 0
          ELSE IF CurrentTarget - Cardinality(active) <= n
               THEN CurrentTarget - Cardinality(active) ELSE n
  BY DEF Room
<1> HIDE DEF k, S
<1>5. DOMAIN rest = 1 .. n - k /\ \A i \in 1 .. n - k : rest[i] = queue[k + i]
  BY <1>1
<1>6. ASSUME NEW x \in Range(queue) PROVE x \in S \cup Range(rest)
  <2>1. PICK i \in 1 .. n : x = queue[i]
    BY <1>3 DEF Range
  <2>2. CASE i <= k
    <3>1. i \in 1 .. k
      BY <2>2, <1>1
    <3> QED
      BY <2>1, <3>1, <1>2 DEF FirstOf
  <2>3. CASE ~ (i <= k)
    <3>1. i - k \in 1 .. n - k /\ k + (i - k) = i
      BY <2>3, <1>1
    <3>2. rest[i - k] = x /\ i - k \in DOMAIN rest
      BY <2>1, <3>1, <1>5
    <3> QED
      BY <3>2, Zenon DEF Range
  <2> QED
    BY <2>2, <2>3
<1>7. ASSUME rampComplete', pendingSessions' # <<>>
      PROVE  Cardinality(active \cup S) = Target
  <2>1. k # n
    <3>1. k = n => rest = <<>>
      BY <1>1
    <3> QED
      BY <3>1, <1>2, <1>7
  <2>2. CurrentTarget = Target
    BY <1>2, <1>7 DEF CurrentTarget
  <2>3. k + Cardinality(active) = CurrentTarget
    <3> DEFINE size == Cardinality(active)
               target == CurrentTarget
    <3>1. size \in Nat /\ target \in Nat /\ size <= target
      BY <1>1
    <3>2. k = IF target - size <= 0 THEN 0 ELSE IF target - size <= n THEN target - size ELSE n
      BY <1>4
    <3> HIDE DEF size, target, n
    <3>3. k + size = target
      BY <2>1, <3>1, <3>2
    <3> QED
      BY <3>3 DEF size, target
  <2>4. Cardinality(S) = k /\ IsFiniteSet(S)
    BY <1>1, <1>2, FirstOfSize, FirstOfSizeExact
  <2>5. IsFiniteSet(active)
    BY SessionAssumption, FS_Subset
  <2>6. Cardinality(active \cup S) = Cardinality(active) + Cardinality(S)
    <3>1. Cardinality(active \cap S) = 0
      BY FS_EmptySet DEF S
    <3>2. Cardinality(active \cup S)
            = Cardinality(active) + Cardinality(S) - Cardinality(active \cap S)
      BY <2>4, <2>5, FS_Union
    <3> HIDE DEF n
    <3> QED
      BY <1>1, <2>4, <3>1, <3>2
  <2> HIDE DEF n
  <2> QED
    BY <1>1, <2>2, <2>3, <2>4, <2>6
<1> QED
  BY <1>2, <1>6, <1>7 DEF S, Waiting

\* Every step activates fresh sessions and pops, or completes a request and
\* activates fresh sessions, or moves nothing but the time; and a session that
\* leaves the prefetch worker or the line is one of those activated.
LEMMA StepShape ==
    ASSUME IInv, [Next]_vars
    PROVE  \/ \E S \in SUBSET Session :
                 /\ \A s \in S : Untouched(s)
                 /\ unscheduled \cup Waiting \subseteq unscheduled' \cup Waiting' \cup S
                 /\ \/ \E I : ActivateAndPop(S, now, I)
                    \/ \E r \in Sent, outcome \in Outcome : \E t \in AnswerTimes(r) :
                          CompleteAndActivate(r, outcome, t, S)
           \/ UNCHANGED <<unscheduled, sessions, canceled, pendingNodes, queuedNodes,
                          completions, outcomes, nodeHistory, readyQueue, inFlight, sentAt, history,
                          pendingSessions>>
<1> DEFINE Shape(S) ==
        /\ \A s \in S : Untouched(s)
        /\ unscheduled \cup Waiting \subseteq unscheduled' \cup Waiting' \cup S
        /\ \/ \E I : ActivateAndPop(S, now, I)
           \/ \E r \in Sent, outcome \in Outcome : \E t \in AnswerTimes(r) :
                 CompleteAndActivate(r, outcome, t, S)
<1>t. /\ pendingSessions \in Seq(Session) /\ Distinct(pendingSessions)
      /\ rampComplete \in BOOLEAN /\ now \in Nat /\ sessions \in SUBSET Session
      /\ CurrentTarget \in Nat /\ Cardinality(sessions) <= CurrentTarget
      /\ \A s \in unscheduled \cup Waiting : Untouched(s) /\ s \in Session /\ s \notin sessions
  <2>1. rampComplete \in BOOLEAN /\ now \in Nat
    BY DEF IInv, TypeOK, CoreTypeOK
  <2>2. CurrentTarget \in Nat
    BY <2>1, TargetAtMost
  <2> QED
    BY <2>1, <2>2 DEF IInv, TypeOK, CoreTypeOK, WaitOnce, ConcurrencyHeld, FreshUntouched, Untouched
<1>1. ASSUME NEW s \in Session, ScheduleSession(s) PROVE \E S \in SUBSET Session : Shape(S)
  <2> DEFINE queue == Append(pendingSessions, s)
             S == Admitted(queue, sessions)
  <2>1. /\ s \in unscheduled /\ unscheduled' = unscheduled \ {s}
        /\ Admit(queue, sessions)
        /\ ActivateOnto(S, now, readyQueue)
        /\ UNCHANGED <<now, canceled, completions, outcomes, nodeHistory, sentAt, history>>
    BY <1>1 DEF ScheduleSession
  <2>2. queue \in Seq(Session) /\ Distinct(queue) /\ Range(queue) = Waiting \cup {s}
    BY <1>t, <2>1, AppendToLine DEF IInv, WaitOnce, Waiting
  <2>3. ActivateAndPop(S, now, {})
    BY <2>1 DEF ActivateAndPop, ActivateOnto
  <2> HIDE DEF queue
  <2>4. S \subseteq Range(queue)
    BY <1>t, <2>1, <2>2, Admission
  <2>5. sessions \cap S = {}
    BY <1>t, <2>1, <2>2, <2>4
  <2>6. Range(queue) \subseteq S \cup Waiting'
    BY <1>t, <2>1, <2>2, <2>5, AdmissionFills
  <2> HIDE DEF S
  <2>7. Shape(S) /\ S \in SUBSET Session
    BY <1>t, <2>1, <2>2, <2>3, <2>4, <2>6
  <2> QED
    BY <2>7
<1>2. ASSUME WaitForReady PROVE \E S \in SUBSET Session : Shape(S)
  <2> DEFINE S == Admitted(pendingSessions, sessions)
  <2>1. Admit(pendingSessions, sessions) /\ unscheduled' = unscheduled
    BY <1>2 DEF WaitForReady
  <2>2. \E I : ActivateAndPop(S, now, I)
    BY <1>2, WaitActivates
  <2>3. S \subseteq Waiting
    BY <1>t, <2>1, Admission DEF Waiting
  <2>4. sessions \cap S = {}
    BY <1>t, <2>3
  <2>5. Waiting \subseteq S \cup Waiting'
    BY <1>t, <2>1, <2>4, AdmissionFills DEF Waiting
  <2> HIDE DEF S
  <2>6. Shape(S) /\ S \in SUBSET Session
    BY <1>t, <2>1, <2>2, <2>3, <2>5
  <2> QED
    BY <2>6
<1>3. ASSUME PopReady PROVE \E S \in SUBSET Session : Shape(S)
  <2>1. PICK i \in Due(readyQueue) : readyQueue' = readyQueue \ {i} /\ MarkSent(i.req)
    BY <1>3 DEF PopReady
  <2>2. readyQueue \cup RootItems({}, now) = readyQueue
    BY NothingActivated
  <2>3. ActivateAndPop({}, now, {i})
    BY <1>3, <2>1, <2>2, NothingActivated DEF ActivateAndPop, PopReady
  <2>4. Shape({})
    BY <1>3, <2>3 DEF PopReady, Waiting
  <2> QED
    BY <2>4
<1>4. ASSUME NEW r \in Request, Completes(r) PROVE \E S \in SUBSET Session : Shape(S)
  <2>1. PICK outcome \in Outcome, t \in AnswerTimes(r) : NotifyCompletion(r, outcome, t)
    BY <1>4 DEF Completes
  <2> DEFINE ended  == Ended(r, outcome)
             active == sessions \ ended
             S      == Admitted(pendingSessions, active)
  <2>2. r \in Sent
    BY <2>1 DEF NotifyCompletion
  <2>3. CASE CompleteAndActivate(r, outcome, t, {}) /\ UNCHANGED <<pendingSessions, rampComplete>>
    <3>1. unscheduled' = unscheduled /\ Waiting' = Waiting
      BY <2>3 DEF CompleteAndActivate, Waiting
    <3>2. Shape({})
      BY <2>1, <2>2, <2>3, <3>1
    <3> QED
      BY <3>2
  <2>4. CASE CompleteAndActivate(r, outcome, t, S) /\ Admit(pendingSessions, active)
    <3>1. unscheduled' = unscheduled
      BY <2>4 DEF CompleteAndActivate
    <3>2. active \in SUBSET Session /\ Cardinality(active) <= CurrentTarget
      <4>1. active \in SUBSET sessions
        OBVIOUS
      <4> HIDE DEF active
      <4> QED
        BY <1>t, <4>1, FewerActive
    <3> HIDE DEF active
    <3>3. S \subseteq Waiting
      BY <1>t, <2>4, <3>2, Admission DEF Waiting
    <3>4. active \cap S = {}
      BY <1>t, <3>3 DEF active
    <3>5. Waiting \subseteq S \cup Waiting'
      BY <1>t, <2>4, <3>2, <3>4, AdmissionFills DEF Waiting
    <3> HIDE DEF S
    <3>6. Shape(S) /\ S \in SUBSET Session
      BY <1>t, <2>2, <2>4, <3>1, <3>3, <3>5
    <3> QED
      BY <3>6
  <2> QED
    BY <2>1, <2>3, <2>4 DEF NotifyCompletion
<1>5. CASE TickConcurrent
  BY <1>5 DEF TickConcurrent, Tick
<1>6. CASE UNCHANGED vars
  BY <1>6 DEF vars, coreVars
<1> QED
  BY <1>1, <1>2, <1>3, <1>4, <1>5, <1>6 DEF Next

\* The requests of every session that was activated are accounted for.
AllAccounted == \A r \in Request : SessionOf[r] \notin unscheduled \cup Waiting => Accounted(r)

LEMMA ConversationStep == IInv /\ Conversation /\ [Next]_vars => Conversation'
<1> SUFFICES ASSUME IInv, Conversation, [Next]_vars PROVE Conversation'
  OBVIOUS
<1>1. CoreInv /\ now \in Nat
  BY DEF IInv, CoreInv, CoreTypeOK
<1>2. ASSUME NEW S \in SUBSET Session, \A s \in S : Untouched(s),
             NEW I, ActivateAndPop(S, now, I)
      PROVE  Conversation'
  BY <1>1, <1>2, ConversationPop
<1>3. ASSUME NEW S \in SUBSET Session, NEW r \in Sent, NEW outcome \in Outcome,
             NEW t \in AnswerTimes(r), CompleteAndActivate(r, outcome, t, S)
      PROVE  Conversation'
  BY <1>1, <1>3, ConversationCompletion DEF Reports
<1>4. ASSUME UNCHANGED <<completions, outcomes, nodeHistory, readyQueue, sentAt, history>>
      PROVE  Conversation'
  BY <1>4, ConversationUnmoved
<1> QED
  BY <1>2, <1>3, <1>4, StepShape

LEMMA AccountedStep == IInv /\ AllAccounted /\ [Next]_vars => AllAccounted'
<1> SUFFICES ASSUME IInv, AllAccounted, [Next]_vars,
                    NEW r \in Request, SessionOf[r] \notin unscheduled' \cup Waiting'
             PROVE  Accounted(r)'
  BY DEF AllAccounted
<1>1. CoreInv /\ now \in Nat
  BY DEF IInv, CoreInv, CoreTypeOK
<1>2. ASSUME NEW S \in SUBSET Session, \A s \in S : Untouched(s),
             unscheduled \cup Waiting \subseteq unscheduled' \cup Waiting' \cup S,
             \/ \E I : ActivateAndPop(S, now, I)
             \/ \E x \in Sent, outcome \in Outcome : \E t \in AnswerTimes(x) :
                   CompleteAndActivate(x, outcome, t, S)
      PROVE  Accounted(r)'
  <2>1. Accounted(r) \/ SessionOf[r] \in S
    BY <1>2 DEF AllAccounted
  <2>2. ASSUME NEW I, ActivateAndPop(S, now, I) PROVE Accounted(r)'
    BY <1>1, <1>2, <2>1, <2>2, AccountedPop
  <2>3. ASSUME NEW x \in Sent, NEW outcome \in Outcome, NEW t \in AnswerTimes(x),
               CompleteAndActivate(x, outcome, t, S)
        PROVE  Accounted(r)'
    BY <1>1, <2>1, <2>3, AccountedCompletion DEF Reports
  <2> QED
    BY <1>2, <2>2, <2>3
<1>3. ASSUME UNCHANGED <<unscheduled, sessions, canceled, pendingNodes, queuedNodes,
                         completions, outcomes, nodeHistory, readyQueue, inFlight, sentAt, history,
                         pendingSessions>>
      PROVE  Accounted(r)'
  BY <1>3 DEF AllAccounted, Accounted, Waiting
<1> QED
  BY <1>2, <1>3, StepShape

\* The steps that end with an admission leave no place free for one who
\* waits; the others change neither the line nor the sessions.
LEMMA PlacesStep == IInv /\ PlacesStayTaken /\ [Next]_vars => PlacesStayTaken'
<1> SUFFICES ASSUME IInv, PlacesStayTaken, [Next]_vars PROVE PlacesStayTaken'
  OBVIOUS
<1>t. /\ pendingSessions \in Seq(Session) /\ Distinct(pendingSessions)
      /\ rampComplete \in BOOLEAN /\ now \in Nat /\ sessions \in SUBSET Session
      /\ CurrentTarget \in Nat /\ Cardinality(sessions) <= CurrentTarget
      /\ \A s \in unscheduled \cup Waiting : s \in Session /\ s \notin sessions
  <2>1. rampComplete \in BOOLEAN /\ now \in Nat
    BY DEF IInv, TypeOK, CoreTypeOK
  <2>2. CurrentTarget \in Nat
    BY <2>1, TargetAtMost
  <2> QED
    BY <2>1, <2>2 DEF IInv, TypeOK, CoreTypeOK, WaitOnce, ConcurrencyHeld, FreshUntouched, Untouched
<1>a. ASSUME NEW queue \in Seq(Session), Distinct(queue),
             \A s \in Range(queue) : s \notin sessions,
             NEW active \in SUBSET sessions, Admit(queue, active),
             sessions' = active \cup Admitted(queue, active)
      PROVE  PlacesStayTaken'
  <2>1. active \in SUBSET Session /\ Cardinality(active) <= CurrentTarget
    BY <1>t, FewerActive
  <2>2. Admitted(queue, active) \subseteq Range(queue)
    BY <1>t, <1>a, <2>1, Admission
  <2>3. active \cap Admitted(queue, active) = {}
    BY <1>a, <2>2
  <2>4. rampComplete' /\ pendingSessions' # <<>> =>
            Cardinality(active \cup Admitted(queue, active)) = Target
    BY <1>t, <1>a, <2>1, <2>3, AdmissionFills
  <2> QED
    BY <1>a, <2>4 DEF PlacesStayTaken
<1>b. ASSUME UNCHANGED <<pendingSessions, rampComplete, sessions>> PROVE PlacesStayTaken'
  BY <1>b DEF PlacesStayTaken
<1>1. ASSUME NEW s \in Session, ScheduleSession(s) PROVE PlacesStayTaken'
  <2> DEFINE queue == Append(pendingSessions, s)
  <2>1. s \in unscheduled /\ Admit(queue, sessions)
        /\ sessions' = sessions \cup Admitted(queue, sessions)
    BY <1>1 DEF ScheduleSession, ActivateOnto
  <2>2. queue \in Seq(Session) /\ Distinct(queue) /\ Range(queue) = Waiting \cup {s}
    BY <1>t, <2>1, AppendToLine DEF IInv, WaitOnce, Waiting
  <2> HIDE DEF queue
  <2> QED
    BY <1>t, <1>a, <2>1, <2>2
<1>2. CASE WaitForReady
  <2>1. /\ Admit(pendingSessions, sessions)
        /\ sessions' = sessions \cup Admitted(pendingSessions, sessions)
    BY <1>2 DEF WaitForReady, ActivateOnto
  <2> QED
    BY <1>t, <1>a, <2>1 DEF Waiting
<1>3. CASE PopReady
  BY <1>3, <1>b DEF PopReady
<1>4. ASSUME NEW r \in Request, Completes(r) PROVE PlacesStayTaken'
  <2>1. PICK outcome \in Outcome, t \in AnswerTimes(r) : NotifyCompletion(r, outcome, t)
    BY <1>4 DEF Completes
  <2> DEFINE active == sessions \ Ended(r, outcome)
  <2>2. CASE /\ Ended(r, outcome) = {}
             /\ CompleteAndActivate(r, outcome, t, {})
             /\ UNCHANGED <<pendingSessions, rampComplete>>
    BY <2>2, <1>b DEF CompleteAndActivate
  <2>3. CASE /\ CompleteAndActivate(r, outcome, t, Admitted(pendingSessions, active))
             /\ Admit(pendingSessions, active)
    <3>1. sessions' = active \cup Admitted(pendingSessions, active)
      BY <2>3 DEF CompleteAndActivate
    <3>2. active \in SUBSET sessions
      OBVIOUS
    <3> HIDE DEF active
    <3> QED
      BY <1>t, <1>a, <2>3, <3>1, <3>2 DEF Waiting
  <2> QED
    BY <2>1, <2>2, <2>3 DEF NotifyCompletion
<1>5. CASE TickConcurrent
  BY <1>5, <1>b DEF TickConcurrent, Tick
<1>6. CASE UNCHANGED vars
  BY <1>6, <1>b DEF vars, coreVars
<1> QED
  BY <1>1, <1>2, <1>3, <1>4, <1>5, <1>6 DEF Next

LEMMA ConsequencesInitially == Init => Conversation /\ AllAccounted /\ PlacesStayTaken
<1> SUFFICES ASSUME Init PROVE Conversation /\ AllAccounted /\ PlacesStayTaken
  OBVIOUS
<1>1. Conversation
  BY ConversationInitially DEF Init
<1>2. AllAccounted
  BY SessionAssumption DEF Init, CoreInit, AllAccounted
<1>3. PlacesStayTaken
  BY DEF Init, PlacesStayTaken
<1> QED
  BY <1>1, <1>2, <1>3

\* No request is sent before the last of its parents and its own delay, for
\* any acyclic graphs and delays.
THEOREM SentInTime == Spec => []NeverEarly
<1>1. Conversation => NeverEarly
  BY DEF Conversation
<1> QED
  BY <1>1, Invariance, ConversationStep, ConsequencesInitially, PTL DEF Spec

\* Every request sent carries its history parent's conversation and turn.
THEOREM HistoriesRight == Spec => []HistoryIsAncestry
<1>1. Conversation => HistoryIsAncestry
  BY DEF Conversation
<1> QED
  BY <1>1, Invariance, ConversationStep, ConsequencesInitially, PTL DEF Spec

\* A finished session has nothing unfinished that it ever sent.
THEOREM NothingLost == Spec => []FinishedAreDone
<1>1. IInv /\ AllAccounted => FinishedAreDone
  <2> SUFFICES ASSUME IInv, AllAccounted, NEW r \in Request,
                      SessionOf[r] \notin unscheduled \cup Waiting \cup sessions
               PROVE  \/ completions[r] # NotYet
                      \/ SessionOf[r] \in canceled /\ sentAt[r] = NotYet
    BY DEF FinishedAreDone, FinishedMeansDone
  <2>1. Accounted(r) /\ r \notin pendingNodes \cup queuedNodes
    BY DEF AllAccounted, IInv, CoreInv, HeldByActive
  <2> QED
    BY <2>1 DEF Accounted
<1> QED
  BY <1>1, Invariance, AccountedStep, ConsequencesInitially, PTL DEF Spec

\* After the ramp no place is free while a session waits for one.
THEOREM PlacesFilled == Spec => []PlacesStayTaken
  BY Invariance, PlacesStep, ConsequencesInitially, PTL DEF Spec

-----------------------------------------------------------------------------
(* The scheduler implements TrafficContract.                               *)

\* The contract counts as this module does.
LEMMA SameCardinality == \A S : Contract!Cardinality(S) = Cardinality(S)
  BY DEF Contract!Cardinality, Cardinality

\* Every step is one of the contract's or leaves fates and places alone.
LEMMA ContractStep ==
    IInv /\ Conversation /\ [Next]_vars => [Contract!Next]_(Contract!contractVars)
<1> SUFFICES ASSUME IInv, Conversation, [Next]_vars
             PROVE  Contract!Next \/ (Fate' = Fate /\ sessions' = sessions)
  BY DEF Contract!contractVars
<1>1. /\ CoreInv /\ now \in Nat /\ IInv' /\ CoreInv'
      /\ sessions \in SUBSET Session /\ sessions' \in SUBSET Session
  BY Inductive DEF IInv, CoreInv, CoreTypeOK
<1>2. Cardinality(sessions') <= Target
  <2>1. /\ now' \in Nat /\ rampComplete' \in BOOLEAN /\ Cardinality(sessions') <= CurrentTarget'
    BY <1>1 DEF IInv, TypeOK, CoreTypeOK, ConcurrencyHeld
  <2>2. CurrentTarget' \in Nat /\ CurrentTarget' <= Target
    BY <2>1, TargetAtMost
  <2>3. Cardinality(sessions') \in Nat
    BY <1>1, SessionAssumption, FS_Subset, FS_CardinalityType
  <2> QED
    BY <2>1, <2>2, <2>3, RampAssumption
<1>3. ASSUME NEW closed, NEW S \in SUBSET {s \in Session \ sessions :
                                             \A q \in NodesOf(s) : Fate[q] = "idle"},
             sessions' = (sessions \ closed) \cup S
      PROVE  Contract!OpenUp(closed)
  <2>1. S \in SUBSET Contract!Fresh
    BY DEF Contract!Fresh, Contract!NodesOf, NodesOf
  <2> QED
    BY <1>2, <1>3, <2>1, SameCardinality DEF Contract!OpenUp
<1>4. ASSUME NEW S \in SUBSET Session, \A s \in S : Untouched(s),
             NEW I, ActivateAndPop(S, now, I)
      PROVE  Contract!Next
  <2>1. /\ S \subseteq {s \in Session \ sessions : \A q \in NodesOf(s) : Fate[q] = "idle"}
        /\ sessions' = sessions \cup S
        /\ \/ Fate' = Fate
           \/ \E r \in Request :
                 /\ Fate[r] = "idle" /\ \A p \in Parents(r) : Fate[p] = "done"
                 /\ SessionOf[r] \in sessions'
                 /\ Fate' = [Fate EXCEPT ![r] = "sent"]
    BY <1>1, <1>4, FateOfPop
  <2>2. sessions' = (sessions \ {}) \cup S
    BY <2>1
  <2>3. Contract!OpenUp({})
    BY <1>3, <2>1, <2>2
  <2>4. CASE Fate' = Fate
    BY <2>3, <2>4 DEF Contract!Next, Contract!Admission
  <2>5. ASSUME NEW r \in Request, Fate[r] = "idle", \A p \in Parents(r) : Fate[p] = "done",
               SessionOf[r] \in sessions', Fate' = [Fate EXCEPT ![r] = "sent"]
        PROVE  Contract!Next
    <3>1. ~ Contract!Blocked(r)
      BY <2>5 DEF Contract!Blocked, Contract!Parents, Parents
    <3> QED
      BY <2>3, <2>5, <3>1 DEF Contract!Next, Contract!Send
  <2> QED
    BY <2>1, <2>4, <2>5
<1>5. ASSUME NEW S \in SUBSET Session, \A s \in S : Untouched(s),
             NEW r \in Sent, NEW outcome \in Outcome, NEW t \in AnswerTimes(r),
             CompleteAndActivate(r, outcome, t, S)
      PROVE  Contract!Next
  <2>1. /\ Fate[r] = "sent"
        /\ Fate' = [q \in Request |-> IF q = r THEN "done"
                                      ELSE IF q \in Lost(r, outcome) THEN "dropped" ELSE Fate[q]]
        /\ Ended(r, outcome) = {s \in {SessionOf[r]} :
                                  \A q \in NodesOf(s) : Fate'[q] \in {"done", "dropped"}}
        /\ S \subseteq {s \in Session \ sessions : \A q \in NodesOf(s) : Fate[q] = "idle"}
        /\ sessions' = (sessions \ Ended(r, outcome)) \cup S
    BY <1>1, <1>5, FateOfCompletion DEF Reports
  <2>2. r \in Request
    BY DEF Sent
  <2>3. Contract!OpenUp({s \in {SessionOf[r]} : Contract!Settled(Fate', s)})
    <3>1. Ended(r, outcome) = {s \in {SessionOf[r]} : Contract!Settled(Fate', s)}
      BY <2>1 DEF Contract!Settled, Contract!NodesOf, NodesOf
    <3> QED
      BY <1>3, <2>1, <3>1
  <2>4. Contract!Finish(r, Lost(r, outcome))
    BY <2>1, <2>3 DEF Contract!Finish
  <2>5. CASE Cancels(outcome)
    <3>1. Lost(r, outcome) = {q \in Contract!NodesOf(SessionOf[r]) : Contract!Blocked(q)}
      BY <2>5 DEF Lost, BlockedWith, Contract!Blocked, Contract!NodesOf, NodesOf, Contract!Parents,
                  Parents
    <3>2. CancelOnFailure
      BY <2>5 DEF Cancels
    <3> QED
      BY <2>2, <2>4, <3>1, <3>2 DEF Contract!Next, Contract!Fail
  <2>6. CASE ~ Cancels(outcome)
    BY <2>2, <2>4, <2>6 DEF Lost, Contract!Next, Contract!Succeed
  <2> QED
    BY <2>5, <2>6
<1>6. ASSUME UNCHANGED <<sessions, canceled, completions, inFlight, sentAt>>
      PROVE  Fate' = Fate /\ sessions' = sessions
  BY <1>6 DEF Fate, Sent
<1> QED
  BY <1>4, <1>5, <1>6, StepShape

\* Every behaviour of the scheduler is one of TrafficContract with Target
\* places, for any graphs, target, ramp and cancel setting: the least the
\* benchmark relies on, free of clocks and heaps.
THEOREM KeepsContract == Spec => ImplementsContract
<1>1. Init => Contract!Init
  <2> SUFFICES ASSUME Init PROVE Fate = [r \in Request |-> "idle"] /\ sessions = {}
    BY DEF Contract!Init
  <2>1. \A r \in Request : completions[r] = NotYet /\ r \notin Sent /\ SessionOf[r] \notin canceled
    BY DEF Init, CoreInit, Sent
  <2> QED
    BY <2>1 DEF Fate, Init, CoreInit
<1> QED
  BY <1>1, Invariance, ConversationStep, ConsequencesInitially, ContractStep, PTL
     DEF Spec, ImplementsContract, Contract!Spec
=============================================================================
