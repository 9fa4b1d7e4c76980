--------------------- MODULE WorkloadsAndMeasures_proofs ---------------------
(***************************************************************************)
(* For any configurations, sessions, requests and numbers of files: what   *)
(* the parts that prepare a run and judge it promise.  Each section gives  *)
(* the inductive invariant of one part; the theorems at the end are about  *)
(* the specification that the run checks, in which a behaviour is of one   *)
(* part.                                                                   *)
(***************************************************************************)
EXTENDS WorkloadsAndMeasures, FiniteSetTheorems, SequenceTheorems, TLAPS

-----------------------------------------------------------------------------
(* The capacity search (CapacitySearch): the values lie on a grid.         *)

First == Search!OnGrid(start, Frac)
Last  == Search!OnGrid(ceiling, Frac)

LEMMA ProductsGrow ==
    ASSUME NEW a \in Nat, NEW b \in Nat, NEW d \in Nat \ {0}, a <= b
    PROVE  a * d <= b * d
  OBVIOUS

LEMMA Divided ==
    ASSUME NEW n \in Nat, NEW d \in Nat \ {0}
    PROVE  /\ n \div d \in Nat /\ n % d \in 0 .. d - 1
           /\ n = d * (n \div d) + (n % d)
  OBVIOUS

\* What round() gives is a number, and keeps the order.
LEMMA RoundedIsNat ==
    ASSUME NEW n \in Nat, NEW d \in Nat \ {0}
    PROVE  Search!Rounded(n, d) \in {n \div d, n \div d + 1}
  BY Divided DEF Search!Rounded

LEMMA RoundedType ==
    ASSUME NEW n \in Nat, NEW d \in Nat \ {0}
    PROVE  Search!Rounded(n, d) \in Nat
<1> DEFINE q == n \div d
<1>1. q \in Nat /\ Search!Rounded(n, d) \in {q, q + 1}
  BY Divided, RoundedIsNat, ZenonT(60)
<1> QED
  BY <1>1

LEMMA RoundedKeepsOrder ==
    ASSUME NEW n \in Nat, NEW m \in Nat, NEW d \in Nat \ {0}, n <= m
    PROVE  Search!Rounded(n, d) <= Search!Rounded(m, d)
<1> DEFINE a == n \div d
           b == m \div d
           r == n % d
           s == m % d
<1>1. /\ a \in Nat /\ b \in Nat /\ r \in 0 .. d - 1 /\ s \in 0 .. d - 1
      /\ n = d * a + r /\ m = d * b + s
  BY Divided, SMTT(40)
<1>2. /\ Search!Rounded(n, d) = IF 2 * r > d \/ (2 * r = d /\ a % 2 = 1) THEN a + 1 ELSE a
      /\ Search!Rounded(m, d) = IF 2 * s > d \/ (2 * s = d /\ b % 2 = 1) THEN b + 1 ELSE b
  BY SMTT(40) DEF Search!Rounded
<1> HIDE DEF a, b, r, s
<1>3. a <= b
  <2> SUFFICES ASSUME b + 1 <= a PROVE FALSE
    BY <1>1
  <2>1. (b + 1) * d <= a * d
    BY <1>1, ProductsGrow
  <2> QED
    BY <1>1, <2>1
<1>4. CASE a = b
  BY <1>1, <1>2, <1>4
<1>5. CASE a < b
  BY <1>1, <1>2, <1>5
<1> QED
  BY <1>1, <1>3, <1>4, <1>5

\* A number of steps that reaches the value is not exceeded by rounding.
LEMMA RoundedIsReached ==
    ASSUME NEW n \in Nat, NEW d \in Nat \ {0}, NEW v \in Nat, v * d >= n
    PROVE  Search!Rounded(n, d) <= v
<1> DEFINE a == n \div d
           r == n % d
<1>1. a \in Nat /\ r \in 0 .. d - 1 /\ n = d * a + r
  BY Divided, ZenonT(60)
<1>2. Search!Rounded(n, d) = IF 2 * r > d \/ (2 * r = d /\ a % 2 = 1) THEN a + 1 ELSE a
  BY DEF Search!Rounded
<1> HIDE DEF a, r
<1>3. a <= v
  <2> SUFFICES ASSUME v + 1 <= a PROVE FALSE
    BY <1>1
  <2>1. (v + 1) * d <= a * d
    BY <1>1, ProductsGrow
  <2> QED
    BY <1>1, <2>1
<1>4. CASE a = v
  <2>1. r = 0
    BY <1>1, <1>4
  <2> QED
    BY <1>1, <1>2, <1>4, <2>1
<1>5. CASE a < v
  BY <1>1, <1>2, <1>5
<1> QED
  BY <1>1, <1>3, <1>4, <1>5

LEMMA OnGridIsNat ==
    ASSUME NEW n \in Nat, NEW d \in Nat \ {0}
    PROVE  Search!OnGrid(n, d) \in Nat
<1>2. Search!Rounded(n, d) \in Nat
  BY RoundedType
<1> QED
  BY <1>2 DEF Search!OnGrid

LEMMA OnGridKeepsOrder ==
    ASSUME NEW n \in Nat, NEW m \in Nat, NEW d \in Nat \ {0}, n <= m
    PROVE  Search!OnGrid(n, d) <= Search!OnGrid(m, d)
<1>2. Search!Rounded(n, d) \in Nat /\ Search!Rounded(m, d) \in Nat
  BY RoundedType
<1>3. Search!Rounded(n, d) <= Search!Rounded(m, d)
  BY RoundedKeepsOrder
<1> QED
  BY <1>2, <1>3 DEF Search!OnGrid

LEMMA OnGridIsReached ==
    ASSUME NEW n \in Nat \ {0}, NEW d \in Nat \ {0}, NEW v \in Nat, v * d >= n
    PROVE  Search!OnGrid(n, d) <= v
<1>2. Search!Rounded(n, d) \in Nat
  BY RoundedType, SMTT(40)
<1>3. Search!Rounded(n, d) <= v
  BY RoundedIsReached
<1>4. v # 0
  OBVIOUS
<1> QED
  BY <1>2, <1>3, <1>4 DEF Search!OnGrid

-----------------------------------------------------------------------------
SearchTyped ==
    /\ start \in StartValue /\ ceiling \in MaxValue /\ start <= ceiling
    /\ capacity \in Nat /\ noisy \in BOOLEAN
    /\ phase \in {"probing", "bisecting", "done"}
    /\ probe \in Nat
    /\ lastPassing \in Nat \cup {Search!NoValue} /\ lo \in Nat \cup {Search!NoValue}
    /\ hi \in Nat \cup {Search!NoValue} /\ best \in Nat \cup {Search!NoValue}
    /\ iters \in Nat
    /\ tried \in Seq([value : Nat, met : BOOLEAN])

\* Of the values that passed.
Greatest(v) ==
    IF v = Search!NoValue THEN Search!Passed = {}
    ELSE v \in Search!Passed /\ \A x \in Search!Passed : x <= v

Probing ==
    phase = "probing" =>
        /\ First <= probe /\ probe <= Last
        /\ Greatest(lastPassing) /\ lastPassing <= probe
        /\ IF lastPassing = Search!NoValue THEN probe = First ELSE First <= lastPassing
        /\ ~noisy => lastPassing <= capacity
        /\ best = Search!NoValue

\* The capacity, if there is one, is never outside of the gap.
Bisecting ==
    phase = "bisecting" =>
        /\ best = lo /\ Greatest(lo)
        /\ First <= lo /\ lo <= hi /\ hi <= Last
        /\ ~noisy => lo <= capacity /\ capacity <= hi

SearchInv ==
    /\ SearchTyped /\ Probing /\ Bisecting
    /\ Search!UnwarnedIsMaximum /\ Search!BestIsGreatestPassed

LEMMA GridOfSearch ==
    ASSUME SearchTyped
    PROVE  /\ start \in Nat \ {0} /\ ceiling \in Nat \ {0} /\ Frac \in Nat \ {0}
           /\ First \in Nat /\ Last \in Nat /\ First <= Last
           /\ MaxIterations \in Nat
<1>1. start \in Nat \ {0} /\ ceiling \in Nat \ {0} /\ Frac \in Nat \ {0} /\ MaxIterations \in Nat
  BY SearchAssumption DEF SearchTyped, Search!SearchAssumption
<1> QED
  BY <1>1, OnGridIsNat, OnGridKeepsOrder, ZenonT(60) DEF SearchTyped, First, Last

LEMMA SmallerOfTwo ==
    ASSUME NEW a \in Int, NEW b \in Int
    PROVE  Search!Min({a, b}) = IF a <= b THEN a ELSE b
  BY SMTT(40) DEF Search!Min

LEMMA GreatestIsMax ==
    ASSUME NEW S, NEW v \in S, S \subseteq Int, \A x \in S : x <= v
    PROVE  Search!Max(S) = v
<1> DEFINE m == CHOOSE x \in S : \A y \in S : x >= y
<1>1. \E x \in S : \A y \in S : x >= y
  OBVIOUS
<1>2. m \in S /\ \A y \in S : m >= y
  BY <1>1, ZenonT(60)
<1>3. m = v
  <2> HIDE DEF m
  <2>1. m \in Int /\ v \in Int /\ m >= v /\ m <= v
    BY <1>2
  <2> QED
    BY <2>1
<1> QED
  BY <1>3 DEF Search!Max

LEMMA SearchInitially == Search!Init => SearchInv
<1> SUFFICES ASSUME Search!Init PROVE SearchInv
  OBVIOUS
<1>1. capacity \in Nat
  BY DEF Search!Init
<1>2. start \in Nat \ {0} /\ ceiling \in Nat \ {0} /\ Frac \in Nat \ {0}
  BY SearchAssumption DEF Search!Init, Search!SearchAssumption
<1>3. probe \in Nat
  BY <1>2, OnGridIsNat DEF Search!Init
<1>4. SearchTyped
  BY <1>1, <1>2, <1>3 DEF Search!Init, SearchTyped
<1>5. Search!Passed = {}
  BY DEF Search!Init, Search!Passed
<1>6. Probing
  BY <1>1, <1>4, <1>5, GridOfSearch DEF Search!Init, Probing, Greatest, First, Search!NoValue
<1> QED
  BY <1>4, <1>6 DEF Search!Init, SearchInv, Bisecting, Search!UnwarnedIsMaximum,
     Search!BestIsGreatestPassed

-----------------------------------------------------------------------------
\* A benchmark adds its value to the ones that passed, or leaves them.
LEMMA RunAdds ==
    ASSUME SearchTyped, NEW v \in Nat, NEW met \in BOOLEAN, Search!RunOne(v, met)
    PROVE  /\ tried' \in Seq([value : Nat, met : BOOLEAN]) /\ iters' \in Nat
           /\ Search!Passed' = IF met THEN Search!Passed \cup {v} ELSE Search!Passed
<1> DEFINE e == [value |-> v, met |-> met]
           n == Len(tried)
<1>1. /\ tried' = Append(tried, e) /\ iters' = iters + 1
      /\ n \in Nat /\ DOMAIN tried = 1 .. n
  BY DEF SearchTyped, Search!RunOne
<1>2. /\ tried' \in Seq([value : Nat, met : BOOLEAN])
      /\ DOMAIN tried' = 1 .. n + 1
      /\ \A j \in 1 .. n : tried'[j] = tried[j]
      /\ tried'[n + 1] = e
  <2>1. tried \in Seq([value : Nat, met : BOOLEAN]) /\ e \in [value : Nat, met : BOOLEAN]
    BY DEF SearchTyped
  <2>2. /\ tried' \in Seq([value : Nat, met : BOOLEAN]) /\ Len(tried') = n + 1
        /\ \A j \in 1 .. n : tried'[j] = tried[j]
        /\ tried'[n + 1] = e
    BY <1>1, <2>1, AppendProperties
  <2> QED
    BY <2>2
<1> HIDE DEF n
<1>3. ASSUME NEW x \in Search!Passed
      PROVE  x \in Search!Passed'
  <2>1. PICK j \in 1 .. n : tried[j].met /\ x = tried[j].value
    BY <1>1, <1>3 DEF Search!Passed
  <2>2. j \in 1 .. n + 1 /\ tried'[j] = tried[j]
    BY <1>1, <1>2, <2>1
  <2> QED
    BY <1>2, <2>1, <2>2 DEF Search!Passed
<1>4. ASSUME NEW x \in Search!Passed', x \notin Search!Passed
      PROVE  met /\ x = v
  <2>1. PICK j \in 1 .. n + 1 : tried'[j].met /\ x = tried'[j].value
    BY <1>2, <1>4 DEF Search!Passed
  <2>2. j \notin 1 .. n
    <3> SUFFICES ASSUME j \in 1 .. n PROVE FALSE
      BY SMTT(40)
    <3>1. tried[j].met /\ x = tried[j].value
      BY <1>2, <2>1
    <3> QED
      BY <1>1, <1>4, <3>1, SMTT(40) DEF Search!Passed
  <2>3. j = n + 1
    BY <1>1, <2>1, <2>2
  <2> QED
    BY <1>2, <2>1, <2>3
<1>5. met => v \in Search!Passed'
  <2>1. n + 1 \in 1 .. n + 1
    BY <1>1, SMTT(40)
  <2> QED
    BY <1>2, <2>1, SMTT(40) DEF Search!Passed
<1>6. Search!Passed' = IF met THEN Search!Passed \cup {v} ELSE Search!Passed
  BY <1>3, <1>4, <1>5
<1> QED
  BY <1>1, <1>2, <1>6, SMTT(40) DEF SearchTyped

LEMMA PassedAreNats == SearchTyped => Search!Passed \subseteq Nat
<1> SUFFICES ASSUME SearchTyped, NEW x \in Search!Passed PROVE x \in Nat
  OBVIOUS
<1>1. PICK j \in DOMAIN tried : x = tried[j].value
  BY DEF Search!Passed
<1>2. tried[j] \in [value : Nat, met : BOOLEAN]
  <2>1. tried \in Seq([value : Nat, met : BOOLEAN]) /\ j \in 1 .. Len(tried)
    BY <1>1 DEF SearchTyped
  <2> QED
    BY <2>1, ElementOfSeq, ZenonT(60)
<1> QED
  BY <1>1, <1>2

\* Where a search ends, with its greatest value that passed.
LEMMA GreatestIsReported ==
    ASSUME NEW S \in SUBSET Nat, NEW v \in Nat \cup {-1},
           IF v = -1 THEN S = {} ELSE v \in S /\ \A x \in S : x <= v
    PROVE  v = IF S = {} THEN -1 ELSE Search!Max(S)
<1>1. CASE v = -1
  BY <1>1
<1>2. CASE v # -1
  <2>1. v \in S /\ (\A x \in S : x <= v) /\ S \subseteq Int
    BY <1>2
  <2> QED
    BY <2>1, GreatestIsMax
<1> QED
  BY <1>1, <1>2

\* The next probe is greater, up to the ceiling.
LEMMA ProbeExpands ==
    ASSUME SearchTyped, probe <= Last
    PROVE  /\ Search!Expanded \in Nat /\ probe <= Search!Expanded /\ Search!Expanded <= Last
           /\ probe < Last => probe < Search!Expanded
<1> DEFINE grown == Search!OnGrid(probe * GrowNum, GrowDen)
           a == IF grown <= probe THEN probe + 1 ELSE grown
<1>1. GrowNum \in Nat /\ GrowDen \in Nat \ {0} /\ probe \in Nat
  BY SearchAssumption DEF Search!SearchAssumption, SearchTyped
<1>2. probe * GrowNum \in Nat
  BY <1>1
<1>3. grown \in Nat
  BY <1>1, <1>2, OnGridIsNat
<1>4. Last \in Nat
  BY GridOfSearch, SMTT(40)
<1>5. Search!Expanded = Search!Min({a, Last})
  BY DEF Search!Expanded, Last
<1> HIDE DEF grown
<1>6. a \in Nat /\ probe < a
  BY <1>1, <1>3
<1> HIDE DEF a
<1>7. Search!Expanded = IF a <= Last THEN a ELSE Last
  BY <1>4, <1>5, <1>6, SmallerOfTwo
<1> QED
  BY <1>1, <1>4, <1>6, <1>7

LEMMA SearchInductive == SearchInv /\ [Search!Next]_Search!vars => SearchInv'
<1> SUFFICES ASSUME SearchInv, [Search!Next]_Search!vars PROVE SearchInv'
  OBVIOUS
<1>a. SearchTyped
  BY DEF SearchInv
<1>b. /\ start \in Nat \ {0} /\ ceiling \in Nat \ {0} /\ Frac \in Nat \ {0}
      /\ First \in Nat /\ Last \in Nat /\ First <= Last
      /\ MaxIterations \in Nat
  BY <1>a, GridOfSearch
<1>c. Search!NoValue = -1
  BY DEF Search!NoValue
<1>d. UNCHANGED Search!config => First' = First /\ Last' = Last
  BY DEF Search!config, First, Last, Search!OnGrid, Search!Rounded
<1>e. Search!Passed \subseteq Nat
  BY <1>a, PassedAreNats
<1>f. /\ capacity \in Nat /\ noisy \in BOOLEAN /\ probe \in Nat /\ iters \in Nat
      /\ lastPassing \in Nat \cup {-1} /\ lo \in Nat \cup {-1}
      /\ hi \in Nat \cup {-1} /\ best \in Nat \cup {-1}
  BY <1>a, <1>c DEF SearchTyped
<1>g. \* a value of the grid that reaches the ceiling
      \A v \in Nat : v * Frac >= ceiling => Last <= v
  BY <1>b, OnGridIsReached DEF Last
<1>1. CASE Search!ProbePasses
  <2>1. /\ phase = "probing" /\ UNCHANGED <<start, ceiling, capacity, noisy, lo, hi>>
        /\ lastPassing' = probe /\ First' = First /\ Last' = Last
        /\ noisy \/ probe <= capacity
    BY <1>1, <1>d DEF Search!ProbePasses, Search!RunOne, Search!config
  <2>2. /\ tried' \in Seq([value : Nat, met : BOOLEAN]) /\ iters' \in Nat
        /\ Search!Passed' = Search!Passed \cup {probe}
    BY <1>1, <1>a, <1>f, RunAdds, ZenonT(60) DEF Search!ProbePasses
  <2>3. /\ First <= probe /\ probe <= Last /\ lastPassing <= probe
        /\ IF lastPassing = -1 THEN Search!Passed = {}
           ELSE \A x \in Search!Passed : x <= lastPassing
    BY <1>c, <2>1 DEF SearchInv, Probing, Greatest
  <2>4. /\ probe \in Search!Passed' /\ \A x \in Search!Passed' : x <= probe
        /\ Search!Passed' \in SUBSET Nat
    BY <1>e, <1>f, <2>2, <2>3
  <2>5. CASE probe * Frac >= ceiling \/ iters' = MaxIterations
    <3>1. phase' = "done" /\ best' = probe /\ probe' = probe
      BY <1>1, <2>5 DEF Search!ProbePasses
    <3>2. SearchTyped'
      BY <1>a, <1>f, <2>1, <2>2, <3>1 DEF SearchTyped
    <3>3. Search!UnwarnedIsMaximum'
      <4> SUFFICES ASSUME ~Search!Warned', ~noisy
                   PROVE  probe = IF capacity < First THEN Search!NoValue
                                  ELSE Search!Min({capacity, Last})
        BY <2>1, <3>1 DEF Search!UnwarnedIsMaximum, First, Last
      <4>1. probe * Frac >= ceiling
        BY <1>b, <1>c, <1>f, <2>1, <2>5, <3>1 DEF Search!Warned
      <4>2. probe = Last /\ Last <= capacity
        BY <1>b, <1>f, <1>g, <2>1, <2>3, <4>1
      <4> QED
        BY <1>b, <1>f, <4>2, SmallerOfTwo
    <3>4. Search!BestIsGreatestPassed'
      BY <1>c, <1>f, <2>4, <3>1, GreatestIsReported DEF Search!BestIsGreatestPassed
    <3> QED
      BY <3>1, <3>2, <3>3, <3>4 DEF SearchInv, Probing, Bisecting
  <2>6. CASE ~(probe * Frac >= ceiling \/ iters' = MaxIterations)
    <3>1. phase' = "probing" /\ best' = best /\ probe' = Search!Expanded
      BY <1>1, <2>1, <2>6 DEF Search!ProbePasses
    <3>2. probe' \in Nat /\ probe <= probe' /\ probe' <= Last
      BY <1>a, <2>3, <3>1, ProbeExpands
    <3>3. SearchTyped'
      BY <1>a, <1>f, <2>1, <2>2, <3>1, <3>2 DEF SearchTyped
    <3>4. Probing'
      BY <1>b, <1>c, <1>f, <2>1, <2>3, <2>4, <3>1, <3>2 DEF SearchInv, Probing, Greatest
    <3> QED
      BY <3>1, <3>3, <3>4 DEF SearchInv, Bisecting, Search!UnwarnedIsMaximum,
         Search!BestIsGreatestPassed
  <2> QED
    BY <2>5, <2>6
<1>2. CASE Search!ProbeFails
  <2>1. /\ phase = "probing" /\ UNCHANGED <<start, ceiling, capacity, noisy, probe, lastPassing>>
        /\ First' = First /\ Last' = Last
        /\ noisy \/ capacity < probe
    BY <1>2, <1>d, <1>f DEF Search!ProbeFails, Search!RunOne, Search!config
  <2>2. /\ tried' \in Seq([value : Nat, met : BOOLEAN]) /\ iters' \in Nat
        /\ Search!Passed' = Search!Passed
    BY <1>2, <1>a, <1>f, RunAdds, ZenonT(60) DEF Search!ProbeFails
  <2>3. /\ First <= probe /\ probe <= Last /\ lastPassing <= probe
        /\ Greatest(lastPassing) /\ best = -1
        /\ IF lastPassing = -1 THEN probe = First ELSE First <= lastPassing
        /\ noisy \/ lastPassing <= capacity
    BY <1>c, <2>1 DEF SearchInv, Probing
  <2>4. CASE lastPassing = -1
    <3>1. phase' = "done" /\ UNCHANGED <<lo, hi, best>>
      BY <1>2, <1>c, <2>4 DEF Search!ProbeFails
    <3>2. SearchTyped'
      BY <1>a, <2>1, <2>2, <3>1 DEF SearchTyped
    <3>3. Search!UnwarnedIsMaximum'
      BY <1>c, <2>1, <2>3, <2>4, <3>1 DEF Search!UnwarnedIsMaximum, First
    <3>4. Search!BestIsGreatestPassed'
      BY <1>c, <2>2, <2>3, <2>4, <3>1 DEF Search!BestIsGreatestPassed, Greatest
    <3> QED
      BY <3>1, <3>2, <3>3, <3>4 DEF SearchInv, Probing, Bisecting
  <2>5. CASE lastPassing # -1
    <3>1. phase' = "bisecting" /\ lo' = lastPassing /\ hi' = probe /\ best' = lastPassing
      BY <1>2, <1>c, <2>5 DEF Search!ProbeFails
    <3>2. SearchTyped'
      BY <1>a, <2>1, <2>2, <3>1 DEF SearchTyped
    <3>3. First <= lastPassing
      BY <2>3, <2>5
    <3>4. Bisecting'
      BY <1>b, <1>c, <1>f, <2>1, <2>2, <2>3, <2>5, <3>1, <3>3 DEF Bisecting, Greatest
    <3> QED
      BY <3>1, <3>2, <3>4 DEF SearchInv, Probing, Search!UnwarnedIsMaximum,
         Search!BestIsGreatestPassed
  <2> QED
    BY <2>4, <2>5
<1>3. CASE Search!BisectPasses
  <2> DEFINE m == Search!Middle
  <2>1. /\ phase = "bisecting" /\ lo < hi
        /\ best = lo /\ Greatest(lo) /\ First <= lo /\ hi <= Last
        /\ ~noisy => lo <= capacity /\ capacity <= hi
    BY <1>3 DEF Search!BisectPasses, SearchInv, Bisecting
  <2>2. m \in Nat /\ lo < m /\ m <= hi
    BY <1>b, <1>f, <2>1 DEF Search!Middle
  <2>3. /\ UNCHANGED <<start, ceiling, capacity, noisy, phase, probe, lastPassing, hi>>
        /\ lo' = m /\ best' = m
        /\ First' = First /\ Last' = Last
        /\ noisy \/ m <= capacity
    BY <1>3, <1>d DEF Search!BisectPasses, Search!RunOne, Search!config
  <2>4. /\ tried' \in Seq([value : Nat, met : BOOLEAN]) /\ iters' \in Nat
        /\ Search!Passed' = Search!Passed \cup {m}
    BY <1>3, <1>a, <2>2, RunAdds, ZenonT(60) DEF Search!BisectPasses
  <2> HIDE DEF m
  <2>5. m \in Search!Passed' /\ \A x \in Search!Passed' : x <= m
    BY <1>b, <1>c, <1>e, <1>f, <2>1, <2>2, <2>4 DEF Greatest
  <2>6. SearchTyped'
    BY <1>a, <2>2, <2>3, <2>4 DEF SearchTyped
  <2>7. Bisecting'
    BY <1>b, <1>c, <1>f, <2>1, <2>2, <2>3, <2>5 DEF Bisecting, Greatest
  <2> QED
    BY <2>1, <2>3, <2>6, <2>7 DEF SearchInv, Probing, Search!UnwarnedIsMaximum,
       Search!BestIsGreatestPassed
<1>4. CASE Search!BisectFails
  <2> DEFINE m == Search!Middle
  <2>1. /\ phase = "bisecting" /\ lo < hi
        /\ best = lo /\ Greatest(lo) /\ First <= lo /\ hi <= Last
        /\ ~noisy => lo <= capacity /\ capacity <= hi
    BY <1>4 DEF Search!BisectFails, SearchInv, Bisecting
  <2>2. m \in Nat /\ lo < m /\ m <= hi
    BY <1>b, <1>f, <2>1 DEF Search!Middle
  <2>3. /\ UNCHANGED <<start, ceiling, capacity, noisy, phase, probe, lastPassing, lo, best>>
        /\ hi' = m - 1
        /\ First' = First /\ Last' = Last
        /\ noisy \/ ~(m <= capacity)
    BY <1>4, <1>d DEF Search!BisectFails, Search!RunOne, Search!config
  <2>4. /\ tried' \in Seq([value : Nat, met : BOOLEAN]) /\ iters' \in Nat
        /\ Search!Passed' = Search!Passed
    BY <1>4, <1>a, <2>2, RunAdds, ZenonT(60) DEF Search!BisectFails
  <2> HIDE DEF m
  <2>6. SearchTyped'
    BY <1>a, <1>b, <1>f, <2>1, <2>2, <2>3, <2>4 DEF SearchTyped
  <2>7. Bisecting'
    BY <1>b, <1>c, <1>f, <2>1, <2>2, <2>3, <2>4 DEF Bisecting, Greatest
  <2> QED
    BY <2>1, <2>3, <2>6, <2>7 DEF SearchInv, Probing, Search!UnwarnedIsMaximum,
       Search!BestIsGreatestPassed
<1>5. CASE Search!Finish
  <2>1. /\ phase = "bisecting" /\ lo <= hi /\ phase' = "done"
        /\ lo >= hi \/ iters = MaxIterations
        /\ best = lo /\ Greatest(lo) /\ First <= lo /\ hi <= Last
        /\ ~noisy => lo <= capacity /\ capacity <= hi
    BY <1>5 DEF Search!Finish, SearchInv, Bisecting
  <2>2. /\ UNCHANGED <<start, ceiling, capacity, noisy, probe, lastPassing, lo, hi, best, iters, tried>>
        /\ First' = First /\ Last' = Last
    BY <1>5, <1>d DEF Search!Finish, Search!config
  <2>3. SearchTyped'
    BY <1>a, <2>1, <2>2 DEF SearchTyped
  <2>4. Search!Passed' = Search!Passed
    BY <2>2 DEF Search!Passed
  <2>5. Search!BestIsGreatestPassed'
    BY <1>c, <1>e, <1>f, <2>1, <2>2, <2>4, GreatestIsReported
       DEF Search!BestIsGreatestPassed, Greatest
  <2>6. Search!UnwarnedIsMaximum'
    <3> SUFFICES ASSUME ~Search!Warned', ~noisy
                 PROVE  best = IF capacity < First THEN Search!NoValue
                               ELSE Search!Min({capacity, Last})
      BY <2>1, <2>2 DEF Search!UnwarnedIsMaximum, First, Last
    <3>1. CASE lo >= hi
      BY <1>b, <1>f, <2>1, <3>1, SmallerOfTwo
    <3>2. CASE iters = MaxIterations
      <4>1. best * Frac = ceiling
        BY <1>b, <1>c, <1>f, <2>1, <2>2, <3>2 DEF Search!Warned
      <4>2. Last <= best
        BY <1>b, <1>f, <1>g, <2>1, <4>1
      <4> QED
        BY <1>b, <1>f, <2>1, <4>2, SmallerOfTwo
    <3> QED
      BY <2>1, <3>1, <3>2
  <2> QED
    BY <2>1, <2>3, <2>5, <2>6 DEF SearchInv, Probing, Bisecting
<1>6. CASE UNCHANGED Search!vars
  <2>1. UNCHANGED <<start, ceiling, capacity, noisy, phase, probe, lastPassing, lo, hi, best, iters, tried>>
    BY <1>6 DEF Search!vars, Search!config
  <2>2. Search!Passed' = Search!Passed /\ First' = First /\ Last' = Last
        /\ (Search!Warned' <=> Search!Warned)
    BY <1>d, <2>1 DEF Search!config, Search!Passed, Search!Warned
  <2> QED
    BY <2>1, <2>2 DEF SearchInv, SearchTyped, Probing, Bisecting, Greatest,
       Search!UnwarnedIsMaximum, Search!BestIsGreatestPassed, First, Last
<1> QED
  BY <1>1, <1>2, <1>3, <1>4, <1>5, <1>6 DEF Search!Next, Search!Returned
\* A probe below the last value of the grid is followed by a greater one, and
\* the last value is the last probe if it reaches the ceiling.
LEMMA ProbesStillGrow ==
    SearchInv /\ Search!ProbesGrow /\ [Search!Next]_Search!vars => Search!ProbesGrow'
<1> SUFFICES ASSUME SearchInv, Search!ProbesGrow, [Search!Next]_Search!vars, phase' = "probing",
                    (Search!OnGrid(ceiling, Frac) * Frac >= ceiling)',
                    NEW i \in DOMAIN tried'
             PROVE  tried'[i].value < IF i = Len(tried') THEN probe' ELSE tried'[i + 1].value
  BY DEF Search!ProbesGrow
<1>1. CASE Search!ProbePasses
  <2> DEFINE n == Len(tried)
             e == [value |-> probe, met |-> TRUE]
  <2>1. SearchTyped /\ probe <= Last /\ phase = "probing"
    BY <1>1, SMTT(40) DEF SearchInv, Probing, Search!ProbePasses
  <2>2. ~(probe * Frac >= ceiling) /\ probe' = Search!Expanded /\ tried' = Append(tried, e)
        /\ ceiling' = ceiling
    BY <1>1, <2>1 DEF Search!ProbePasses, Search!RunOne, Search!config
  <2>3. Last * Frac >= ceiling
    BY <2>2 DEF Last, Search!OnGrid, Search!Rounded
  <2>4. probe \in Nat /\ Last \in Nat /\ probe # Last
    BY <2>1, <2>2, <2>3, GridOfSearch DEF SearchTyped
  <2>5. probe < probe'
    BY <2>1, <2>2, <2>4, ProbeExpands
  <2>6. tried \in Seq([value : Nat, met : BOOLEAN]) /\ e \in [value : Nat, met : BOOLEAN]
    BY <2>4, <2>1 DEF SearchTyped
  <2>7. /\ n \in Nat /\ DOMAIN tried = 1 .. n /\ Len(tried') = n + 1 /\ DOMAIN tried' = 1 .. n + 1
        /\ \A j \in 1 .. n : tried'[j] = tried[j]
        /\ tried'[n + 1] = e
    <3>1. tried' \in Seq([value : Nat, met : BOOLEAN]) /\ Len(tried') = n + 1
      BY <2>2, <2>6, AppendProperties
    <3> QED
      BY <2>2, <2>6, <3>1, AppendProperties
  <2>8. \A j \in 1 .. n : tried[j].value < IF j = n THEN probe ELSE tried[j + 1].value
    BY <2>1, <2>3, <2>7 DEF Search!ProbesGrow, Last
  <2> HIDE DEF n, e
  <2>9. e.value = probe
    BY DEF e
  <2>10. CASE i = n + 1
    BY <2>5, <2>7, <2>9, <2>10
  <2>11. CASE i = n /\ i # n + 1
    <3>1. i \in 1 .. n
      BY <2>7, <2>11
    <3> QED
      BY <2>7, <2>8, <2>9, <2>11, <3>1
  <2>12. CASE i # n /\ i # n + 1
    <3>1. i \in 1 .. n /\ i + 1 \in 1 .. n /\ i # n
      BY <2>7, <2>12
    <3> QED
      BY <2>7, <2>8, <3>1
  <2> QED
    BY <2>10, <2>11, <2>12
<1>2. CASE UNCHANGED Search!vars
  <2>1. UNCHANGED <<ceiling, phase, probe, tried>>
    BY <1>2 DEF Search!vars, Search!config
  <2>2. Search!OnGrid(ceiling, Frac) * Frac >= ceiling
    BY <2>1 DEF Search!OnGrid, Search!Rounded
  <2> QED
    BY <2>1, <2>2 DEF Search!ProbesGrow
<1>3. Search!ProbePasses \/ UNCHANGED Search!vars
  BY ZenonT(60) DEF Search!Next, Search!ProbeFails, Search!BisectPasses, Search!BisectFails, Search!Finish,
     Search!Returned, Search!config, Search!vars, SearchInv, Bisecting
<1> QED
  BY <1>1, <1>2, <1>3
-----------------------------------------------------------------------------
(* The counters of the evaluator (SessionAccounting).                      *)

Of(s)      == {r \in Request : SessionOf[r] = s}
Touched(s) == Accounts!Recorded(s) # {}
Failed(s)  == Accounts!WithError(s) # {}

\* What the counters count.
SeenOnes       == {s \in Session : Touched(s)}
SuccessfulOnes == {s \in Session : Accounts!Whole(s) /\ Accounts!WithError(s) = {}}
ErroredOnes    == {s \in Session \ open : Failed(s)}
IncompleteOnes == {s \in Session \ open : Touched(s) /\ ~Failed(s) /\ ~Accounts!Whole(s)}

AccountsTyped ==
    /\ registered \subseteq Request
    /\ open \subseteq Session /\ toClose \subseteq Session
    /\ observed \in [Session -> Nat] /\ erroredIn \in [Session -> Nat]
    /\ stage \in {"running", "finalizing", "done"}
    /\ outcome \in [Request -> Result \cup {Accounts!Unknown}]

\* An open session has some of its requests, and its entries are theirs; until
\* the end a session that has some, but not all, is open.
OpenSessions ==
    /\ \A s \in Session :
         IF s \in open
         THEN /\ Touched(s) /\ ~Accounts!Whole(s)
              /\ observed[s] = Cardinality(Accounts!Recorded(s))
              /\ erroredIn[s] = Cardinality(Accounts!WithError(s))
         ELSE /\ observed[s] = 0 /\ erroredIn[s] = 0
              /\ stage = "running" => ~Touched(s) \/ Accounts!Whole(s)
    /\ stage = "finalizing" => toClose = open
    /\ stage = "done" => open = {}

Counted ==
    /\ seen = Cardinality(SeenOnes)
    /\ successful = Cardinality(SuccessfulOnes)
    /\ errored = Cardinality(ErroredOnes)
    /\ incomplete = Cardinality(IncompleteOnes)

AccountsInv == AccountsTyped /\ OpenSessions /\ Counted

\* The instance has FiniteSets of its own.
LEMMA SameSizes ==
    \A S : /\ Accounts!IsFiniteSet(S) <=> IsFiniteSet(S)
          /\ Accounts!Cardinality(S) = Cardinality(S)
<1>1. \A S : Accounts!IsFiniteSet(S) <=> IsFiniteSet(S)
  BY DEF IsFiniteSet, Accounts!IsFiniteSet
<1>2. \A S : Accounts!Cardinality(S) = Cardinality(S)
  BY DEF Cardinality, Accounts!Cardinality
<1> QED
  BY <1>1, <1>2

LEMMA SizesOfSessions ==
    ASSUME NEW s \in Session
    PROVE  /\ Accounts!Size(s) = Cardinality(Of(s))
           /\ IsFiniteSet(Of(s)) /\ Accounts!Size(s) \in Nat \ {0}
<1>0. PICK r \in Request : SessionOf[r] = s
  BY AccountingAssumption, SameSizes DEF Accounts!AccountingAssumption
<1>1. Of(s) \subseteq Request /\ IsFiniteSet(Request) /\ Of(s) # {}
  <2>1. IsFiniteSet(Request)
    BY AccountingAssumption, SameSizes DEF Accounts!AccountingAssumption
  <2>2. Of(s) \subseteq Request /\ r \in Of(s)
    BY <1>0 DEF Of
  <2> QED
    BY <2>1, <2>2
<1>2. IsFiniteSet(Of(s))
  BY <1>1, FS_Subset
<1>3. Cardinality(Of(s)) \in Nat /\ Cardinality(Of(s)) # 0
  BY <1>1, <1>2, FS_CardinalityType, FS_EmptySet
<1>4. Accounts!Size(s) = Cardinality(Of(s))
  BY SameSizes DEF Of, Accounts!Size
<1> QED
  BY <1>2, <1>3, <1>4

LEMMA RecordedOfSessions ==
    ASSUME NEW s \in Session
    PROVE  /\ Accounts!Recorded(s) \subseteq Of(s) /\ Accounts!WithError(s) \subseteq Accounts!Recorded(s)
           /\ IsFiniteSet(Accounts!Recorded(s)) /\ IsFiniteSet(Accounts!WithError(s))
           /\ Cardinality(Accounts!Recorded(s)) \in 0 .. Accounts!Size(s)
           /\ Cardinality(Accounts!WithError(s)) \in Nat
           /\ Cardinality(Accounts!Recorded(s)) = 0 <=> ~Touched(s)
           /\ Cardinality(Accounts!WithError(s)) = 0 <=> ~Failed(s)
           /\ Accounts!Whole(s) <=> Accounts!Recorded(s) = Of(s)
<1>1. /\ Accounts!Recorded(s) \subseteq Of(s) /\ Accounts!WithError(s) \subseteq Accounts!Recorded(s)
  BY DEF Accounts!Recorded, Accounts!WithError, Of
<1>2. IsFiniteSet(Of(s)) /\ Accounts!Size(s) = Cardinality(Of(s))
  BY SizesOfSessions
<1>3. IsFiniteSet(Accounts!Recorded(s)) /\ Cardinality(Accounts!Recorded(s)) <= Accounts!Size(s)
      /\ (Cardinality(Accounts!Recorded(s)) = Accounts!Size(s) => Accounts!Recorded(s) = Of(s))
  BY <1>1, <1>2, FS_Subset
<1>4. IsFiniteSet(Accounts!WithError(s))
  BY <1>1, <1>3, FS_Subset
<1>5. Cardinality(Accounts!Recorded(s)) \in Nat /\ Cardinality(Accounts!WithError(s)) \in Nat
      /\ Accounts!Size(s) \in Nat
  BY <1>3, <1>4, FS_CardinalityType, SizesOfSessions
<1>6. /\ Cardinality(Accounts!Recorded(s)) = 0 <=> ~Touched(s)
      /\ Cardinality(Accounts!WithError(s)) = 0 <=> ~Failed(s)
  BY <1>3, <1>4, FS_EmptySet DEF Touched, Failed
<1>7. Accounts!Whole(s) <=> Accounts!Recorded(s) = Of(s)
  <2>1. Accounts!Whole(s) <=> Cardinality(Accounts!Recorded(s)) = Accounts!Size(s)
    BY SameSizes DEF Accounts!Whole
  <2> QED
    BY <1>2, <1>3, <2>1
<1> QED
  BY <1>1, <1>3, <1>4, <1>5, <1>6, <1>7

LEMMA CountedAreFinite ==
    /\ IsFiniteSet(SeenOnes) /\ IsFiniteSet(SuccessfulOnes)
    /\ IsFiniteSet(ErroredOnes) /\ IsFiniteSet(IncompleteOnes)
<1>1. IsFiniteSet(Session)
  BY AccountingAssumption, SameSizes DEF Accounts!AccountingAssumption
<1>2. /\ SeenOnes \subseteq Session /\ SuccessfulOnes \subseteq Session
      /\ ErroredOnes \subseteq Session /\ IncompleteOnes \subseteq Session
  BY DEF SeenOnes, SuccessfulOnes, ErroredOnes, IncompleteOnes
<1> QED
  BY <1>1, <1>2, FS_Subset

LEMMA OneMore ==
    ASSUME NEW S, IsFiniteSet(S), NEW x, x \notin S, NEW T, NEW p \in BOOLEAN,
           T = IF p THEN S \cup {x} ELSE S
    PROVE  Cardinality(T) = Cardinality(S) + IF p THEN 1 ELSE 0
<1>1. Cardinality(S) \in Nat
  BY FS_CardinalityType
<1>2. CASE p
  BY <1>2, FS_AddElement
<1>3. CASE ~p
  BY <1>1, <1>3
<1> QED
  BY <1>2, <1>3

LEMMA DisjointSizes ==
    ASSUME NEW S, IsFiniteSet(S), NEW T, IsFiniteSet(T), S \cap T = {}
    PROVE  IsFiniteSet(S \cup T) /\ Cardinality(S \cup T) = Cardinality(S) + Cardinality(T)
<1>1. Cardinality(S) \in Nat /\ Cardinality(T) \in Nat /\ Cardinality(S \cap T) = 0
  BY FS_CardinalityType, FS_EmptySet, SMTT(40)
<1>2. /\ IsFiniteSet(S \cup T)
      /\ Cardinality(S \cup T) = Cardinality(S) + Cardinality(T) - Cardinality(S \cap T)
  BY FS_Union
<1> QED
  BY <1>1, <1>2

LEMMA AccountsInitially == Accounts!Init => AccountsInv
<1> SUFFICES ASSUME Accounts!Init PROVE AccountsInv
  OBVIOUS
<1>1. AccountsTyped
  BY DEF Accounts!Init, AccountsTyped
<1>2. \A s \in Session : ~Touched(s) /\ ~Failed(s)
  BY DEF Accounts!Init, Touched, Failed, Accounts!Recorded, Accounts!WithError
<1>3. \A s \in Session : ~Accounts!Whole(s)
  BY <1>2, RecordedOfSessions, SizesOfSessions DEF Accounts!Whole
<1>4. OpenSessions
  BY <1>2, SMTT(40) DEF Accounts!Init, OpenSessions
<1>5. SeenOnes = {} /\ SuccessfulOnes = {} /\ ErroredOnes = {} /\ IncompleteOnes = {}
  BY <1>2, <1>3 DEF SeenOnes, SuccessfulOnes, ErroredOnes, IncompleteOnes
<1>6. Counted
  BY <1>5, FS_EmptySet DEF Accounts!Init, Counted
<1> QED
  BY <1>1, <1>4, <1>6 DEF AccountsInv
\* What a result adds to the session it is of.
LEMMA ResultAdds ==
    ASSUME AccountsInv, NEW r \in Request, NEW result \in Result,
           Accounts!RecordRequestCompleted(r, result)
    PROVE  /\ SessionOf[r] \in Session
           /\ outcome' \in [Request -> Result \cup {Accounts!Unknown}]
           /\ r \in Of(SessionOf[r]) /\ r \notin Accounts!Recorded(SessionOf[r])
           /\ \A s \in Session :
                /\ Accounts!Recorded(s)' =
                     IF s = SessionOf[r] THEN Accounts!Recorded(s) \cup {r} ELSE Accounts!Recorded(s)
                /\ Accounts!WithError(s)' =
                     IF s = SessionOf[r] /\ result = "failed" THEN Accounts!WithError(s) \cup {r}
                     ELSE Accounts!WithError(s)
<1>1. /\ outcome \in [Request -> Result \cup {Accounts!Unknown}]
      /\ outcome[r] = Accounts!Unknown /\ outcome' = [outcome EXCEPT ![r] = result]
  BY DEF AccountsInv, AccountsTyped, Accounts!RecordRequestCompleted
<1>2. SessionOf \in [Request -> Session] /\ Result \subseteq {"ok", "failed", "mute"}
  BY AccountingAssumption DEF Accounts!AccountingAssumption
<1>3. result # Accounts!Unknown
  BY <1>2 DEF Accounts!Unknown
<1>4. ASSUME NEW s \in Session
      PROVE  Accounts!Recorded(s)' =
               IF s = SessionOf[r] THEN Accounts!Recorded(s) \cup {r} ELSE Accounts!Recorded(s)
  BY <1>1, <1>3 DEF Accounts!Recorded
<1>5. ASSUME NEW s \in Session
      PROVE  Accounts!WithError(s)' =
               IF s = SessionOf[r] /\ result = "failed" THEN Accounts!WithError(s) \cup {r}
               ELSE Accounts!WithError(s)
  BY <1>1, <1>3, <1>4 DEF Accounts!WithError, Accounts!Unknown, Accounts!Recorded
<1>6. r \in Of(SessionOf[r]) /\ r \notin Accounts!Recorded(SessionOf[r])
  BY <1>1 DEF Of, Accounts!Recorded
<1> QED
  BY <1>1, <1>2, <1>4, <1>5, <1>6, ZenonT(60)

LEMMA RecordingCounts ==
    ASSUME AccountsInv, NEW r \in Request, NEW result \in Result,
           Accounts!RecordRequestCompleted(r, result)
    PROVE  AccountsInv'
<1> DEFINE x == SessionOf[r]
           all == Accounts!Recorded(x)
           bad == Accounts!WithError(x)
           failures == erroredIn[x] + IF result = "failed" THEN 1 ELSE 0
           last == Accounts!IsLast(x)
<1>1. /\ x \in Session /\ outcome' \in [Request -> Result \cup {Accounts!Unknown}]
      /\ r \in Of(x) /\ r \notin all
      /\ \A s \in Session \ {x} : /\ Accounts!Recorded(s)' = Accounts!Recorded(s)
                                  /\ Accounts!WithError(s)' = Accounts!WithError(s)
      /\ Accounts!Recorded(x)' = all \cup {r}
      /\ Accounts!WithError(x)' = IF result = "failed" THEN bad \cup {r} ELSE bad
  BY ResultAdds
<1>2. /\ all \subseteq Of(x) /\ bad \subseteq all /\ IsFiniteSet(all) /\ IsFiniteSet(bad)
      /\ Cardinality(all) \in Nat /\ Cardinality(bad) \in Nat
      /\ Cardinality(all) = 0 <=> ~Touched(x)
      /\ Cardinality(bad) = 0 <=> ~Failed(x)
      /\ ~Accounts!Whole(x)
      /\ Accounts!Size(x) \in Nat \ {0}
  BY <1>1, RecordedOfSessions, SizesOfSessions
<1>3. /\ stage = "running" /\ UNCHANGED <<registered, incomplete, stage, toClose>>
      /\ seen' = seen + IF x \in open THEN 0 ELSE 1
      /\ observed' = [observed EXCEPT ![x] = IF last THEN 0 ELSE observed[x] + 1]
      /\ erroredIn' = [erroredIn EXCEPT ![x] = IF last THEN 0 ELSE failures]
      /\ open' = IF last THEN open \ {x} ELSE open \cup {x}
      /\ successful' = successful + IF last /\ failures = 0 THEN 1 ELSE 0
      /\ errored' = errored + IF last /\ failures # 0 THEN 1 ELSE 0
  <2>1. Accounts!UpdateSession(x, result) /\ stage = "running"
        /\ UNCHANGED <<registered, incomplete, stage, toClose>>
    BY DEF Accounts!RecordRequestCompleted
  <2>2. /\ seen' = seen + IF x \in open THEN 0 ELSE 1
        /\ observed' = [observed EXCEPT ![x] = IF last THEN 0 ELSE observed[x] + 1]
        /\ erroredIn' = [erroredIn EXCEPT ![x] = IF last THEN 0 ELSE failures]
        /\ open' = IF last THEN open \ {x} ELSE open \cup {x}
        /\ IF last THEN Accounts!CountSession(failures) ELSE UNCHANGED <<successful, errored>>
    BY <2>1 DEF Accounts!UpdateSession
  <2>3. successful \in Nat /\ errored \in Nat
    BY CountedAreFinite, FS_CardinalityType DEF AccountsInv, Counted
  <2> QED
    BY <2>1, <2>2, <2>3 DEF Accounts!CountSession
<1>4. /\ observed \in [Session -> Nat] /\ erroredIn \in [Session -> Nat]
      /\ open \subseteq Session /\ toClose \subseteq Session /\ registered \subseteq Request
  BY DEF AccountsInv, AccountsTyped
<1>5. /\ observed[x] = Cardinality(all) /\ erroredIn[x] = Cardinality(bad)
      /\ x \in open <=> Touched(x)
  BY <1>1, <1>2, <1>3 DEF AccountsInv, OpenSessions, Touched, Failed
<1>6. /\ Cardinality(Accounts!Recorded(x)') = observed[x] + 1
      /\ Cardinality(Accounts!WithError(x)') = failures
  <2>1. Cardinality(all \cup {r}) = Cardinality(all) + 1
    BY <1>1, <1>2, FS_AddElement, ZenonT(60)
  <2>2. Cardinality(bad \cup {r}) = Cardinality(bad) + 1
    BY <1>1, <1>2, FS_AddElement, ZenonT(60)
  <2> QED
    BY <1>1, <1>2, <1>5, <2>1, <2>2
<1>7. Touched(x)' /\ (Failed(x)' <=> failures # 0)
  <2>1. Touched(x)'
    BY <1>1 DEF Touched
  <2>2. IsFiniteSet(Accounts!WithError(x)')
    BY <1>1, <1>2, FS_AddElement
  <2>3. Accounts!WithError(x)' = {} <=> failures = 0
    BY <1>6, <2>2, FS_EmptySet
  <2> QED
    BY <2>1, <2>3 DEF Failed
<1>8. last <=> Accounts!Whole(x)'
  <2>1. Accounts!Whole(x)' <=> Cardinality(Accounts!Recorded(x)') = Accounts!Size(x)
    BY SameSizes DEF Accounts!Whole, Accounts!Size
  <2>2. observed[x] < Accounts!Size(x)
    <3>1. Cardinality(all) \in 0 .. Accounts!Size(x) /\ Cardinality(all) # Accounts!Size(x)
      BY <1>1, <1>2, RecordedOfSessions, SameSizes DEF Accounts!Whole
    <3> QED
      BY <1>2, <1>5, <3>1
  <2>3. last <=> observed[x] + 1 >= Accounts!Size(x)
    BY DEF Accounts!IsLast
  <2> QED
    BY <1>1, <1>2, <1>4, <1>6, <2>1, <2>2, <2>3
<1>9. \A s \in Session \ {x} : /\ Touched(s)' <=> Touched(s)
                               /\ Failed(s)' <=> Failed(s)
                               /\ Accounts!Whole(s)' <=> Accounts!Whole(s)
  BY <1>1, SMTT(40) DEF Touched, Failed, Accounts!Whole, Accounts!Size
<1>10. last \in BOOLEAN /\ failures \in Nat /\ (x \in open) \in BOOLEAN
  BY <1>2, <1>4, <1>1 DEF Accounts!IsLast
<1>11. Accounts!WithError(x)' = {} <=> failures = 0
  BY <1>7, SMTT(40) DEF Failed
<1> HIDE DEF x, all, bad, failures, last
<1>12. AccountsTyped'
  <2>1. observed' \in [Session -> Nat] /\ erroredIn' \in [Session -> Nat]
    BY <1>1, <1>3, <1>4, <1>10
  <2> QED
    BY <1>1, <1>3, <1>4, <2>1 DEF AccountsTyped
<1>13. OpenSessions'
  <2>1. ASSUME NEW s \in Session, s # x
        PROVE  IF s \in open'
               THEN /\ Touched(s)' /\ ~Accounts!Whole(s)'
                    /\ observed'[s] = Cardinality(Accounts!Recorded(s)')
                    /\ erroredIn'[s] = Cardinality(Accounts!WithError(s)')
               ELSE /\ observed'[s] = 0 /\ erroredIn'[s] = 0
                    /\ ~Touched(s)' \/ Accounts!Whole(s)'
    <3>1. observed'[s] = observed[s] /\ erroredIn'[s] = erroredIn[s] /\ (s \in open' <=> s \in open)
      BY <1>3, <1>4, <2>1
    <3>2. IF s \in open
          THEN /\ Touched(s) /\ ~Accounts!Whole(s)
               /\ observed[s] = Cardinality(Accounts!Recorded(s))
               /\ erroredIn[s] = Cardinality(Accounts!WithError(s))
          ELSE /\ observed[s] = 0 /\ erroredIn[s] = 0
               /\ ~Touched(s) \/ Accounts!Whole(s)
      BY <1>3 DEF AccountsInv, OpenSessions
    <3> QED
      BY <1>1, <1>9, <2>1, <3>1, <3>2
  <2>2. IF x \in open'
        THEN /\ Touched(x)' /\ ~Accounts!Whole(x)'
             /\ observed'[x] = Cardinality(Accounts!Recorded(x)')
             /\ erroredIn'[x] = Cardinality(Accounts!WithError(x)')
        ELSE /\ observed'[x] = 0 /\ erroredIn'[x] = 0
             /\ ~Touched(x)' \/ Accounts!Whole(x)'
    BY <1>1, <1>3, <1>4, <1>6, <1>7, <1>8
  <2> QED
    BY <1>3, <2>1, <2>2 DEF OpenSessions
<1>14. seen' = Cardinality(SeenOnes')
  <2>1. SeenOnes' = IF x \in open THEN SeenOnes ELSE SeenOnes \cup {x}
    BY <1>1, <1>5, <1>7, <1>9 DEF SeenOnes
  <2>2. x \in open <=> x \in SeenOnes
    BY <1>1, <1>5 DEF SeenOnes
  <2>3. Cardinality(SeenOnes') = Cardinality(SeenOnes) + IF x \in open THEN 0 ELSE 1
    <3>1. CASE x \in open
      BY <2>1, <3>1, CountedAreFinite, FS_CardinalityType
    <3>2. CASE x \notin open
      BY <2>1, <2>2, <3>2, CountedAreFinite, FS_AddElement, ZenonT(60)
    <3> QED
      BY <3>1, <3>2
  <2> QED
    BY <1>3, <2>3 DEF AccountsInv, Counted
<1>15. successful' = Cardinality(SuccessfulOnes')
  <2>1. SuccessfulOnes' = IF last /\ failures = 0 THEN SuccessfulOnes \cup {x} ELSE SuccessfulOnes
    <3>1. \A s \in Session \ {x} : s \in SuccessfulOnes' <=> s \in SuccessfulOnes
      BY <1>1, <1>9 DEF SuccessfulOnes
    <3>2. x \in SuccessfulOnes' <=> last /\ failures = 0
      BY <1>1, <1>8, <1>11 DEF SuccessfulOnes
    <3>3. x \notin SuccessfulOnes
      BY <1>2 DEF SuccessfulOnes
    <3>4. SuccessfulOnes \subseteq Session /\ SuccessfulOnes' \subseteq Session
      BY DEF SuccessfulOnes
    <3> QED
      BY <3>1, <3>2, <3>3, <3>4, <1>1
  <2>2. x \notin SuccessfulOnes
    BY <1>2 DEF SuccessfulOnes
  <2>3. Cardinality(SuccessfulOnes') = Cardinality(SuccessfulOnes) + IF last /\ failures = 0 THEN 1 ELSE 0
    BY <2>1, <2>2, CountedAreFinite, OneMore, ZenonT(60)
  <2> QED
    BY <1>3, <2>3 DEF AccountsInv, Counted
<1>16. errored' = Cardinality(ErroredOnes')
  <2>1. x \notin ErroredOnes
    <3>1. Failed(x) => Touched(x)
      BY <1>2, <1>1, RecordedOfSessions DEF Failed, Touched
    <3> QED
      BY <1>5, <3>1 DEF ErroredOnes
  <2>2. ErroredOnes' = IF last /\ failures # 0 THEN ErroredOnes \cup {x} ELSE ErroredOnes
    <3>1. \A s \in Session \ {x} : s \in ErroredOnes' <=> s \in ErroredOnes
      BY <1>1, <1>3, <1>9 DEF ErroredOnes
    <3>2. x \in ErroredOnes' <=> last /\ failures # 0
      BY <1>1, <1>3, <1>7 DEF ErroredOnes
    <3>3. ErroredOnes \subseteq Session /\ ErroredOnes' \subseteq Session
      BY DEF ErroredOnes
    <3> QED
      BY <2>1, <3>1, <3>2, <3>3, <1>1
  <2>3. Cardinality(ErroredOnes') = Cardinality(ErroredOnes) + IF last /\ failures # 0 THEN 1 ELSE 0
    BY <2>1, <2>2, CountedAreFinite, OneMore, ZenonT(60)
  <2> QED
    BY <1>3, <2>3 DEF AccountsInv, Counted
<1>17. incomplete' = Cardinality(IncompleteOnes')
  <2>1. IncompleteOnes = {}
    BY <1>3 DEF AccountsInv, OpenSessions, IncompleteOnes
  <2>2. IncompleteOnes' = {}
    BY <1>3, <1>13 DEF OpenSessions, IncompleteOnes
  <2> QED
    BY <1>3, <2>1, <2>2 DEF AccountsInv, Counted
<1> QED
  BY <1>12, <1>13, <1>14, <1>15, <1>16, <1>17 DEF AccountsInv, Counted

LEMMA ClosingCounts ==
    ASSUME AccountsInv, NEW x \in Session, Accounts!Close(x)
    PROVE  AccountsInv'
<1>1. /\ stage = "finalizing" /\ x \in open /\ toClose = open
      /\ toClose' = open \ {x} /\ open' = open \ {x}
      /\ observed' = [observed EXCEPT ![x] = 0]
      /\ erroredIn' = [erroredIn EXCEPT ![x] = 0]
      /\ errored' = errored + IF erroredIn[x] > 0 THEN 1 ELSE 0
      /\ incomplete' = incomplete + IF erroredIn[x] > 0 THEN 0 ELSE 1
      /\ UNCHANGED <<registered, seen, successful, stage, outcome>>
  BY DEF AccountsInv, OpenSessions, Accounts!Close
<1>2. /\ observed \in [Session -> Nat] /\ erroredIn \in [Session -> Nat]
      /\ open \subseteq Session /\ toClose \subseteq Session /\ registered \subseteq Request
      /\ outcome \in [Request -> Result \cup {Accounts!Unknown}]
  BY DEF AccountsInv, AccountsTyped
<1>3. \A s \in Session : /\ Accounts!Recorded(s)' = Accounts!Recorded(s)
                         /\ Accounts!WithError(s)' = Accounts!WithError(s)
  BY <1>1 DEF Accounts!Recorded, Accounts!WithError
<1>4. \A s \in Session : /\ Touched(s)' <=> Touched(s)
                         /\ Failed(s)' <=> Failed(s)
                         /\ Accounts!Whole(s)' <=> Accounts!Whole(s)
  BY <1>3 DEF Touched, Failed, Accounts!Whole, Accounts!Size
<1>5. /\ Touched(x) /\ ~Accounts!Whole(x)
      /\ erroredIn[x] > 0 <=> Failed(x)
      /\ Failed(x) \in BOOLEAN
  <2>1. Touched(x) /\ ~Accounts!Whole(x) /\ erroredIn[x] = Cardinality(Accounts!WithError(x))
    BY <1>1 DEF AccountsInv, OpenSessions
  <2> QED
    BY <2>1, RecordedOfSessions DEF Failed
<1>6. AccountsTyped'
  BY <1>1, <1>2 DEF AccountsTyped
<1>7. OpenSessions'
  BY <1>1, <1>2, <1>3, <1>4 DEF AccountsInv, OpenSessions
<1>8. SeenOnes' = SeenOnes /\ SuccessfulOnes' = SuccessfulOnes
  BY <1>3, <1>4 DEF SeenOnes, SuccessfulOnes
<1>9. /\ x \notin ErroredOnes
      /\ ErroredOnes' = IF Failed(x) THEN ErroredOnes \cup {x} ELSE ErroredOnes
  BY <1>1, <1>4 DEF ErroredOnes
<1>10. /\ x \notin IncompleteOnes
       /\ IncompleteOnes' = IF ~Failed(x) THEN IncompleteOnes \cup {x} ELSE IncompleteOnes
  BY <1>1, <1>4, <1>5 DEF IncompleteOnes
<1>11. /\ Cardinality(ErroredOnes') = Cardinality(ErroredOnes) + IF Failed(x) THEN 1 ELSE 0
       /\ Cardinality(IncompleteOnes') = Cardinality(IncompleteOnes) + IF ~Failed(x) THEN 1 ELSE 0
  BY <1>5, <1>9, <1>10, CountedAreFinite, OneMore, ZenonT(60)
<1>12. Counted'
  BY <1>1, <1>5, <1>8, <1>11 DEF AccountsInv, Counted
<1> QED
  BY <1>6, <1>7, <1>12 DEF AccountsInv
LEMMA AccountsInductive == AccountsInv /\ [Accounts!Next]_Accounts!vars => AccountsInv'
<1> SUFFICES ASSUME AccountsInv, [Accounts!Next]_Accounts!vars PROVE AccountsInv'
  OBVIOUS
<1>1. ASSUME /\ UNCHANGED <<numErrored, numCompleted, seen, successful, errored, incomplete>>
             /\ UNCHANGED <<open, observed, erroredIn, outcome>>
             /\ registered' \subseteq Request /\ toClose' \subseteq Session
             /\ \/ stage' = stage /\ toClose' = toClose
                \/ stage' = "finalizing" /\ toClose' = open
                \/ stage' = "done" /\ open = {}
      PROVE  AccountsInv'
  <2>1. /\ SeenOnes' = SeenOnes /\ SuccessfulOnes' = SuccessfulOnes
        /\ ErroredOnes' = ErroredOnes /\ IncompleteOnes' = IncompleteOnes
        /\ \A s \in Session : /\ Touched(s)' <=> Touched(s)
                              /\ Accounts!Whole(s)' <=> Accounts!Whole(s)
                              /\ Accounts!Recorded(s)' = Accounts!Recorded(s)
                              /\ Accounts!WithError(s)' = Accounts!WithError(s)
    BY <1>1 DEF SeenOnes, SuccessfulOnes, ErroredOnes, IncompleteOnes, Touched, Failed,
       Accounts!Whole, Accounts!Size, Accounts!Recorded, Accounts!WithError
  <2>2. Counted'
    BY <1>1, <2>1 DEF AccountsInv, Counted
  <2>3. OpenSessions'
    BY <1>1, <2>1 DEF AccountsInv, OpenSessions
  <2>4. AccountsTyped'
    BY <1>1 DEF AccountsInv, AccountsTyped
  <2> QED
    BY <2>2, <2>3, <2>4 DEF AccountsInv
<1>2. ASSUME NEW r \in Request, Accounts!RegisterRequest(r)
      PROVE  AccountsInv'
  BY <1>1, <1>2 DEF Accounts!RegisterRequest, Accounts!counters, AccountsInv, AccountsTyped
<1>3. CASE Accounts!Finalize
  BY <1>1, <1>3 DEF Accounts!Finalize, Accounts!counters, AccountsInv, AccountsTyped
<1>4. CASE Accounts!AllClosed
  BY <1>1, <1>4 DEF Accounts!AllClosed, Accounts!counters, AccountsInv, AccountsTyped, OpenSessions
<1>5. CASE UNCHANGED Accounts!vars
  BY <1>1, <1>5 DEF Accounts!vars, Accounts!counters, AccountsInv, AccountsTyped
<1> QED
  BY <1>2, <1>3, <1>4, <1>5, RecordingCounts, ClosingCounts DEF Accounts!Next, Accounts!Finalized

\* While the run goes on a session is closed if it is whole or untouched; at
\* the end all are, and those seen are whole without an error, errored, or cut.
LEMMA AccountsExact == AccountsInv => Accounts!SessionCountsExact /\ Accounts!FinalCountsExact
<1> SUFFICES ASSUME AccountsInv
             PROVE  Accounts!SessionCountsExact /\ Accounts!FinalCountsExact
  OBVIOUS
<1>1. ASSUME NEW s \in Session
      PROVE  /\ Failed(s) => Touched(s)
             /\ Accounts!Whole(s) => Touched(s)
             /\ s \in open => ~Accounts!Whole(s)
             /\ stage = "running" /\ s \notin open => ~Touched(s) \/ Accounts!Whole(s)
             /\ stage = "done" => s \notin open
  <2>1. Failed(s) => Touched(s)
    BY RecordedOfSessions DEF Failed, Touched
  <2>2. Accounts!Whole(s) => Touched(s)
    BY RecordedOfSessions, SizesOfSessions, SameSizes DEF Accounts!Whole
  <2> QED
    BY <2>1, <2>2 DEF AccountsInv, OpenSessions
<1>2. SeenOnes = {s \in Session : Accounts!Recorded(s) # {}}
  BY DEF SeenOnes, Touched
<1>3. stage = "running" =>
        ErroredOnes = {s \in Session : Accounts!Whole(s) /\ Accounts!WithError(s) # {}}
  BY <1>1 DEF ErroredOnes, Failed
<1>4. Accounts!SessionCountsExact
  BY <1>2, <1>3, SameSizes, ZenonT(60) DEF AccountsInv, Counted, Accounts!SessionCountsExact, SuccessfulOnes
<1>5. ASSUME stage = "done"
      PROVE  /\ open = {}
             /\ errored = Cardinality({s \in Session : Accounts!WithError(s) # {}})
             /\ seen = successful + errored + incomplete
  <2>1. open = {}
    BY <1>5 DEF AccountsInv, OpenSessions
  <2>2. ErroredOnes = {s \in Session : Accounts!WithError(s) # {}}
    BY <2>1 DEF ErroredOnes, Failed
  <2>3. /\ SeenOnes = (SuccessfulOnes \cup ErroredOnes) \cup IncompleteOnes
        /\ SuccessfulOnes \cap ErroredOnes = {}
        /\ (SuccessfulOnes \cup ErroredOnes) \cap IncompleteOnes = {}
    BY <1>1, <2>1 DEF SeenOnes, SuccessfulOnes, ErroredOnes, IncompleteOnes, Failed
  <2>4. /\ IsFiniteSet(SuccessfulOnes \cup ErroredOnes)
        /\ Cardinality(SuccessfulOnes \cup ErroredOnes)
             = Cardinality(SuccessfulOnes) + Cardinality(ErroredOnes)
    BY <2>3, CountedAreFinite, DisjointSizes
  <2>5. Cardinality(SeenOnes) = Cardinality(SuccessfulOnes) + Cardinality(ErroredOnes)
                                  + Cardinality(IncompleteOnes)
    BY <2>3, <2>4, CountedAreFinite, DisjointSizes
  <2> QED
    BY <2>1, <2>2, <2>5 DEF AccountsInv, Counted
<1>6. Accounts!FinalCountsExact
  BY <1>5, SameSizes DEF Accounts!FinalCountsExact
<1> QED
  BY <1>4, <1>6

-----------------------------------------------------------------------------
(* A trace of audio on disk and on the hub (TraceFiles).                   *)

Copy == [manifest : Nat, variant : Nat, audio : Nat]

\* A copy that passes for sound though it is of two builds.
Mixed(copy) == Files!Valid(copy) /\ copy.manifest # copy.audio

\* One with a variant of another build.
Stale(copy) == Files!Valid(copy) /\ copy.variant # 0 /\ copy.variant # copy.audio

FilesTyped ==
    /\ DOMAIN files = {"pc", "build", "local", "hub", "staging", "archive", "part", "words",
                       "used", "stopped", "outdated", "killed", "cut"}
    /\ files.build \in Nat /\ files.words \in Nat /\ files.used \in Nat
    /\ files.archive \in BOOLEAN /\ files.part \in BOOLEAN
    /\ files.stopped \in BOOLEAN /\ files.outdated \in BOOLEAN
    /\ files.killed \in BOOLEAN /\ files.cut \in BOOLEAN
    /\ files.local \in Copy /\ files.hub \in Copy /\ files.staging \in Copy

\* Neither, unless a build stopped or found a variant.
Whole(copy) ==
    /\ Mixed(copy) => files.stopped
    /\ Stale(copy) => files.stopped \/ files.outdated

\* Where the copies of a trace are mixed while commands are under way.
CopiesWhole ==
    /\ Mixed(files.local) => files.stopped \/ files.pc = "manifest"
    /\ Stale(files.local) => files.stopped \/ files.outdated
    /\ files.pc = "manifest" => files.local.audio = files.build
    /\ files.pc = "manifest" => files.local.variant = 0 \/ files.outdated
    /\ files.pc = "publish" => Files!Valid(files.local)
    /\ files.hub # Files!None => Files!Valid(files.hub) /\ Whole(files.hub)
    /\ files.pc = "replace" => Whole(files.staging)
    /\ files.staging # Files!None => files.pc = "replace" \/ files.killed

WordsWhole ==
    /\ files.words \in {0, WordFiles} \/ files.cut \/ files.pc = "extract"
    /\ files.used \in {0, WordFiles} \/ files.cut
    /\ files.archive => ~files.part
    /\ files.pc = "download" => ~files.archive

FilesInv == FilesTyped /\ CopiesWhole /\ WordsWhole

LEMMA FilesInitially == Files!Init => FilesInv
  BY DEF Files!Init, FilesInv, FilesTyped, CopiesWhole, WordsWhole, Copy, Whole, Mixed, Stale, Files!Valid, Files!None

LEMMA NothingIsACopy == /\ Files!None \in Copy
                        /\ Files!None.manifest = 0 /\ Files!None.variant = 0
                        /\ Files!None.audio = 0
  BY DEF Files!None, Copy

LEMMA FilesInductive == FilesInv /\ [Files!Next]_files => FilesInv'
<1> SUFFICES ASSUME FilesInv, [Files!Next]_files PROVE FilesInv'
  BY SMTT(40)
<1> USE DEF FilesInv
<1>1. FilesTyped'
  <2> USE DEF FilesTyped, Copy
  <2>1. CASE Files!StartBuild
    BY <2>1 DEF Files!StartBuild
  <2>2. CASE Files!FindWords
    BY <2>2 DEF Files!FindWords
  <2>3. CASE Files!FindArchive
    BY <2>3, ZenonT(60) DEF Files!FindArchive, Files!Goes
  <2>4. CASE Files!Download
    BY <2>4 DEF Files!Download
  <2>5. CASE Files!EndDownload
    <3>1. CASE files' = [files EXCEPT !.pc = "annotations", !.part = FALSE, !.archive = TRUE]
      BY <2>5, <3>1 DEF Files!EndDownload
    <3>2. CASE files' = [files EXCEPT !.pc = "idle", !.part = FALSE]
      BY <2>5, <3>2 DEF Files!EndDownload
    <3> QED
      BY <2>5, <3>1, <3>2 DEF Files!EndDownload
  <2>6. CASE Files!Extract
    BY <2>6 DEF Files!Extract
  <2>7. CASE Files!WriteAudio
    BY <2>7, SMTT(40) DEF Files!WriteAudio
  <2>8. CASE Files!WriteManifest
    <3>1. CASE files' = [files EXCEPT !.pc = "idle", !.local.manifest = files.build]
      BY <2>8, <3>1 DEF Files!WriteManifest
    <3>2. CASE files' = [files EXCEPT !.pc = "idle", !.stopped = TRUE]
      BY <2>8, <3>2 DEF Files!WriteManifest
    <3> QED
      BY <2>8, <3>1, <3>2 DEF Files!WriteManifest
  <2>9. CASE Files!StartFetch
    BY <2>9 DEF Files!StartFetch, Files!Goes
  <2>10. CASE Files!Stage
    <3>1. CASE files' = [files EXCEPT !.pc = "replace", !.staging = files.hub] /\ files.hub # Files!None
      BY <2>10, <3>1, NothingIsACopy DEF Files!Stage
    <3>2. CASE files' = [files EXCEPT !.pc = "idle", !.staging = Files!None]
      BY <2>10, <3>2, NothingIsACopy DEF Files!Stage
    <3> QED
      BY <2>10, <3>1, <3>2 DEF Files!Stage
  <2>11. CASE Files!RemoveSome
    BY <2>11 DEF Files!RemoveSome
  <2>12. CASE Files!Move
    <3>1. CASE files' = [files EXCEPT !.pc = "check", !.staging = Files!None, !.local = files.staging]
      BY <2>12, <3>1, NothingIsACopy DEF Files!Move
    <3>2. CASE files' = [files EXCEPT !.pc = "idle", !.staging = Files!None]
      BY <2>12, <3>2, NothingIsACopy DEF Files!Move
    <3> QED
      BY <2>12, <3>1, <3>2 DEF Files!Move
  <2>13. CASE Files!CheckFetched
    BY <2>13 DEF Files!CheckFetched, Files!Goes
  <2>14. CASE Files!StartPublish
    BY <2>14, SMTT(40) DEF Files!StartPublish, Files!Goes
  <2>15. CASE Files!Upload
    <3>1. CASE /\ files' = [files EXCEPT
                              !.pc = "idle", !.hub = files.local,
                              !.hub.variant = IF files.local.variant = 0 THEN files.hub.variant
                                                                         ELSE files.local.variant,
                              !.outdated = @ \/ (files.local.variant = 0 /\ files.hub.variant # 0)]
               /\ files.pc = "publish"
      BY <3>1
    <3>2. CASE files' = [files EXCEPT !.pc = "idle"] /\ files.pc = "publish"
      BY <3>2, SMTT(40)
    <3> QED
      BY <2>15, <3>1, <3>2 DEF Files!Upload
  <2>16. CASE Files!Kill
    BY <2>16, SMTT(40) DEF Files!Kill
  <2>17. CASE Files!FilterVariant
    BY <2>17, SMTT(40) DEF Files!FilterVariant
  <2> QED
    BY <2>1, <2>2, <2>3, <2>4, <2>5, <2>6, <2>7, <2>8, <2>9, <2>10, <2>11, <2>12, <2>13, <2>14, <2>15, <2>16, <2>17
       DEF Files!Next
<1>2. CopiesWhole'
  <2> USE DEF FilesTyped, Copy, CopiesWhole, Whole, Mixed, Stale, Files!Valid
  <2>1. CASE Files!StartBuild
    BY <2>1 DEF Files!StartBuild
  <2>2. CASE Files!FindWords
    BY <2>2 DEF Files!FindWords
  <2>3. CASE Files!FindArchive
    BY <2>3, SMTT(40) DEF Files!FindArchive, Files!Goes
  <2>4. CASE Files!Download
    BY <2>4, SMTT(40) DEF Files!Download
  <2>5. CASE Files!EndDownload
    <3>1. CASE files' = [files EXCEPT !.pc = "annotations", !.part = FALSE, !.archive = TRUE]
      BY <2>5, <3>1 DEF Files!EndDownload
    <3>2. CASE files' = [files EXCEPT !.pc = "idle", !.part = FALSE]
      BY <2>5, <3>2 DEF Files!EndDownload
    <3> QED
      BY <2>5, <3>1, <3>2 DEF Files!EndDownload
  <2>6. CASE Files!Extract
    BY <2>6 DEF Files!Extract
  <2>7. CASE Files!WriteAudio
    <3>1. /\ files.pc = "audio" /\ files'.pc = "manifest"
          /\ UNCHANGED <<files.build, files.hub, files.staging, files.stopped, files.killed>>
          /\ files'.outdated = (files.outdated \/ files.local.variant # 0)
      BY <2>7 DEF Files!WriteAudio
    <3>2. /\ files'.local.manifest = files.local.manifest
          /\ files'.local.variant = files.local.variant
          /\ files'.local.audio = files.build
      BY <2>7 DEF Files!WriteAudio
    <3> QED
      BY <3>1, <3>2, ZenonT(60)
  <2>8. CASE Files!WriteManifest
    <3>1. CASE files' = [files EXCEPT !.pc = "idle", !.local.manifest = files.build]
      <4>1. /\ files.pc = "manifest" /\ files'.pc = "idle"
            /\ UNCHANGED <<files.hub, files.staging, files.stopped, files.outdated, files.killed>>
        BY <2>8, <3>1 DEF Files!WriteManifest
      <4>2. /\ files'.local.manifest = files.build
            /\ files'.local.variant = files.local.variant
            /\ files'.local.audio = files.local.audio
        BY <3>1
      <4>3. ~Mixed(files.local)' /\ (Stale(files.local) => files.outdated)'
        BY <4>1, <4>2
      <4>4. (files.hub # Files!None => Files!Valid(files.hub) /\ Whole(files.hub))'
        BY <4>1
      <4>5. files'.staging # Files!None => files'.killed
        BY <4>1
      <4> QED
        BY <4>1, <4>3, <4>4, <4>5
    <3>2. CASE files' = [files EXCEPT !.pc = "idle", !.stopped = TRUE]
      BY <2>8, <3>2 DEF Files!WriteManifest
    <3> QED
      BY <2>8, <3>1, <3>2 DEF Files!WriteManifest
  <2>9. CASE Files!StartFetch
    BY <2>9, SMTT(40) DEF Files!StartFetch, Files!Goes
  <2>10. CASE Files!Stage
    <3>1. CASE files' = [files EXCEPT !.pc = "replace", !.staging = files.hub] /\ files.hub # Files!None
      <4>1. /\ files.pc = "fetch" /\ files'.pc = "replace" /\ files'.staging = files.hub
            /\ UNCHANGED <<files.local, files.hub, files.stopped, files.outdated, files.killed>>
        BY <2>10, <3>1 DEF Files!Stage
      <4>2. Whole(files.local)'
        BY <4>1
      <4>3. (files.hub # Files!None => Files!Valid(files.hub) /\ Whole(files.hub))'
        BY <4>1
      <4>4. Whole(files.staging)'
        BY <3>1, <4>1
      <4> QED
        BY <4>1, <4>2, <4>3, <4>4
    <3>2. CASE files' = [files EXCEPT !.pc = "idle", !.staging = Files!None]
      BY <2>10, <3>2, NothingIsACopy DEF Files!Stage
    <3> QED
      BY <2>10, <3>1, <3>2 DEF Files!Stage
  <2>11. CASE Files!RemoveSome
    BY <2>11, SMTT(40) DEF Files!RemoveSome
  <2>12. CASE Files!Move
    <3> DEFINE none == Files!None
    <3>1. none \in Copy /\ none.manifest = 0 /\ none.variant = 0 /\ none.audio = 0
      BY NothingIsACopy
    <3>2. /\ files.pc = "replace" /\ files.local = none
          /\ \/ files' = [files EXCEPT !.pc = "check", !.staging = none, !.local = files.staging]
             \/ files' = [files EXCEPT !.pc = "idle", !.staging = none]
      BY <2>12 DEF Files!Move
    <3> HIDE DEF none
    <3>3. CASE files' = [files EXCEPT !.pc = "check", !.staging = none, !.local = files.staging]
      <4>1. /\ files'.pc = "check" /\ files'.staging = none /\ files'.local = files.staging
            /\ UNCHANGED <<files.hub, files.stopped, files.outdated, files.killed>>
        BY <3>3
      <4>2. Whole(files.local)'
        BY <3>2, <4>1
      <4>3. (files.hub # Files!None => Files!Valid(files.hub) /\ Whole(files.hub))'
        BY <4>1
      <4> QED
        BY <4>1, <4>2, <4>3 DEF none
    <3>4. CASE files' = [files EXCEPT !.pc = "idle", !.staging = none]
      BY <3>1, <3>2, <3>4 DEF none
    <3> QED
      BY <3>2, <3>3, <3>4
  <2>13. CASE Files!CheckFetched
    BY <2>13, SMTT(40) DEF Files!CheckFetched, Files!Goes
  <2>14. CASE Files!StartPublish
    BY <2>14, SMTT(40) DEF Files!StartPublish, Files!Goes
  <2>15. CASE Files!Upload
    <3>1. CASE /\ files' = [files EXCEPT
                              !.pc = "idle", !.hub = files.local,
                              !.hub.variant = IF files.local.variant = 0 THEN files.hub.variant
                                                                         ELSE files.local.variant,
                              !.outdated = @ \/ (files.local.variant = 0 /\ files.hub.variant # 0)]
               /\ files.pc = "publish"
      <4>1. /\ files'.pc = "idle" /\ UNCHANGED <<files.local, files.staging, files.stopped, files.killed>>
            /\ files'.hub.manifest = files.local.manifest /\ files'.hub.audio = files.local.audio
        BY <3>1
      <4>2. files.outdated => files'.outdated
        BY <3>1
      <4>3. files'.hub.variant = files.local.variant \/ files'.outdated
        BY <3>1
      <4>4. Files!Valid(files.hub)' /\ (Mixed(files.hub) => files.stopped)'
        BY <3>1, <4>1
      <4>5. (Stale(files.hub) => files.stopped \/ files.outdated)'
        BY <3>1, <4>1, <4>2, <4>3
      <4>6. (Stale(files.local) => files.stopped \/ files.outdated)'
        BY <4>1, <4>2
      <4> QED
        BY <3>1, <4>1, <4>4, <4>5, <4>6
    <3>2. CASE files' = [files EXCEPT !.pc = "idle"] /\ files.pc = "publish"
      BY <3>2
    <3> QED
      BY <2>15, <3>1, <3>2 DEF Files!Upload
  <2>16. CASE Files!Kill
    <3>1. /\ UNCHANGED <<files.local, files.hub, files.staging, files.outdated>> /\ files'.pc = "idle"
          /\ files'.stopped = (files.stopped \/ files.pc = "manifest")
          /\ files'.killed = (files.killed \/ files.pc \in {"fetch", "replace"})
      BY <2>16, SMTT(40) DEF Files!Kill
    <3> QED
      BY <3>1, ZenonT(60)
  <2>17. CASE Files!FilterVariant
    BY <2>17, SMTT(40) DEF Files!FilterVariant
  <2> QED
    BY <2>1, <2>2, <2>3, <2>4, <2>5, <2>6, <2>7, <2>8, <2>9, <2>10, <2>11, <2>12, <2>13, <2>14, <2>15, <2>16, <2>17
       DEF Files!Next
<1>3. WordsWhole'
  <2> USE DEF FilesTyped, WordsWhole
  <2>1. CASE Files!StartBuild
    BY <2>1 DEF Files!StartBuild
  <2>2. CASE Files!FindWords
    BY <2>2 DEF Files!FindWords
  <2>3. CASE Files!FindArchive
    BY <2>3 DEF Files!FindArchive, Files!Goes
  <2>4. CASE Files!Download
    BY <2>4 DEF Files!Download
  <2>5. CASE Files!EndDownload
    <3>1. CASE files' = [files EXCEPT !.pc = "annotations", !.part = FALSE, !.archive = TRUE]
      BY <2>5, <3>1 DEF Files!EndDownload
    <3>2. CASE files' = [files EXCEPT !.pc = "idle", !.part = FALSE]
      BY <2>5, <3>2 DEF Files!EndDownload
    <3> QED
      BY <2>5, <3>1, <3>2 DEF Files!EndDownload
  <2>6. CASE Files!Extract
    BY <2>6 DEF Files!Extract
  <2>7. CASE Files!WriteAudio
    BY <2>7 DEF Files!WriteAudio
  <2>8. CASE Files!WriteManifest
    BY <2>8, ZenonT(60) DEF Files!WriteManifest
  <2>9. CASE Files!StartFetch
    BY <2>9 DEF Files!StartFetch, Files!Goes
  <2>10. CASE Files!Stage
    BY <2>10, ZenonT(60) DEF Files!Stage
  <2>11. CASE Files!RemoveSome
    BY <2>11 DEF Files!RemoveSome
  <2>12. CASE Files!Move
    <3>1. CASE files' = [files EXCEPT !.pc = "check", !.staging = Files!None, !.local = files.staging]
      BY <2>12, <3>1 DEF Files!Move
    <3>2. CASE files' = [files EXCEPT !.pc = "idle", !.staging = Files!None]
      BY <2>12, <3>2 DEF Files!Move
    <3> QED
      BY <2>12, <3>1, <3>2 DEF Files!Move
  <2>13. CASE Files!CheckFetched
    BY <2>13, SMTT(40) DEF Files!CheckFetched, Files!Goes
  <2>14. CASE Files!StartPublish
    BY <2>14 DEF Files!StartPublish, Files!Goes
  <2>15. CASE Files!Upload
    <3>1. CASE /\ files' = [files EXCEPT
                              !.pc = "idle", !.hub = files.local,
                              !.hub.variant = IF files.local.variant = 0 THEN files.hub.variant
                                                                         ELSE files.local.variant,
                              !.outdated = @ \/ (files.local.variant = 0 /\ files.hub.variant # 0)]
               /\ files.pc = "publish"
      BY <3>1
    <3>2. CASE files' = [files EXCEPT !.pc = "idle"] /\ files.pc = "publish"
      BY <3>2, SMTT(40)
    <3> QED
      BY <2>15, <3>1, <3>2 DEF Files!Upload
  <2>16. CASE Files!Kill
    <3>1. /\ files'.pc = "idle" /\ files'.words = files.words /\ files'.used = files.used
          /\ files'.archive = files.archive /\ files'.part = files.part
          /\ files'.cut = (files.cut \/ (files.pc = "extract" /\ files.words > 0))
      BY <2>16 DEF Files!Kill
    <3>2. \/ files.words \in {0, WordFiles} \/ files.cut
          \/ files.pc = "extract" /\ files.words > 0
      OBVIOUS
    <3>3. files'.words \in {0, WordFiles} \/ files'.cut
      BY <3>1, <3>2, ZenonT(60)
    <3>4. files'.used \in {0, WordFiles} \/ files'.cut
      BY <3>1
    <3>5. files'.archive => ~files'.part
      BY <3>1
    <3> QED
      BY <3>1, <3>3, <3>4, <3>5
  <2>17. CASE Files!FilterVariant
    BY <2>17, SMTT(40) DEF Files!FilterVariant
  <2> QED
    BY <2>1, <2>2, <2>3, <2>4, <2>5, <2>6, <2>7, <2>8, <2>9, <2>10, <2>11, <2>12, <2>13, <2>14, <2>15, <2>16, <2>17
       DEF Files!Next
<1> QED
  BY <1>1, <1>2, <1>3

LEMMA FilesWhole == FilesInv => Files!FilesAreWhole
<1> SUFFICES ASSUME FilesInv PROVE Files!FilesAreWhole
  OBVIOUS
<1>1. Files!LeftoversAreKnown
  BY DEF FilesInv, CopiesWhole, WordsWhole, Files!LeftoversAreKnown
<1>2. ASSUME NEW copy, Whole(copy), Files!Valid(copy)
      PROVE  Files!Agrees(copy)
  BY <1>2 DEF Whole, Mixed, Stale, Files!Agrees
<1>3. files.pc = "idle" /\ Files!Valid(files.local) => Files!Agrees(files.local)
  BY <1>2 DEF FilesInv, CopiesWhole, Whole
<1>4. files.hub # Files!None => Files!Valid(files.hub) /\ Files!Agrees(files.hub)
  BY <1>2 DEF FilesInv, CopiesWhole
<1> QED
  BY <1>1, <1>3, <1>4 DEF Files!FilesAreWhole, Files!SoundTracesAreWhole

-----------------------------------------------------------------------------
(* The directories, runs and summary of a job.  What they promise is proved  *)
(* of TrackingRuns on its own; its definitions are the same here.            *)

Proved == INSTANCE TrackingRuns_proofs WITH k <- tracking

\* A job begins, goes on and ends as the module of its proofs has it.
LEMMA InitIsProved == Tracking!Init => Proved!Init
  BY ZenonT(60) DEF Tracking!Init, Proved!Init, Tracking!OrdersOf, Proved!OrdersOf, Tracking!NewRun,
         Proved!NewRun, Tracking!IsInjective, Proved!IsInjective

LEMMA NextIsProved == Tracking!Next => Proved!Next
<1>1. Tracking!Begin => Proved!Begin
  BY DEF Tracking!Begin, Proved!Begin, Tracking!Started, Proved!Started, Tracking!Count,
         Proved!Count, Tracking!NewRun, Proved!NewRun
<1>2. Tracking!Tick => Proved!Tick
  BY DEF Tracking!Tick, Proved!Tick
<1>3. Tracking!InitOutputDir => Proved!InitOutputDir
  <2>1. \A taken : Tracking!Cardinality(taken) = Proved!Cardinality(taken)
    BY DEF Tracking!Cardinality, Proved!Cardinality
  <2>2. \A taken, base : Tracking!NewName(taken, base) = Proved!NewName(taken, base)
    BY <2>1, SMTT(40) DEF Tracking!NewName, Proved!NewName
  <2> QED
    BY <2>2, ZenonT(60) DEF Tracking!InitOutputDir, Proved!InitOutputDir, Tracking!Current, Proved!Current,
                Tracking!ToSet, Proved!ToSet
<1>4. Tracking!InitRun => Proved!InitRun
  BY DEF Tracking!InitRun, Proved!InitRun, Tracking!Started, Proved!Started, Tracking!Current,
         Proved!Current, Tracking!ChildTracked, Proved!ChildTracked, Tracking!NewRun,
         Proved!NewRun
<1>5. Tracking!RunBenchmark => Proved!RunBenchmark
  BY ZenonT(60) DEF Tracking!RunBenchmark, Proved!RunBenchmark, Tracking!Current, Proved!Current,
         Tracking!LoggedBy, Proved!LoggedBy
<1>6. Tracking!LogBenchmark => Proved!LogBenchmark
  BY DEF Tracking!LogBenchmark, Proved!LogBenchmark, Tracking!LoggedBy, Proved!LoggedBy,
         Tracking!Current, Proved!Current, Tracking!ChildTracked, Proved!ChildTracked
<1>7. Tracking!FinishRun => Proved!FinishRun
  BY SMTT(40) DEF Tracking!FinishRun, Proved!FinishRun, Tracking!Current, Proved!Current, Tracking!Count,
         Proved!Count
<1>8. Tracking!WriteSweepSummary => Proved!WriteSweepSummary
  BY DEF Tracking!WriteSweepSummary, Proved!WriteSweepSummary, Tracking!Count, Proved!Count,
         Tracking!Rows, Proved!Rows, Tracking!Windows, Proved!Windows, Tracking!Benchmarks,
         Proved!Benchmarks, Tracking!Row, Proved!Row, Tracking!LengthOf, Proved!LengthOf,
         Tracking!BatchOf, Proved!BatchOf, Tracking!HasWindow, Proved!HasWindow
<1>9. Tracking!TagBest => Proved!TagBest
  BY Zenon DEF Tracking!TagBest, Proved!TagBest, Tracking!MayReport, Proved!MayReport, Tracking!Count,
         Proved!Count
<1>10. Tracking!LogSummary => Proved!LogSummary
  BY ZenonT(60) DEF Tracking!LogSummary, Proved!LogSummary, Tracking!MayReport, Proved!MayReport,
         Tracking!NewRun, Proved!NewRun, Tracking!Count, Proved!Count
<1>11. Tracking!LogResults => Proved!LogResults
  BY DEF Tracking!LogResults, Proved!LogResults, Tracking!MayReport, Proved!MayReport,
         Tracking!LoggedBy, Proved!LoggedBy, Tracking!Count, Proved!Count
<1>12. Tracking!ReportSingle => Proved!ReportSingle
  BY DEF Tracking!ReportSingle, Proved!ReportSingle, Tracking!MayReport, Proved!MayReport,
         Tracking!Count, Proved!Count
<1>13. Tracking!Unwind => Proved!Unwind
  BY SMTT(40) DEF Tracking!Unwind, Proved!Unwind
<1> QED
  BY <1>1, <1>2, <1>3, <1>4, <1>5, <1>6, <1>7, <1>8, <1>9, <1>10, <1>11, <1>12, <1>13
  DEF Tracking!Next, Proved!Next

LEMMA SoundIsProved == Proved!TrackingIsSound => Tracking!TrackingIsSound
  BY DEF Tracking!TrackingIsSound, Proved!TrackingIsSound, Tracking!RunsAreOwn,
         Proved!RunsAreOwn, Tracking!ResultsAreLogged, Proved!ResultsAreLogged,
         Tracking!NothingLeftActive, Proved!NothingLeftActive, Tracking!BestIsTagged,
         Proved!BestIsTagged, Tracking!DirsAndRowsMatch, Proved!DirsAndRowsMatch,
         Tracking!OwnRuns, Proved!OwnRuns, Tracking!Benchmarks, Proved!Benchmarks,
         Tracking!Count, Proved!Count, Tracking!NewRun, Proved!NewRun, Tracking!Foreign,
         Proved!Foreign

LEMMA TrackingInitially == Tracking!Init => Proved!TrackingInv
<1>1. Proved!TrackingAssumption
  BY TrackingAssumption DEF Tracking!TrackingAssumption, Proved!TrackingAssumption
<1> QED
  BY <1>1, InitIsProved, Proved!TrackingInitially

LEMMA TrackingInductive ==
    Proved!TrackingInv /\ [Tracking!Next]_tracking => Proved!TrackingInv'
<1>1. [Tracking!Next]_tracking => [Proved!Next]_tracking
  BY NextIsProved, SMTT(40)
<1> QED
  BY <1>1, Proved!TrackingInductive

-----------------------------------------------------------------------------
(* The parts together.                                                     *)

\* A step of the whole is a step of the part that the behaviour is of.
LEMMA OnlyItsPart ==
    ASSUME [PartsNext]_allVars
    PROVE  /\ part' = part
           /\ part = "search" => [Search!Next]_Search!vars
           /\ part = "accounts" => [Accounts!Next]_Accounts!vars
           /\ part = "files" => [Files!Next]_files
           /\ part = "tracking" => [Tracking!Next]_tracking
  BY DEF PartsNext, OthersRest, allVars, searchVars, Search!vars, Search!config,
     accountVars, Accounts!vars, Accounts!counters

\* For any start, ceiling, expansion, budget and grid, a capacity search returns
\* the greatest value that passed, without its warning the true maximum, and
\* probes no value twice.  (A ceiling that is rounded down is never reached,
\* and may be probed again.)
THEOREM SearchIsRight == PartsSpec => []SearchFindsMaximum
<1> DEFINE Kept == part = "search" => SearchInv /\ Search!ProbesGrow
<1>1. PartsInit => Kept
  <2>1. Search!Init => Search!ProbesGrow
    BY DEF Search!Init, Search!ProbesGrow
  <2> QED
    BY <2>1, SearchInitially DEF PartsInit
<1>2. Kept /\ [PartsNext]_allVars => Kept'
  BY SearchInductive, ProbesStillGrow, OnlyItsPart
<1>3. Kept => SearchFindsMaximum
  BY DEF SearchInv, SearchFindsMaximum
<1> QED
  BY <1>1, <1>2, <1>3, PTL DEF PartsSpec

\* For any sessions and requests, whatever the order in which their results are
\* recorded, the session counters are those of the history at every moment, and
\* the final ones put every session that was seen into one class.
THEOREM SessionsAreCounted == PartsSpec => []CountsAreExact
<1> DEFINE Kept == part = "accounts" => AccountsInv
<1>1. PartsInit => Kept
  BY AccountsInitially DEF PartsInit
<1>2. Kept /\ [PartsNext]_allVars => Kept'
  BY AccountsInductive, OnlyItsPart
<1>3. Kept => CountsAreExact
  BY AccountsExact DEF CountsAreExact
<1> QED
  BY <1>1, <1>2, <1>3, PTL DEF PartsSpec

\* Wherever a build, a fetch or a publication of a trace of audio fails or is
\* killed, a copy that passes for sound is of one build, unless a build stopped
\* after it wrote audio; and what is left over is known.
THEOREM TracesStayWhole == PartsSpec => [](part = "files" => Files!FilesAreWhole)
<1> DEFINE Kept == part = "files" => FilesInv
<1>1. PartsInit => Kept
  BY FilesInitially, SMTT(40) DEF PartsInit
<1>2. Kept /\ [PartsNext]_allVars => Kept'
  BY FilesInductive, OnlyItsPart
<1>3. Kept => (part = "files" => Files!FilesAreWhole)
  BY FilesWhole
<1> QED
  BY <1>1, <1>2, <1>3, PTL DEF PartsSpec

\* For any jobs, whatever the order of their benchmarks and wherever one of them
\* fails: no run of the tracker holds what another benchmark logged, every
\* finished benchmark has one run with all of its results, only the best run of a
\* search has the tag, the job leaves no run of its own active, no two benchmarks
\* share a directory, and the rows of the summary are those of their
\* configurations.
THEOREM JobsAreTracked == PartsSpec => []TrackingIsSound
<1> DEFINE Kept == part = "tracking" => Proved!TrackingInv
<1>1. PartsInit => Kept
  BY TrackingInitially DEF PartsInit
<1>2. Kept /\ [PartsNext]_allVars => Kept'
  BY TrackingInductive, OnlyItsPart
<1>3. Kept => TrackingIsSound
  BY Proved!TrackingIsSoundThen, SoundIsProved DEF TrackingIsSound
<1> QED
  BY <1>1, <1>2, <1>3, PTL DEF PartsSpec
=============================================================================
