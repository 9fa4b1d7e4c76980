----------------------- MODULE ServersAndClients_proofs -----------------------
(***************************************************************************)
(* For any nodes, jobs, configurations, providers' events, requests and    *)
(* entries: what the parts around a run promise.  Each section gives the   *)
(* inductive invariant of one part; the theorems at the end are about the  *)
(* specification that the runs check, in which a behaviour is of one part. *)
(***************************************************************************)
EXTENDS ServersAndClients, FiniteSetTheorems, FunctionTheorems, SequenceTheorems,
        WellFoundedInduction, TLAPS

-----------------------------------------------------------------------------
(* The GPU resource manager (ResourceManager): every GPU has one owner.    *)
(* What is free or held belongs to the nodes that are known; a host that   *)
(* is added again while none of its GPUs is held disturbs nobody.          *)

OwnersInv == TypeOK /\ OneOwner

\* allocate_resources() picks from what is free, with any of its strategies.
LEMMA GrantIsFree ==
    ASSUME NEW k, NEW contiguous
    PROVE  Grant(k, contiguous) \subseteq free
<1>1. Spread(k) \subseteq free
    BY DEF Spread
<1> QED
    BY <1>1 DEF Grant

\* add_node() only adds; a known host keeps its place.
LEMMA NodesGrow ==
    ASSUME TypeOK, NEW n \in Node, AddNode(n)
    PROVE  /\ nodes' \in Seq(Node)
           /\ Known' = Known \cup {n}
           /\ AllGPUs' = AllGPUs \cup GPUsOf(n)
<1>1. nodes \in Seq(Node)
    BY DEF TypeOK
<1>2. nodes' \in Seq(Node) /\ Known' = Known \cup {n}
    <2>1. CASE n \in Known
        <3>1. nodes' = nodes
            BY <2>1 DEF AddNode
        <3> QED
            BY <2>1, <3>1, <1>1 DEF Known
    <2>2. CASE n \notin Known
        <3>1. nodes' = Append(nodes, n)
            BY <2>2 DEF AddNode
        <3>2. nodes' \in Seq(Node) /\ Len(nodes') = Len(nodes) + 1
            BY <1>1, <3>1
        <3>3. nodes'[Len(nodes) + 1] = n
            BY <1>1, <3>1
        <3>4. \A x \in 1 .. Len(nodes) : nodes'[x] = nodes[x]
            BY <1>1, <3>1
        <3>5. DOMAIN nodes = 1 .. Len(nodes) /\ DOMAIN nodes' = 1 .. Len(nodes) + 1 /\ Len(nodes) \in Nat
            BY <1>1, <3>2
        <3> QED
            BY <3>2, <3>3, <3>4, <3>5 DEF Known
    <2> QED
        BY <2>1, <2>2
<1> QED
    BY <1>2 DEF AllGPUs, GPUsOf

-----------------------------------------------------------------------------
\* Detection starts with one node, of which some GPUs are free.
LEMMA InitOwners == Init => OwnersInv
<1> SUFFICES ASSUME Init PROVE OwnersInv
    OBVIOUS
<1>1. PICK n \in Node : nodes = <<n>> /\ free \in SUBSET GPUsOf(n)
    BY DEF Init
<1>2. nodes \in Seq(Node)
    BY <1>1
<1>3. n \in Known
    BY <1>1 DEF Known
<1>4. free \subseteq AllGPUs
    BY <1>1, <1>3 DEF AllGPUs
<1>5. TypeOK
    BY <1>2, <1>4 DEF Init, TypeOK, Phase, Known
<1>6. OneOwner
    BY DEF Init, OneOwner
<1> QED
    BY <1>5, <1>6 DEF OwnersInv

\* Every step keeps the typing and the owners.
LEMMA NextOwners == OwnersInv /\ [Next]_vars => OwnersInv'
<1> SUFFICES ASSUME TypeOK, OneOwner, [Next]_vars PROVE TypeOK' /\ OneOwner'
    BY DEF OwnersInv
<1>1. ASSUME NEW n \in Node, AddNode(n) PROVE TypeOK' /\ OneOwner'
    <2>1. /\ nodes' \in Seq(Node) /\ Known' = Known \cup {n}
          /\ AllGPUs' = AllGPUs \cup GPUsOf(n)
        BY <1>1, NodesGrow
    <2>2. /\ overwritten' \subseteq overwritten \cup {n}
          /\ overwritten \subseteq overwritten'
          /\ n \notin overwritten' => \A j \in Job : held[j] \cap GPUsOf(n) = {}
        BY <1>1 DEF AddNode
    <2>3. free' = free \cup GPUsOf(n) /\ held' = held /\ phase' = phase /\ polls' = polls
        BY <1>1 DEF AddNode
    <2>4. TypeOK'
        BY <2>1, <2>2, <2>3 DEF TypeOK
    <2>5. /\ OnOverwritten \subseteq OnOverwritten'
          /\ n \in overwritten' => GPUsOf(n) \subseteq OnOverwritten'
        BY <2>2 DEF OnOverwritten, GPUsOf
    <2>6. OneOwner'
        BY <2>2, <2>3, <2>5 DEF OneOwner
    <2> QED
        BY <2>4, <2>6
<1>2. ASSUME NEW j \in Job, Allocate(j) PROVE TypeOK' /\ OneOwner'
    <2> DEFINE g == Grant(Need[j], Contiguous[j])
    <2>1. g \subseteq free
        BY GrantIsFree
    <2>2. /\ nodes' = nodes /\ polls' = polls /\ AllGPUs' = AllGPUs /\ overwritten' = overwritten
          /\ Known' = Known /\ OnOverwritten' = OnOverwritten
        BY <1>2 DEF Allocate, AllGPUs, Known, GPUsOf, OnOverwritten
    <2>3. CASE g = {}
        <3>1. free' = free /\ held' = held /\ phase' = [phase EXCEPT ![j] = "sleeping"]
            BY <1>2, <2>3 DEF Allocate
        <3> QED
            BY <2>2, <3>1 DEF TypeOK, Phase, OneOwner
    <2>4. CASE g # {}
        <3>1. /\ free' = free \ g
              /\ held' = [held EXCEPT ![j] = g]
              /\ phase' = [phase EXCEPT ![j] = "granted"]
            BY <1>2, <2>4 DEF Allocate
        <3>2. TypeOK'
            BY <2>1, <2>2, <3>1 DEF TypeOK, Phase
        <3>3. \A h \in Job : held'[h] = IF h = j THEN g ELSE held[h]
            BY <3>1 DEF TypeOK
        <3>4. OneOwner'
            BY <2>1, <2>2, <3>1, <3>3 DEF OneOwner
        <3> QED
            BY <3>2, <3>4
    <2> QED
        BY <2>3, <2>4
<1>3. ASSUME NEW j \in Job, Release(j) PROVE TypeOK' /\ OneOwner'
    <2>1. /\ nodes' = nodes /\ polls' = polls /\ AllGPUs' = AllGPUs /\ overwritten' = overwritten
          /\ Known' = Known /\ OnOverwritten' = OnOverwritten
        BY <1>3 DEF Release, AllGPUs, Known, GPUsOf, OnOverwritten
    <2>2. /\ free' = free \cup held[j]
          /\ held' = [held EXCEPT ![j] = {}]
          /\ phase' = [phase EXCEPT ![j] = "idle"]
        BY <1>3 DEF Release
    <2>3. TypeOK'
        BY <2>1, <2>2 DEF TypeOK, Phase
    <2>4. \A h \in Job : held'[h] = IF h = j THEN {} ELSE held[h]
        BY <2>2 DEF TypeOK
    <2>5. OneOwner'
        BY <2>1, <2>2, <2>4 DEF OneOwner
    <2> QED
        BY <2>3, <2>5
<1>4. ASSUME NEW j \in Job, BeginWait(j) \/ Look(j) \/ Sleep(j) PROVE TypeOK' /\ OneOwner'
    <2>1. /\ nodes' = nodes /\ free' = free /\ held' = held /\ AllGPUs' = AllGPUs
          /\ overwritten' = overwritten /\ Known' = Known /\ OnOverwritten' = OnOverwritten
        BY <1>4 DEF BeginWait, Look, Sleep, AllGPUs, Known, GPUsOf, OnOverwritten
    <2>2. phase' \in [Job -> Phase]
        BY <1>4 DEF BeginWait, Look, Sleep, TypeOK, Phase
    <2>3. polls' \in [Job -> Nat]
        BY <1>4 DEF BeginWait, Look, Sleep, TypeOK
    <2> QED
        BY <2>1, <2>2, <2>3 DEF TypeOK, OneOwner
<1>5. CASE UNCHANGED vars
    <2>1. UNCHANGED <<nodes, free, held, phase, polls, overwritten>>
        BY <1>5 DEF vars
    <2>2. AllGPUs' = AllGPUs /\ Known' = Known /\ OnOverwritten' = OnOverwritten
        BY <2>1 DEF AllGPUs, Known, GPUsOf, OnOverwritten
    <2>3. TypeOK'
        BY <2>1, <2>2 DEF TypeOK
    <2>4. OneOwner'
        BY <2>1, <2>2 DEF OneOwner
    <2> QED
        BY <2>3, <2>4
<1> QED
    BY <1>1, <1>2, <1>3, <1>4, <1>5 DEF Next, Step

-----------------------------------------------------------------------------
(* What the manager grants, and that it is as many as was asked for.       *)

\* The members of S with fewer than k others before them in the order R.
Firsts(S, R, k) == {x \in S : Cardinality({y \in S : <<y, x>> \in R}) < k}

\* The numbers below n are n.
LEMMA NumbersBelow ==
    ASSUME NEW n \in Nat
    PROVE  IsFiniteSet(0 .. n - 1) /\ Cardinality(0 .. n - 1) = n
<1> DEFINE b == n - 1
<1>1. 0 \in Int /\ b \in Int
  OBVIOUS
<1>2. IsFiniteSet(0 .. b) /\ Cardinality(0 .. b) = IF 0 > b THEN 0 ELSE b - 0 + 1
  <2> HIDE DEF b
  <2> QED
    BY ONLY <1>1, FS_Interval
<1> QED
  BY <1>2

\* In a finite set with a strict order the first k are k.
LEMMA FirstInOrder ==
    ASSUME NEW S, IsFiniteSet(S), NEW R, NEW k \in 0 .. Cardinality(S),
           \A x \in S : <<x, x>> \notin R,
           \A x, y, z \in S : <<x, y>> \in R /\ <<y, z>> \in R => <<x, z>> \in R,
           \A x, y \in S : x # y => <<x, y>> \in R \/ <<y, x>> \in R
    PROVE  IsFiniteSet(Firsts(S, R, k)) /\ Cardinality(Firsts(S, R, k)) = k
<1> DEFINE N == Cardinality(S)
           B(x) == {y \in S : <<y, x>> \in R}
           f == [x \in S |-> Cardinality(B(x))]
           T == {x \in S : Cardinality(B(x)) < k}
           g == [x \in T |-> Cardinality(B(x))]
<1>1. N \in Nat /\ k \in Nat /\ k <= N
  BY FS_CardinalityType
<1>2. \A x \in S : B(x) \in SUBSET S /\ x \notin B(x) /\ IsFiniteSet(B(x)) /\ Cardinality(B(x)) \in Nat
  <2> TAKE x \in S
  <2>1. B(x) \in SUBSET S /\ x \notin B(x)
    OBVIOUS
  <2>2. IsFiniteSet(B(x))
    BY <2>1, FS_Subset
  <2> QED
    BY <2>1, <2>2, FS_CardinalityType
<1>3. \A x \in S : Cardinality(B(x)) \in 0 .. N - 1
  <2> TAKE x \in S
  <2>1. Cardinality(B(x)) <= N /\ (N = Cardinality(B(x)) => S = B(x))
    BY <1>2, FS_Subset
  <2>2. S # B(x)
    BY <1>2
  <2> HIDE DEF B, N
  <2> QED
    BY <1>1, <1>2, <2>1, <2>2
<1>4. \A x, y \in S : <<x, y>> \in R => Cardinality(B(x)) # Cardinality(B(y))
  <2> TAKE x, y \in S
  <2> HAVE <<x, y>> \in R
  <2>1. B(x) \in SUBSET B(y)
    OBVIOUS
  <2>2. x \in B(y) /\ x \notin B(x)
    OBVIOUS
  <2>3. Cardinality(B(y)) = Cardinality(B(x)) => B(y) = B(x)
    BY <1>2, <2>1, FS_Subset
  <2> QED
    BY <2>2, <2>3
<1>5. \A x, y \in S : Cardinality(B(x)) = Cardinality(B(y)) => x = y
  <2> SUFFICES ASSUME NEW x \in S, NEW y \in S, Cardinality(B(x)) = Cardinality(B(y)), x # y
               PROVE  FALSE
    OBVIOUS
  <2>1. <<x, y>> \in R \/ <<y, x>> \in R
    OBVIOUS
  <2> HIDE DEF B
  <2> QED
    BY <1>4, <2>1
<1> HIDE DEF B, N
<1>6. f \in Injection(S, 0 .. N - 1)
  <2>1. f \in [S -> 0 .. N - 1]
    BY <1>3
  <2>2. \A x, y \in S : f[x] = f[y] => x = y
    BY <1>5
  <2>3. DOMAIN f = S
    OBVIOUS
  <2> HIDE DEF f
  <2> QED
    BY <2>1, <2>2, <2>3 DEF Injection, IsInjective
<1>7. IsFiniteSet(0 .. N - 1) /\ Cardinality(0 .. N - 1) = N
  BY <1>1, NumbersBelow
<1>8. f \in Surjection(S, 0 .. N - 1)
  <2> HIDE DEF f
  <2> QED
    BY <1>6, <1>7, FS_Injection DEF N
<1>9. \A v \in 0 .. N - 1 : \E x \in S : Cardinality(B(x)) = v
  BY <1>8 DEF Surjection
<1>10. g \in Injection(T, 0 .. k - 1) /\ g \in Surjection(T, 0 .. k - 1)
  <2>1. g \in [T -> 0 .. k - 1]
    BY <1>1, <1>2
  <2>2. \A x, y \in T : g[x] = g[y] => x = y
    BY <1>5
  <2>3. \A v \in 0 .. k - 1 : \E x \in T : g[x] = v
    BY <1>1, <1>9
  <2>4. DOMAIN g = T
    OBVIOUS
  <2> HIDE DEF g, T
  <2> QED
    BY <2>1, <2>2, <2>3, <2>4 DEF Injection, IsInjective, Surjection
<1>11. IsFiniteSet(0 .. k - 1) /\ Cardinality(0 .. k - 1) = k
  <2>1. k - 1 \in Int /\ k - 1 - 0 + 1 = k /\ (0 > k - 1 => k = 0)
    BY <1>1
  <2>2. /\ IsFiniteSet(0 .. k - 1)
        /\ Cardinality(0 .. k - 1) = IF 0 > k - 1 THEN 0 ELSE k - 1 - 0 + 1
    BY <2>1, FS_Interval
  <2> QED
    BY <1>1, <2>1, <2>2
<1>12. IsFiniteSet(T) /\ Cardinality(T) = k
  <2> HIDE DEF g, T
  <2> QED
    BY <1>10, <1>11, FS_Injection
<1> QED
  BY <1>12 DEF B, Firsts

\* A set of natural numbers has a least one.
LEMMA LeastMember ==
    ASSUME NEW S \in SUBSET Nat, S # {}
    PROVE  \E m \in S : \A n \in S : m <= n
<1>1. PICK m \in S : \A n \in S : <<n, m>> \notin OpToRel(<, Nat)
  BY NatLessThanWellFounded, WFMin
<1>2. \A n \in S : ~(n < m)
  BY <1>1 DEF OpToRel
<1> QED
  BY <1>2

\* The k least of some GPU ids are k.
LEMMA LeastAreK ==
    ASSUME NEW w \in Nat, NEW S \in SUBSET (0 .. w - 1), NEW k \in 0 .. Cardinality(S)
    PROVE  Least(S, k) \subseteq S /\ IsFiniteSet(Least(S, k)) /\ Cardinality(Least(S, k)) = k
<1> DEFINE R == {p \in S \X S : p[1] < p[2]}
<1>1. IsFiniteSet(S)
  <2>1. IsFiniteSet(0 .. w - 1)
    BY FS_Interval
  <2> QED
    BY <2>1, FS_Subset
<1>2. \A x \in S : <<x, x>> \notin R
  OBVIOUS
<1>3. \A x, y, z \in S : <<x, y>> \in R /\ <<y, z>> \in R => <<x, z>> \in R
  OBVIOUS
<1>4. \A x, y \in S : x # y => <<x, y>> \in R \/ <<y, x>> \in R
  OBVIOUS
<1>5. \A x \in S : {y \in S : <<y, x>> \in R} = {h \in S : h < x}
  OBVIOUS
<1> HIDE DEF R
<1>6. IsFiniteSet(Firsts(S, R, k)) /\ Cardinality(Firsts(S, R, k)) = k
  BY <1>1, <1>2, <1>3, <1>4, FirstInOrder
<1>7. Least(S, k) = Firsts(S, R, k)
  BY <1>5 DEF Least, Firsts
<1>8. Least(S, k) \subseteq S
  BY DEF Least
<1> QED
  BY <1>6, <1>7, <1>8

\* The GPUs of a node are as many as their ids.
LEMMA AsManyAsIds ==
    ASSUME NEW n, NEW S, IsFiniteSet(S)
    PROVE  Cardinality({<<n, i>> : i \in S}) = Cardinality(S)
<1> DEFINE f == [i \in S |-> <<n, i>>]
           T == {<<n, i>> : i \in S}
<1>1. f \in [S -> T] /\ DOMAIN f = S
  OBVIOUS
<1>2. \A a, b \in S : f[a] = f[b] => a = b
  OBVIOUS
<1>3. \A t \in T : \E a \in S : f[a] = t
  OBVIOUS
<1> HIDE DEF f, T
<1>4. f \in Bijection(S, T)
  BY <1>1, <1>2, <1>3 DEF Bijection, Injection, Surjection, IsInjective
<1>5. Cardinality(T) = Cardinality(S)
  BY <1>4, FS_Bijection DEF ExistsBijection
<1> QED
  BY <1>5 DEF T

\* What the contiguous allocation takes of a node that has room: k of its free
\* GPUs, side by side if it has a run of k.
LEMMA AdjacentAreK ==
    ASSUME ManagerAssumption, NEW n \in Node, NEW k \in Nat \ {0}, k <= Cardinality(FreeOn(n))
    PROVE  LET A == AdjacentOn(n, k) IN
           /\ A \subseteq FreeOn(n) /\ IsFiniteSet(A) /\ Cardinality(A) = k
           /\ Runs(n, k) # {} => \E b \in 0 .. Width[n] : A = b .. b + k - 1
<1>1. Width[n] \in Nat /\ FreeOn(n) \in SUBSET (0 .. Width[n] - 1) /\ FreeOn(n) \in SUBSET Nat
  BY DEF ManagerAssumption, FreeOn
<1>2. CASE Runs(n, k) = {}
  <2>1. Cardinality(FreeOn(n)) \in Nat
    <3>1. IsFiniteSet(0 .. Width[n] - 1)
      BY <1>1, FS_Interval
    <3> QED
      BY <1>1, <3>1, FS_Subset, FS_CardinalityType
  <2>2. k \in 0 .. Cardinality(FreeOn(n))
    BY <2>1
  <2> QED
    BY <1>1, <1>2, <2>2, LeastAreK DEF AdjacentOn
<1>3. CASE Runs(n, k) # {}
  <2>1. Runs(n, k) \in SUBSET Nat
    BY <1>1 DEF Runs
  <2>2. PICK b \in Runs(n, k) : \A c \in Runs(n, k) : b <= c
    BY <1>3, <2>1, LeastMember
  <2>3. b \in FreeOn(n) /\ b .. b + k - 1 \subseteq FreeOn(n) /\ b \in 0 .. Width[n]
    BY <1>1, <2>2 DEF Runs
  <2>4. \A d \in Runs(n, k) : (\A c \in Runs(n, k) : d <= c) => d = b
    BY <2>1, <2>2
  <2>5. AdjacentOn(n, k) = b .. b + k - 1
    BY <1>3, <2>2, <2>3, <2>4 DEF AdjacentOn
  <2>6. b \in Nat /\ b + k - 1 \in Int /\ b <= b + k - 1
    BY <2>1
  <2>7. IsFiniteSet(b .. b + k - 1) /\ Cardinality(b .. b + k - 1) = k
    <3> DEFINE c == b + k - 1
    <3>1. c \in Int /\ b \in Int /\ b <= c /\ c - b + 1 = k
      BY <2>6
    <3> HIDE DEF c
    <3>2. IsFiniteSet(b .. c) /\ Cardinality(b .. c) = IF b > c THEN 0 ELSE c - b + 1
      BY <3>1, FS_Interval
    <3>3. IsFiniteSet(b .. c) /\ Cardinality(b .. c) = k
      BY <3>1, <3>2
    <3> QED
      BY <3>3 DEF c
  <2> QED
    BY <2>3, <2>5, <2>7
<1> QED
  BY <1>2, <1>3

\* What a manager of known nodes calls free is finite.
LEMMA FreeIsFinite ==
    ASSUME ManagerAssumption, TypeOK
    PROVE  IsFiniteSet(free)
<1>1. nodes \in Seq(Node) /\ DOMAIN nodes = 1 .. Len(nodes) /\ Len(nodes) \in Nat
  BY DEF TypeOK
<1>2. \A x \in DOMAIN nodes : IsFiniteSet(GPUsOf(nodes[x]))
  <2> TAKE x \in DOMAIN nodes
  <2> DEFINE w == Width[nodes[x]]
             f == [i \in 0 .. w - 1 |-> <<nodes[x], i>>]
  <2>1. w \in Nat
    BY <1>1 DEF ManagerAssumption
  <2>2. f \in [0 .. w - 1 -> GPUsOf(nodes[x])] /\ \A p \in GPUsOf(nodes[x]) : \E i \in 0 .. w - 1 : f[i] = p
    BY DEF GPUsOf
  <2> HIDE DEF f, w
  <2>3. f \in Surjection(0 .. w - 1, GPUsOf(nodes[x]))
    BY <2>2 DEF Surjection
  <2>4. IsFiniteSet(0 .. w - 1)
    BY <2>1, FS_Interval
  <2> QED
    BY <2>3, <2>4, FS_Surjection
<1> DEFINE F == {GPUsOf(nodes[x]) : x \in DOMAIN nodes}
           h == [x \in DOMAIN nodes |-> GPUsOf(nodes[x])]
<1>3. IsFiniteSet(F)
  <2>1. h \in [DOMAIN nodes -> F] /\ \A p \in F : \E x \in DOMAIN nodes : h[x] = p
    OBVIOUS
  <2> HIDE DEF h, F
  <2>2. h \in Surjection(DOMAIN nodes, F)
    BY <2>1 DEF Surjection
  <2>3. IsFiniteSet(DOMAIN nodes)
    BY <1>1, FS_Interval
  <2> QED
    BY <2>2, <2>3, FS_Surjection
<1>4. \A S \in F : IsFiniteSet(S)
  BY <1>2
<1>5. UNION F = AllGPUs
  BY DEF AllGPUs, Known
<1> HIDE DEF F
<1>6. IsFiniteSet(AllGPUs)
  BY <1>3, <1>4, <1>5, FS_UNION
<1> QED
  BY <1>6, FS_Subset DEF TypeOK

\* No node is known twice.
NodesApart == \A x, y \in DOMAIN nodes : nodes[x] = nodes[y] => x = y

\* Over several nodes k GPUs are taken of at least k that are free.
LEMMA SpreadAreK ==
    ASSUME ManagerAssumption, TypeOK, NodesApart, NEW k \in 0 .. Cardinality(free)
    PROVE  Cardinality(Spread(k)) = k
<1> DEFINE R == {r \in free \X free : \E x, y \in DOMAIN nodes :
                   /\ nodes[y] = r[1][1] /\ nodes[x] = r[2][1]
                   /\ y < x \/ (y = x /\ r[1][2] < r[2][2])}
<1>1. /\ nodes \in Seq(Node) /\ DOMAIN nodes = 1 .. Len(nodes) /\ Len(nodes) \in Nat
      /\ DOMAIN nodes \subseteq Nat
  BY DEF TypeOK
<1>2. \A p \in free : \E x \in DOMAIN nodes, i \in Nat : p = <<nodes[x], i>>
  <2>1. \A n \in Known : Width[n] \in Nat
    BY <1>1 DEF Known, ManagerAssumption
  <2> QED
    BY <2>1 DEF TypeOK, AllGPUs, Known, GPUsOf
<1>3. \A x, y \in DOMAIN nodes, i, j \in Nat :
        <<nodes[y], j>> \in free /\ <<nodes[x], i>> \in free =>
          (<<<<nodes[y], j>>, <<nodes[x], i>>>> \in R <=> y < x \/ (y = x /\ j < i))
  BY DEF NodesApart
<1> HIDE DEF R
<1>4. \A p \in free : <<p, p>> \notin R
  <2> TAKE p \in free
  <2>1. PICK x \in DOMAIN nodes, i \in Nat : p = <<nodes[x], i>>
    BY <1>2
  <2>2. <<p, p>> \in R <=> x < x \/ (x = x /\ i < i)
    BY <1>3, <2>1
  <2>3. x \in Nat
    BY <1>1
  <2> QED
    BY ONLY <2>1, <2>2, <2>3
<1>5. \A p, q, r \in free : <<p, q>> \in R /\ <<q, r>> \in R => <<p, r>> \in R
  <2> SUFFICES ASSUME NEW p \in free, NEW q \in free, NEW r \in free,
                      <<p, q>> \in R, <<q, r>> \in R
               PROVE  <<p, r>> \in R
    OBVIOUS
  <2>1. PICK x \in DOMAIN nodes, i \in Nat : p = <<nodes[x], i>>
    BY <1>2
  <2>2. PICK y \in DOMAIN nodes, j \in Nat : q = <<nodes[y], j>>
    BY <1>2
  <2>3. PICK z \in DOMAIN nodes, l \in Nat : r = <<nodes[z], l>>
    BY <1>2
  <2>4. x < y \/ (x = y /\ i < j)
    BY <1>3, <2>1, <2>2
  <2>5. y < z \/ (y = z /\ j < l)
    BY <1>3, <2>2, <2>3
  <2>6. x \in Nat /\ y \in Nat /\ z \in Nat
    BY <1>1
  <2>7. x < z \/ (x = z /\ i < l)
    BY ONLY <2>1, <2>2, <2>3, <2>4, <2>5, <2>6
  <2> QED
    BY <1>3, <2>1, <2>3, <2>7
<1>6. \A p, q \in free : p # q => <<p, q>> \in R \/ <<q, p>> \in R
  <2> SUFFICES ASSUME NEW p \in free, NEW q \in free, p # q
               PROVE  <<p, q>> \in R \/ <<q, p>> \in R
    OBVIOUS
  <2>1. PICK x \in DOMAIN nodes, i \in Nat : p = <<nodes[x], i>>
    BY <1>2
  <2>2. PICK y \in DOMAIN nodes, j \in Nat : q = <<nodes[y], j>>
    BY <1>2
  <2>3. x # y \/ i # j
    BY <2>1, <2>2
  <2>4. x \in Nat /\ y \in Nat
    BY <1>1
  <2>5. x < y \/ (x = y /\ i < j) \/ y < x \/ (y = x /\ j < i)
    BY ONLY <2>1, <2>2, <2>3, <2>4
  <2> QED
    BY <1>3, <2>1, <2>2, <2>5
<1>7. Cardinality(Firsts(free, R, k)) = k
  BY <1>4, <1>5, <1>6, FreeIsFinite, FirstInOrder
<1>8. \A x \in DOMAIN nodes, i \in Nat : <<nodes[x], i>> \in free =>
        Before(x, i) = {q \in free : <<q, <<nodes[x], i>>>> \in R}
  <2> SUFFICES ASSUME NEW x \in DOMAIN nodes, NEW i \in Nat, <<nodes[x], i>> \in free
               PROVE  \A q \in free : q \in Before(x, i) <=> <<q, <<nodes[x], i>>>> \in R
    BY DEF Before
  <2> TAKE q \in free
  <2>1. PICK y \in DOMAIN nodes, j \in Nat : q = <<nodes[y], j>>
    BY <1>2
  <2>2. \A z \in DOMAIN nodes : nodes[z] = q[1] <=> z = y
    BY <2>1 DEF NodesApart
  <2>3. q \in Before(x, i) <=> y < x \/ (y = x /\ j < i)
    BY <2>1, <2>2 DEF Before
  <2>4. <<q, <<nodes[x], i>>>> \in R <=> y < x \/ (y = x /\ j < i)
    BY <1>3, <2>1
  <2> QED
    BY <2>3, <2>4
<1>9. Spread(k) = Firsts(free, R, k)
  <2>1. \A x \in DOMAIN nodes, i \in Nat : <<nodes[x], i>> \in free =>
          (<<nodes[x], i>> \in Spread(k) <=> Cardinality(Before(x, i)) < k)
    BY DEF Spread, NodesApart
  <2>2. \A x \in DOMAIN nodes, i \in Nat : <<nodes[x], i>> \in free =>
          (<<nodes[x], i>> \in Firsts(free, R, k) <=> Cardinality({q \in free : <<q, <<nodes[x], i>>>> \in R}) < k)
    BY DEF Firsts
  <2>3. Spread(k) \subseteq free /\ Firsts(free, R, k) \subseteq free
    BY DEF Spread, Firsts
  <2>4. \A p \in free : p \in Spread(k) <=> p \in Firsts(free, R, k)
    BY <1>2, <1>8, <2>1, <2>2
  <2> QED
    BY <2>3, <2>4
<1> QED
  BY <1>7, <1>9

\* What a job is granted, if anything: as many as it asked for, on one node if
\* one could serve it, side by side if it asked for that and a run was there.
LEMMA GrantSuits ==
    ASSUME ManagerAssumption, TypeOK, NodesApart, NEW k \in Nat, NEW contiguous \in BOOLEAN,
           Grant(k, contiguous) # {}
    PROVE  Suits(k, contiguous, Grant(k, contiguous))
<1> DEFINE g == Grant(k, contiguous)
<1>1. /\ nodes \in Seq(Node) /\ DOMAIN nodes = 1 .. Len(nodes) /\ Len(nodes) \in Nat
      /\ DOMAIN nodes \subseteq Nat /\ Roomy(k) \subseteq DOMAIN nodes
  BY DEF TypeOK, Roomy
<1>2. k # 0 /\ k <= Cardinality(free) /\ Cardinality(free) \in Nat
  <2>1. Cardinality(free) \in Nat
    BY FreeIsFinite, FS_CardinalityType
  <2>2. ~(k = 0 \/ k > Cardinality(AllGPUs) \/ k > Cardinality(free))
    BY DEF Grant
  <2> QED
    BY <2>1, <2>2
<1>3. CASE Roomy(k) = {}
  <2>1. ~contiguous /\ g = Spread(k)
    BY <1>3 DEF Grant
  <2>2. Cardinality(g) = k
    BY <1>2, <2>1, SpreadAreK
  <2>3. ~\E n \in Known : Cardinality(FreeOn(n)) >= k
    BY <1>3 DEF Roomy, Known
  <2> QED
    BY <2>1, <2>2, <2>3 DEF Suits
<1>4. CASE Roomy(k) # {}
  <2>1. Roomy(k) \in SUBSET Nat
    BY <1>1
  <2>2. PICK x \in Roomy(k) : \A y \in Roomy(k) : x <= y
    BY <1>4, <2>1, LeastMember
  <2> DEFINE n == nodes[x]
             S == IF contiguous THEN AdjacentOn(n, k) ELSE Least(FreeOn(n), k)
  <2>3. n \in Known /\ n \in Node /\ Cardinality(FreeOn(n)) >= k
    BY <1>1, <2>2 DEF Roomy, Known
  <2>4. \A z \in Roomy(k) : (\A y \in Roomy(k) : z <= y) => z = x
    BY <2>1, <2>2
  <2>5. Width[n] \in Nat /\ FreeOn(n) \in SUBSET (0 .. Width[n] - 1) /\ Cardinality(FreeOn(n)) \in Nat
    <3>1. Width[n] \in Nat /\ FreeOn(n) \in SUBSET (0 .. Width[n] - 1)
      BY <2>3 DEF ManagerAssumption, FreeOn
    <3>2. IsFiniteSet(0 .. Width[n] - 1)
      BY <3>1, NumbersBelow
    <3> QED
      BY <3>1, <3>2, FS_Subset, FS_CardinalityType
  <2>6. S \subseteq FreeOn(n) /\ IsFiniteSet(S) /\ Cardinality(S) = k
    <3>1. CASE contiguous
      <4>1. k \in Nat \ {0} /\ k <= Cardinality(FreeOn(n))
        BY <1>2, <2>3, <2>5
      <4> QED
        BY <3>1, <4>1, <2>3, AdjacentAreK
    <3>2. CASE ~contiguous
      <4>1. k \in 0 .. Cardinality(FreeOn(n))
        BY <2>3, <2>5
      <4> QED
        BY <3>2, <4>1, <2>5, LeastAreK, ZenonT(60)
    <3> QED
      BY <3>1, <3>2
  <2>7. g = {p \in free : p[1] = n /\ p[2] \in S}
    <3>1. g = {p \in free : \E y \in Roomy(k) :
                 /\ \A z \in Roomy(k) : y <= z
                 /\ p[1] = nodes[y]
                 /\ p[2] \in IF contiguous THEN AdjacentOn(nodes[y], k) ELSE Least(FreeOn(nodes[y]), k)}
      BY <1>4 DEF Grant
    <3> QED
      BY <2>2, <2>4, <3>1
  <2>8. g = {<<n, i>> : i \in S}
    <3>1. \A p \in free : \E m \in Node : \E i \in 0 .. Width[m] - 1 : p = <<m, i>>
      BY <1>1 DEF TypeOK, AllGPUs, Known, GPUsOf
    <3>2. \A i \in S : <<n, i>> \in free
      BY <2>6 DEF FreeOn
    <3> HIDE DEF S, n, g
    <3> QED
      BY <2>7, <3>1, <3>2
  <2>9. Cardinality(g) = k
    <3> HIDE DEF S, n, g
    <3> QED
      BY <2>6, <2>8, AsManyAsIds, ZenonT(60)
  <2>10. g \subseteq GPUsOf(n)
    BY <2>5, <2>6, <2>8 DEF GPUsOf
  <2>11. contiguous /\ Runs(n, k) # {} =>
           \E b \in 0 .. Width[n] : g = {<<n, i>> : i \in b .. b + k - 1}
    <3> SUFFICES ASSUME contiguous, Runs(n, k) # {}
                 PROVE  \E b \in 0 .. Width[n] : g = {<<n, i>> : i \in b .. b + k - 1}
      OBVIOUS
    <3>1. k \in Nat \ {0} /\ k <= Cardinality(FreeOn(n))
      BY <1>2, <2>3, <2>5
    <3>2. S = AdjacentOn(n, k)
      OBVIOUS
    <3>3. \E b \in 0 .. Width[n] : S = b .. b + k - 1
      BY <2>3, <3>1, <3>2, AdjacentAreK
    <3> HIDE DEF S, n, g
    <3> QED
      BY <2>8, <3>3
  <2> HIDE DEF S, n, g
  <2>12. contiguous => \E m \in Known :
            /\ g \subseteq GPUsOf(m)
            /\ Runs(m, k) # {} => \E b \in 0 .. Width[m] : g = {<<m, i>> : i \in b .. b + k - 1}
    BY <2>3, <2>10, <2>11
  <2> QED
    BY <2>3, <2>9, <2>10, <2>12 DEF g, Suits
<1> QED
  BY <1>3, <1>4

\* Only add_node() touches the list of nodes, and a known host keeps its place.
LEMMA NodesStayApart == OwnersInv /\ NodesApart /\ [Next]_vars => NodesApart'
<1> SUFFICES ASSUME OwnersInv, NodesApart, [Next]_vars PROVE NodesApart'
  OBVIOUS
<1>1. ASSUME NEW n \in Node, AddNode(n) PROVE NodesApart'
  <2>k. CASE n \in Known
    BY <1>1, <2>k DEF AddNode, NodesApart
  <2>n. CASE n \notin Known
    <3>1. nodes \in Seq(Node) /\ Len(nodes) \in Nat /\ DOMAIN nodes = 1 .. Len(nodes)
      BY DEF OwnersInv, TypeOK
    <3>2. nodes' = Append(nodes, n) /\ \A x \in DOMAIN nodes : nodes[x] # n
      BY <1>1, <2>n DEF AddNode, Known
    <3>3. DOMAIN nodes' = 1 .. Len(nodes) + 1 /\ nodes'[Len(nodes) + 1] = n
      BY <3>1, <3>2
    <3>4. \A x \in 1 .. Len(nodes) : nodes'[x] = nodes[x]
      BY <3>1, <3>2
    <3> QED
      BY <3>1, <3>2, <3>3, <3>4 DEF NodesApart
  <2> QED
    BY <2>k, <2>n
<1>2. ASSUME NEW j \in Job, Step(j) PROVE NodesApart'
  BY <1>2 DEF Step, BeginWait, Look, Allocate, Sleep, Release, NodesApart
<1>3. CASE UNCHANGED vars
  BY <1>3 DEF vars, NodesApart
<1> QED
  BY <1>1, <1>2, <1>3 DEF Next

\* The step in which a job comes to its GPUs is its allocation.
LEMMA GrantsSuit == ManagerAssumption /\ OwnersInv /\ NodesApart /\ [Next]_vars => Suited
<1> SUFFICES ASSUME ManagerAssumption, TypeOK, NodesApart, [Next]_vars,
                    NEW j \in Job, phase[j] = "allocating", phase'[j] = "granted"
             PROVE  Suits(Need[j], Contiguous[j], held'[j])
  BY DEF OwnersInv, Suited
<1>1. phase \in [Job -> Phase] /\ held \in [Job -> SUBSET AllGPUs]
  BY DEF TypeOK
<1>2. Allocate(j)
  <2>1. \A n \in Node : ~AddNode(n)
    BY DEF AddNode
  <2>2. ~UNCHANGED vars
    BY DEF vars
  <2>3. PICK h \in Job : Step(h)
    BY <2>1, <2>2 DEF Next
  <2>4. h = j
    BY <1>1, <2>3 DEF Step, BeginWait, Look, Allocate, Sleep, Release
  <2> QED
    BY <1>1, <2>3, <2>4 DEF Step, BeginWait, Look, Sleep, Release
<1>3. Need[j] \in Nat /\ Contiguous[j] \in BOOLEAN
  BY DEF ManagerAssumption
<1>4. Grant(Need[j], Contiguous[j]) # {} /\ held'[j] = Grant(Need[j], Contiguous[j])
  BY <1>1, <1>2 DEF Allocate
<1> QED
  BY <1>3, <1>4, GrantSuits

-----------------------------------------------------------------------------
(* A sweep of managed servers (ServerSweep).                               *)

SweepFields == {"flavor", "auto", "pc", "todo", "ran", "key", "server", "handle", "streamer",
                "logs", "holding", "ticks", "raised", "stuck", "unremoved"}

\* A subprocess that runs has a handle, and no process copies its log: the two
\* calls of stop() after a failed start rest on it.  Only a container's log is
\* copied.
SweepInv ==
    /\ DOMAIN sweep = SweepFields
    /\ sweep.flavor \in {"vajra", "docker"}
    /\ sweep.pc = "stream" => sweep.flavor = "docker"
    /\ sweep.flavor = "vajra" /\ ~sweep.stuck =>
          ~sweep.streamer /\ (sweep.server \in Sweep!Running => sweep.handle)
    /\ Sweep!NothingLeftBehind

LEMMA SweepInitially == Sweep!Init => SweepInv
  BY DEF Sweep!Init, Sweep!Idle, SweepInv, SweepFields, Sweep!NothingLeftBehind, Sweep!Running

LEMMA SweepInductive == SweepInv /\ [Sweep!Next]_sweep => SweepInv'
<1> SUFFICES ASSUME SweepInv, [Sweep!Next]_sweep PROVE SweepInv'
  OBVIOUS
<1> USE DEF SweepInv, SweepFields, Sweep!NothingLeftBehind, Sweep!Running, Sweep!Goto, Sweep!Fail
<1>1. CASE Sweep!NextGroup
  BY <1>1 DEF Sweep!NextGroup
<1>2. CASE Sweep!Summarise
  BY <1>2 DEF Sweep!Summarise
<1>3. CASE Sweep!EnsureGpuAllocation
  <2>1. CASE sweep' = [sweep EXCEPT !.pc = "spawn"]
    BY <1>3, <2>1 DEF Sweep!EnsureGpuAllocation
  <2>2. CASE sweep' = [sweep EXCEPT !.pc = "spawn", !.holding = TRUE]
    BY <1>3, <2>2 DEF Sweep!EnsureGpuAllocation
  <2>3. CASE sweep' = [sweep EXCEPT !.pc = "finally", !.raised = TRUE]
    BY <1>3, <2>3, SMTT(40) DEF Sweep!EnsureGpuAllocation
  <2> QED
    BY <1>3, <2>1, <2>2, <2>3 DEF Sweep!EnsureGpuAllocation
<1>4. CASE Sweep!SpawnProcess
  <2>1. sweep.pc = "spawn" /\ sweep.flavor = "vajra"
    BY <1>4 DEF Sweep!SpawnProcess
  <2>2. CASE sweep' = [sweep EXCEPT !.pc = "wait", !.logs = TRUE, !.handle = TRUE, !.server = "booting"]
    BY <2>1, <2>2
  <2>3. ASSUME NEW opened \in BOOLEAN, sweep' = [Sweep!Fail EXCEPT !.logs = opened] PROVE SweepInv'
    BY <2>1, <2>3
  <2> QED
    BY <1>4, <2>2, <2>3, ZenonT(60) DEF Sweep!SpawnProcess
<1>5. CASE Sweep!SpawnContainer
  <2>1. sweep.pc = "spawn" /\ sweep.flavor = "docker"
    BY <1>5 DEF Sweep!SpawnContainer
  <2>2. CASE sweep' = [sweep EXCEPT !.pc = "stream", !.handle = TRUE, !.server = "booting"]
    BY <2>1, <2>2
  <2>3. ASSUME NEW left \in {"none", "made"}, sweep' = [Sweep!Fail EXCEPT !.server = left]
        PROVE  SweepInv'
    BY <2>1, <2>3, SMTT(40)
  <2> QED
    BY <1>5, <2>2, <2>3 DEF Sweep!SpawnContainer
<1>6. CASE Sweep!StartLogStreamer
  <2>1. sweep.pc = "stream" /\ sweep.flavor = "docker"
    BY <1>6 DEF Sweep!StartLogStreamer
  <2>2. CASE sweep' = [sweep EXCEPT !.pc = "wait", !.logs = TRUE, !.streamer = TRUE]
    BY <2>1, <2>2
  <2>3. ASSUME NEW opened \in BOOLEAN, sweep' = [Sweep!Fail EXCEPT !.logs = opened] PROVE SweepInv'
    BY <2>1, <2>3
  <2> QED
    BY <1>6, <2>2, <2>3, ZenonT(60) DEF Sweep!StartLogStreamer
<1>7. CASE Sweep!WaitForReady
  BY <1>7 DEF Sweep!WaitForReady
<1>8. CASE Sweep!RunBenchmark
  <2>1. CASE sweep' = [sweep EXCEPT !.pc = "finally", !.raised = TRUE]
    BY <1>8, <2>1 DEF Sweep!RunBenchmark
  <2>2. CASE sweep' = [sweep EXCEPT !.ran = Append(@, <<Head(Head(sweep.todo)), sweep.key>>),
                                    !.todo[1] = Tail(@)]
    BY <1>8, <2>2 DEF Sweep!RunBenchmark
  <2> QED
    BY <1>8, <2>1, <2>2 DEF Sweep!RunBenchmark
<1>9. CASE Sweep!GroupDone
  BY <1>9 DEF Sweep!GroupDone
<1>10. CASE Sweep!StopProcess
  <2>1. sweep.pc \in {"cleanup", "finally"} /\ sweep.flavor = "vajra"
    BY <1>10 DEF Sweep!StopProcess
  <2>2. PICK obeyed \in BOOLEAN :
          /\ ~obeyed => sweep.handle /\ sweep.server \in Sweep!Running
          /\ sweep' = Sweep!Released(Sweep!LogsClosed(
               [sweep EXCEPT !.pc = Sweep!After, !.handle = FALSE,
                             !.server = IF sweep.handle /\ obeyed THEN "dead" ELSE @,
                             !.raised = @ \/ ~obeyed, !.stuck = @ \/ ~obeyed]))
    BY <1>10 DEF Sweep!StopProcess, Sweep!Terminated
  <2>3. /\ DOMAIN sweep' = SweepFields /\ sweep'.flavor = "vajra"
        /\ sweep'.handle = FALSE /\ sweep'.logs = FALSE /\ sweep'.holding = FALSE
        /\ sweep'.server = (IF sweep.handle /\ obeyed THEN "dead" ELSE sweep.server)
        /\ sweep'.pc = Sweep!After /\ UNCHANGED sweep.streamer
        /\ sweep'.stuck = (sweep.stuck \/ ~obeyed)
    BY <2>1, <2>2 DEF Sweep!Released, Sweep!LogsClosed
  <2>4. sweep'.pc \in {"finally", "left"}
    BY <2>3 DEF Sweep!After
  <2>5. ~sweep'.stuck => ~sweep.stuck /\ obeyed
    BY <2>3
  <2>6. ~sweep'.stuck => ~sweep'.streamer /\ sweep'.server \notin Sweep!Running
    BY <2>1, <2>3, <2>5
  <2> QED
    BY ONLY <2>3, <2>4, <2>6 DEF SweepInv, Sweep!NothingLeftBehind
<1>11. CASE Sweep!StopContainer
  BY <1>11 DEF Sweep!StopContainer, Sweep!Released, Sweep!StreamerStopped, Sweep!LogsClosed,
               Sweep!After, Sweep!Terminated, Sweep!IsAlive
<1>12. CASE Sweep!Leave
  BY <1>12 DEF Sweep!Leave
<1>13. CASE Sweep!ServerReady \/ Sweep!ServerDies
  BY <1>13 DEF Sweep!ServerReady, Sweep!ServerDies
<1>14. CASE UNCHANGED sweep
  BY <1>14
<1> QED
  BY <1>1, <1>2, <1>3, <1>4, <1>5, <1>6, <1>7, <1>8, <1>9, <1>10, <1>11, <1>12, <1>13, <1>14
     DEF Sweep!Next, Sweep!MainThread

-----------------------------------------------------------------------------
(* A speech-to-text request (SttStream).                                   *)

SttFields == {"provider", "chunks", "pc", "sender", "sends", "link", "inbox", "emitted", "started",
              "ended", "now", "ttfc", "visible", "partial", "final", "deltas", "committed",
              "provisional", "provisionalIsDelta", "finalText", "count", "error", "dispatched", "sent"}

TextKinds == {"delta", "snapshot", "partial_delta", "final_delta", "commit"}
SttEvents == [kind : TextKinds \cup {"done", "error"}, text : Stt!Piece]

\* An open session was dispatched; none is sent that was not.
Called(r) ==
    /\ DOMAIN r = SttFields
    /\ r.sent \in {0, 1} /\ r.dispatched \in {0, 1}
    /\ r.pc = "begin" => r.sent = 0
    /\ r.pc # "begin" => r.dispatched = 1
    /\ r.pc = "returned" => r.sent = 1

\* Only events that the providers have are on their way.
Expected(r) == r.provider \in Stt!Provider /\ r.inbox \in Seq(SttEvents)

SttInv == Called(stt) /\ Expected(stt)

LEMMA SttInitially == Stt!Init => SttInv
<1> SUFFICES ASSUME Stt!Init PROVE SttInv
  OBVIOUS
<1>1. Called(stt)
  BY DEF Stt!Init, Called, SttFields
<1>2. Expected(stt)
  BY DEF Stt!Init, Expected
<1> QED
  BY <1>1, <1>2 DEF SttInv

\* What the receiver does with an event changes the callbacks only to call.
Quietly(r, f) == Called(f) /\ f.pc = r.pc /\ f.provider = r.provider /\ f.inbox = r.inbox

LEMMA OnTextCalls ==
    ASSUME NEW r, NEW e, Called(r), r.pc = "recv", e.kind \in TextKinds
    PROVE  LET o == Stt!OnText(r, e) IN
           Called(o) /\ o.pc \in {"recv", "closing"} /\ o.provider = r.provider /\ o.inbox = r.inbox
<1> DEFINE f == Stt!FirstContent(r, e.text)
           n == Stt!Noted(f, e)
           c == IF Stt!Clean(Stt!Text(e.text)) = <<>> THEN n ELSE [n EXCEPT !.count = @ + 1]
           v == Stt!FirstVisible(c)
           p == Stt!FirstPartial(v)
<1>1. Quietly(r, f)
  BY DEF Quietly, Called, SttFields, Stt!FirstContent, Stt!FireSent
<1>2. Stt!OnText(r, e) = IF Stt!Clean(Stt!Text(e.text)) # <<>> /\ ~r.started THEN Stt!Raise(r) ELSE p
  BY DEF Stt!OnText
<1> HIDE DEF f
<1>3. Quietly(r, n)
  BY <1>1 DEF TextKinds, Quietly, Called, SttFields, Stt!Noted
<1> HIDE DEF n
<1>4. Quietly(r, c)
  BY <1>3 DEF Quietly, Called, SttFields
<1> HIDE DEF c
<1>5. Quietly(r, v)
  BY <1>4 DEF Quietly, Called, SttFields, Stt!FirstVisible
<1> HIDE DEF v
<1>6. Quietly(r, p)
  BY <1>5 DEF Quietly, Called, SttFields, Stt!FirstPartial
<1> HIDE DEF p
<1>7. Called(Stt!Raise(r)) /\ Stt!Raise(r).pc = "closing" /\ Stt!Raise(r).provider = r.provider
      /\ Stt!Raise(r).inbox = r.inbox
  BY DEF Called, SttFields, Stt!Raise
<1> QED
  BY <1>2, <1>6, <1>7 DEF Quietly

LEMMA OnDoneCalls ==
    ASSUME NEW r, NEW text, Called(r), r.pc \in {"recv", "lastSend"}
    PROVE  LET o == Stt!OnDone(r, text) IN
           Called(o) /\ o.pc = "closing" /\ o.provider = r.provider /\ o.inbox = r.inbox
<1> DEFINE f == IF text = "" THEN Stt!Clean(Stt!Assembled(r)) ELSE Stt!Clean(Stt!Text(text))
           d == [r EXCEPT !.pc = "closing", !.finalText = f, !.final = IF r.ended THEN r.now ELSE 0]
           g == [d EXCEPT !.ttfc = IF @ = 0 THEN r.now ELSE @, !.visible = IF @ = 0 THEN r.now ELSE @,
                          !.count = IF @ = 0 THEN 1 ELSE @]
<1>1. Stt!OnDone(r, text) = IF f = <<>> THEN d ELSE IF r.ttfc = 0 /\ ~r.started THEN Stt!Raise(r) ELSE Stt!FireSent(g)
  BY DEF Stt!OnDone
<1> HIDE DEF f
<1>2. Quietly([r EXCEPT !.pc = "closing"], d)
  BY DEF Quietly, Called, SttFields
<1>3. d.pc = "closing" /\ d.provider = r.provider /\ d.inbox = r.inbox
  BY DEF Called, SttFields
<1> HIDE DEF d
<1>4. Called(Stt!FireSent(g)) /\ Stt!FireSent(g).pc = "closing" /\ Stt!FireSent(g).provider = r.provider
      /\ Stt!FireSent(g).inbox = r.inbox
  BY <1>2, <1>3 DEF Quietly, Called, SttFields, Stt!FireSent
<1> HIDE DEF g
<1>5. Called(Stt!Raise(r)) /\ Stt!Raise(r).pc = "closing" /\ Stt!Raise(r).provider = r.provider
      /\ Stt!Raise(r).inbox = r.inbox
  BY DEF Called, SttFields, Stt!Raise
<1> QED
  BY <1>1, <1>2, <1>3, <1>4, <1>5 DEF Quietly

LEMMA SttReceives == SttInv /\ Stt!Receive => SttInv'
<1> SUFFICES ASSUME SttInv, Stt!Receive PROVE SttInv'
  OBVIOUS
<1> DEFINE e == Head(stt.inbox)
           r == [stt EXCEPT !.inbox = Tail(@), !.now = @ + 1]
<1>1. /\ stt.pc = "recv" /\ stt.inbox # <<>>
      /\ stt' = CASE e.kind = "error" -> Stt!Raise(r)
                  [] e.kind = "done" -> Stt!OnDone(r, e.text)
                  [] OTHER -> Stt!OnText(r, e)
  BY DEF Stt!Receive
<1>2. e \in SttEvents /\ Tail(stt.inbox) \in Seq(SttEvents)
  BY <1>1, HeadTailProperties DEF SttInv, Expected
<1>3. Called(r) /\ Expected(r) /\ r.pc = "recv"
  BY <1>1, <1>2 DEF SttInv, Called, Expected, SttFields
<1>4. e.kind \in TextKinds \cup {"done", "error"}
  BY <1>2 DEF SttEvents
<1> HIDE DEF e, r
<1> DEFINE Right(o) == Called(o) /\ o.provider = r.provider /\ o.inbox = r.inbox
<1>5. Right(Stt!Raise(r))
  BY <1>3 DEF Called, SttFields, Stt!Raise
<1>6. Right(Stt!OnDone(r, e.text))
  BY <1>3, OnDoneCalls
<1>7. e.kind \in TextKinds => Right(Stt!OnText(r, e))
  BY <1>3, OnTextCalls
<1>8. Right(stt')
  BY <1>1, <1>4, <1>5, <1>6, <1>7
<1> QED
  BY <1>3, <1>8 DEF SttInv, Expected

LEMMA SttInductive == SttInv /\ [Stt!Next]_stt => SttInv'
<1> SUFFICES ASSUME SttInv, [Stt!Next]_stt PROVE SttInv'
  OBVIOUS
<1> USE DEF SttInv, Called, SttFields, Expected, Stt!Return, Stt!Raise, Stt!FireSent, Stt!FireDispatched
<1>1. CASE Stt!RejectRequest
  BY <1>1 DEF Stt!RejectRequest
<1>2. CASE Stt!OpenSession
  <2>1. CASE stt' = Stt!Return([stt EXCEPT !.error = TRUE])
    BY <2>1
  <2>2. CASE stt' = Stt!FireDispatched([stt EXCEPT !.pc = "recv", !.sender = "ready"])
    BY <2>2
  <2> QED
    BY <1>2, <2>1, <2>2 DEF Stt!OpenSession
<1>3. CASE Stt!Send
  <2>1. CASE Stt!SendNext
    BY <2>1 DEF Stt!SendNext
  <2>2. CASE Stt!SendReturns
    BY <2>2 DEF Stt!SendReturns
  <2>3. CASE Stt!SendEnds
    BY <2>3 DEF Stt!SendEnds
  <2> QED
    BY <1>3, <2>1, <2>2, <2>3 DEF Stt!Send
<1>4. CASE Stt!Receive
  BY <1>4, SttReceives
<1>5. CASE Stt!ReceiveClose
  BY <1>5 DEF Stt!ReceiveClose
<1>6. CASE Stt!AwaitSender
  <2>1. stt.pc = "lastSend" /\ stt' = IF stt.sender = "failed" THEN Stt!Raise(stt) ELSE Stt!OnDone([stt EXCEPT !.now = @ + 1], "")
    BY <1>6 DEF Stt!AwaitSender
  <2> DEFINE r == [stt EXCEPT !.now = @ + 1]
  <2>2. Called(r) /\ r.pc = "lastSend" /\ r.provider = stt.provider /\ r.inbox = stt.inbox
    BY <2>1
  <2> HIDE DEF r
  <2>3. LET o == Stt!OnDone(r, "") IN Called(o) /\ o.provider = r.provider /\ o.inbox = r.inbox
    <3>1. r.pc \in {"recv", "lastSend"}
      BY <2>2
    <3> HIDE DEF Called
    <3> QED
      BY <2>2, <3>1, OnDoneCalls, ZenonT(60)
  <2>4. CASE stt.sender = "failed"
    BY <2>1, <2>4
  <2>5. CASE stt.sender # "failed"
    BY <2>1, <2>2, <2>3, <2>5 DEF r
  <2> QED
    BY <2>4, <2>5
<1>7. CASE Stt!TimeOut
  BY <1>7 DEF Stt!TimeOut
<1>8. CASE Stt!CloseStream
  BY <1>8 DEF Stt!CloseStream
<1>9. CASE Stt!Emit
  <2>1. PICK k \in stt.provider.kinds : \E t \in Stt!Carries(k) :
           stt' = [stt EXCEPT !.inbox = Append(@, [kind |-> k, text |-> t]), !.emitted = @ + 1]
    BY <1>9 DEF Stt!Emit
  <2>2. PICK t \in Stt!Carries(k) :
           stt' = [stt EXCEPT !.inbox = Append(@, [kind |-> k, text |-> t]), !.emitted = @ + 1]
    BY <2>1
  <2>3. k \in TextKinds \cup {"done", "error"}
    BY DEF TextKinds, Stt!Provider, Stt!VllmRealtime, Stt!VajraOpenAIRealtime, Stt!Together, Stt!DeepgramNova,
           Stt!DeepgramFlux, Stt!ElevenLabs, Stt!Mistral, Stt!Cartesia
  <2>4. t \in Stt!Piece
    BY DEF Stt!Carries, Stt!Piece
  <2>5. [kind |-> k, text |-> t] \in SttEvents
    BY <2>3, <2>4 DEF SttEvents
  <2> QED
    BY <2>2, <2>5
<1>10. CASE Stt!CloseLink
  BY <1>10 DEF Stt!CloseLink
<1>11. CASE UNCHANGED stt
  BY <1>11
<1> QED
  BY <1>1, <1>2, <1>3, <1>4, <1>5, <1>6, <1>7, <1>8, <1>9, <1>10, <1>11 DEF Stt!Next, Stt!Client

LEMMA SttCalls == SttInv => Stt!SttCallbacks
  BY DEF SttInv, Called, Stt!SttCallbacks

\* Clean() is a fold of the pieces of a text.
Put(text, p) ==
    IF p = "half2" /\ text # <<>> /\ Stt!Last(text) = "half1" THEN Stt!Front(text) ELSE Append(text, p)

IsFold(f, t) ==
    f = [s \in SUBSET DOMAIN t |->
            IF s = {} THEN <<>> ELSE LET x == Stt!Max(s) IN Put(f[s \ {x}], t[x])]

LEMMA CleanIsFold == ASSUME NEW t PROVE Stt!Clean(t) = (CHOOSE f : IsFold(f, t))[DOMAIN t]
  BY Zenon DEF Stt!Clean, Stt!FoldLeft, Stt!MapThenFoldSet, IsFold, Put

\* Of nothing nothing is left.
LEMMA CleanNothing == Stt!Clean(<<>>) = <<>>
<1> DEFINE f == [s \in SUBSET DOMAIN <<>> |-> <<>>]
<1>1. DOMAIN <<>> = {}
  OBVIOUS
<1>2. IsFold(f, <<>>)
  BY <1>1 DEF IsFold
<1>3. IsFold(CHOOSE g : IsFold(g, <<>>), <<>>)
  BY <1>2, Zenon
<1> QED
  BY <1>1, <1>3, CleanIsFold DEF IsFold

\* And a piece by itself stays, half a control token too.
LEMMA CleanOne == ASSUME NEW p PROVE Stt!Clean(<<p>>) = <<p>>
<1> DEFINE f == [s \in SUBSET DOMAIN <<p>> |-> IF s = {} THEN <<>> ELSE <<p>>]
<1>1. DOMAIN <<p>> = {1} /\ <<p>>[1] = p
  OBVIOUS
<1>2. \A s \in SUBSET {1} : s = {} \/ s = {1}
  OBVIOUS
<1>3. {1} \ {1} = {} /\ {} \in SUBSET {1} /\ {1} \in SUBSET {1} /\ {1} # {}
  OBVIOUS
<1>4. Put(<<>>, p) = <<p>>
  <2>1. Append(<<>>, p) = <<p>>
    OBVIOUS
  <2> QED
    BY <2>1 DEF Put
<1>5. Stt!Max({1}) = 1
  BY DEF Stt!Max
<1>6. f[{}] = <<>> /\ f[{1}] = <<p>>
  BY <1>1, <1>3
<1>7. IsFold(f, <<p>>)
  <2>1. ASSUME NEW s \in SUBSET DOMAIN <<p>>
        PROVE  f[s] = IF s = {} THEN <<>> ELSE LET x == Stt!Max(s) IN Put(f[s \ {x}], <<p>>[x])
    <3>1. CASE s = {}
      BY <3>1
    <3>2. CASE s = {1}
      <4> HIDE DEF f
      <4> QED
        BY <1>1, <1>3, <1>4, <1>5, <1>6, <3>2
    <3> QED
      BY <1>1, <1>2, <2>1, <3>1, <3>2
  <2>2. f = [s \in SUBSET DOMAIN <<p>> |-> f[s]]
    OBVIOUS
  <2> HIDE DEF f
  <2> QED
    BY <2>1, <2>2, Zenon DEF IsFold
<1>8. ASSUME NEW g, IsFold(g, <<p>>) PROVE g[DOMAIN <<p>>] = <<p>>
  <2>1. \A s \in SUBSET {1} :
          g[s] = IF s = {} THEN <<>> ELSE LET x == Stt!Max(s) IN Put(g[s \ {x}], <<p>>[x])
    BY <1>1, <1>8, Zenon DEF IsFold
  <2>2. g[{}] = <<>>
    BY <2>1
  <2>3. g[{1}] = Put(g[{1} \ {1}], <<p>>[1])
    BY <1>3, <1>5, <2>1, Zenon
  <2> QED
    BY <1>1, <1>3, <1>4, <2>2, <2>3
<1>9. IsFold(CHOOSE g : IsFold(g, <<p>>), <<p>>)
  BY <1>7, Zenon
<1> QED
  BY <1>8, <1>9, CleanIsFold

\* What the texts and the times of a request have to do with each other: while
\* there was no text, nothing is assembled.
TextTimed(r) ==
    /\ r.now \in Nat /\ r.visible \in Nat /\ r.partial \in Nat
    /\ r.ttfc = r.visible /\ r.visible <= r.now
    /\ r.ttfc = 0 => /\ r.deltas = <<>> /\ r.committed = <<>> /\ r.provisional = <<>>
                     /\ r.finalText = <<>>
    /\ r.partial # 0 => r.ended /\ r.visible # 0 /\ r.visible <= r.partial

LEMMA NothingIsAssembled ==
    ASSUME NEW r, r.deltas = <<>>, r.committed = <<>>, r.provisional = <<>>
    PROVE  Stt!Assembled(r) = <<>>
<1>1. <<>> \o <<>> = <<>>
  OBVIOUS
<1> QED
  BY <1>1, CleanNothing DEF Stt!Assembled

LEMMA OnTextTimes ==
    ASSUME NEW r, DOMAIN r = SttFields, TextTimed(r), r.now # 0,
           NEW e, e.kind \in TextKinds
    PROVE  TextTimed(Stt!OnText(r, e))
<1> DEFINE f == Stt!FirstContent(r, e.text)
           n == Stt!Noted(f, e)
           c == IF Stt!Clean(Stt!Text(e.text)) = <<>> THEN n ELSE [n EXCEPT !.count = @ + 1]
           v == Stt!FirstVisible(c)
           p == Stt!FirstPartial(v)
           Same(a, b) == /\ DOMAIN b = SttFields
                         /\ b.now = a.now /\ b.partial = a.partial /\ b.ended = a.ended
                         /\ b.finalText = a.finalText
<1>1. Stt!OnText(r, e) = IF Stt!Clean(Stt!Text(e.text)) # <<>> /\ ~r.started THEN Stt!Raise(r) ELSE p
  BY DEF Stt!OnText
<1>2. TextTimed(Stt!Raise(r))
  BY DEF Stt!Raise, TextTimed, SttFields
<1>3. Stt!Clean(Stt!Text(e.text)) = Stt!Text(e.text)
  BY CleanNothing, CleanOne DEF Stt!Text
<1>4. /\ Same(r, f) /\ f.visible = r.visible
      /\ f.ttfc = IF r.ttfc = 0 /\ Stt!Text(e.text) # <<>> THEN r.now ELSE r.ttfc
      /\ f.deltas = r.deltas /\ f.committed = r.committed /\ f.provisional = r.provisional
  BY <1>3 DEF Stt!FirstContent, Stt!FireSent, SttFields
<1> HIDE DEF f
<1>5. Same(r, n) /\ n.visible = r.visible /\ n.ttfc = f.ttfc
  BY <1>4 DEF Stt!Noted, TextKinds, SttFields
<1>6. Same(r, c) /\ c.visible = r.visible /\ c.ttfc = f.ttfc /\ Stt!Assembled(c) = Stt!Assembled(n)
  BY <1>5 DEF Stt!Assembled, SttFields
<1>7. ASSUME r.ttfc = 0, Stt!Text(e.text) = <<>>
      PROVE  n.deltas = <<>> /\ n.committed = <<>> /\ n.provisional = <<>>
  <2>1. f.deltas = <<>> /\ f.committed = <<>> /\ f.provisional = <<>>
    BY <1>4, <1>7 DEF TextTimed
  <2>2. <<>> \o <<>> = <<>> /\ Stt!Clean(<<>>) = <<>>
    BY CleanNothing
  <2> QED
    BY <1>4, <1>7, <2>1, <2>2 DEF Stt!Noted, TextKinds, SttFields
<1>8. ASSUME r.ttfc = 0, Stt!Text(e.text) # <<>>
      PROVE  Stt!Assembled(n) # <<>>
  <2>1. f.deltas = <<>> /\ f.committed = <<>> /\ f.provisional = <<>>
    BY <1>4, <1>8 DEF TextTimed
  <2> DEFINE one == <<e.text>>
  <2>2. Stt!Text(e.text) = one
    BY <1>8 DEF Stt!Text
  <2>3. /\ <<>> \o <<>> = <<>> /\ Stt!Clean(<<>>) = <<>>
        /\ <<>> \o one = one /\ one \o <<>> = one /\ Stt!Clean(one) = one /\ one # <<>>
    BY CleanNothing, CleanOne
  <2> HIDE DEF one
  <2>4. CASE e.kind = "delta"
    <3>1. n.deltas = one /\ n.committed = <<>> /\ n.provisional = <<>>
      BY <1>4, <2>1, <2>2, <2>3, <2>4 DEF Stt!Noted, SttFields
    <3> QED
      BY <2>3, <3>1 DEF Stt!Assembled
  <2>5. CASE e.kind = "snapshot"
    <3>1. n.deltas = <<>> /\ n.committed = <<>> /\ n.provisional = one /\ n.provisionalIsDelta = FALSE
      BY <1>4, <2>1, <2>2, <2>3, <2>5 DEF Stt!Noted, SttFields
    <3> QED
      BY <2>3, <3>1 DEF Stt!Assembled
  <2>6. CASE e.kind = "partial_delta"
    <3>1. n.deltas = <<>> /\ n.committed = <<>> /\ n.provisional = one /\ n.provisionalIsDelta = TRUE
      BY <1>4, <2>1, <2>2, <2>3, <2>6 DEF Stt!Noted, SttFields
    <3> QED
      BY <2>3, <3>1 DEF Stt!Assembled
  <2>7. CASE e.kind = "final_delta"
    <3>1. n.deltas = one /\ n.committed = <<>> /\ n.provisional = <<>>
      BY <1>4, <2>1, <2>2, <2>3, <2>7 DEF Stt!Noted, SttFields
    <3> QED
      BY <2>3, <3>1 DEF Stt!Assembled
  <2>8. CASE e.kind = "commit"
    <3>1. n.deltas = <<>> /\ n.committed = one /\ n.provisional = <<>>
      BY <1>4, <2>1, <2>2, <2>3, <2>8 DEF Stt!Noted, SttFields
    <3> QED
      BY <2>3, <3>1 DEF Stt!Assembled
  <2> QED
    BY <2>4, <2>5, <2>6, <2>7, <2>8 DEF TextKinds
<1>9. /\ c.deltas = n.deltas /\ c.committed = n.committed /\ c.provisional = n.provisional
  BY <1>5 DEF SttFields
<1> HIDE DEF n, c
<1>10. /\ Same(r, v) /\ v.ttfc = c.ttfc
       /\ v.visible = IF r.visible = 0 /\ Stt!Assembled(n) # <<>> THEN r.now ELSE r.visible
       /\ v.deltas = c.deltas /\ v.committed = c.committed /\ v.provisional = c.provisional
  BY <1>6 DEF Stt!FirstVisible, SttFields
<1>11. ASSUME r.ttfc = 0, Stt!Text(e.text) = <<>> PROVE Stt!Assembled(n) = <<>>
  BY <1>7, <1>11, NothingIsAssembled
<1>12. TextTimed(v)
  <2>1. CASE r.ttfc # 0
    BY <1>4, <1>6, <1>10, <2>1 DEF TextTimed
  <2>2. CASE r.ttfc = 0 /\ Stt!Text(e.text) = <<>>
    BY <1>4, <1>6, <1>7, <1>9, <1>10, <1>11, <2>2 DEF TextTimed
  <2>3. CASE r.ttfc = 0 /\ Stt!Text(e.text) # <<>>
    BY <1>4, <1>6, <1>8, <1>10, <2>3 DEF TextTimed
  <2> QED
    BY <2>1, <2>2, <2>3
<1>13. v.ttfc = 0 => Stt!Assembled(v) = <<>>
  BY <1>12, NothingIsAssembled DEF TextTimed
<1>14. DOMAIN v = SttFields
  BY <1>10
<1> HIDE DEF v
<1>15. TextTimed(p)
  BY <1>12, <1>13, <1>14 DEF Stt!FirstPartial, TextTimed, SttFields
<1> QED
  BY <1>1, <1>2, <1>15

LEMMA OnDoneTimes ==
    ASSUME NEW r, DOMAIN r = SttFields, TextTimed(r), r.now # 0, NEW text
    PROVE  TextTimed(Stt!OnDone(r, text))
<1> DEFINE f == IF text = "" THEN Stt!Clean(Stt!Assembled(r)) ELSE Stt!Clean(Stt!Text(text))
           d == [r EXCEPT !.pc = "closing", !.finalText = f, !.final = IF r.ended THEN r.now ELSE 0]
           g == [d EXCEPT !.ttfc = IF @ = 0 THEN r.now ELSE @, !.visible = IF @ = 0 THEN r.now ELSE @,
                          !.count = IF @ = 0 THEN 1 ELSE @]
<1>1. Stt!OnDone(r, text) = IF f = <<>> THEN d ELSE IF r.ttfc = 0 /\ ~r.started THEN Stt!Raise(r) ELSE Stt!FireSent(g)
  BY DEF Stt!OnDone
<1> HIDE DEF f
<1>2. f = <<>> => TextTimed(d)
  BY SMTT(40) DEF TextTimed, SttFields
<1>3. TextTimed(Stt!FireSent(g))
  BY DEF TextTimed, SttFields, Stt!FireSent
<1>4. TextTimed(Stt!Raise(r))
  BY DEF Stt!Raise, TextTimed, SttFields
<1> QED
  BY <1>1, <1>2, <1>3, <1>4

LEMMA TextInitially == Stt!Init => TextTimed(stt)
  BY DEF Stt!Init, TextTimed

LEMMA TextInductive == SttInv /\ TextTimed(stt) /\ [Stt!Next]_stt => TextTimed(stt)'
<1> SUFFICES ASSUME SttInv, TextTimed(stt), [Stt!Next]_stt PROVE TextTimed(stt')
  OBVIOUS
<1>0. DOMAIN stt = SttFields
  BY DEF SttInv, Called
<1>1. CASE Stt!RejectRequest
  BY <1>0, <1>1 DEF Stt!RejectRequest, Stt!Return, Stt!FireSent, Stt!FireDispatched, TextTimed, SttFields
<1>2. CASE Stt!OpenSession
  <2>1. CASE stt' = Stt!Return([stt EXCEPT !.error = TRUE])
    BY <1>0, <2>1 DEF Stt!Return, Stt!FireSent, Stt!FireDispatched, TextTimed, SttFields
  <2>2. CASE stt' = Stt!FireDispatched([stt EXCEPT !.pc = "recv", !.sender = "ready"])
    BY <1>0, <2>2 DEF Stt!FireDispatched, TextTimed, SttFields
  <2> QED
    BY <1>2, <2>1, <2>2 DEF Stt!OpenSession
<1>3. CASE Stt!SendNext
  BY <1>0, <1>3 DEF Stt!SendNext, TextTimed, SttFields
<1>4. CASE Stt!SendReturns \/ Stt!SendEnds
  <2>1. CASE Stt!SendReturns
    BY <1>0, <2>1 DEF Stt!SendReturns, TextTimed, SttFields
  <2>2. CASE Stt!SendEnds
    BY <1>0, <2>2 DEF Stt!SendEnds, TextTimed, SttFields
  <2> QED
    BY <1>4, <2>1, <2>2
<1>5. CASE Stt!Receive
  <2> DEFINE e == Head(stt.inbox)
             r == [stt EXCEPT !.inbox = Tail(@), !.now = @ + 1]
  <2>1. /\ stt.inbox # <<>>
        /\ stt' = CASE e.kind = "error" -> Stt!Raise(r)
                    [] e.kind = "done" -> Stt!OnDone(r, e.text)
                    [] OTHER -> Stt!OnText(r, e)
    BY <1>5 DEF Stt!Receive
  <2>2. e \in SttEvents
    BY <2>1, HeadTailProperties DEF SttInv, Expected
  <2>3. DOMAIN r = SttFields /\ TextTimed(r) /\ r.now # 0
    BY <1>0 DEF TextTimed, SttFields
  <2>4. e.kind \in TextKinds \cup {"done", "error"}
    BY <2>2 DEF SttEvents
  <2> HIDE DEF e, r
  <2>5. TextTimed(Stt!Raise(r))
    BY <2>3 DEF Stt!Raise, TextTimed, SttFields
  <2>6. TextTimed(Stt!OnDone(r, e.text))
    BY <2>3, OnDoneTimes
  <2>7. e.kind \in TextKinds => TextTimed(Stt!OnText(r, e))
    BY <2>3, OnTextTimes
  <2> QED
    BY <2>1, <2>4, <2>5, <2>6, <2>7
<1>6. CASE Stt!ReceiveClose
  BY <1>0, <1>6 DEF Stt!ReceiveClose, Stt!Raise, TextTimed, SttFields
<1>7. CASE Stt!AwaitSender
  <2> DEFINE r == [stt EXCEPT !.now = @ + 1]
  <2>1. stt' = IF stt.sender = "failed" THEN Stt!Raise(stt) ELSE Stt!OnDone(r, "")
    BY <1>7 DEF Stt!AwaitSender
  <2>2. DOMAIN r = SttFields /\ TextTimed(r) /\ r.now # 0
    BY <1>0 DEF TextTimed, SttFields
  <2> HIDE DEF r
  <2>3. TextTimed(Stt!Raise(stt))
    BY <1>0 DEF Stt!Raise, TextTimed, SttFields
  <2> QED
    BY <2>1, <2>2, <2>3, OnDoneTimes
<1>8. CASE Stt!TimeOut
  BY <1>0, <1>8 DEF Stt!TimeOut, Stt!Raise, TextTimed, SttFields
<1>9. CASE Stt!CloseStream
  <2>1. stt.ttfc = 0 => Stt!Assembled(stt) = <<>>
    BY NothingIsAssembled DEF TextTimed
  <2> QED
    BY <1>0, <1>9, <2>1 DEF Stt!CloseStream, Stt!Return, Stt!FireSent, Stt!FireDispatched, TextTimed,
       SttFields
<1>10. CASE Stt!Emit
  BY <1>0, <1>10 DEF Stt!Emit, TextTimed, SttFields
<1>11. CASE Stt!CloseLink
  BY <1>0, <1>11 DEF Stt!CloseLink, TextTimed, SttFields
<1>12. CASE UNCHANGED stt
  BY <1>12
<1> QED
  BY <1>1, <1>2, <1>3, <1>4, <1>5, <1>6, <1>7, <1>8, <1>9, <1>10, <1>11, <1>12
  DEF Stt!Next, Stt!Client, Stt!Send

LEMMA TextAgrees == TextTimed(stt) => Stt!FirstTextAgrees
  BY DEF TextTimed, Stt!FirstTextAgrees

-----------------------------------------------------------------------------
(* A streamed synthesis (TtsStream).                                       *)

TtsFields == {"provider", "duplex", "segments", "abort", "pc", "sender", "receiver", "watchdog",
              "sends", "triggered", "stamp", "heard", "whole", "link", "inbox", "emitted",
              "chunks", "ttfc", "ended", "leaves", "expired", "aborted", "error", "dispatched", "sent"}

TtsTyped ==
    /\ DOMAIN tts = TtsFields
    /\ tts.inbox \in Seq(Tts!Event)
    /\ tts.chunks \in Nat
    /\ tts.pc \in {"begin", "run", "returned"}

\* Audio comes only after a trigger that arrived, which is noted when its send
\* begins; so none is early.
TriggerNoted ==
    /\ \A i \in DOMAIN tts.inbox : tts.inbox[i] \in {"audio", "last"} => tts.heard
    /\ tts.heard => tts.stamp
    /\ Tts!NeverTooEarly

\* What is known before the result.
BeforeResult ==
    /\ tts.pc = "begin" => tts.dispatched = 0 /\ tts.leaves = {}
    /\ tts.pc = "run" => tts.dispatched = 1
    /\ tts.pc # "returned" => tts.aborted = FALSE

\* A task that has ended well has done its part; one that has not left an
\* exception, or was cancelled because of one.
TasksTell ==
    /\ tts.sender \in {"finish", "done"} => tts.whole
    /\ tts.receiver = "done" => tts.ended
    /\ tts.sender \in {"raised", "cancelled"} => tts.leaves # {}
    /\ tts.receiver \in {"raised", "cancelled"} => tts.leaves # {}
    /\ tts.watchdog \in {"raised", "cancelled"} => tts.leaves # {}

\* Nobody hangs up who was not asked to.
HangUpsAreMeant ==
    /\ "abort" \in tts.leaves => tts.abort.by # "none"
    /\ tts.watchdog = "live" => tts.abort.by = "clock"

TtsInv ==
    TtsTyped /\ TriggerNoted /\ BeforeResult /\ TasksTell /\ HangUpsAreMeant /\ Tts!OutcomeIsRight

LEMMA TtsInitially == Tts!Init => TtsInv
<1> SUFFICES ASSUME Tts!Init PROVE TtsInv
  OBVIOUS
<1>1. PICK p \in Tts!Provider, n \in 0 .. MaxSegments :
        \E d \in IF p.explicit THEN 0 .. MaxSegments ELSE {0}, a \in Tts!Aborts(n) :
          tts = [provider |-> p, duplex |-> d, segments |-> n, abort |-> a, pc |-> "begin",
                 sender |-> "ready", receiver |-> "live",
                 watchdog |-> IF a.by = "clock" THEN "live" ELSE "done",
                 sends |-> 0, triggered |-> FALSE, stamp |-> FALSE, heard |-> FALSE,
                 whole |-> FALSE, link |-> "open", inbox |-> <<>>, emitted |-> 0, chunks |-> 0,
                 ttfc |-> FALSE, ended |-> FALSE, leaves |-> {}, expired |-> "no", aborted |-> FALSE,
                 error |-> FALSE, dispatched |-> 0, sent |-> 0]
  BY DEF Tts!Init
<1>2. TtsTyped
  BY <1>1 DEF TtsTyped, TtsFields
<1>3. TriggerNoted /\ BeforeResult
  BY <1>1 DEF TriggerNoted, BeforeResult, Tts!NeverTooEarly
<1>4. TasksTell /\ HangUpsAreMeant /\ Tts!OutcomeIsRight
  BY <1>1 DEF TasksTell, HangUpsAreMeant, Tts!OutcomeIsRight
<1> QED
  BY <1>2, <1>3, <1>4 DEF TtsInv

\* The exception that becomes the outcome is one of those raised, a hang-up
\* before any other.
LEMMA FlattenTells ==
    ASSUME NEW leaves, leaves # {}
    PROVE  /\ Tts!Flatten(leaves) \in leaves
           /\ "abort" \in leaves => Tts!Flatten(leaves) = "abort"
<1>1. \E e \in leaves :
        /\ "abort" \in leaves => e = "abort"
        /\ leaves \cap {"server", "early"} # {} /\ "abort" \notin leaves => e \in {"server", "early"}
  OBVIOUS
<1> QED
  BY <1>1 DEF Tts!Flatten

\* An audio event after the trigger is noted is heard, and may end in a hang-up
\* that waits for audio.
LEMMA AudibleTells ==
    ASSUME NEW r, DOMAIN r = TtsFields, r.chunks \in Nat, r.stamp
    PROVE  LET a == Tts!Audible(r) IN
           /\ DOMAIN a = TtsFields /\ a.chunks \in Nat
           /\ \/ a.leaves = r.leaves /\ a.receiver = r.receiver
              \/ a.leaves = r.leaves \cup {"abort"} /\ a.receiver = "raised" /\ r.abort.by = "audio"
           /\ \A k \in TtsFields \ {"chunks", "ttfc", "receiver", "leaves", "sent"} : a[k] = r[k]
<1> DEFINE a == Tts!Audible(r)
           g == [r EXCEPT !.chunks = @ + 1, !.ttfc = TRUE]
           f == Tts!FireSent(g)
<1>1. /\ DOMAIN f = TtsFields /\ f.chunks = r.chunks + 1
      /\ f.leaves = r.leaves /\ f.receiver = r.receiver
      /\ \A k \in TtsFields \ {"chunks", "ttfc", "sent"} : f[k] = r[k]
  BY DEF TtsFields, Tts!FireSent
<1>2. a = IF r.abort.by = "audio" /\ g.chunks >= r.abort.after THEN Tts!Raises(f, "receiver", "abort") ELSE f
  BY DEF Tts!Audible
<1>3. f.chunks \in Nat
  BY <1>1
<1> HIDE DEF a, g, f
<1>4. CASE r.abort.by = "audio" /\ g.chunks >= r.abort.after
  <2>1. a = [f EXCEPT !["receiver"] = "raised", !.leaves = @ \cup {"abort"}]
    BY <1>2, <1>4 DEF Tts!Raises
  <2>2. /\ DOMAIN a = TtsFields /\ a.leaves = f.leaves \cup {"abort"} /\ a.receiver = "raised"
        /\ a.chunks = f.chunks
        /\ \A k \in TtsFields \ {"receiver", "leaves"} : a[k] = f[k]
    BY <1>1, <2>1 DEF TtsFields
  <2>3. DOMAIN a = TtsFields /\ a.chunks \in Nat /\ a.leaves = r.leaves \cup {"abort"} /\ a.receiver = "raised"
    BY <1>1, <1>3, <2>2
  <2>4. \A k \in TtsFields \ {"chunks", "ttfc", "receiver", "leaves", "sent"} : a[k] = r[k]
    BY <1>1, <2>2
  <2> QED
    BY <1>4, <2>3, <2>4 DEF a
<1>5. CASE ~(r.abort.by = "audio" /\ g.chunks >= r.abort.after)
  <2>1. a = f
    BY <1>2, <1>5
  <2>2. DOMAIN a = TtsFields /\ a.chunks \in Nat /\ a.leaves = r.leaves /\ a.receiver = r.receiver
    BY <1>1, <1>3, <2>1
  <2>3. \A k \in TtsFields \ {"chunks", "ttfc", "receiver", "leaves", "sent"} : a[k] = r[k]
    BY <1>1, <2>1
  <2> QED
    BY <2>2, <2>3 DEF a
<1> QED
  BY <1>4, <1>5

LEMMA TtsTypesStay ==
    TtsInv /\ [Tts!Next]_tts /\ ~Tts!Receive /\ ~Tts!Return => TtsTyped'
<1> SUFFICES ASSUME TtsInv, [Tts!Next]_tts, ~Tts!Receive, ~Tts!Return PROVE TtsTyped'
  OBVIOUS
<1> USE DEF TtsInv, TtsTyped, TtsFields, TtsTyped, Tts!Raises, Tts!FireSent, Tts!Await, Tts!Tasks
<1>1. CASE Tts!RejectRequest
  BY <1>1 DEF Tts!RejectRequest
<1>2. CASE Tts!ConnectFails
  BY <1>2 DEF Tts!ConnectFails
<1>3. CASE Tts!Connect
  BY <1>3 DEF Tts!Connect
<1>4. CASE Tts!SendText
  BY <1>4 DEF Tts!SendText, Tts!Sending
<1>5. CASE Tts!TextSent
  BY <1>5 DEF Tts!TextSent, Tts!NextSegment, Tts!HangUpDue, Tts!SendTrigger
<1>6. CASE Tts!TriggerSent
  BY <1>6 DEF Tts!TriggerSent, Tts!NextSegment, Tts!HangUpDue
<1>7. CASE Tts!CompleteInput
  BY <1>7 DEF Tts!CompleteInput, Tts!Sending, Tts!SendTrigger
<1>8. CASE Tts!FinishSent
  BY <1>8 DEF Tts!FinishSent
<1>9. CASE Tts!ReceiveClose
  BY <1>9 DEF Tts!ReceiveClose
<1>10. CASE Tts!Watch
  BY <1>10 DEF Tts!Watch
<1>11. CASE Tts!CancelOthers
  BY <1>11 DEF Tts!CancelOthers, Tts!Cancel, Tts!Over
<1>12. CASE Tts!TimeOut
  BY <1>12 DEF Tts!TimeOut, Tts!Cancel, Tts!Over
<1>13. CASE Tts!Emit
  BY <1>13 DEF Tts!Emit, Tts!Event
<1>14. CASE Tts!CloseLink
  BY <1>14 DEF Tts!CloseLink
<1>15. CASE UNCHANGED tts
  BY <1>15
<1>16. CASE Tts!CloseTimesOut
  BY <1>16 DEF Tts!CloseTimesOut, Tts!Closing, Tts!Over
<1> QED
  BY <1>1, <1>2, <1>3, <1>4, <1>5, <1>6, <1>7, <1>8, <1>9, <1>10, <1>11, <1>12, <1>13, <1>14, <1>15, <1>16
     DEF Tts!Next, Tts!Client, Tts!SendLoop

LEMMA TriggerStaysNoted ==
    TtsInv /\ [Tts!Next]_tts /\ ~Tts!Receive /\ ~Tts!Return => TriggerNoted'
<1> SUFFICES ASSUME TtsInv, [Tts!Next]_tts, ~Tts!Receive, ~Tts!Return PROVE TriggerNoted'
  OBVIOUS
<1> USE DEF TtsInv, TtsTyped, TtsFields, TriggerNoted, Tts!NeverTooEarly, Tts!Raises, Tts!FireSent, Tts!Await, Tts!Tasks
<1>1. CASE Tts!RejectRequest
  BY <1>1 DEF Tts!RejectRequest
<1>2. CASE Tts!ConnectFails
  BY <1>2 DEF Tts!ConnectFails
<1>3. CASE Tts!Connect
  BY <1>3 DEF Tts!Connect
<1>4. CASE Tts!SendText
  BY <1>4, ZenonT(60) DEF Tts!SendText, Tts!Sending
<1>5. CASE Tts!TextSent
  BY <1>5 DEF Tts!TextSent, Tts!NextSegment, Tts!HangUpDue, Tts!SendTrigger
<1>6. CASE Tts!TriggerSent
  BY <1>6 DEF Tts!TriggerSent, Tts!NextSegment, Tts!HangUpDue
<1>7. CASE Tts!CompleteInput
  BY <1>7 DEF Tts!CompleteInput, Tts!Sending, Tts!SendTrigger
<1>8. CASE Tts!FinishSent
  BY <1>8 DEF Tts!FinishSent
<1>9. CASE Tts!ReceiveClose
  BY <1>9 DEF Tts!ReceiveClose
<1>10. CASE Tts!Watch
  BY <1>10 DEF Tts!Watch
<1>11. CASE Tts!CancelOthers
  BY <1>11 DEF Tts!CancelOthers, Tts!Cancel, Tts!Over
<1>12. CASE Tts!TimeOut
  BY <1>12 DEF Tts!TimeOut, Tts!Cancel, Tts!Over
<1>13. CASE Tts!Emit
  BY <1>13 DEF Tts!Emit, Tts!Event
<1>14. CASE Tts!CloseLink
  BY <1>14 DEF Tts!CloseLink
<1>15. CASE UNCHANGED tts
  BY <1>15
<1>16. CASE Tts!CloseTimesOut
  BY <1>16 DEF Tts!CloseTimesOut, Tts!Closing, Tts!Over
<1> QED
  BY <1>1, <1>2, <1>3, <1>4, <1>5, <1>6, <1>7, <1>8, <1>9, <1>10, <1>11, <1>12, <1>13, <1>14, <1>15, <1>16
     DEF Tts!Next, Tts!Client, Tts!SendLoop

LEMMA BeforeResultStays ==
    TtsInv /\ [Tts!Next]_tts /\ ~Tts!Receive /\ ~Tts!Return => BeforeResult'
<1> SUFFICES ASSUME TtsInv, [Tts!Next]_tts, ~Tts!Receive, ~Tts!Return PROVE BeforeResult'
  OBVIOUS
<1> USE DEF TtsInv, TtsTyped, TtsFields, BeforeResult, Tts!Raises, Tts!FireSent, Tts!Await, Tts!Tasks
<1>1. CASE Tts!RejectRequest
  BY <1>1 DEF Tts!RejectRequest
<1>2. CASE Tts!ConnectFails
  BY <1>2 DEF Tts!ConnectFails
<1>3. CASE Tts!Connect
  BY <1>3 DEF Tts!Connect
<1>4. CASE Tts!SendText
  BY <1>4 DEF Tts!SendText, Tts!Sending
<1>5. CASE Tts!TextSent
  BY <1>5 DEF Tts!TextSent, Tts!NextSegment, Tts!HangUpDue, Tts!SendTrigger
<1>6. CASE Tts!TriggerSent
  BY <1>6 DEF Tts!TriggerSent, Tts!NextSegment, Tts!HangUpDue
<1>7. CASE Tts!CompleteInput
  BY <1>7 DEF Tts!CompleteInput, Tts!Sending, Tts!SendTrigger
<1>8. CASE Tts!FinishSent
  BY <1>8 DEF Tts!FinishSent
<1>9. CASE Tts!ReceiveClose
  BY <1>9 DEF Tts!ReceiveClose
<1>10. CASE Tts!Watch
  BY <1>10 DEF Tts!Watch
<1>11. CASE Tts!CancelOthers
  BY <1>11 DEF Tts!CancelOthers, Tts!Cancel, Tts!Over
<1>12. CASE Tts!TimeOut
  BY <1>12 DEF Tts!TimeOut, Tts!Cancel, Tts!Over
<1>13. CASE Tts!Emit
  BY <1>13 DEF Tts!Emit, Tts!Event
<1>14. CASE Tts!CloseLink
  BY <1>14 DEF Tts!CloseLink
<1>15. CASE UNCHANGED tts
  BY <1>15
<1>16. CASE Tts!CloseTimesOut
  BY <1>16 DEF Tts!CloseTimesOut, Tts!Closing, Tts!Over
<1> QED
  BY <1>1, <1>2, <1>3, <1>4, <1>5, <1>6, <1>7, <1>8, <1>9, <1>10, <1>11, <1>12, <1>13, <1>14, <1>15, <1>16
     DEF Tts!Next, Tts!Client, Tts!SendLoop

LEMMA TasksKeepTelling ==
    TtsInv /\ [Tts!Next]_tts /\ ~Tts!Receive /\ ~Tts!Return => TasksTell'
<1> SUFFICES ASSUME TtsInv, [Tts!Next]_tts, ~Tts!Receive, ~Tts!Return PROVE TasksTell'
  OBVIOUS
<1> USE DEF TtsInv, TtsTyped, TtsFields, TasksTell, Tts!Raises, Tts!FireSent, Tts!Await, Tts!Tasks
<1>1. CASE Tts!RejectRequest
  BY <1>1 DEF Tts!RejectRequest
<1>2. CASE Tts!ConnectFails
  BY <1>2 DEF Tts!ConnectFails
<1>3. CASE Tts!Connect
  BY <1>3 DEF Tts!Connect
<1>4. CASE Tts!SendText
  BY <1>4, ZenonT(60) DEF Tts!SendText, Tts!Sending
<1>5. CASE Tts!TextSent
  BY <1>5 DEF Tts!TextSent, Tts!NextSegment, Tts!HangUpDue, Tts!SendTrigger
<1>6. CASE Tts!TriggerSent
  BY <1>6 DEF Tts!TriggerSent, Tts!NextSegment, Tts!HangUpDue
<1>7. CASE Tts!CompleteInput
  BY <1>7 DEF Tts!CompleteInput, Tts!Sending, Tts!SendTrigger
<1>8. CASE Tts!FinishSent
  BY <1>8 DEF Tts!FinishSent
<1>9. CASE Tts!ReceiveClose
  BY <1>9 DEF Tts!ReceiveClose
<1>10. CASE Tts!Watch
  BY <1>10 DEF Tts!Watch
<1>11. CASE Tts!CancelOthers
  BY <1>11 DEF Tts!CancelOthers, Tts!Cancel, Tts!Over
<1>12. CASE Tts!TimeOut
  BY <1>12 DEF Tts!TimeOut, Tts!Cancel, Tts!Over
<1>13. CASE Tts!Emit
  BY <1>13 DEF Tts!Emit, Tts!Event
<1>14. CASE Tts!CloseLink
  BY <1>14 DEF Tts!CloseLink
<1>15. CASE UNCHANGED tts
  BY <1>15
<1>16. CASE Tts!CloseTimesOut
  BY <1>16 DEF Tts!CloseTimesOut, Tts!Closing, Tts!Over
<1> QED
  BY <1>1, <1>2, <1>3, <1>4, <1>5, <1>6, <1>7, <1>8, <1>9, <1>10, <1>11, <1>12, <1>13, <1>14, <1>15, <1>16
     DEF Tts!Next, Tts!Client, Tts!SendLoop

LEMMA HangUpsStayMeant ==
    TtsInv /\ [Tts!Next]_tts /\ ~Tts!Receive /\ ~Tts!Return => HangUpsAreMeant'
<1> SUFFICES ASSUME TtsInv, [Tts!Next]_tts, ~Tts!Receive, ~Tts!Return PROVE HangUpsAreMeant'
  OBVIOUS
<1> USE DEF TtsInv, TtsTyped, TtsFields, HangUpsAreMeant, Tts!Raises, Tts!FireSent, Tts!Await, Tts!Tasks
<1>1. CASE Tts!RejectRequest
  BY <1>1 DEF Tts!RejectRequest
<1>2. CASE Tts!ConnectFails
  BY <1>2 DEF Tts!ConnectFails
<1>3. CASE Tts!Connect
  BY <1>3 DEF Tts!Connect
<1>4. CASE Tts!SendText
  BY <1>4 DEF Tts!SendText, Tts!Sending
<1>5. CASE Tts!TextSent
  BY <1>5 DEF Tts!TextSent, Tts!NextSegment, Tts!HangUpDue, Tts!SendTrigger
<1>6. CASE Tts!TriggerSent
  BY <1>6 DEF Tts!TriggerSent, Tts!NextSegment, Tts!HangUpDue
<1>7. CASE Tts!CompleteInput
  BY <1>7 DEF Tts!CompleteInput, Tts!Sending, Tts!SendTrigger
<1>8. CASE Tts!FinishSent
  BY <1>8 DEF Tts!FinishSent
<1>9. CASE Tts!ReceiveClose
  BY <1>9 DEF Tts!ReceiveClose
<1>10. CASE Tts!Watch
  BY <1>10 DEF Tts!Watch
<1>11. CASE Tts!CancelOthers
  BY <1>11 DEF Tts!CancelOthers, Tts!Cancel, Tts!Over
<1>12. CASE Tts!TimeOut
  BY <1>12 DEF Tts!TimeOut, Tts!Cancel, Tts!Over
<1>13. CASE Tts!Emit
  BY <1>13 DEF Tts!Emit, Tts!Event
<1>14. CASE Tts!CloseLink
  BY <1>14 DEF Tts!CloseLink
<1>15. CASE UNCHANGED tts
  BY <1>15
<1>16. CASE Tts!CloseTimesOut
  BY <1>16 DEF Tts!CloseTimesOut, Tts!Closing, Tts!Over
<1> QED
  BY <1>1, <1>2, <1>3, <1>4, <1>5, <1>6, <1>7, <1>8, <1>9, <1>10, <1>11, <1>12, <1>13, <1>14, <1>15, <1>16
     DEF Tts!Next, Tts!Client, Tts!SendLoop

LEMMA OutcomeStays ==
    TtsInv /\ [Tts!Next]_tts /\ ~Tts!Receive /\ ~Tts!Return => Tts!OutcomeIsRight'
<1> SUFFICES ASSUME TtsInv, [Tts!Next]_tts, ~Tts!Receive, ~Tts!Return PROVE Tts!OutcomeIsRight'
  OBVIOUS
<1> USE DEF TtsInv, TtsTyped, TtsFields, Tts!OutcomeIsRight, BeforeResult, Tts!Raises, Tts!FireSent, Tts!Await, Tts!Tasks
<1>1. CASE Tts!RejectRequest
  BY <1>1 DEF Tts!RejectRequest
<1>2. CASE Tts!ConnectFails
  BY <1>2 DEF Tts!ConnectFails
<1>3. CASE Tts!Connect
  BY <1>3 DEF Tts!Connect
<1>4. CASE Tts!SendText
  BY <1>4 DEF Tts!SendText, Tts!Sending
<1>5. CASE Tts!TextSent
  BY <1>5 DEF Tts!TextSent, Tts!NextSegment, Tts!HangUpDue, Tts!SendTrigger
<1>6. CASE Tts!TriggerSent
  BY <1>6 DEF Tts!TriggerSent, Tts!NextSegment, Tts!HangUpDue
<1>7. CASE Tts!CompleteInput
  BY <1>7 DEF Tts!CompleteInput, Tts!Sending, Tts!SendTrigger
<1>8. CASE Tts!FinishSent
  BY <1>8 DEF Tts!FinishSent
<1>9. CASE Tts!ReceiveClose
  BY <1>9 DEF Tts!ReceiveClose
<1>10. CASE Tts!Watch
  BY <1>10 DEF Tts!Watch
<1>11. CASE Tts!CancelOthers
  BY <1>11 DEF Tts!CancelOthers, Tts!Cancel, Tts!Over
<1>12. CASE Tts!TimeOut
  BY <1>12 DEF Tts!TimeOut, Tts!Cancel, Tts!Over
<1>13. CASE Tts!Emit
  BY <1>13 DEF Tts!Emit, Tts!Event
<1>14. CASE Tts!CloseLink
  BY <1>14 DEF Tts!CloseLink
<1>15. CASE UNCHANGED tts
  BY <1>15
<1>16. CASE Tts!CloseTimesOut
  BY <1>16 DEF Tts!CloseTimesOut, Tts!Closing, Tts!Over
<1> QED
  BY <1>1, <1>2, <1>3, <1>4, <1>5, <1>6, <1>7, <1>8, <1>9, <1>10, <1>11, <1>12, <1>13, <1>14, <1>15, <1>16
     DEF Tts!Next, Tts!Client, Tts!SendLoop

\* An event that is read: none of them is early audio.
LEMMA ReceiveStep == TtsInv /\ Tts!Receive => TtsInv'
<1> SUFFICES ASSUME TtsInv, Tts!Receive PROVE TtsInv'
  OBVIOUS
<1> DEFINE r == [tts EXCEPT !.inbox = Tail(@)]
           e == Head(tts.inbox)
           a == Tts!Audible(r)
<1>1. /\ tts.pc = "run" /\ tts.receiver = "live" /\ tts.inbox # <<>>
      /\ tts' = CASE e = "error" -> Tts!Raises(r, "receiver", "server")
                  [] e = "audio" -> a
                  [] e = "last" -> Tts!Ending(a)
                  [] e = "end" -> Tts!Ending(r)
  BY DEF Tts!Receive
<1>2. e \in Tts!Event /\ r.inbox \in Seq(Tts!Event)
      /\ (e \in {"audio", "last"} => tts.heard)
      /\ \A i \in DOMAIN r.inbox : r.inbox[i] \in {"audio", "last"} => tts.heard
  <2>1. tts.inbox \in Seq(Tts!Event) /\ r.inbox = Tail(tts.inbox)
    BY DEF TtsInv, TtsTyped, TtsFields
  <2>2. /\ Head(tts.inbox) = tts.inbox[1] /\ 1 \in DOMAIN tts.inbox
        /\ \A i \in DOMAIN Tail(tts.inbox) : i + 1 \in DOMAIN tts.inbox /\ Tail(tts.inbox)[i] = tts.inbox[i + 1]
    BY <1>1, <2>1
  <2>3. Tail(tts.inbox) \in Seq(Tts!Event) /\ Head(tts.inbox) \in Tts!Event
    BY <1>1, <2>1
  <2> QED
    BY <2>1, <2>2, <2>3 DEF TtsInv, TriggerNoted
<1>3. /\ DOMAIN r = TtsFields /\ \A k \in TtsFields \ {"inbox"} : r[k] = tts[k]
  BY DEF TtsInv, TtsTyped, TtsFields
<1> HIDE DEF r, e, a
<1>4. e = "error" \/ e = "audio" \/ e = "last" \/ e = "end"
  BY <1>2 DEF Tts!Event
<1> DEFINE Rest == TtsFields \ {"inbox", "chunks", "ttfc", "receiver", "leaves", "ended", "sent"}
           Quiet(b) == b.leaves = tts.leaves /\ b.receiver \in {"live", "done"}
                       /\ (b.receiver = "done" => b.ended)
           Loud(b, x) == b.leaves = tts.leaves \cup {x} /\ b.receiver = "raised"
           Read(b) == /\ DOMAIN b = TtsFields /\ b.chunks \in Nat /\ b.inbox = r.inbox
                      /\ \A k \in Rest : b[k] = tts[k]
                      /\ Quiet(b) \/ Loud(b, "server") \/ (Loud(b, "abort") /\ tts.abort.by = "audio")
<1>5. Read(r) /\ r.receiver = "live" /\ r.leaves = tts.leaves
  BY <1>1, <1>3 DEF TtsInv, TtsTyped, TtsFields
<1>6. Read(Tts!Raises(r, "receiver", "server"))
  <2>1. Tts!Raises(r, "receiver", "server") = [r EXCEPT !["receiver"] = "raised", !.leaves = @ \cup {"server"}]
    BY DEF Tts!Raises
  <2> QED
    BY <1>3, <1>5, <2>1, ZenonT(60) DEF TtsFields
<1>7. e \in {"audio", "last"} => Read(a) /\ (a.receiver = "raised" \/ (Quiet(a) /\ a.receiver = "live"))
  <2> SUFFICES ASSUME e \in {"audio", "last"} PROVE Read(a) /\ (a.receiver = "raised" \/ (Quiet(a) /\ a.receiver = "live"))
    OBVIOUS
  <2>1. r.stamp /\ r.chunks \in Nat /\ r.abort = tts.abort
    BY <1>2, <1>3 DEF TtsInv, TriggerNoted, TtsTyped, TtsFields
  <2>2. /\ DOMAIN a = TtsFields /\ a.chunks \in Nat
        /\ \/ a.leaves = r.leaves /\ a.receiver = r.receiver
           \/ a.leaves = r.leaves \cup {"abort"} /\ a.receiver = "raised" /\ r.abort.by = "audio"
        /\ \A k \in TtsFields \ {"chunks", "ttfc", "receiver", "leaves", "sent"} : a[k] = r[k]
    BY <1>3, <2>1, AudibleTells DEF a
  <2>3. \A k \in Rest : k \in TtsFields \ {"inbox"} /\ k \in TtsFields \ {"chunks", "ttfc", "receiver", "leaves", "sent"}
    OBVIOUS
  <2>4. a.inbox = r.inbox /\ \A k \in Rest : a[k] = tts[k]
    <3>1. "inbox" \in TtsFields \ {"chunks", "ttfc", "receiver", "leaves", "sent"}
      BY DEF TtsFields
    <3> QED
      BY <1>3, <2>2, <2>3, <3>1
  <2>5. (Quiet(a) /\ a.receiver = "live") \/ (Loud(a, "abort") /\ tts.abort.by = "audio")
    <3>1. r.leaves = tts.leaves /\ r.receiver = "live"
      BY <1>5
    <3> QED
      BY <2>1, <2>2, <3>1
  <2>6. a.receiver = "raised" \/ (Quiet(a) /\ a.receiver = "live")
    BY <2>5
  <2>7. DOMAIN a = TtsFields /\ a.chunks \in Nat
    BY <2>2
  <2> HIDE DEF Quiet, Loud, Rest
  <2>8. Read(a)
    BY <2>4, <2>5, <2>7, Zenon
  <2> HIDE DEF Read
  <2> QED
    BY <2>6, <2>8
<1>8. ASSUME NEW b, Read(b), b.receiver = "raised" \/ Quiet(b) PROVE Read(Tts!Ending(b))
  <2>1. CASE b.receiver = "raised"
    BY <1>8, <2>1 DEF Tts!Ending
  <2>2. CASE b.receiver # "raised"
    BY <1>8, <2>2 DEF Tts!Ending, TtsFields
  <2> QED
    BY <2>1, <2>2
<1>9. Read(tts')
  <2>1. Quiet(r)
    BY <1>5
  <2> HIDE DEF Read, Quiet
  <2>2. CASE e = "error"
    BY <1>1, <1>6, <2>2
  <2>3. CASE e = "audio"
    BY <1>1, <1>7, <2>3
  <2>4. CASE e = "last"
    BY <1>1, <1>7, <1>8, <2>4
  <2>5. CASE e = "end"
    BY <1>1, <1>5, <1>8, <2>1, <2>5
  <2> QED
    BY <1>4, <2>2, <2>3, <2>4, <2>5
<1>10. tts'.chunks \in Nat /\ \A k \in {"pc", "sender", "watchdog", "heard", "stamp", "whole", "abort", "dispatched", "aborted"} : tts'[k] = tts[k]
  BY <1>9 DEF TtsFields
<1>11. TtsTyped'
  BY <1>2, <1>9, <1>10 DEF TtsInv, TtsTyped
<1>12. TriggerNoted'
  BY <1>2, <1>9, <1>10 DEF TtsInv, TriggerNoted, Tts!NeverTooEarly
<1>13. BeforeResult' /\ Tts!OutcomeIsRight'
  BY <1>1, <1>10 DEF TtsInv, BeforeResult, Tts!OutcomeIsRight
<1>14. TasksTell'
  BY <1>9, <1>10 DEF TtsInv, TasksTell
<1>15. HangUpsAreMeant'
  BY <1>9, <1>10 DEF TtsInv, HangUpsAreMeant
<1> QED
  BY <1>11, <1>12, <1>13, <1>14, <1>15 DEF TtsInv

\* The result says what the tasks left behind.
LEMMA ReturnStep == TtsInv /\ Tts!Return => TtsInv'
<1> SUFFICES ASSUME TtsInv, Tts!Return PROVE TtsInv'
  OBVIOUS
<1> DEFINE hungUp == tts.leaves # {} /\ Tts!Flatten(tts.leaves) = "abort"
<1>1. hungUp <=> "abort" \in tts.leaves
  BY FlattenTells
<1>2. /\ tts.pc = "run"
      /\ tts.sender \in Tts!Over /\ tts.receiver \in Tts!Over /\ tts.watchdog \in Tts!Over
      /\ tts' = [tts EXCEPT !.pc = "returned", !.aborted = hungUp,
                            !.error = ~hungUp /\ (tts.leaves # {} \/ tts.chunks = 0), !.sent = 1]
  BY SMTT(40) DEF Tts!Return, Tts!Closing, Tts!Tasks, Tts!FireSent, TtsInv, TtsTyped, TtsFields
<1> HIDE DEF hungUp
<1>3. /\ DOMAIN tts' = TtsFields /\ tts'.pc = "returned" /\ tts'.sent = 1
      /\ tts'.aborted = hungUp /\ tts'.error = (~hungUp /\ (tts.leaves # {} \/ tts.chunks = 0))
      /\ \A k \in TtsFields \ {"pc", "aborted", "error", "sent"} : tts'[k] = tts[k]
  BY <1>2 DEF TtsInv, TtsTyped, TtsFields
<1>4. \A k \in TtsFields \ {"pc", "aborted", "error", "sent"} : tts'[k] = tts[k]
  BY <1>3
<1>5. tts'.inbox = tts.inbox /\ tts'.chunks = tts.chunks /\ tts'.heard = tts.heard /\ tts'.stamp = tts.stamp
      /\ tts'.leaves = tts.leaves /\ tts'.sender = tts.sender /\ tts'.receiver = tts.receiver
      /\ tts'.watchdog = tts.watchdog /\ tts'.whole = tts.whole /\ tts'.ended = tts.ended
      /\ tts'.abort = tts.abort /\ tts'.dispatched = tts.dispatched /\ tts'.expired = tts.expired
  BY <1>4 DEF TtsFields
<1>6. TtsTyped' /\ BeforeResult'
  BY <1>3, <1>5 DEF TtsInv, TtsTyped, BeforeResult
<1>7. TriggerNoted'
  BY <1>5 DEF TtsInv, TriggerNoted, Tts!NeverTooEarly
<1>8. TasksTell' /\ HangUpsAreMeant'
  BY <1>5 DEF TtsInv, TasksTell, HangUpsAreMeant
<1>9. tts.dispatched = 1
  BY <1>2 DEF TtsInv, BeforeResult
<1>10. Tts!OutcomeIsRight'
  <2>1. "abort" \in tts.leaves /\ tts.expired # "close" => tts'.aborted /\ ~tts'.error
    BY <1>1, <1>3, Zenon
  <2>2. tts'.aborted => tts.abort.by # "none" /\ ~tts'.error
    <3>1. hungUp => tts.abort.by # "none"
      BY <1>1 DEF TtsInv, HangUpsAreMeant
    <3> QED
      BY <1>3, <3>1, Zenon
  <2>3. ~tts'.aborted /\ ~tts'.error => tts.whole /\ tts.ended /\ tts.chunks > 0
    <3> SUFFICES ASSUME ~tts'.aborted, ~tts'.error PROVE tts.whole /\ tts.ended /\ tts.chunks > 0
      OBVIOUS
    <3>1. tts.leaves = {} /\ tts.chunks # 0
      BY <1>3, Zenon
    <3>2. tts.sender = "done" /\ tts.receiver = "done"
      BY <1>2, <3>1 DEF TtsInv, TasksTell, Tts!Over
    <3> QED
      BY <3>1, <3>2 DEF TtsInv, TtsTyped, TasksTell
  <2> QED
    BY <1>3, <1>5, <1>9, <2>1, <2>2, <2>3 DEF Tts!OutcomeIsRight
<1> QED
  BY <1>6, <1>7, <1>8, <1>10 DEF TtsInv

LEMMA TtsInductive == TtsInv /\ [Tts!Next]_tts => TtsInv'
  BY TtsTypesStay, TriggerStaysNoted, BeforeResultStays, TasksKeepTelling, HangUpsStayMeant,
     OutcomeStays, ReceiveStep, ReturnStep DEF TtsInv

-----------------------------------------------------------------------------
(* The metric streamer (MetricStreamer).                                   *)

MetricsFields == {"worker", "counted", "rows", "summary", "file", "streamed", "trigger", "stop",
                  "updates", "streamer", "main", "failures", "torn", "kept"}

MetricsTyped ==
    /\ DOMAIN metrics = MetricsFields
    /\ DOMAIN metrics.worker = Requests
    /\ metrics.rows \in Seq(Requests) /\ metrics.file \in Seq(Requests)
    /\ metrics.kept \in Seq(Requests)
    /\ metrics.streamed \in Nat /\ metrics.streamed <= Len(metrics.rows)

\* What is streamed is the rows so far, unless an append was torn.
Streamed ==
    ~metrics.torn /\ metrics.main # "saved" =>
        /\ Len(metrics.file) = metrics.streamed
        /\ \A i \in 1 .. metrics.streamed : metrics.file[i] = metrics.rows[i]

\* A row is of a request that was counted before, and what the summary counts
\* was counted; nobody counts between a flush's summary and its rows.
CountedFirst ==
    /\ \A r \in Requests : metrics.worker[r] # "idle" => r \in metrics.counted
    /\ \A i \in DOMAIN metrics.rows : metrics.rows[i] \in metrics.counted
    /\ metrics.summary \subseteq metrics.counted
    /\ metrics.streamer \in {"rows", "final rows"} => metrics.summary = metrics.counted

\* The streamer writes no row that its summary does not count.
FileSummed ==
    metrics.main \notin {"saves rows", "saved"} =>
        \A i \in DOMAIN metrics.file : metrics.file[i] \in metrics.summary

Prefix(s, t) == Len(s) <= Len(t) /\ \A i \in 1 .. Len(s) : s[i] = t[i]

\* The main thread saves when the streamer is over, and saves all it left.
SavedAfter ==
    /\ metrics.main \in {"saves summary", "saves rows", "saved"} =>
          metrics.streamer = "over" /\ Prefix(metrics.kept, metrics.rows)
    /\ metrics.main \in {"saves rows", "saved"} =>
          \A i \in DOMAIN metrics.kept : metrics.kept[i] \in metrics.summary
    /\ metrics.main = "saved" =>
          Prefix(metrics.kept, metrics.file) /\ Prefix(metrics.file, metrics.rows)

MetricsInv == MetricsTyped /\ Streamed /\ CountedFirst /\ FileSummed /\ SavedAfter

LEMMA MetricsSeqs ==
    ASSUME MetricsTyped
    PROVE  \A t \in {metrics.rows, metrics.file, metrics.kept} :
              t \in Seq(Requests) /\ Len(t) \in Nat /\ DOMAIN t = 1 .. Len(t)
  BY DEF MetricsTyped

LEMMA MetricsFaithful == MetricsInv => Metrics!StreamIsFaithful
<1> SUFFICES ASSUME MetricsInv PROVE Metrics!StreamIsFaithful
  OBVIOUS
<1>1. /\ metrics.rows \in Seq(Requests) /\ metrics.file \in Seq(Requests) /\ metrics.kept \in Seq(Requests)
      /\ Len(metrics.rows) \in Nat /\ Len(metrics.file) \in Nat /\ Len(metrics.kept) \in Nat
      /\ DOMAIN metrics.file = 1 .. Len(metrics.file) /\ DOMAIN metrics.kept = 1 .. Len(metrics.kept)
  BY DEF MetricsInv, MetricsTyped
<1>2. ~metrics.torn \/ metrics.main = "saved" => Prefix(metrics.file, metrics.rows)
  BY <1>1 DEF MetricsInv, Streamed, SavedAfter, Prefix, MetricsTyped
<1>3. Prefix(metrics.file, metrics.rows) => Metrics!IsPrefix(metrics.file, metrics.rows)
  BY <1>1 DEF Prefix, Metrics!IsPrefix
<1>4. metrics.main \notin {"saves rows", "saved"} => Metrics!ToSet(metrics.file) \subseteq metrics.summary
  BY DEF MetricsInv, FileSummed, Metrics!ToSet
<1>5. metrics.main = "saved" => Metrics!ToSet(metrics.kept) \subseteq Metrics!ToSet(metrics.file) \cap metrics.summary
  BY <1>1 DEF MetricsInv, SavedAfter, Prefix, Metrics!ToSet
<1> QED
  BY <1>2, <1>3, <1>4, <1>5 DEF Metrics!StreamIsFaithful

LEMMA MetricsInitially == Metrics!Init => MetricsInv
<1> SUFFICES ASSUME Metrics!Init PROVE MetricsInv
  OBVIOUS
<1> USE DEF Metrics!Init
<1>1. MetricsTyped
  BY DEF MetricsTyped, MetricsFields
<1>2. Streamed /\ CountedFirst
  BY DEF Streamed, CountedFirst
<1>3. FileSummed /\ SavedAfter
  BY DEF FileSummed, SavedAfter
<1> QED
  BY <1>1, <1>2, <1>3 DEF MetricsInv

\* A worker counts its request before it stores the row.
LEMMA WorkerSteps == ASSUME MetricsInv, NEW r \in Requests, Metrics!Worker(r) PROVE MetricsInv'
<1> USE DEF MetricsInv, MetricsTyped, MetricsFields
<1>1. CASE Metrics!Count(r)
  <2> USE <1>1 DEF Metrics!Count, Metrics!LockFree
  <2>1. MetricsTyped' /\ Streamed'
    BY DEF Streamed
  <2>2. CountedFirst'
    BY DEF CountedFirst
  <2>3. FileSummed' /\ SavedAfter'
    BY DEF FileSummed, SavedAfter
  <2> QED
    BY <2>1, <2>2, <2>3
<1>2. CASE Metrics!Store(r)
  <2> USE <1>2 DEF Metrics!Store
  <2>1. /\ metrics'.rows \in Seq(Requests) /\ Len(metrics'.rows) = Len(metrics.rows) + 1
        /\ metrics'.rows[Len(metrics.rows) + 1] = r
        /\ \A i \in 1 .. Len(metrics.rows) : metrics'.rows[i] = metrics.rows[i]
        /\ DOMAIN metrics.rows = 1 .. Len(metrics.rows) /\ DOMAIN metrics'.rows = 1 .. Len(metrics.rows) + 1
        /\ Len(metrics.rows) \in Nat
    OBVIOUS
  <2>2. MetricsTyped'
    BY <2>1
  <2>3. Streamed'
    BY <2>1 DEF Streamed
  <2>4. CountedFirst'
    <3>1. /\ r \in metrics.counted /\ metrics'.counted = metrics.counted
          /\ metrics'.summary = metrics.summary /\ metrics'.streamer = metrics.streamer
          /\ \A x \in Requests : metrics'.worker[x] # "idle" => x \in metrics.counted
      BY DEF CountedFirst
    <3>2. \A i \in DOMAIN metrics'.rows : metrics'.rows[i] \in metrics.counted
      <4>1. \A i \in DOMAIN metrics.rows : metrics.rows[i] \in metrics.counted
        BY DEF CountedFirst
      <4> QED
        BY ONLY <2>1, <3>1, <4>1
    <3> QED
      BY <3>1, <3>2 DEF CountedFirst
  <2>5. FileSummed'
    BY DEF FileSummed
  <2>6. SavedAfter'
    <3>1. /\ metrics'.main = metrics.main /\ metrics'.streamer = metrics.streamer
          /\ metrics'.kept = metrics.kept /\ metrics'.file = metrics.file
          /\ metrics'.summary = metrics.summary
      OBVIOUS
    <3>2. \A t \in {metrics.kept, metrics.file} : Prefix(t, metrics.rows) => Prefix(t, metrics'.rows)
      <4>1. Len(metrics.kept) \in Nat /\ Len(metrics.file) \in Nat
        OBVIOUS
      <4> QED
        BY <2>1, <4>1 DEF Prefix
    <3> QED
      BY <3>1, <3>2 DEF SavedAfter
  <2> QED
    BY <2>2, <2>3, <2>4, <2>5, <2>6
<1>3. CASE Metrics!SetUpdates(r)
  <2> USE <1>3 DEF Metrics!SetUpdates
  <2>1. MetricsTyped' /\ Streamed'
    BY DEF Streamed
  <2>2. CountedFirst'
    BY DEF CountedFirst
  <2>3. FileSummed' /\ SavedAfter'
    BY DEF FileSummed, SavedAfter
  <2> QED
    BY <2>1, <2>2, <2>3
<1> QED
  BY <1>1, <1>2, <1>3 DEF Metrics!Worker

LEMMA MainSteps == MetricsInv /\ (Metrics!Trigger \/ Metrics!Main) => MetricsInv'
<1> SUFFICES ASSUME MetricsInv, Metrics!Trigger \/ Metrics!Main PROVE MetricsInv'
  OBVIOUS
<1> USE DEF MetricsInv, MetricsTyped, MetricsFields
<1>1. CASE Metrics!Trigger
  BY <1>1 DEF Metrics!Trigger, Streamed, CountedFirst, FileSummed, SavedAfter
<1>2. CASE Metrics!Stop
  BY <1>2, ZenonT(60) DEF Metrics!Stop, Streamed, CountedFirst, FileSummed, SavedAfter
<1>3. CASE Metrics!Join
  <2> USE <1>3 DEF Metrics!Join
  <2>1. MetricsTyped' /\ Streamed' /\ CountedFirst'
    BY DEF Streamed, CountedFirst
  <2>2. FileSummed' /\ SavedAfter'
    BY DEF FileSummed, SavedAfter, Prefix
  <2> QED
    BY <2>1, <2>2
<1>4. CASE Metrics!SaveSummary
  <2> USE <1>4 DEF Metrics!SaveSummary
  <2>1. MetricsTyped' /\ Streamed' /\ CountedFirst'
    BY DEF Streamed, CountedFirst
  <2>2. /\ metrics'.main = "saves rows" /\ metrics'.summary = metrics.counted
        /\ metrics'.kept = metrics.kept /\ metrics'.rows = metrics.rows
        /\ metrics'.streamer = metrics.streamer
    OBVIOUS
  <2>3. \A i \in DOMAIN metrics.kept : metrics.kept[i] \in metrics.counted
    <3>1. /\ DOMAIN metrics.kept = 1 .. Len(metrics.kept) /\ DOMAIN metrics.rows = 1 .. Len(metrics.rows)
          /\ Len(metrics.kept) \in Nat /\ Len(metrics.rows) \in Nat
      BY MetricsSeqs
    <3>2. Prefix(metrics.kept, metrics.rows) /\ \A i \in DOMAIN metrics.rows : metrics.rows[i] \in metrics.counted
      BY DEF SavedAfter, CountedFirst
    <3> QED
      BY ONLY <3>1, <3>2 DEF Prefix
  <2>4. FileSummed' /\ SavedAfter'
    BY <2>2, <2>3 DEF FileSummed, SavedAfter
  <2> QED
    BY <2>1, <2>4
<1>5. CASE Metrics!SaveRows
  <2> USE <1>5 DEF Metrics!SaveRows
  <2>1. MetricsTyped' /\ Streamed' /\ CountedFirst'
    BY DEF Streamed, CountedFirst
  <2>2. /\ metrics'.main = "saved" /\ metrics'.summary = metrics.summary
        /\ metrics'.kept = metrics.kept /\ metrics'.rows = metrics.rows /\ metrics'.file = metrics.rows
        /\ metrics'.streamer = metrics.streamer
    OBVIOUS
  <2>3. Prefix(metrics.rows, metrics.rows)
    <3>1. Len(metrics.rows) \in Nat
      BY MetricsSeqs
    <3> QED
      BY ONLY <3>1 DEF Prefix
  <2>4. FileSummed' /\ SavedAfter'
    BY <2>2, <2>3 DEF FileSummed, SavedAfter
  <2> QED
    BY <2>1, <2>4
<1> QED
  BY <1>1, <1>2, <1>3, <1>4, <1>5 DEF Metrics!Main

\* The rows since the last flush.
LEMMA NewRowsTell ==
    ASSUME MetricsInv
    PROVE  /\ Metrics!NewRows \in Seq(Requests)
           /\ Len(Metrics!NewRows) = Len(metrics.rows) - metrics.streamed
           /\ \A i \in 1 .. Len(Metrics!NewRows) : Metrics!NewRows[i] = metrics.rows[metrics.streamed + i]
<1>1. metrics.rows \in Seq(Requests) /\ metrics.streamed \in Nat /\ Len(metrics.rows) \in Nat
      /\ metrics.streamed <= Len(metrics.rows)
  BY DEF MetricsInv, MetricsTyped
<1>2. \A i \in metrics.streamed + 1 .. Len(metrics.rows) : metrics.rows[i] \in Requests
  BY <1>1
<1>3. metrics.streamed + 1 \in Int /\ Len(metrics.rows) \in Int
  BY <1>1
<1>4. /\ Metrics!NewRows \in Seq(Requests)
      /\ Len(Metrics!NewRows) = IF metrics.streamed + 1 <= Len(metrics.rows)
                                THEN Len(metrics.rows) - (metrics.streamed + 1) + 1 ELSE 0
      /\ \A i \in 1 .. Len(metrics.rows) - (metrics.streamed + 1) + 1 :
            Metrics!NewRows[i] = metrics.rows[(metrics.streamed + 1) + i - 1]
  BY <1>2, <1>3, SubSeqProperties, SMTT(40) DEF Metrics!NewRows
<1>5. Len(Metrics!NewRows) = Len(metrics.rows) - metrics.streamed
  BY <1>1, <1>4
<1> QED
  BY <1>1, <1>4, <1>5

\* Whatever is appended of the new rows is counted, and all of them are what
\* the file lacks.
LEMMA FlushRowsStep == MetricsInv /\ Metrics!FlushRows => MetricsInv'
<1> SUFFICES ASSUME MetricsInv, Metrics!FlushRows PROVE MetricsInv'
  OBVIOUS
<1> DEFINE all == Metrics!NewRows
           More(more) ==
             /\ metrics'.file = metrics.file \o more
             /\ \A i \in 1 .. Len(more) : more[i] = metrics.rows[metrics.streamed + i]
             /\ Len(more) <= Len(metrics.rows) - metrics.streamed
             /\ \/ metrics'.torn
                \/ /\ metrics'.torn = metrics.torn /\ metrics'.streamed = Len(metrics.rows)
                   /\ Len(more) = Len(metrics.rows) - metrics.streamed
<1>1. /\ all \in Seq(Requests) /\ Len(all) = Len(metrics.rows) - metrics.streamed
      /\ \A i \in 1 .. Len(all) : all[i] = metrics.rows[metrics.streamed + i]
  BY NewRowsTell
<1> HIDE DEF all
<1>2. /\ DOMAIN metrics' = MetricsFields /\ metrics.streamer \in {"rows", "final rows"}
      /\ metrics'.streamer \in {"over", "clears", "checks"}
      /\ metrics'.worker = metrics.worker /\ metrics'.counted = metrics.counted
      /\ metrics'.rows = metrics.rows /\ metrics'.summary = metrics.summary
      /\ metrics'.main = metrics.main /\ metrics'.kept = metrics.kept
      /\ metrics'.streamed \in {metrics.streamed, Len(metrics.rows)}
  BY ZenonT(60) DEF Metrics!FlushRows, Metrics!Failed, Metrics!Final, MetricsInv, MetricsTyped, MetricsFields
<1>3. \/ /\ metrics'.file = metrics.file \o all
         /\ metrics'.torn = metrics.torn /\ metrics'.streamed = Len(metrics.rows)
      \/ \E k \in 1 .. Len(all) : metrics'.file = metrics.file \o SubSeq(all, 1, k) /\ metrics'.torn = TRUE
  BY ZenonT(60) DEF all, Metrics!FlushRows, Metrics!Failed, Metrics!Final, MetricsInv, MetricsTyped, MetricsFields
<1>4. PICK more \in Seq(Requests) : More(more)
  <2>1. CASE /\ metrics'.file = metrics.file \o all
             /\ metrics'.torn = metrics.torn /\ metrics'.streamed = Len(metrics.rows)
    <3>1. Len(all) <= Len(metrics.rows) - metrics.streamed
      BY <1>1, MetricsSeqs DEF MetricsInv, MetricsTyped
    <3>2. More(all)
      BY <1>1, <2>1, <3>1
    <3> QED
      BY <1>1, <3>2
  <2>2. ASSUME NEW k \in 1 .. Len(all), metrics'.file = metrics.file \o SubSeq(all, 1, k), metrics'.torn = TRUE
        PROVE  \E more \in Seq(Requests) : More(more)
    <3>1. SubSeq(all, 1, k) \in Seq(Requests) /\ Len(SubSeq(all, 1, k)) = k
          /\ \A i \in 1 .. k : SubSeq(all, 1, k)[i] = all[i] /\ i \in 1 .. Len(all)
      BY <1>1
    <3>2. k <= Len(metrics.rows) - metrics.streamed
      BY <1>1
    <3>3. More(SubSeq(all, 1, k))
      BY <1>1, <2>2, <3>1, <3>2
    <3> QED
      BY <3>1, <3>3
  <2> QED
    BY <1>3, <2>1, <2>2
<1>5. /\ metrics.file \in Seq(Requests) /\ Len(metrics.file) \in Nat /\ Len(metrics.rows) \in Nat
      /\ DOMAIN metrics.file = 1 .. Len(metrics.file) /\ DOMAIN metrics.rows = 1 .. Len(metrics.rows)
      /\ metrics.streamed \in Nat /\ metrics.streamed <= Len(metrics.rows)
  BY MetricsSeqs DEF MetricsInv, MetricsTyped
<1>6. /\ metrics'.file \in Seq(Requests) /\ Len(metrics'.file) = Len(metrics.file) + Len(more)
      /\ DOMAIN metrics'.file = 1 .. Len(metrics.file) + Len(more) /\ Len(more) \in Nat
      /\ \A i \in 1 .. Len(metrics.file) + Len(more) :
            metrics'.file[i] = IF i <= Len(metrics.file) THEN metrics.file[i] ELSE more[i - Len(metrics.file)]
  <2>1. metrics'.file = metrics.file \o more
    BY <1>4
  <2>2. metrics.file \o more \in Seq(Requests) /\ Len(more) \in Nat
        /\ Len(metrics.file \o more) = Len(metrics.file) + Len(more)
        /\ \A i \in 1 .. Len(metrics.file) + Len(more) :
              (metrics.file \o more)[i] = IF i <= Len(metrics.file) THEN metrics.file[i] ELSE more[i - Len(metrics.file)]
    BY <1>5, ConcatProperties, LenProperties
  <2> QED
    BY <2>1, <2>2
<1> HIDE DEF More
<1>7. MetricsTyped'
  <2>1. metrics'.streamed \in Nat /\ metrics'.streamed <= Len(metrics.rows)
    <3>1. metrics'.streamed = metrics.streamed \/ metrics'.streamed = Len(metrics.rows)
      BY <1>2
    <3> QED
      BY ONLY <1>5, <3>1
  <2>2. DOMAIN metrics'.worker = Requests /\ metrics'.rows \in Seq(Requests) /\ metrics'.kept \in Seq(Requests)
    BY <1>2 DEF MetricsInv, MetricsTyped
  <2> QED
    BY <1>2, <1>6, <2>1, <2>2 DEF MetricsTyped
<1>8. Streamed'
  <2> SUFFICES ASSUME ~metrics'.torn, metrics.main # "saved"
               PROVE  /\ Len(metrics'.file) = metrics'.streamed
                      /\ \A i \in 1 .. metrics'.streamed : metrics'.file[i] = metrics.rows[i]
    BY <1>2 DEF Streamed
  <2>1. ~metrics.torn /\ metrics'.streamed = Len(metrics.rows) /\ Len(more) = Len(metrics.rows) - metrics.streamed
    BY <1>4 DEF More
  <2>2. Len(metrics.file) = metrics.streamed /\ \A i \in 1 .. metrics.streamed : metrics.file[i] = metrics.rows[i]
    BY <2>1 DEF MetricsInv, Streamed
  <2>3. \A i \in 1 .. Len(more) : more[i] = metrics.rows[metrics.streamed + i]
    BY <1>4 DEF More
  <2>4. Len(metrics'.file) = Len(metrics.rows)
    BY <1>5, <1>6, <2>1, <2>2
  <2>5. ASSUME NEW i \in 1 .. Len(metrics.rows) PROVE metrics'.file[i] = metrics.rows[i]
    <3>1. CASE i <= Len(metrics.file)
      BY <1>5, <1>6, <2>1, <2>2, <3>1
    <3>2. CASE i > Len(metrics.file)
      <4>1. i - metrics.streamed \in 1 .. Len(more) /\ metrics.streamed + (i - metrics.streamed) = i
        BY <1>5, <2>1, <2>2, <3>2
      <4>2. metrics'.file[i] = more[i - metrics.streamed]
        BY <1>5, <1>6, <2>1, <2>2, <3>2
      <4> QED
        BY <2>3, <4>1, <4>2
    <3> QED
      BY <1>5, <3>1, <3>2
  <2> QED
    BY <2>1, <2>4, <2>5
<1>9. CountedFirst'
  BY <1>2 DEF MetricsInv, CountedFirst
<1>10. FileSummed'
  <2>1. \A i \in 1 .. Len(more) : more[i] \in metrics.summary
    <3>1. \A i \in 1 .. Len(more) : more[i] = metrics.rows[metrics.streamed + i] /\ metrics.streamed + i \in DOMAIN metrics.rows
      BY <1>4, <1>5, <1>6 DEF More
    <3> QED
      BY <1>2, <3>1 DEF MetricsInv, CountedFirst
  <2> SUFFICES ASSUME metrics.main \notin {"saves rows", "saved"}, NEW i \in DOMAIN metrics'.file
               PROVE  metrics'.file[i] \in metrics.summary
    BY <1>2 DEF FileSummed
  <2>2. \A k \in DOMAIN metrics.file : metrics.file[k] \in metrics.summary
    BY DEF MetricsInv, FileSummed
  <2>3. /\ i \in 1 .. Len(metrics.file) + Len(more) /\ i \in Nat
        /\ metrics'.file[i] = IF i <= Len(metrics.file) THEN metrics.file[i] ELSE more[i - Len(metrics.file)]
    <3>1. i \in 1 .. Len(metrics.file) + Len(more)
      BY <1>6, Zenon
    <3>2. i \in Nat
      BY ONLY <1>5, <1>6, <3>1
    <3> QED
      BY <1>6, <3>1, <3>2, Zenon
  <2>4. CASE i <= Len(metrics.file)
    <3>1. i \in DOMAIN metrics.file
      BY ONLY <1>5, <1>6, <2>3, <2>4
    <3> QED
      BY <2>2, <2>3, <2>4, <3>1
  <2>5. CASE ~(i <= Len(metrics.file))
    <3>1. i - Len(metrics.file) \in 1 .. Len(more)
      BY ONLY <1>5, <1>6, <2>3, <2>5, SMTT(40)
    <3> QED
      BY <2>1, <2>3, <2>5, <3>1
  <2> QED
    BY <2>4, <2>5
<1>11. SavedAfter'
  BY <1>2 DEF MetricsInv, SavedAfter
<1> QED
  BY <1>7, <1>8, <1>9, <1>10, <1>11 DEF MetricsInv

LEMMA StreamerSteps == MetricsInv /\ Metrics!Streamer => MetricsInv'
<1> SUFFICES ASSUME MetricsInv, Metrics!Streamer PROVE MetricsInv'
  OBVIOUS
<1> USE DEF MetricsInv, MetricsTyped, MetricsFields
<1>1. CASE Metrics!Wake
  BY <1>1 DEF Metrics!Wake, Streamed, CountedFirst, FileSummed, SavedAfter
<1>2. CASE Metrics!ClearUpdates
  BY <1>2 DEF Metrics!ClearUpdates, Streamed, CountedFirst, FileSummed, SavedAfter
<1>3. CASE Metrics!CheckStop
  BY <1>3 DEF Metrics!CheckStop, Streamed, CountedFirst, FileSummed, SavedAfter
<1>4. CASE Metrics!FlushSummary
  <2> USE <1>4 DEF Metrics!FlushSummary, Metrics!Failed, Metrics!Final
  <2>1. MetricsTyped' /\ Streamed'
    BY ZenonT(60) DEF Streamed
  <2>2. CountedFirst'
    <3>1. /\ metrics'.worker = metrics.worker /\ metrics'.counted = metrics.counted
          /\ metrics'.rows = metrics.rows
          /\ \/ metrics'.summary = metrics.counted
             \/ metrics'.summary = metrics.summary /\ metrics'.streamer \in {"over", "checks"}
      OBVIOUS
    <3> QED
      BY <3>1 DEF CountedFirst
  <2>3. FileSummed' /\ SavedAfter'
    BY ZenonT(60) DEF FileSummed, SavedAfter, CountedFirst
  <2> QED
    BY <2>1, <2>2, <2>3
<1>5. CASE Metrics!FlushRows
  BY <1>5, FlushRowsStep
<1> QED
  BY <1>1, <1>2, <1>3, <1>4, <1>5 DEF Metrics!Streamer

LEMMA MetricsInductive == MetricsInv /\ [Metrics!Next]_metrics => MetricsInv'
<1>1. MetricsInv /\ UNCHANGED metrics => MetricsInv'
  BY DEF MetricsInv, MetricsTyped, Streamed, CountedFirst, FileSummed, SavedAfter
<1> QED
  BY <1>1, WorkerSteps, MainSteps, StreamerSteps DEF Metrics!Next

-----------------------------------------------------------------------------
(* The trace recorder (TraceRecorder): no entry is lost or doubled.        *)

\* From which calls on the thread is there, the stop set, and the writer ended.
Lifetime ==
    /\ thread <=> calls \in {1, 2}
    /\ calls = 0 => buffer = <<>> /\ writer = "none"
    /\ stop => calls \in 2 .. 4
    /\ calls \in {3, 4} => writer = "ended"

\* The writer ends with nothing in the queue, and after the last put.
EndedDrained == writer = "ended" => queue = <<>> /\ stop

\* Only between a get and the look at should_flush is the buffer full.
BufferRoom == writer # "checking" => Len(buffer) < BatchSize

RecorderInv == Recorder!TraceAssumption /\ Recorder!TypeOK /\ Lifetime /\ EndedDrained /\ BufferRoom /\ Recorder!InOrderAndOnce

\* An item that moves from the head of the queue to the end of the buffer stays
\* where it is in the whole.
LEMMA MoveHead ==
    ASSUME file \in Seq(Entry), buffer \in Seq(Entry), queue \in Seq(Entry), queue # <<>>
    PROVE  (file \o Append(buffer, Head(queue))) \o Tail(queue) = (file \o buffer) \o queue
<1> DEFINE h == Head(queue)
           u == Tail(queue)
<1>1. h \in Entry /\ u \in Seq(Entry) /\ <<h>> \in Seq(Entry)
  BY HeadTailProperties
<1>2. queue = <<h>> \o u
  BY SMT
<1>3. Append(buffer, h) = buffer \o <<h>>
  BY <1>1, AppendIsConcat
<1> HIDE DEF h, u
<1>4. file \o (buffer \o <<h>>) = (file \o buffer) \o <<h>>
  BY <1>1, ConcatAssociative
<1>5. file \o buffer \in Seq(Entry)
  BY ConcatProperties
<1>6. ((file \o buffer) \o <<h>>) \o u = (file \o buffer) \o (<<h>> \o u)
  BY <1>1, <1>5, ConcatAssociative, SMTT(40)
<1>7. (file \o Append(buffer, h)) \o u = (file \o buffer) \o queue
  BY <1>2, <1>3, <1>4, <1>6, Zenon
<1> QED
  BY <1>7 DEF h, u

LEMMA RecorderInitially == Recorder!TraceAssumption /\ Recorder!Init => RecorderInv
<1> SUFFICES ASSUME Recorder!TraceAssumption, Recorder!Init PROVE RecorderInv
  OBVIOUS
<1>1. Recorder!TypeOK /\ BufferRoom
  <2>1. <<>> \in Seq(Entry) /\ Len(<<>>) = 0
    BY EmptySeq
  <2>2. BatchSize \in Nat /\ 0 < BatchSize
    BY DEF Recorder!TraceAssumption
  <2>3. /\ put = <<>> /\ queue = <<>> /\ buffer = <<>> /\ file = <<>>
        /\ stop = FALSE /\ thread = FALSE /\ writer = "none" /\ calls = 0
    BY DEF Recorder!Init
  <2>4. Len(buffer) <= BatchSize /\ Len(buffer) < BatchSize
    <3>1. Len(buffer) = 0
      BY <2>1, <2>3
    <3> QED
      BY <2>2, <3>1
  <2>5. put \in Seq(Entry) /\ queue \in Seq(Entry) /\ buffer \in Seq(Entry) /\ file \in Seq(Entry)
    BY <2>1, <2>3, Zenon
  <2>6. stop \in BOOLEAN /\ thread \in BOOLEAN
    BY <2>3, Zenon
  <2>7. writer \in {"none", "testing", "getting", "checking", "ended"} /\ calls \in 0 .. 4
    BY <2>3
  <2> QED
    BY <2>4, <2>5, <2>6, <2>7, Zenon DEF Recorder!TypeOK, BufferRoom
<1>2. Lifetime /\ EndedDrained
  BY DEF Recorder!Init, Lifetime, EndedDrained
<1>3. Recorder!InOrderAndOnce
  BY DEF Recorder!Init, Recorder!InOrderAndOnce
<1> QED
  BY <1>1, <1>2, <1>3 DEF RecorderInv

\* The main thread's calls and the join leave the entries where they are.
LEMMA MainThreadStep == RecorderInv /\ (Recorder!Start \/ Recorder!Stop \/ Recorder!Joined) => RecorderInv'
<1> SUFFICES ASSUME RecorderInv, Recorder!Start \/ Recorder!Stop \/ Recorder!Joined PROVE RecorderInv'
  OBVIOUS
<1> USE DEF RecorderInv, Recorder!TypeOK, Lifetime, EndedDrained, BufferRoom
<1>1. buffer' = buffer /\ UNCHANGED <<put, queue, file>>
  BY DEF Recorder!Start, Recorder!Stop, Recorder!Joined
<1>2. Recorder!InOrderAndOnce' /\ Recorder!TraceAssumption
  BY <1>1 DEF Recorder!InOrderAndOnce
<1>3. CASE Recorder!Start
  <2>1. CASE thread
    BY <1>1, <1>3, <2>1, <1>2 DEF Recorder!Start
  <2>2. CASE ~thread
    <3>1. /\ calls = 0 /\ calls' = 1 /\ stop' = FALSE /\ thread' = TRUE
          /\ writer' = "testing" /\ buffer' = <<>>
      BY <1>3, <2>2 DEF Recorder!Start
    <3>2. Recorder!TypeOK' /\ BufferRoom' /\ stop' \in BOOLEAN /\ thread' \in BOOLEAN
      <4>1. Len(buffer') <= BatchSize /\ Len(buffer') < BatchSize
        BY <1>1, <3>1
      <4>2. buffer' \in Seq(Entry)
        BY <3>1
      <4>3. stop' \in BOOLEAN /\ thread' \in BOOLEAN
        BY <3>1, Zenon
      <4>4. calls' \in 0 .. 4
        BY <3>1
      <4>5. put' \in Seq(Entry) /\ queue' \in Seq(Entry) /\ file' \in Seq(Entry)
        BY <1>1
      <4>6. writer' \in {"none", "testing", "getting", "checking", "ended"}
        BY <3>1
      <4> QED
        BY <4>1, <4>2, <4>3, <4>4, <4>5, <4>6, Zenon
    <3> QED
      BY <3>1, <3>2, <1>2
  <2> QED
    BY <2>1, <2>2
<1>4. CASE Recorder!Stop
  <2>1. CASE thread
    BY <1>1, <1>2, <1>4, <2>1 DEF Recorder!Stop
  <2>2. CASE ~thread
    <3>1. calls = 3 /\ calls' = 4 /\ UNCHANGED <<stop, thread, writer>>
      BY <1>4, <2>2 DEF Recorder!Stop
    <3> QED
      BY <1>1, <1>2, <3>1
  <2> QED
    BY <2>1, <2>2
<1>5. CASE Recorder!Joined
  <2>1. calls = 2 \/ calls = 1
    BY <1>5 DEF Recorder!Joined
  <2>2. calls = 2 /\ calls' = 3 /\ ~thread' /\ writer = "ended" /\ UNCHANGED <<stop, writer>>
    BY <1>5, <2>1 DEF Recorder!Joined
  <2>3. stop /\ queue = <<>> /\ ~thread' /\ thread' \in BOOLEAN
    BY <1>5, Zenon DEF Recorder!Joined
  <2> QED
    BY <1>1, <1>2, <2>2, <2>3
<1> QED
  BY <1>3, <1>4, <1>5

\* An entry is put behind those there are, on the queue and in the order.
LEMMA RecordStep == ASSUME RecorderInv, NEW e \in Entry, Recorder!RecordDispatch(e) PROVE RecorderInv'
<1> USE DEF RecorderInv, Recorder!TraceAssumption, Recorder!TypeOK, Lifetime, EndedDrained, BufferRoom
<1>1. put' \in Seq(Entry) /\ queue' \in Seq(Entry)
  BY AppendProperties DEF Recorder!RecordDispatch
<1>2. Recorder!InOrderAndOnce'
  <2>1. file \o buffer \in Seq(Entry) /\ <<e>> \in Seq(Entry)
    BY ConcatProperties
  <2>2. queue' = queue \o <<e>> /\ put' = put \o <<e>>
    BY AppendIsConcat DEF Recorder!RecordDispatch
  <2>3. (file \o buffer) \o (queue \o <<e>>) = ((file \o buffer) \o queue) \o <<e>>
    BY <2>1, ConcatAssociative, SMTT(40)
  <2> QED
    BY <2>2, <2>3 DEF Recorder!RecordDispatch, Recorder!InOrderAndOnce
<1> QED
  BY <1>1, <1>2 DEF Recorder!RecordDispatch

LEMMA WriterStep == RecorderInv /\ Recorder!WriterLoop => RecorderInv'
<1> SUFFICES ASSUME RecorderInv, Recorder!WriterLoop PROVE RecorderInv'
  OBVIOUS
<1> USE DEF RecorderInv, Recorder!TraceAssumption, Recorder!TypeOK, Lifetime, EndedDrained, BufferRoom
<1>1. CASE Recorder!Test
  BY <1>1 DEF Recorder!Test, Recorder!InOrderAndOnce
<1>2. CASE Recorder!Get
  <2>1. CASE queue = <<>>
    BY <1>2, <2>1 DEF Recorder!Get, Recorder!InOrderAndOnce
  <2>2. CASE queue # <<>>
    <3>1. buffer' = Append(buffer, Head(queue)) /\ queue' = Tail(queue)
      BY <1>2, <2>2 DEF Recorder!Get
    <3>2. Head(queue) \in Entry /\ queue' \in Seq(Entry)
      BY <2>2, <3>1, HeadTailProperties
    <3>3. buffer' \in Seq(Entry) /\ Len(buffer') = Len(buffer) + 1
      BY <3>1, <3>2, AppendProperties
    <3>4. Recorder!InOrderAndOnce'
      <4>1. (file \o Append(buffer, Head(queue))) \o Tail(queue) = (file \o buffer) \o queue
        <5>1. file \in Seq(Entry) /\ buffer \in Seq(Entry) /\ queue \in Seq(Entry)
          OBVIOUS
        <5> HIDE DEF RecorderInv, Recorder!TypeOK, Lifetime, EndedDrained, BufferRoom, Recorder!TraceAssumption
        <5> QED
          BY <2>2, <5>1, MoveHead
      <4>2. UNCHANGED <<put, file>> /\ (file \o buffer) \o queue = put
        BY <1>2 DEF Recorder!Get, Recorder!InOrderAndOnce
      <4> QED
        BY <4>1, <4>2, <3>1 DEF Recorder!InOrderAndOnce
    <3>5. Len(buffer) < BatchSize /\ Len(buffer) \in Nat
      BY <1>2, LenProperties DEF Recorder!Get
    <3>6. calls # 0
      BY <1>2 DEF Recorder!Get
    <3> QED
      BY <1>2, <2>2, <3>2, <3>3, <3>4, <3>5, <3>6 DEF Recorder!Get
  <2> QED
    BY <2>1, <2>2
<1>3. CASE Recorder!Flush
  <2>1. file' = file \o buffer /\ buffer' = <<>> /\ file' \in Seq(Entry)
    BY <1>3, ConcatProperties DEF Recorder!Flush
  <2>2. Recorder!InOrderAndOnce'
    BY <1>3, <2>1, ConcatEmptySeq DEF Recorder!Flush, Recorder!InOrderAndOnce
  <2> QED
    BY <1>3, <2>1, <2>2 DEF Recorder!Flush
<1>4. CASE Recorder!Hold
  BY <1>4 DEF Recorder!Hold, Recorder!InOrderAndOnce
<1> QED
  BY <1>1, <1>2, <1>3, <1>4 DEF Recorder!WriterLoop

LEMMA RecorderInductive == RecorderInv /\ [Recorder!Next]_Recorder!vars => RecorderInv'
<1>1. RecorderInv /\ UNCHANGED Recorder!vars => RecorderInv'
  BY DEF Recorder!vars, RecorderInv, Recorder!TypeOK, Lifetime, EndedDrained, BufferRoom, Recorder!InOrderAndOnce, Recorder!TraceAssumption
<1> QED
  BY <1>1, MainThreadStep, RecordStep, WriterStep DEF Recorder!Next, Recorder!Terminated

\* When all is stopped the file is what was recorded, but for the entries that
\* were in the buffer.
LEMMA RecorderKeeps == RecorderInv => Recorder!InOrderAndOnce /\ Recorder!StopLosesNoBatch
<1>1. RecorderInv => Recorder!InOrderAndOnce
  BY DEF RecorderInv
<1>2. RecorderInv => Recorder!StopLosesNoBatch
  <2> SUFFICES ASSUME RecorderInv, calls = 4
               PROVE  Recorder!IsPrefix(file, put) /\ Len(put) - Len(file) < BatchSize
    BY DEF Recorder!StopLosesNoBatch
  <2>1. queue = <<>> /\ Len(buffer) < BatchSize
    BY DEF RecorderInv, Lifetime, EndedDrained, BufferRoom
  <2>2. file \in Seq(Entry) /\ buffer \in Seq(Entry)
    BY DEF RecorderInv, Recorder!TypeOK
  <2>3. put = file \o buffer
    <3>1. file \o buffer \in Seq(Entry)
      BY <2>2, ConcatProperties
    <3> QED
      BY <2>1, <3>1, ConcatEmptySeq DEF RecorderInv, Recorder!InOrderAndOnce
  <2>4. /\ Len(file) \in Nat /\ Len(buffer) \in Nat /\ Len(put) = Len(file) + Len(buffer)
        /\ put \in Seq(Entry)
        /\ \A i \in 1 .. Len(file) : put[i] = file[i]
    BY <2>2, <2>3, ConcatProperties, LenProperties
  <2>5. SubSeq(file, 1, Len(file)) = SubSeq(put, 1, Len(file))
    BY <2>2, <2>3, <2>4
  <2>6. BatchSize \in Nat
    BY DEF RecorderInv, Recorder!TraceAssumption
  <2> QED
    BY <2>1, <2>4, <2>5, <2>6 DEF Recorder!IsPrefix
<1> QED
  BY <1>1, <1>2

-----------------------------------------------------------------------------
(* The clip cache (ClipCache): what holds while it has room for every clip *)
(* that is asked for, and what holds in any case.                          *)

HoldsAll == Cardinality(Clips!Path) <= clips.cap

ClipsTyped ==
    /\ DOMAIN clips = {"cap", "pc", "todo", "lock", "locks", "owner", "cache", "decodes"}
    /\ clips.cap \in Nat
    /\ clips.pc \in [Clips!Thread -> {"idle", "acquiring", "looking", "decoding", "releasing"}]
    /\ clips.todo \in [Clips!Thread -> Seq(Clips!Path)]
    /\ clips.lock \in [Clips!Thread -> Nat]
    /\ clips.locks \in [Clips!Path -> 0 .. Len(clips.owner)]
    /\ clips.owner \in Seq(Clips!Thread \cup {0})
    /\ clips.cache \in Seq(Clips!Path)
    /\ clips.decodes \in [Clips!Path -> Int]
    /\ \A t \in Clips!Thread : clips.pc[t] # "idle" =>
         clips.todo[t] # <<>> /\ clips.lock[t] \in 1 .. Len(clips.owner)

\* Each path has one lock object, and a thread at work the one of its path.
LocksOfPaths ==
    /\ \A p, q \in Clips!Path : p # q /\ clips.locks[p] # 0 => clips.locks[p] # clips.locks[q]
    /\ \A t \in Clips!Thread : clips.pc[t] # "idle" =>
         /\ clips.todo[t] # <<>>
         /\ clips.lock[t] = clips.locks[Clips!Asked(t)] /\ clips.lock[t] # 0
    /\ \A t \in Clips!Thread : clips.pc[t] \in {"looking", "decoding", "releasing"} =>
         clips.owner[clips.lock[t]] = t

DecodedBy(p) == {t \in Clips!Thread : clips.pc[t] = "decoding" /\ Clips!Asked(t) = p}

DecodedOnce ==
    /\ \A i, j \in 1 .. Len(clips.cache) : i # j => clips.cache[i] # clips.cache[j]
    /\ \A t \in Clips!Thread : clips.pc[t] = "decoding" => ~Clips!Cached(Clips!Asked(t))
    /\ \A p \in Clips!Path :
         clips.decodes[p] = IF Clips!Cached(p) \/ DecodedBy(p) # {} THEN 1 ELSE 0

ClipsInv ==
    /\ ClipsTyped /\ Len(clips.cache) <= clips.cap
    /\ HoldsAll => LocksOfPaths /\ DecodedOnce

LEMMA ClipsHaveSizes ==
    \A S : /\ Clips!IsFiniteSet(S) <=> IsFiniteSet(S)
          /\ Clips!Cardinality(S) = Cardinality(S)
<1>1. \A S : Clips!IsFiniteSet(S) <=> IsFiniteSet(S)
  BY DEF IsFiniteSet, Clips!IsFiniteSet
<1>2. \A S : Clips!Cardinality(S) = Cardinality(S)
  BY DEF Cardinality, Clips!Cardinality
<1> QED
  BY <1>1, <1>2

LEMMA PathsAreFinite ==
    /\ 0 \notin Clips!Thread /\ Caps \subseteq Nat
    /\ IsFiniteSet(Clips!Path) /\ Cardinality(Clips!Path) \in Nat
    /\ Asks \in [Clips!Thread -> Seq(Clips!Path)]
<1>1. /\ 0 \notin Clips!Thread /\ Caps \subseteq Nat /\ IsFiniteSet(Clips!Path)
      /\ Asks \in [Clips!Thread -> Seq(Clips!Path)]
  BY ClipsAssumption, ClipsHaveSizes DEF Clips!ClipsAssumption
<1> QED
  BY <1>1, FS_CardinalityType

LEMMA ClipsInitially == Clips!Init => ClipsInv
<1> SUFFICES ASSUME Clips!Init PROVE ClipsInv
  OBVIOUS
<1>1. PICK cap \in Caps :
        clips = [cap |-> cap, pc |-> [t \in Clips!Thread |-> "idle"], todo |-> Asks,
                 lock |-> [t \in Clips!Thread |-> 0], locks |-> [p \in Clips!Path |-> 0],
                 owner |-> <<>>, cache |-> <<>>, decodes |-> [p \in Clips!Path |-> 0]]
  BY DEF Clips!Init
<1>3. ClipsTyped
  BY <1>1, PathsAreFinite DEF ClipsTyped
<1>4. LocksOfPaths /\ DecodedOnce
  BY <1>1 DEF LocksOfPaths, DecodedOnce, DecodedBy, Clips!Cached
<1> QED
  BY <1>1, <1>3, <1>4, PathsAreFinite DEF ClipsInv, ClipsTyped

LEMMA AskedIsPath ==
    ASSUME ClipsTyped, NEW t \in Clips!Thread, clips.todo[t] # <<>>
    PROVE  Clips!Asked(t) \in Clips!Path
<1>1. clips.todo[t] \in Seq(Clips!Path)
  BY DEF ClipsTyped
<1> QED
  BY <1>1, HeadTailProperties DEF Clips!Asked

\* A path that is not cached goes to the end.
LEMMA InsertedAtEnd ==
    ASSUME ClipsTyped, NEW p \in Clips!Path
    PROVE  /\ Clips!Inserted(p) \in Seq(Clips!Path)
           /\ Len(Clips!Inserted(p)) = Len(clips.cache) + IF Clips!Cached(p) THEN 0 ELSE 1
           /\ \A i \in 1 .. Len(clips.cache) : Clips!Inserted(p)[i] = clips.cache[i]
           /\ ~Clips!Cached(p) => Clips!Inserted(p)[Len(clips.cache) + 1] = p
<1>1. clips.cache \in Seq(Clips!Path)
  BY DEF ClipsTyped
<1>2. CASE Clips!Cached(p)
  BY <1>1, <1>2, LenProperties DEF Clips!Inserted
<1>3. CASE ~Clips!Cached(p)
  BY <1>1, <1>3, AppendProperties DEF Clips!Inserted
<1> QED
  BY <1>2, <1>3

\* Beyond the cap the oldest goes, one at most.
LEMMA OneIsEvicted ==
    ASSUME ClipsTyped, Len(clips.cache) <= clips.cap, NEW p \in Clips!Path
    PROVE  LET n == Len(Clips!Inserted(p))
               k == Clips!Cardinality(Clips!Evicted(p))
           IN  /\ n \in Nat /\ n <= clips.cap + 1
               /\ IF n <= clips.cap THEN Clips!Evicted(p) = {} /\ k = 0 ELSE k = 1
<1> DEFINE n == Len(Clips!Inserted(p))
<1>1. n \in Nat /\ n <= clips.cap + 1 /\ clips.cap \in Nat
  <2>1. Len(clips.cache) \in Nat /\ clips.cap \in Nat
    BY LenProperties DEF ClipsTyped
  <2>2. n = Len(clips.cache) + IF Clips!Cached(p) THEN 0 ELSE 1
    BY InsertedAtEnd
  <2>3. n = Len(clips.cache) + 0 \/ n = Len(clips.cache) + 1
    BY <2>2
  <2> QED
    BY <2>1, <2>3
<1>2. CASE n <= clips.cap
  <2>1. Clips!Evicted(p) = {}
    BY <1>1, <1>2 DEF Clips!Evicted
  <2> QED
    BY <1>1, <1>2, <2>1, ClipsHaveSizes, FS_EmptySet
<1>3. CASE n = clips.cap + 1
  <2>1. n - clips.cap = 1
    BY <1>1, <1>3
  <2>2. Clips!Evicted(p) = {Clips!Inserted(p)[1]}
    BY <2>1 DEF Clips!Evicted
  <2>3. Clips!Cardinality(Clips!Evicted(p)) = 1
    BY <2>2, ClipsHaveSizes, FS_Singleton
  <2> QED
    BY <1>1, <1>3, <2>3
<1> QED
  BY <1>1, <1>2, <1>3

\* Paths that are all different are no more than there are.
LEMMA NoMoreThanPaths ==
    ASSUME NEW s \in Seq(Clips!Path), \A i, j \in 1 .. Len(s) : i # j => s[i] # s[j]
    PROVE  Len(s) <= Cardinality(Clips!Path)
<1>1. Len(s) \in Nat /\ Cardinality(Clips!Path) \in Nat
  BY LenProperties, PathsAreFinite
<1>2. IsFiniteSet(1 .. Len(s)) /\ Cardinality(1 .. Len(s)) = Len(s)
  <2>1. 1 \in Int /\ Len(s) \in Int
    BY <1>1
  <2>2. /\ IsFiniteSet(1 .. Len(s))
        /\ Cardinality(1 .. Len(s)) = IF 1 > Len(s) THEN 0 ELSE Len(s) - 1 + 1
    BY <2>1, FS_Interval
  <2> QED
    BY <1>1, <2>2
<1>3. s \in [1 .. Len(s) -> Clips!Path]
  BY LenProperties
<1>4. ~(Cardinality(Clips!Path) < Len(s))
  BY <1>2, <1>3, PathsAreFinite, FS_PigeonHole
<1> QED
  BY <1>1, <1>4

\* A lock that is held is the holder's only, so no other works on its path.
LEMMA HoldersAreApart ==
    ASSUME ClipsTyped, LocksOfPaths, NEW t \in Clips!Thread, NEW u \in Clips!Thread, t # u,
           clips.pc[t] \in {"looking", "decoding", "releasing"}
    PROVE  clips.pc[u] \in {"looking", "decoding", "releasing"} =>
             clips.lock[u] # clips.lock[t] /\ Clips!Asked(u) # Clips!Asked(t)
<1> SUFFICES ASSUME clips.pc[u] \in {"looking", "decoding", "releasing"}
             PROVE  clips.lock[u] # clips.lock[t] /\ Clips!Asked(u) # Clips!Asked(t)
  OBVIOUS
<1>1. clips.owner[clips.lock[t]] = t /\ clips.owner[clips.lock[u]] = u
  BY DEF LocksOfPaths
<1>2. /\ clips.lock[t] = clips.locks[Clips!Asked(t)]
      /\ clips.lock[u] = clips.locks[Clips!Asked(u)]
  BY DEF LocksOfPaths
<1> QED
  BY <1>1, <1>2

\* The paths that are cached, or being decoded, are as the counts say.
LEMMA OneDecodes ==
    ASSUME ClipsTyped, LocksOfPaths, NEW t \in Clips!Thread,
           clips.pc[t] \in {"looking", "decoding"}
    PROVE  DecodedBy(Clips!Asked(t)) = IF clips.pc[t] = "decoding" THEN {t} ELSE {}
  BY HoldersAreApart DEF DecodedBy
\* Steps that leave the cache: what is left to show when it holds all.
LEMMA CacheStays ==
    ASSUME ClipsInv, ClipsTyped', UNCHANGED <<clips.cap, clips.cache>>,
           HoldsAll /\ LocksOfPaths /\ DecodedOnce => LocksOfPaths' /\ DecodedOnce'
    PROVE  ClipsInv'
  BY DEF ClipsInv, HoldsAll

LEMMA GetLockStep ==
    ASSUME ClipsInv, NEW t \in Clips!Thread, Clips!GetLock(t)
    PROVE  ClipsInv'
<1> DEFINE p == Clips!Asked(t)
           n == Len(clips.owner)
           made == clips.locks[p] = 0
<1>1. clips.pc[t] = "idle" /\ clips.todo[t] # <<>> /\ p \in Clips!Path /\ ClipsTyped
  BY AskedIsPath DEF ClipsInv, Clips!GetLock
<1>2. /\ UNCHANGED <<clips.cap, clips.todo, clips.cache, clips.decodes>>
      /\ DOMAIN clips' = DOMAIN clips
      /\ clips'.pc = [clips.pc EXCEPT ![t] = "acquiring"]
      /\ clips'.locks = IF made THEN [clips.locks EXCEPT ![p] = n + 1] ELSE clips.locks
      /\ clips'.lock = [clips.lock EXCEPT ![t] = clips'.locks[p]]
      /\ clips'.owner = IF made THEN Append(clips.owner, 0) ELSE clips.owner
  <2>1. clips.locks \in [Clips!Path -> 0 .. n]
    BY <1>1 DEF ClipsTyped
  <2>2. CASE made
    BY <1>1, <2>1, <2>2 DEF Clips!GetLock, ClipsTyped
  <2>3. CASE ~made
    BY <1>1, <2>1, <2>3 DEF Clips!GetLock, ClipsTyped
  <2> QED
    BY <2>2, <2>3
<1>3. /\ n \in Nat /\ clips'.owner \in Seq(Clips!Thread \cup {0})
      /\ Len(clips'.owner) = n + IF made THEN 1 ELSE 0
      /\ \A k \in 1 .. n : clips'.owner[k] = clips.owner[k]
  <2>1. clips.owner \in Seq(Clips!Thread \cup {0}) /\ n \in Nat
    BY <1>1, LenProperties DEF ClipsTyped
  <2>2. CASE made
    BY <1>2, <2>1, <2>2, AppendProperties
  <2>3. CASE ~made
    BY <1>2, <2>1, <2>3
  <2> QED
    BY <2>1, <2>2, <2>3
<1> HIDE DEF p, n
<1>4. /\ clips.locks \in [Clips!Path -> 0 .. n] /\ clips.lock \in [Clips!Thread -> Nat]
      /\ clips.pc \in [Clips!Thread -> {"idle", "acquiring", "looking", "decoding", "releasing"}]
  BY <1>1 DEF ClipsTyped, n
<1>5. ClipsTyped'
  <2>1. clips'.locks \in [Clips!Path -> 0 .. Len(clips'.owner)]
    BY <1>1, <1>2, <1>3, <1>4
  <2>2. clips'.lock \in [Clips!Thread -> Nat] /\ clips'.locks[p] \in Nat
    BY <1>1, <1>2, <1>3, <1>4, <2>1
  <2>3. ASSUME NEW u \in Clips!Thread, clips'.pc[u] # "idle"
        PROVE  clips'.todo[u] # <<>> /\ clips'.lock[u] \in 1 .. Len(clips'.owner)
    <3>1. CASE u = t
      BY <1>1, <1>2, <1>3, <1>4, <3>1 DEF p
    <3>2. CASE u # t
      <4>1. clips.todo[u] # <<>> /\ clips.lock[u] \in 1 .. n
        BY <1>1, <1>2, <1>4, <2>3, <3>2 DEF ClipsTyped, n
      <4> QED
        BY <1>2, <1>3, <1>4, <3>2, <4>1
    <3> QED
      BY <3>1, <3>2
  <2> QED
    BY <1>1, <1>2, <1>3, <1>4, <2>1, <2>2, <2>3, SMTT(40) DEF ClipsTyped
<1>6. ASSUME LocksOfPaths, DecodedOnce
      PROVE  LocksOfPaths' /\ DecodedOnce'
  <2>1. /\ \A q \in Clips!Path \ {p} : clips'.locks[q] = clips.locks[q] /\ clips.locks[q] \in 0 .. n
        /\ clips'.locks[p] = IF made THEN n + 1 ELSE clips.locks[p]
        /\ clips'.locks[p] # 0
    BY <1>1, <1>2, <1>3, <1>4
  <2>2. \A q, r \in Clips!Path : q # r /\ clips'.locks[q] # 0 => clips'.locks[q] # clips'.locks[r]
    BY <1>3, <1>6, <2>1 DEF LocksOfPaths
  <2>3. \A u \in Clips!Thread \ {t} : /\ clips'.pc[u] = clips.pc[u] /\ clips'.lock[u] = clips.lock[u]
                                      /\ clips'.todo[u] = clips.todo[u]
    BY <1>2, <1>4
  <2>4. \A u \in Clips!Thread : Clips!Asked(u)' = Clips!Asked(u)
    BY <1>2 DEF Clips!Asked
  <2>5. ASSUME NEW u \in Clips!Thread, clips'.pc[u] # "idle"
        PROVE  /\ clips'.todo[u] # <<>>
               /\ clips'.lock[u] = clips'.locks[Clips!Asked(u)'] /\ clips'.lock[u] # 0
    <3>1. CASE u = t
      BY <1>1, <1>2, <1>4, <2>1, <2>4, <3>1 DEF p
    <3>2. CASE u # t
      <4>1. /\ clips.pc[u] # "idle" /\ clips.todo[u] # <<>>
            /\ clips.lock[u] = clips.locks[Clips!Asked(u)] /\ clips.lock[u] # 0
        BY <1>6, <2>3, <2>5, <3>2 DEF LocksOfPaths
      <4>2. Clips!Asked(u) \in Clips!Path
        BY <1>1, <4>1, AskedIsPath
      <4>3. clips'.locks[Clips!Asked(u)] = clips.locks[Clips!Asked(u)]
        BY <2>1, <4>1, <4>2
      <4> QED
        BY <2>3, <2>4, <3>2, <4>1, <4>3
    <3> QED
      BY <3>1, <3>2
  <2>6. ASSUME NEW u \in Clips!Thread, clips'.pc[u] \in {"looking", "decoding", "releasing"}
        PROVE  clips'.owner[clips'.lock[u]] = u
    <3>1. u # t /\ clips.pc[u] \in {"looking", "decoding", "releasing"}
      BY <1>2, <1>4, <2>3, <2>6
    <3>2. /\ clips.owner[clips.lock[u]] = u /\ clips.todo[u] # <<>>
          /\ clips.lock[u] = clips.locks[Clips!Asked(u)] /\ clips.lock[u] # 0
      BY <1>6, <3>1 DEF LocksOfPaths
    <3>3. clips.lock[u] \in 1 .. n
      BY <1>1, <1>3, <1>4, <3>2, AskedIsPath
    <3> QED
      BY <1>3, <2>3, <3>1, <3>2, <3>3
  <2>7. LocksOfPaths'
    BY <2>2, <2>5, <2>6 DEF LocksOfPaths
  <2>8. \A u \in Clips!Thread : clips'.pc[u] = "decoding" <=> clips.pc[u] = "decoding"
    BY <1>1, <1>2, <1>4
  <2>9. \A q : Clips!Cached(q)' <=> Clips!Cached(q)
    BY <1>2 DEF Clips!Cached
  <2>10. \A q : DecodedBy(q)' = DecodedBy(q)
    BY <2>4, <2>8 DEF DecodedBy
  <2>11. DecodedOnce'
    BY <1>2, <1>6, <2>4, <2>8, <2>9, <2>10 DEF DecodedOnce
  <2> QED
    BY <2>7, <2>11
<1> QED
  BY <1>2, <1>5, <1>6, CacheStays
\* Steps that leave the cache, the counts, and who decodes what.
LEMMA DecodersStay ==
    ASSUME DecodedOnce, UNCHANGED <<clips.cache, clips.decodes>>,
           \A u \in Clips!Thread :
             /\ clips'.pc[u] = "decoding" <=> clips.pc[u] = "decoding"
             /\ clips.pc[u] = "decoding" => clips'.todo[u] = clips.todo[u]
    PROVE  DecodedOnce'
<1>1. \A q : Clips!Cached(q)' <=> Clips!Cached(q)
  BY DEF Clips!Cached
<1>2. \A q : DecodedBy(q)' = DecodedBy(q)
  BY DEF DecodedBy, Clips!Asked
<1>3. \A u \in Clips!Thread : clips.pc[u] = "decoding" => Clips!Asked(u)' = Clips!Asked(u)
  BY DEF Clips!Asked
<1> QED
  BY <1>1, <1>2, <1>3 DEF DecodedOnce

LEMMA AcquireStep ==
    ASSUME ClipsInv, NEW t \in Clips!Thread, Clips!Acquire(t)
    PROVE  ClipsInv'
<1> DEFINE k == clips.lock[t]
           n == Len(clips.owner)
<1>1. ClipsTyped /\ clips.pc[t] = "acquiring" /\ clips.owner[k] = 0
  BY DEF ClipsInv, Clips!Acquire
<1>2. /\ UNCHANGED <<clips.cap, clips.todo, clips.lock, clips.locks, clips.cache, clips.decodes>>
      /\ DOMAIN clips' = DOMAIN clips
      /\ clips'.pc = [clips.pc EXCEPT ![t] = "looking"]
      /\ clips'.owner = [clips.owner EXCEPT ![k] = t]
  BY <1>1 DEF Clips!Acquire, ClipsTyped
<1>3. /\ clips.pc \in [Clips!Thread -> {"idle", "acquiring", "looking", "decoding", "releasing"}]
      /\ clips.owner \in Seq(Clips!Thread \cup {0}) /\ n \in Nat
      /\ clips.locks \in [Clips!Path -> 0 .. n] /\ clips.lock \in [Clips!Thread -> Nat]
  BY <1>1, LenProperties DEF ClipsTyped
<1>0. k \in 1 .. n
  BY <1>1 DEF ClipsTyped
<1>4. clips'.owner \in Seq(Clips!Thread \cup {0}) /\ Len(clips'.owner) = n
  BY <1>0, <1>2, <1>3, ExceptSeq
<1> HIDE DEF k, n
<1>5. ClipsTyped'
  <2>1. \A u \in Clips!Thread : clips'.pc[u] # "idle" => clips.pc[u] # "idle"
    BY <1>1, <1>2, <1>3
  <2>2. \A u \in Clips!Thread : clips'.pc[u] # "idle" =>
          clips'.todo[u] # <<>> /\ clips'.lock[u] \in 1 .. Len(clips'.owner)
    BY <1>1, <1>2, <1>4, <2>1 DEF ClipsTyped, n
  <2>3. clips'.pc \in [Clips!Thread -> {"idle", "acquiring", "looking", "decoding", "releasing"}]
    BY <1>2, <1>3
  <2> QED
    BY <1>1, <1>2, <1>3, <1>4, <2>2, <2>3 DEF ClipsTyped, n
<1>6. ASSUME LocksOfPaths, DecodedOnce
      PROVE  LocksOfPaths' /\ DecodedOnce'
  <2>1. /\ clips.todo[t] # <<>> /\ k = clips.locks[Clips!Asked(t)] /\ k # 0
    BY <1>1, <1>6 DEF LocksOfPaths, k
  <2>2. k \in 1 .. n
    BY <1>1, <1>3, <2>1, AskedIsPath
  <2>3. /\ clips'.owner[k] = t
        /\ \A i \in 1 .. n : i # k => clips'.owner[i] = clips.owner[i]
    BY <1>2, <1>3, <2>2 DEF n
  <2>4. \A u \in Clips!Thread : Clips!Asked(u)' = Clips!Asked(u)
    BY <1>2 DEF Clips!Asked
  <2>5. ASSUME NEW u \in Clips!Thread, clips'.pc[u] \in {"looking", "decoding", "releasing"}
        PROVE  clips'.owner[clips'.lock[u]] = u
    <3>1. CASE u = t
      BY <1>2, <2>3, <3>1 DEF k
    <3>2. CASE u # t
      <4>1. clips.pc[u] \in {"looking", "decoding", "releasing"}
        BY <1>2, <1>3, <2>5, <3>2
      <4>2. /\ clips.owner[clips.lock[u]] = u /\ clips.todo[u] # <<>>
            /\ clips.lock[u] = clips.locks[Clips!Asked(u)] /\ clips.lock[u] # 0
        BY <1>6, <4>1 DEF LocksOfPaths
      <4>3. clips.lock[u] \in 1 .. n
        BY <1>1, <1>3, <4>2, AskedIsPath
      <4>4. clips.lock[u] # k
        BY <1>1, <4>2, PathsAreFinite
      <4> QED
        BY <1>2, <2>3, <4>2, <4>3, <4>4
    <3> QED
      BY <3>1, <3>2
  <2>6. \A u \in Clips!Thread : clips'.pc[u] # "idle" => clips.pc[u] # "idle"
    BY <1>1, <1>2, <1>3
  <2>7. LocksOfPaths'
    BY <1>2, <1>6, <2>4, <2>5, <2>6 DEF LocksOfPaths
  <2>8. \A u \in Clips!Thread : clips'.pc[u] = "decoding" <=> clips.pc[u] = "decoding"
    BY <1>1, <1>2, <1>3
  <2>9. DecodedOnce'
    BY <1>2, <1>6, <2>8, DecodersStay
  <2> QED
    BY <2>7, <2>9
<1> QED
  BY <1>2, <1>5, <1>6, CacheStays

LEMMA ReleaseStep ==
    ASSUME ClipsInv, NEW t \in Clips!Thread, Clips!Release(t)
    PROVE  ClipsInv'
<1> DEFINE k == clips.lock[t]
           n == Len(clips.owner)
<1>1. ClipsTyped /\ clips.pc[t] = "releasing"
  BY DEF ClipsInv, Clips!Release
<1>2. /\ UNCHANGED <<clips.cap, clips.locks, clips.cache, clips.decodes>>
      /\ DOMAIN clips' = DOMAIN clips
      /\ clips'.pc = [clips.pc EXCEPT ![t] = "idle"]
      /\ clips'.owner = [clips.owner EXCEPT ![k] = 0]
      /\ clips'.lock = [clips.lock EXCEPT ![t] = 0]
      /\ clips'.todo = [clips.todo EXCEPT ![t] = Tail(clips.todo[t])]
  BY <1>1 DEF Clips!Release, ClipsTyped
<1>3. /\ clips.pc \in [Clips!Thread -> {"idle", "acquiring", "looking", "decoding", "releasing"}]
      /\ clips.owner \in Seq(Clips!Thread \cup {0}) /\ n \in Nat
      /\ clips.locks \in [Clips!Path -> 0 .. n] /\ clips.lock \in [Clips!Thread -> Nat]
      /\ clips.todo \in [Clips!Thread -> Seq(Clips!Path)]
  BY <1>1, LenProperties DEF ClipsTyped
<1>0. k \in 1 .. n
  BY <1>1 DEF ClipsTyped
<1>4. clips'.owner \in Seq(Clips!Thread \cup {0}) /\ Len(clips'.owner) = n
  BY <1>0, <1>2, <1>3, ExceptSeq
<1> HIDE DEF k, n
<1>6. ASSUME LocksOfPaths, DecodedOnce
      PROVE  LocksOfPaths' /\ DecodedOnce'
  <2>1. \A u \in Clips!Thread \ {t} :
          /\ clips'.pc[u] = clips.pc[u] /\ clips'.lock[u] = clips.lock[u]
          /\ clips'.todo[u] = clips.todo[u] /\ Clips!Asked(u)' = Clips!Asked(u)
    BY <1>2, <1>3 DEF Clips!Asked
  <2>2. clips'.pc[t] = "idle"
    BY <1>2, <1>3
  <2>3. ASSUME NEW u \in Clips!Thread, clips'.pc[u] \in {"looking", "decoding", "releasing"}
        PROVE  clips'.owner[clips'.lock[u]] = u
    <3>1. u # t /\ clips.pc[u] \in {"looking", "decoding", "releasing"}
      BY <2>1, <2>2, <2>3
    <3>2. clips.lock[u] # k
      BY <1>1, <1>6, <3>1, HoldersAreApart DEF k
    <3>3. /\ clips.owner[clips.lock[u]] = u /\ clips.todo[u] # <<>>
          /\ clips.lock[u] = clips.locks[Clips!Asked(u)] /\ clips.lock[u] # 0
      BY <1>6, <3>1 DEF LocksOfPaths
    <3>4. clips.lock[u] \in 1 .. n
      BY <1>1, <1>3, <3>3, AskedIsPath
    <3> QED
      BY <1>2, <1>3, <2>1, <3>1, <3>2, <3>3, <3>4 DEF n
  <2>4. LocksOfPaths'
    BY <1>2, <1>6, <2>1, <2>2, <2>3 DEF LocksOfPaths
  <2>5. DecodedOnce'
    BY <1>1, <1>2, <1>6, <2>1, <2>2, DecodersStay
  <2> QED
    BY <2>4, <2>5
<1>8. ClipsTyped'
  <2>1. Tail(clips.todo[t]) \in Seq(Clips!Path)
    <3>1. clips.todo[t] # <<>> /\ clips.todo[t] \in Seq(Clips!Path)
      BY <1>1 DEF ClipsTyped
    <3> QED
      BY <3>1, HeadTailProperties
  <2>2. /\ clips'.todo \in [Clips!Thread -> Seq(Clips!Path)]
        /\ clips'.lock \in [Clips!Thread -> Nat]
        /\ clips'.pc \in [Clips!Thread -> {"idle", "acquiring", "looking", "decoding", "releasing"}]
    BY <1>2, <1>3, <2>1
  <2>3. \A u \in Clips!Thread : clips'.pc[u] # "idle" =>
          clips.pc[u] # "idle" /\ clips'.todo[u] = clips.todo[u] /\ clips'.lock[u] = clips.lock[u]
    BY <1>2, <1>3
  <2>4. \A u \in Clips!Thread : clips'.pc[u] # "idle" =>
          clips'.todo[u] # <<>> /\ clips'.lock[u] \in 1 .. Len(clips'.owner)
    BY <1>1, <1>4, <2>3 DEF ClipsTyped, n
  <2> QED
    BY <1>1, <1>2, <1>3, <1>4, <2>2, <2>4 DEF ClipsTyped, n
<1> QED
  BY <1>2, <1>6, <1>8, CacheStays

\* A thread that holds its clip's lock goes on: who holds what, and who else
\* decodes what, stays.
LEMMA HolderGoesOn ==
    ASSUME ClipsTyped, LocksOfPaths, NEW t \in Clips!Thread,
           clips.pc[t] \in {"looking", "decoding"},
           NEW x \in {"decoding", "releasing"}, clips'.pc = [clips.pc EXCEPT ![t] = x],
           UNCHANGED <<clips.todo, clips.lock, clips.locks, clips.owner>>
    PROVE  /\ LocksOfPaths'
           /\ \A u \in Clips!Thread :
                /\ Clips!Asked(u)' = Clips!Asked(u)
                /\ u # t => clips'.pc[u] = clips.pc[u]
                /\ u # t /\ clips.pc[u] = "decoding" => Clips!Asked(u) # Clips!Asked(t)
           /\ \A q \in Clips!Path :
                DecodedBy(q)' = IF q # Clips!Asked(t) THEN DecodedBy(q)
                                ELSE IF x = "decoding" THEN {t} ELSE {}
<1>1. clips.pc \in [Clips!Thread -> {"idle", "acquiring", "looking", "decoding", "releasing"}]
  BY DEF ClipsTyped
<1>2. \A u \in Clips!Thread : /\ Clips!Asked(u)' = Clips!Asked(u)
                              /\ clips'.pc[u] = IF u = t THEN x ELSE clips.pc[u]
  BY <1>1 DEF Clips!Asked
<1>3. LocksOfPaths'
  BY <1>2 DEF LocksOfPaths
<1>4. \A u \in Clips!Thread : u # t /\ clips.pc[u] = "decoding" => Clips!Asked(u) # Clips!Asked(t)
  BY HoldersAreApart
<1>5. \A q \in Clips!Path :
        DecodedBy(q)' = IF q # Clips!Asked(t) THEN DecodedBy(q)
                        ELSE IF x = "decoding" THEN {t} ELSE {}
  BY <1>2, <1>4 DEF DecodedBy
<1> QED
  BY <1>2, <1>3, <1>4, <1>5

\* Its step keeps the types.
LEMMA HolderIsTyped ==
    ASSUME ClipsTyped, NEW t \in Clips!Thread, clips.pc[t] \in {"looking", "decoding"},
           NEW x \in {"decoding", "releasing"}, clips'.pc = [clips.pc EXCEPT ![t] = x],
           UNCHANGED <<clips.cap, clips.todo, clips.lock, clips.owner>>, DOMAIN clips' = DOMAIN clips,
           clips'.locks \in [Clips!Path -> 0 .. Len(clips.owner)],
           clips'.cache \in Seq(Clips!Path), clips'.decodes \in [Clips!Path -> Int]
    PROVE  ClipsTyped'
<1>1. clips.pc \in [Clips!Thread -> {"idle", "acquiring", "looking", "decoding", "releasing"}]
  BY DEF ClipsTyped
<1>2. \A u \in Clips!Thread : clips'.pc[u] # "idle" => clips.pc[u] # "idle"
  BY <1>1
<1>3. clips'.pc \in [Clips!Thread -> {"idle", "acquiring", "looking", "decoding", "releasing"}]
  BY <1>1
<1> QED
  BY <1>2, <1>3 DEF ClipsTyped

LEMMA LookUpStep ==
    ASSUME ClipsInv, NEW t \in Clips!Thread, Clips!LookUp(t)
    PROVE  ClipsInv'
<1> DEFINE p == Clips!Asked(t)
<1>1. /\ ClipsTyped /\ clips.pc[t] = "looking" /\ clips.todo[t] # <<>>
      /\ clips.decodes \in [Clips!Path -> Int]
  BY DEF ClipsInv, ClipsTyped, Clips!LookUp
<1>2. p \in Clips!Path
  BY <1>1, AskedIsPath
<1>3. CASE Clips!Cached(p)
  <2>1. /\ UNCHANGED <<clips.cap, clips.todo, clips.lock, clips.locks, clips.owner, clips.cache,
                       clips.decodes>>
        /\ DOMAIN clips' = DOMAIN clips
        /\ clips'.pc = [clips.pc EXCEPT ![t] = "releasing"]
    BY <1>1, <1>3 DEF Clips!LookUp, ClipsTyped
  <2> HIDE DEF p
  <2>2. ClipsTyped'
    <3>1. /\ clips.cache \in Seq(Clips!Path) /\ clips.locks \in [Clips!Path -> 0 .. Len(clips.owner)]
      BY <1>1 DEF ClipsTyped
    <3> QED
      BY <1>1, <2>1, <3>1, HolderIsTyped
  <2>3. ASSUME LocksOfPaths, DecodedOnce PROVE LocksOfPaths' /\ DecodedOnce'
    <3>1. LocksOfPaths' /\ \A u \in Clips!Thread : u # t => clips'.pc[u] = clips.pc[u]
      BY <1>1, <2>1, <2>3, HolderGoesOn
    <3>2. clips'.pc[t] = "releasing"
      BY <1>1, <2>1 DEF ClipsTyped
    <3> QED
      BY <1>1, <2>1, <2>3, <3>1, <3>2, DecodersStay
  <2> QED
    BY <2>1, <2>2, <2>3, CacheStays
<1>4. CASE ~Clips!Cached(p)
  <2>1. /\ UNCHANGED <<clips.cap, clips.todo, clips.lock, clips.locks, clips.owner, clips.cache>>
        /\ DOMAIN clips' = DOMAIN clips
        /\ clips'.pc = [clips.pc EXCEPT ![t] = "decoding"]
        /\ clips'.decodes = [clips.decodes EXCEPT ![p] = clips.decodes[p] + 1]
    BY <1>1, <1>4 DEF Clips!LookUp, ClipsTyped
  <2> HIDE DEF p
  <2>2. ClipsTyped'
    <3>1. /\ clips.cache \in Seq(Clips!Path) /\ clips.locks \in [Clips!Path -> 0 .. Len(clips.owner)]
          /\ clips'.decodes \in [Clips!Path -> Int]
      BY <1>1, <1>2, <2>1 DEF ClipsTyped
    <3> QED
      BY <1>1, <2>1, <3>1, HolderIsTyped
  <2>3. ASSUME LocksOfPaths, DecodedOnce PROVE LocksOfPaths' /\ DecodedOnce'
    <3>1. /\ LocksOfPaths'
          /\ \A u \in Clips!Thread : /\ Clips!Asked(u)' = Clips!Asked(u)
                                     /\ u # t => clips'.pc[u] = clips.pc[u]
          /\ \A q \in Clips!Path : DecodedBy(q)' = IF q # p THEN DecodedBy(q) ELSE {t}
      BY <1>1, <2>1, <2>3, HolderGoesOn, ZenonT(60) DEF p
    <3>2. \A q : Clips!Cached(q)' <=> Clips!Cached(q)
      BY <2>1 DEF Clips!Cached
    <3>3. clips.decodes[p] = 0
      <4>1. DecodedBy(p) = {}
        BY <1>1, <2>3, OneDecodes DEF p
      <4> QED
        BY <1>2, <1>4, <2>3, <4>1 DEF DecodedOnce
    <3>4. \A q \in Clips!Path : clips'.decodes[q] = IF q = p THEN 1 ELSE clips.decodes[q]
      BY <1>1, <1>2, <2>1, <3>3
    <3>5. \A q \in Clips!Path :
            clips'.decodes[q] = IF Clips!Cached(q)' \/ DecodedBy(q)' # {} THEN 1 ELSE 0
      BY <1>4, <2>3, <3>1, <3>2, <3>4 DEF DecodedOnce
    <3>6. \A u \in Clips!Thread : clips'.pc[u] = "decoding" => ~Clips!Cached(Clips!Asked(u))'
      <4>1. \A u \in Clips!Thread : clips'.pc[u] = "decoding" => ~Clips!Cached(Clips!Asked(u))
        BY <1>4, <2>3, <3>1 DEF DecodedOnce, p
      <4> QED
        BY <2>1, <3>1, <4>1 DEF Clips!Cached
    <3>7. \A i, j \in 1 .. Len(clips'.cache) : i # j => clips'.cache[i] # clips'.cache[j]
      BY <2>1, <2>3 DEF DecodedOnce
    <3> QED
      BY <3>1, <3>5, <3>6, <3>7 DEF DecodedOnce
  <2> QED
    BY <2>1, <2>2, <2>3, CacheStays
<1> QED
  BY <1>3, <1>4

LEMMA DecodeFailsStep ==
    ASSUME ClipsInv, NEW t \in Clips!Thread, Clips!DecodeFails(t)
    PROVE  ClipsInv'
<1> DEFINE p == Clips!Asked(t)
<1>1. /\ ClipsTyped /\ clips.pc[t] = "decoding" /\ clips.todo[t] # <<>>
      /\ clips.decodes \in [Clips!Path -> Int]
  BY DEF ClipsInv, ClipsTyped, Clips!DecodeFails
<1>2. p \in Clips!Path
  BY <1>1, AskedIsPath
<1>3. /\ UNCHANGED <<clips.cap, clips.todo, clips.lock, clips.locks, clips.owner, clips.cache>>
      /\ DOMAIN clips' = DOMAIN clips
      /\ clips'.pc = [clips.pc EXCEPT ![t] = "releasing"]
      /\ clips'.decodes = [clips.decodes EXCEPT ![p] = clips.decodes[p] - 1]
  BY <1>1 DEF Clips!DecodeFails, ClipsTyped
<1> HIDE DEF p
<1>4. ClipsTyped'
  <2>1. /\ clips.cache \in Seq(Clips!Path) /\ clips.locks \in [Clips!Path -> 0 .. Len(clips.owner)]
        /\ clips'.decodes \in [Clips!Path -> Int]
    BY <1>1, <1>2, <1>3 DEF ClipsTyped
  <2> QED
    BY <1>1, <1>3, <2>1, HolderIsTyped
<1>5. ASSUME LocksOfPaths, DecodedOnce PROVE LocksOfPaths' /\ DecodedOnce'
  <2>1. /\ LocksOfPaths'
        /\ \A u \in Clips!Thread : /\ Clips!Asked(u)' = Clips!Asked(u)
                                   /\ u # t => clips'.pc[u] = clips.pc[u]
        /\ \A q \in Clips!Path : DecodedBy(q)' = IF q # p THEN DecodedBy(q) ELSE {}
    BY <1>1, <1>3, <1>5, HolderGoesOn, ZenonT(60) DEF p
  <2>2. \A q : Clips!Cached(q)' <=> Clips!Cached(q)
    BY <1>3 DEF Clips!Cached
  <2>3. clips.decodes[p] = 1 /\ ~Clips!Cached(p)
    <3>1. DecodedBy(p) = {t}
      BY <1>1, <1>5, OneDecodes DEF p
    <3> QED
      BY <1>1, <1>2, <1>5, <3>1 DEF DecodedOnce, p
  <2>4. \A q \in Clips!Path : clips'.decodes[q] = IF q = p THEN 0 ELSE clips.decodes[q]
    BY <1>1, <1>2, <1>3, <2>3
  <2>5. \A q \in Clips!Path :
          clips'.decodes[q] = IF Clips!Cached(q)' \/ DecodedBy(q)' # {} THEN 1 ELSE 0
    BY <1>5, <2>1, <2>2, <2>3, <2>4 DEF DecodedOnce
  <2>6. clips'.pc[t] = "releasing"
    BY <1>1, <1>3 DEF ClipsTyped
  <2>7. \A u \in Clips!Thread : clips'.pc[u] = "decoding" => ~Clips!Cached(Clips!Asked(u))'
    <3>1. \A u \in Clips!Thread : clips'.pc[u] = "decoding" => ~Clips!Cached(Clips!Asked(u))
      BY <1>5, <2>1, <2>6, SMTT(40) DEF DecodedOnce
    <3> QED
      BY <1>3, <2>1, <3>1 DEF Clips!Cached
  <2>8. \A i, j \in 1 .. Len(clips'.cache) : i # j => clips'.cache[i] # clips'.cache[j]
    BY <1>3, <1>5 DEF DecodedOnce
  <2> QED
    BY <2>1, <2>5, <2>7, <2>8 DEF DecodedOnce
<1> QED
  BY <1>3, <1>4, <1>5, CacheStays

LEMMA StoreStep ==
    ASSUME ClipsInv, NEW t \in Clips!Thread, Clips!Store(t)
    PROVE  ClipsInv'
<1> DEFINE p == Clips!Asked(t)
           ins == Clips!Inserted(p)
           n == Len(ins)
           k == Clips!Cardinality(Clips!Evicted(p))
<1>1. /\ ClipsTyped /\ clips.pc[t] = "decoding" /\ clips.todo[t] # <<>>
      /\ clips.cap \in Nat /\ Len(clips.cache) <= clips.cap /\ clips.cache \in Seq(Clips!Path)
      /\ clips.locks \in [Clips!Path -> 0 .. Len(clips.owner)]
      /\ clips.decodes \in [Clips!Path -> Int]
  BY DEF ClipsInv, ClipsTyped, Clips!Store
<1>2. p \in Clips!Path
  BY <1>1, AskedIsPath
<1>3. /\ UNCHANGED <<clips.cap, clips.todo, clips.lock, clips.owner, clips.decodes>>
      /\ DOMAIN clips' = DOMAIN clips
      /\ clips'.pc = [clips.pc EXCEPT ![t] = "releasing"]
      /\ clips'.cache = SubSeq(ins, k + 1, n)
      /\ clips'.locks = Clips!LocksAfter(p)
  BY <1>1 DEF Clips!Store, ClipsTyped
<1>4. /\ n \in Nat /\ n <= clips.cap + 1
      /\ IF n <= clips.cap THEN Clips!Evicted(p) = {} /\ k = 0 ELSE k = 1
  BY <1>1, <1>2, OneIsEvicted
<1>5. ins \in Seq(Clips!Path)
  BY <1>1, <1>2, InsertedAtEnd
<1>6. clips'.cache \in Seq(Clips!Path) /\ Len(clips'.cache) <= clips'.cap
  <2>1. k + 1 \in 1 .. n + 1
    BY <1>1, <1>4
  <2>2. \A i \in k + 1 .. n : ins[i] \in Clips!Path
    BY <1>4, <1>5, LenProperties
  <2>3. /\ SubSeq(ins, k + 1, n) \in Seq(Clips!Path)
        /\ Len(SubSeq(ins, k + 1, n)) = IF k + 1 <= n THEN n - (k + 1) + 1 ELSE 0
    <3> HIDE DEF ins, n, k
    <3>1. k + 1 \in Int /\ n \in Int
      BY <1>4
    <3> QED
      BY <1>5, <2>2, <3>1, SubSeqProperties DEF n
  <2> HIDE DEF ins, n, k
  <2> QED
    BY <1>1, <1>3, <1>4, <2>3
<1>7. clips'.locks \in [Clips!Path -> 0 .. Len(clips.owner)]
  <2>1. \A e \in Clips!Path : clips.locks[e] \in 0 .. Len(clips.owner) /\ 0 \in 0 .. Len(clips.owner)
    BY <1>1
  <2> QED
    BY <1>3, <2>1 DEF Clips!LocksAfter
<1>8. ClipsTyped'
  <2> HIDE DEF p, ins, n, k
  <2> QED
    BY <1>1, <1>3, <1>6, <1>7, HolderIsTyped
<1>9. ASSUME HoldsAll, LocksOfPaths, DecodedOnce PROVE LocksOfPaths' /\ DecodedOnce'
  <2>1. ~Clips!Cached(p)
    BY <1>1, <1>9 DEF DecodedOnce
  <2>2. /\ n = Len(clips.cache) + 1
        /\ \A i \in 1 .. Len(clips.cache) : ins[i] = clips.cache[i]
        /\ ins[Len(clips.cache) + 1] = p
    BY <1>1, <1>2, <2>1, InsertedAtEnd
  <2> HIDE DEF p, ins, n, k
  <2>3. Len(clips.cache) \in Nat
    BY <1>1, LenProperties
  <2>4. \A i \in 1 .. n : i \in 1 .. Len(clips.cache) \/ i = Len(clips.cache) + 1
    BY <2>2, <2>3
  <2>5. \A i \in 1 .. Len(clips.cache) : clips.cache[i] # p
    BY <1>1, <2>1 DEF Clips!Cached
  <2>6. \A i, j \in 1 .. n : i # j => ins[i] # ins[j]
    BY <1>9, <2>2, <2>4, <2>5 DEF DecodedOnce
  <2>7. n <= clips.cap
    <3>1. n <= Cardinality(Clips!Path)
      BY <1>5, <2>6, NoMoreThanPaths DEF n
    <3> QED
      BY <1>1, <1>4, <1>9, <3>1, PathsAreFinite DEF HoldsAll
  <2>8. clips'.cache = ins
    <3>1. Clips!Evicted(p) = {} /\ k = 0
      BY <1>4, <2>7
    <3>2. SubSeq(ins, 1, n) = ins
      BY <1>5 DEF n
    <3> QED
      BY <1>3, <3>1, <3>2
  <2>9. clips'.locks = clips.locks
    <3>1. Clips!Evicted(p) = {}
      BY <1>4, <2>7
    <3>2. clips'.locks = [e \in Clips!Path |-> clips.locks[e]]
      BY <1>3, <3>1 DEF Clips!LocksAfter
    <3> QED
      BY <1>1, <3>2
  <2>10. /\ LocksOfPaths'
         /\ \A u \in Clips!Thread :
              /\ Clips!Asked(u)' = Clips!Asked(u)
              /\ u # t => clips'.pc[u] = clips.pc[u]
              /\ u # t /\ clips.pc[u] = "decoding" => Clips!Asked(u) # p
         /\ \A q \in Clips!Path : DecodedBy(q)' = IF q # p THEN DecodedBy(q) ELSE {}
    BY <1>1, <1>3, <1>9, <2>9, HolderGoesOn DEF p
  <2>11. \A q : (\E i \in DOMAIN clips'.cache : clips'.cache[i] = q) <=> Clips!Cached(q) \/ q = p
    <3>1. DOMAIN clips'.cache = 1 .. n /\ DOMAIN clips.cache = 1 .. Len(clips.cache)
      BY <1>1, <1>5, <2>8, LenProperties DEF n
    <3>2. \A q : Clips!Cached(q) <=> \E i \in 1 .. Len(clips.cache) : clips.cache[i] = q
      BY <3>1 DEF Clips!Cached
    <3>3. Len(clips.cache) + 1 \in 1 .. n /\ \A i \in 1 .. Len(clips.cache) : i \in 1 .. n
      BY <2>2, <2>3
    <3> QED
      BY <2>2, <2>4, <2>8, <3>1, <3>2, <3>3
  <2>12. clips.decodes[p] = 1
    <3>1. DecodedBy(p) = {t}
      BY <1>1, <1>9, OneDecodes DEF p
    <3> QED
      BY <1>2, <1>9, <3>1 DEF DecodedOnce
  <2>13. \A q \in Clips!Path :
           clips'.decodes[q] = IF Clips!Cached(q)' \/ DecodedBy(q)' # {} THEN 1 ELSE 0
    <3>1. \A q : Clips!Cached(q)' <=> Clips!Cached(q) \/ q = p
      BY <2>11 DEF Clips!Cached
    <3> QED
      BY <1>3, <1>9, <2>10, <2>12, <3>1 DEF DecodedOnce
  <2>14. \A u \in Clips!Thread : clips'.pc[u] = "decoding" => ~Clips!Cached(Clips!Asked(u))'
    <3>1. clips'.pc[t] = "releasing"
      BY <1>1, <1>3 DEF ClipsTyped
    <3>2. \A u \in Clips!Thread : clips'.pc[u] = "decoding" =>
            ~Clips!Cached(Clips!Asked(u)) /\ Clips!Asked(u) # p
      BY <1>9, <2>10, <3>1 DEF DecodedOnce
    <3> QED
      BY <2>10, <2>11, <3>2 DEF Clips!Cached
  <2>15. \A i, j \in 1 .. Len(clips'.cache) : i # j => clips'.cache[i] # clips'.cache[j]
    BY <2>6, <2>8 DEF n
  <2> QED
    BY <2>10, <2>13, <2>14, <2>15 DEF DecodedOnce
<1>10. HoldsAll' <=> HoldsAll
  BY <1>3 DEF HoldsAll
<1> QED
  BY <1>6, <1>8, <1>9, <1>10 DEF ClipsInv

LEMMA ClipsInductive == ClipsInv /\ [Clips!Next]_clips => ClipsInv'
<1>1. CASE UNCHANGED clips
  <2>1. ClipsTyped => ClipsTyped'
    BY <1>1 DEF ClipsTyped
  <2>2. LocksOfPaths => LocksOfPaths'
    BY <1>1 DEF LocksOfPaths, Clips!Asked
  <2>3. DecodedOnce => DecodedOnce'
    BY <1>1, DecodersStay
  <2> QED
    BY <1>1, <2>1, <2>2, <2>3 DEF ClipsInv, HoldsAll
<1>2. CASE Clips!Next
  BY <1>2, GetLockStep, AcquireStep, LookUpStep, DecodeFailsStep, StoreStep, ReleaseStep
  DEF Clips!Next, Clips!Step
<1> QED
  BY <1>1, <1>2

LEMMA HerdFollows == ClipsInv => Clips!HerdDecodesOnce
<1> SUFFICES ASSUME ClipsInv PROVE Clips!HerdDecodesOnce
  OBVIOUS
<1>1. ASSUME HoldsAll PROVE Clips!OneDecoder /\ \A p \in Clips!Path : clips.decodes[p] <= 1
  <2>1. ClipsTyped /\ LocksOfPaths /\ DecodedOnce
    BY <1>1 DEF ClipsInv
  <2>2. Clips!OneDecoder
    BY <2>1, HoldersAreApart DEF Clips!OneDecoder
  <2>3. \A p \in Clips!Path : clips.decodes[p] = 0 \/ clips.decodes[p] = 1
    BY <2>1 DEF DecodedOnce
  <2> QED
    BY <2>2, <2>3
<1> QED
  BY <1>1, ClipsHaveSizes DEF ClipsInv, HoldsAll, Clips!HerdDecodesOnce

-----------------------------------------------------------------------------
(* The parts together.                                                     *)

\* A step of the whole is a step of the part that the behaviour is of.
LEMMA OnlyItsPart ==
    ASSUME [PartsNext]_allVars
    PROVE  /\ part' = part
           /\ part = "manager" => [Next]_vars
           /\ part # "manager" => UNCHANGED vars
           /\ part = "sweep" => [Sweep!Next]_sweep
           /\ part = "stt" => [Stt!Next]_stt
           /\ part = "tts" => [Tts!Next]_tts
           /\ part = "metrics" => [Metrics!Next]_metrics
           /\ part = "recorder" => [Recorder!Next]_Recorder!vars
           /\ part = "clips" => [Clips!Next]_clips
  BY DEF PartsNext, OthersRest, allVars, managerVars, recorderVars, Recorder!vars

\* No GPU is free and held, or held by two jobs, however the threads that wait
\* look and allocate, and whatever hosts are added meanwhile or added again; but
\* for the GPUs of hosts that were added again while a job held some of them.
THEOREM EveryGpuHasOneOwner == PartsSpec => []OneOwner
<1> DEFINE Owned == IF part = "manager" THEN OwnersInv ELSE OneOwner
<1>1. PartsInit => Owned
  <2>1. ManagerRests => OneOwner
    BY DEF ManagerRests, OneOwner
  <2> QED
    BY <2>1, InitOwners DEF PartsInit
<1>2. Owned /\ [PartsNext]_allVars => Owned'
  <2>1. OneOwner /\ UNCHANGED vars => OneOwner'
    BY DEF OneOwner, OnOverwritten, GPUsOf, vars
  <2> QED
    BY <2>1, NextOwners, OnlyItsPart
<1>3. Owned => OneOwner
  BY DEF OwnersInv
<1> QED
  BY <1>1, <1>2, <1>3, PTL DEF PartsSpec

\* A job has what it asked for, on one node if one node could serve it, and
\* side by side if it asked for that and the node had a run, whatever was taken
\* since the manager last looked.
THEOREM GrantsAreBest == PartsSpec => GrantIsBest
<1> DEFINE Owned == part = "manager" => OwnersInv /\ NodesApart
<1>1. PartsInit => Owned
  <2>1. Init => NodesApart
    BY DEF Init, NodesApart
  <2> QED
    BY <2>1, InitOwners DEF PartsInit
<1>2. Owned /\ [PartsNext]_allVars => Owned'
  BY NextOwners, NodesStayApart, OnlyItsPart
<1>3. Owned /\ [PartsNext]_allVars => [Suited]_vars
  BY GrantsSuit, ManagerAssumption, OnlyItsPart
<1> QED
  BY <1>1, <1>2, <1>3, PTL DEF PartsSpec, GrantIsBest

\* However the starts, benchmarks and stops of a sweep fail, an engine gives
\* its GPUs back and keeps no handle; unless a process outlived SIGKILL nothing
\* of it runs and no log is open.
THEOREM SweepLeavesNothing == PartsSpec => [](part = "sweep" => Sweep!NothingLeftBehind)
<1> DEFINE Kept == part = "sweep" => SweepInv
<1>1. PartsInit => Kept
  BY SweepInitially DEF PartsInit
<1>2. Kept /\ [PartsNext]_allVars => Kept'
  BY SweepInductive, OnlyItsPart
<1>3. Kept => (part = "sweep" => Sweep!NothingLeftBehind)
  BY DEF SweepInv
<1> QED
  BY <1>1, <1>2, <1>3, PTL DEF PartsSpec

\* Both callbacks of a speech-to-text request come before its result, once, for
\* any provider and any end of the stream, and its two notions of a first text
\* agree.  While the clip cache has room for every clip that is asked for, no
\* two threads decode the same clip at the same time, and none decodes one again
\* unless its decoding failed; the cache never outgrows its cap.
THEOREM Transcription == PartsSpec => []TranscriptionIsSound
<1> DEFINE Kept == /\ part = "stt" => SttInv /\ TextTimed(stt)
                   /\ part = "clips" => ClipsInv
<1>1. PartsInit => Kept
  BY SttInitially, TextInitially, ClipsInitially DEF PartsInit
<1>2. Kept /\ [PartsNext]_allVars => Kept'
  BY SttInductive, TextInductive, ClipsInductive, OnlyItsPart
<1>3. Kept => TranscriptionIsSound
  BY SttCalls, TextAgrees, HerdFollows DEF TranscriptionIsSound
<1> QED
  BY <1>1, <1>2, <1>3, PTL DEF PartsSpec

\* No provider is blamed for audio that came after its trigger; success,
\* hang-up and error of a streamed synthesis are told apart.
THEOREM Synthesis == PartsSpec => []SynthesisIsSound
<1> DEFINE Kept == part = "tts" => TtsInv
<1>1. PartsInit => Kept
  BY TtsInitially DEF PartsInit
<1>2. Kept /\ [PartsNext]_allVars => Kept'
  BY TtsInductive, OnlyItsPart
<1>3. Kept => SynthesisIsSound
  BY DEF TtsInv, TriggerNoted, SynthesisIsSound
<1> QED
  BY <1>1, <1>2, <1>3, PTL DEF PartsSpec

\* The streamed metric files are a faithful prefix of the final ones, however
\* an append fails, and no entry of the trace is lost, doubled or out of order
\* but for less than a batch at a stop.
THEOREM Files == PartsSpec => []FilesAreFaithful
<1> DEFINE Kept == (part = "metrics" => MetricsInv) /\ (part = "recorder" => RecorderInv)
<1>1. PartsInit => Kept
  BY MetricsInitially, RecorderInitially, RecorderAssumption DEF PartsInit
<1>2. Kept /\ [PartsNext]_allVars => Kept'
  BY MetricsInductive, RecorderInductive, OnlyItsPart
<1>3. Kept => FilesAreFaithful
  BY MetricsFaithful, RecorderKeeps DEF FilesAreFaithful
<1> QED
  BY <1>1, <1>2, <1>3, PTL DEF PartsSpec
=============================================================================
