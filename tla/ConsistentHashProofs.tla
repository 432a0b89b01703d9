------------------------ MODULE ConsistentHashProofs ------------------------
(***************************************************************************)
(* Proofs about ConsistentHash, for every set of nodes, every size of the  *)
(* ring and every placement of the replicas: its types, NearestMember and  *)
(* MinimalMovement.                                                        *)
(*                                                                         *)
(* NearestMember speaks of the owner of a key; what is inductive is what   *)
(* the list and the map say of the members.  RingInv: the positions in the *)
(* list are those of the members, and the map gives each of them to a      *)
(* member that has it.  CountInv: without collisions, a position is in the *)
(* list as often as its member has it, which is why Remove, which takes    *)
(* out one entry for each replica, leaves none behind.                     *)
(***************************************************************************)
EXTENDS ConsistentHash, DataLemmas

\* How often h is in a list.
Count(s, h) == Cardinality({i \in DOMAIN s : s[i] = h})

Ascending(s) == \A i, j \in DOMAIN s : i < j => s[i] <= s[j]

\* A list has an element if it counts it.
LEMMA CountType ==
  ASSUME NEW s \in Seq(Position), NEW h
  PROVE  Count(s, h) \in Nat /\ (Count(s, h) > 0 <=> h \in SX!ToSet(s))
  <1> DEFINE I == {i \in DOMAIN s : s[i] = h}
  <1>1. DOMAIN s = 1 .. Len(s) /\ Len(s) \in Nat
    OBVIOUS
  <1>2. IsFiniteSet(1 .. Len(s))
    BY <1>1, FS_Interval
  <1>3. IsFiniteSet(I) /\ Cardinality(I) \in Nat
    BY <1>1, <1>2, FS_Subset, FS_CardinalityType
  <1>4. Cardinality(I) = 0 <=> I = {}
    BY <1>3, FS_EmptySet
  <1>5. I = {} <=> h \notin SX!ToSet(s)
    BY DEF SX!ToSet
  <1>6. Count(s, h) = Cardinality(I)
    BY DEF Count
  <1> HIDE DEF I
  <1> QED
    BY <1>3, <1>4, <1>5, <1>6

\* A list after another.
LEMMA CountConcat ==
  ASSUME NEW s \in Seq(Position), NEW t \in Seq(Position), NEW h
  PROVE  Count(s \o t, h) = Count(s, h) + Count(t, h)
  <1> DEFINE n == Len(s)
             I == {i \in DOMAIN s : s[i] = h}
             J == {i \in DOMAIN t : t[i] = h}
             M == {i \in n + 1 .. n + Len(t) : t[i - n] = h}
             f == [i \in J |-> n + i]
  <1>1. /\ n \in Nat /\ Len(t) \in Nat /\ DOMAIN s = 1 .. n /\ DOMAIN t = 1 .. Len(t)
        /\ s \o t \in Seq(Position)
        /\ DOMAIN (s \o t) = 1 .. n + Len(t)
        /\ \A i \in 1 .. n : (s \o t)[i] = s[i]
        /\ \A i \in n + 1 .. n + Len(t) : (s \o t)[i] = t[i - n]
    OBVIOUS
  <1> HIDE DEF n
  <1>2. {i \in DOMAIN (s \o t) : (s \o t)[i] = h} = I \cup M
    BY <1>1
  <1>3. IsFiniteSet(I) /\ IsFiniteSet(J)
    <2>1. IsFiniteSet(1 .. n) /\ IsFiniteSet(1 .. Len(t))
      BY <1>1, FS_Interval
    <2>2. I \in SUBSET (1 .. n) /\ J \in SUBSET (1 .. Len(t))
      BY <1>1
    <2> HIDE DEF I, J
    <2> QED
      BY <2>1, <2>2, FS_Subset
  <1>4. ExistsBijection(J, M)
    <2>1. f \in [J -> M]
      BY <1>1
    <2>2. f \in Injection(J, M)
      BY <1>1, <2>1 DEF Injection, IsInjective
    <2>3. f \in Surjection(J, M)
      <3>1. ASSUME NEW k \in M
            PROVE  k - n \in J /\ f[k - n] = k
        BY <1>1
      <3> QED
        BY <2>1, <3>1 DEF Surjection
    <2> QED
      BY <2>2, <2>3 DEF ExistsBijection, Bijection
  <1>5. IsFiniteSet(M) /\ Cardinality(M) = Cardinality(J)
    BY <1>3, <1>4, FS_Bijection
  <1>6. I \cap M = {}
    BY <1>1
  <1>7. Cardinality(I \cap M) = 0
    BY <1>6, FS_EmptySet
  <1>8. Cardinality(I \cup M) = Cardinality(I) + Cardinality(M) - Cardinality(I \cap M)
    BY <1>3, <1>5, FS_Union
  <1>9. Cardinality(I) \in Nat /\ Cardinality(J) \in Nat
    BY <1>3, FS_CardinalityType
  <1>10. /\ Count(s \o t, h) = Cardinality(I \cup M)
         /\ Count(s, h) = Cardinality(I) /\ Count(t, h) = Cardinality(J)
    BY <1>2 DEF Count
  <1> HIDE DEF I, J, M
  <1> QED
    BY <1>5, <1>7, <1>8, <1>9, <1>10

\* Sorting a list.
LEMMA SortedList ==
  ASSUME NEW s \in Seq(Position)
  PROVE  /\ Sorted(s) \in Seq(Position)
         /\ Ascending(Sorted(s))
         /\ \A h : Count(Sorted(s), h) = Count(s, h)
  <1> DEFINE D == 1 .. Len(s)
  <1>1. s \in Seq(Int) /\ Len(s) \in Nat /\ DOMAIN s = D /\ \A i \in D : s[i] \in Position
    BY ConsistentHashAssumption DEF Position
  <1>2. PICK p \in Bijection(D, D) :
          /\ Sorted(s) = [k \in D |-> s[p[k]]]
          /\ \A i, j \in D : i < j => s[p[i]] <= s[p[j]]
    BY <1>1, SortedFacts
  <1>3. p \in [D -> D]
    BY DEF Bijection, Injection
  <1>4. Sorted(s) \in Seq(Position) /\ DOMAIN Sorted(s) = D
    BY <1>1, <1>2, <1>3
  <1>5. Ascending(Sorted(s))
    BY <1>2, <1>4 DEF Ascending
  <1>6. ASSUME NEW h
        PROVE  Count(Sorted(s), h) = Count(s, h)
    <2> DEFINE A == {i \in D : s[i] = h}
    <2>1. Cardinality({k \in D : p[k] \in A}) = Cardinality(A)
      <3>1. IsFiniteSet(D) /\ A \in SUBSET D
        BY <1>1, FS_Interval
      <3> HIDE DEF A, D
      <3> QED
        BY <3>1, PlacesMove
    <2>2. {k \in DOMAIN Sorted(s) : Sorted(s)[k] = h} = {k \in D : p[k] \in A}
      BY <1>2, <1>3, <1>4
    <2> QED
      BY <1>1, <2>1, <2>2 DEF Count
  <1> QED
    BY <1>4, <1>5, <1>6

-----------------------------------------------------------------------------
\* Taking the element at k out of a list.
LEMMA RemoveAtFacts ==
  ASSUME NEW s \in Seq(Position), NEW k \in DOMAIN s
  PROVE  LET r == SX!RemoveAt(s, k)
         IN  /\ r \in Seq(Position) /\ Len(r) = Len(s) - 1
             /\ \A i \in 1 .. Len(s) - 1 : r[i] = IF i < k THEN s[i] ELSE s[i + 1]
  <1> DEFINE a == SubSeq(s, 1, k - 1)
             b == SubSeq(s, k + 1, Len(s))
  <1>1. k \in 1 .. Len(s) /\ Len(s) \in Nat
    OBVIOUS
  <1>2. /\ a \in Seq(Position) /\ Len(a) = k - 1
        /\ \A i \in 1 .. k - 1 : a[i] = s[i]
    BY <1>1
  <1>3. /\ b \in Seq(Position) /\ Len(b) = Len(s) - k
        /\ \A i \in 1 .. Len(s) - k : b[i] = s[i + k]
    BY <1>1
  <1> HIDE DEF a, b
  <1>4. /\ a \o b \in Seq(Position) /\ Len(a \o b) = Len(s) - 1
        /\ \A i \in 1 .. Len(s) - 1 :
             (a \o b)[i] = IF i <= k - 1 THEN a[i] ELSE b[i - (k - 1)]
    <2>1. /\ a \o b \in Seq(Position) /\ Len(a \o b) = Len(a) + Len(b)
          /\ \A i \in 1 .. Len(a) + Len(b) :
               (a \o b)[i] = IF i <= Len(a) THEN a[i] ELSE b[i - Len(a)]
      BY <1>2, <1>3
    <2>2. Len(a) + Len(b) = Len(s) - 1
      BY <1>1, <1>2, <1>3
    <2> QED BY <1>2, <2>1, <2>2
  <1>5. ASSUME NEW i \in 1 .. Len(s) - 1
        PROVE  (a \o b)[i] = IF i < k THEN s[i] ELSE s[i + 1]
    <2>1. CASE i < k
      BY <1>1, <1>2, <1>4, <2>1
    <2>2. CASE ~(i < k)
      <3>1. /\ i - (k - 1) \in 1 .. Len(s) - k
            /\ (i - (k - 1)) + k = i + 1
        BY <1>1, <2>2
      <3>2. (a \o b)[i] = b[i - (k - 1)]
        BY <1>1, <1>4, <2>2
      <3>3. b[i - (k - 1)] = s[i + 1]
        BY <1>3, <3>1
      <3> QED
        BY <2>2, <3>2, <3>3
    <2> QED
      BY <2>1, <2>2
  <1>6. SX!RemoveAt(s, k) = a \o b
    BY DEF SX!RemoveAt, a, b
  <1> QED
    BY <1>4, <1>5, <1>6

\* Taking out the first entry of e, if there is one: the list stays sorted and
\* counts e once less.
LEMMA RemoveFirstFacts ==
  ASSUME NEW s \in Seq(Position), Ascending(s), NEW e
  PROVE  LET r == SX!RemoveFirst(s, e)
         IN  /\ r \in Seq(Position) /\ Ascending(r)
             /\ \A h : Count(r, h) = IF h = e /\ Count(s, h) > 0 THEN Count(s, h) - 1
                                    ELSE Count(s, h)
  <1> DEFINE r == SX!RemoveFirst(s, e)
             I == {i \in 1 .. Len(s) : s[i] = e}
  <1>1. Len(s) \in Nat /\ DOMAIN s = 1 .. Len(s)
    OBVIOUS
  <1>2. I = {} <=> ~(Count(s, e) > 0)
    BY <1>1, CountType DEF SX!ToSet
  <1>3. CASE I = {}
    <2>1. r = s
      BY <1>3 DEF SX!RemoveFirst
    <2> QED
      BY <1>2, <1>3, <2>1
  <1>4. CASE I # {}
    <2>1. PICK k \in I : \A i \in I : k <= i
      <3>1. I \in SUBSET Nat
        OBVIOUS
      <3> QED
        BY <1>4, <3>1, Least
    <2> DEFINE z == CHOOSE x \in I : \A y \in I : x =< y
    <2>2. z \in I
      BY <2>1
    <2>3. r = SX!RemoveAt(s, z)
      BY <1>4 DEF SX!RemoveFirst, SX!SelectInSeq, SX!Min
    <2>4. z \in 1 .. Len(s) /\ s[z] = e
      BY <2>2
    <2> HIDE DEF z, r
    <2>5. /\ r \in Seq(Position) /\ Len(r) = Len(s) - 1
          /\ \A i \in 1 .. Len(s) - 1 : r[i] = IF i < z THEN s[i] ELSE s[i + 1]
      BY <1>1, <2>3, <2>4, RemoveAtFacts
    <2>6. DOMAIN r = 1 .. Len(s) - 1
      BY <2>5
    <2>7. Ascending(r)
      <3>1. \A i \in 1 .. Len(s) : s[i] \in Int
        BY ConsistentHashAssumption DEF Position
      <3>2. ASSUME NEW i \in 1 .. Len(s) - 1, NEW j \in 1 .. Len(s) - 1, i < j
            PROVE  r[i] <= r[j]
        <4> DEFINE a == IF i < z THEN i ELSE i + 1
                   b == IF j < z THEN j ELSE j + 1
        <4>1. a \in 1 .. Len(s) /\ b \in 1 .. Len(s) /\ a < b
          BY <1>1, <2>4, <3>2
        <4>2. r[i] = s[a] /\ r[j] = s[b]
          BY <2>5
        <4> HIDE DEF a, b
        <4> QED
          BY <1>1, <4>1, <4>2 DEF Ascending
      <3> QED
        BY <2>6, <3>2 DEF Ascending
    <2>8. ASSUME NEW h
          PROVE  Count(r, h) = IF h = e THEN Count(s, h) - 1 ELSE Count(s, h)
      <3> DEFINE A == {i \in DOMAIN s : s[i] = h}
                 B == {i \in DOMAIN r : r[i] = h}
                 f == [i \in B |-> IF i < z THEN i ELSE i + 1]
      <3>1. IsFiniteSet(A)
        <4>1. IsFiniteSet(1 .. Len(s))
          BY <1>1, FS_Interval
        <4> QED
          BY <1>1, <4>1, FS_Subset
      <3>2. IsFiniteSet(B)
        <4>1. IsFiniteSet(1 .. Len(s) - 1)
          BY <1>1, FS_Interval
        <4> QED
          BY <2>6, <4>1, FS_Subset
      <3>3. ExistsBijection(B, A \ {z})
        <4>1. f \in [B -> A \ {z}]
          BY <1>1, <2>4, <2>5, <2>6
        <4>2. f \in Injection(B, A \ {z})
          <5>1. \A i, j \in B : f[i] = f[j] => i = j
            BY <1>1, <2>4, <2>6
          <5> QED
            BY <4>1, <5>1 DEF Injection, IsInjective
        <4>3. f \in Surjection(B, A \ {z})
          <5>1. ASSUME NEW i \in A \ {z}
                PROVE  \E j \in B : f[j] = i
            <6>1. CASE i < z
              <7>1. i \in B /\ f[i] = i
                BY <1>1, <2>4, <2>5, <2>6, <6>1
              <7> QED
                BY <7>1
            <6>2. CASE i > z
              <7>1. i - 1 \in 1 .. Len(s) - 1 /\ ~(i - 1 < z) /\ (i - 1) + 1 = i
                BY <1>1, <2>4, <6>2
              <7>2. i - 1 \in B /\ f[i - 1] = i
                BY <2>5, <2>6, <7>1
              <7> QED
                BY <7>2
            <6> QED
              BY <1>1, <2>4, <6>1, <6>2
          <5> QED
            BY <4>1, <5>1 DEF Surjection
        <4> QED
          BY <4>2, <4>3 DEF ExistsBijection, Bijection
      <3>4. Cardinality(B) = Cardinality(A \ {z})
        BY <3>2, <3>3, FS_Bijection
      <3>5. Cardinality(A \ {z}) = IF z \in A THEN Cardinality(A) - 1 ELSE Cardinality(A)
        BY <3>1, FS_RemoveElement
      <3>6. z \in A <=> h = e
        BY <1>1, <2>4
      <3>7. Count(r, h) = Cardinality(B) /\ Count(s, h) = Cardinality(A)
        BY DEF Count
      <3> HIDE DEF A, B
      <3> QED
        BY <3>4, <3>5, <3>6, <3>7
    <2>9. Count(s, e) > 0
      BY <1>2, <1>4
    <2> QED
      BY <2>5, <2>7, <2>8, <2>9 DEF r
  <1> QED
    BY <1>3, <1>4

-----------------------------------------------------------------------------
\* g gives what is left of the list s when the entries of hs at the places of
\* a set are removed, the last place last.  This is how FoldLeft computes it.
Removes(g, s, hs) ==
  g = [r \in SUBSET DOMAIN hs |->
         IF r = {} THEN s ELSE SX!RemoveFirst(g[r \ {SX!Max(r)}], hs[SX!Max(r)])]

\* A set of places has a last one.
LEMMA LastPlace ==
  ASSUME NEW n \in Nat, NEW r \in SUBSET (1 .. n), r # {}
  PROVE  /\ SX!Max(r) \in r /\ \A i \in r : i <= SX!Max(r)
         /\ IsFiniteSet(r) /\ Cardinality(r) \in Nat \ {0}
         /\ Cardinality(r \ {SX!Max(r)}) = Cardinality(r) - 1
  <1> DEFINE B == {n - i : i \in r}
  <1>1. B \in SUBSET Nat /\ B # {}
    <2>1. \A i \in r : i \in 1 .. n /\ n - i \in Nat
      OBVIOUS
    <2>2. PICK i : i \in r
      OBVIOUS
    <2>3. n - i \in B
      BY <2>2
    <2> QED
      BY <2>1, <2>3
  <1>2. PICK b \in B : \A c \in B : b <= c
    BY <1>1, Least
  <1>3. PICK k \in r : b = n - k
    BY <1>2
  <1>4. \A i \in r : n - i \in B
    OBVIOUS
  <1>5. \A i \in r : k >= i
    BY <1>2, <1>3, <1>4
  <1>6. SX!Max(r) \in r /\ \A i \in r : SX!Max(r) >= i
    BY <1>5 DEF SX!Max
  <1>7. IsFiniteSet(r)
    <2>1. IsFiniteSet(1 .. n)
      BY FS_Interval
    <2> QED
      BY <2>1, FS_Subset
  <1>8. Cardinality(r) \in Nat /\ Cardinality(r) # 0
    BY <1>7, FS_CardinalityType, FS_EmptySet
  <1> QED
    BY <1>6, <1>7, <1>8, FS_RemoveElement

\* The recursion has a solution, level by level as for sums.
LEMMA RemovesExists ==
  ASSUME NEW s, NEW hs \in Seq(Position)
  PROVE  \E g : Removes(g, s, hs)
  <1> DEFINE D == DOMAIN hs
             Level(n) == {r \in SUBSET D : Cardinality(r) <= n}
             Step(g, r) == IF r = {} THEN s
                           ELSE SX!RemoveFirst(g[r \ {SX!Max(r)}], hs[SX!Max(r)])
             Good(n) == \E g : \A r \in Level(n) : g[r] = Step(g, r)
             Bad == {n \in Nat : ~Good(n)}
  <1>1. D = 1 .. Len(hs) /\ Len(hs) \in Nat /\ IsFiniteSet(D)
    BY FS_Interval
  <1>2. \A r \in SUBSET D : IsFiniteSet(r) /\ Cardinality(r) \in Nat
    BY <1>1, FS_Subset, FS_CardinalityType
  <1>3. Good(0)
    <2>1. \A r \in Level(0) : r = {}
      BY <1>2, FS_EmptySet
    <2> DEFINE g == [r \in {{}} |-> s]
    <2>2. \A r \in Level(0) : g[r] = Step(g, r)
      BY <2>1
    <2> QED
      BY <2>2
  <1>4. ASSUME NEW n \in Nat, Good(n)
        PROVE  Good(n + 1)
    <2>1. PICK g : \A r \in Level(n) : g[r] = Step(g, r)
      BY <1>4
    <2> DEFINE h == [r \in Level(n + 1) |-> Step(g, r)]
    <2>2. ASSUME NEW r \in Level(n + 1), r # {}
          PROVE  r \ {SX!Max(r)} \in Level(n)
      <3>1. /\ SX!Max(r) \in r /\ Cardinality(r) \in Nat
            /\ Cardinality(r \ {SX!Max(r)}) = Cardinality(r) - 1
        BY <1>1, <2>2, LastPlace
      <3>2. Cardinality(r) <= n + 1 /\ r \in SUBSET D
        OBVIOUS
      <3> QED
        BY <3>1, <3>2
    <2>3. ASSUME NEW r \in Level(n)
          PROVE  h[r] = g[r]
      <3>1. r \in Level(n + 1)
        BY <1>2
      <3> HIDE DEF Step
      <3> QED
        BY <2>1, <3>1
    <2>4. ASSUME NEW r \in Level(n + 1)
          PROVE  h[r] = Step(h, r)
      <3>1. Step(g, r) = Step(h, r)
        <4> HIDE DEF h, Level
        <4> QED
          BY <2>2, <2>3
      <3> HIDE DEF Step
      <3> QED
        BY <3>1
    <2> HIDE DEF h
    <2> QED
      BY <2>4
  <1>5. Bad = {}
    <2>1. SUFFICES ASSUME Bad # {} PROVE FALSE
      OBVIOUS
    <2> HIDE DEF Good
    <2>2. PICK n \in Bad : \A m \in Bad : n <= m
      BY <2>1, Least
    <2>3. n # 0
      BY <1>3
    <2>4. n - 1 \in Nat /\ Good(n - 1)
      BY <2>2, <2>3
    <2>5. Good((n - 1) + 1)
      BY <1>4, <2>4
    <2> QED
      BY <2>5
  <1>6. Good(Cardinality(D))
    BY <1>1, <1>2, <1>5
  <1>7. Level(Cardinality(D)) = SUBSET D
    BY <1>1, FS_Subset
  <1>8. PICK g : \A r \in SUBSET D : g[r] = Step(g, r)
    BY <1>6, <1>7
  <1> DEFINE h == [r \in SUBSET D |-> g[r]]
  <1>9. ASSUME NEW r \in SUBSET D
        PROVE  h[r] = Step(h, r)
    <2>1. r # {} => r \ {SX!Max(r)} \in SUBSET D
      OBVIOUS
    <2>2. Step(h, r) = Step(g, r)
      BY <2>1
    <2> HIDE DEF Step
    <2> QED
      BY <1>8, <2>2
  <1>10. h = [r \in SUBSET D |-> Step(h, r)]
    <2> HIDE DEF Step
    <2> QED
      BY <1>9
  <1>11. Removes(h, s, hs)
    BY <1>10 DEF Removes
  <1> QED
    BY <1>11

\* Removing the entries of hs from a sorted list.
LEMMA RemoveAllFacts ==
  ASSUME NEW s \in Seq(Position), Ascending(s), NEW hs \in Seq(Position)
  PROVE  LET r == SX!FoldLeft(SX!RemoveFirst, s, hs)
         IN  /\ r \in Seq(Position) /\ Ascending(r)
             /\ \A h : Count(r, h) = IF Count(s, h) > Count(hs, h)
                                    THEN Count(s, h) - Count(hs, h) ELSE 0
  <1> DEFINE g == CHOOSE g : Removes(g, s, hs)
             P(n, h) == Cardinality({i \in 1 .. n : hs[i] = h})
             Good(n) == LET r == g[1 .. n]
                        IN  /\ r \in Seq(Position) /\ Ascending(r)
                            /\ \A h : Count(r, h) = IF Count(s, h) > P(n, h)
                                                   THEN Count(s, h) - P(n, h) ELSE 0
             Bad == {n \in Nat : n <= Len(hs) /\ ~Good(n)}
  <1>1. SX!FoldLeft(SX!RemoveFirst, s, hs) = g[DOMAIN hs]
    BY DEF SX!FoldLeft, SX!MapThenFoldSet, Removes
  <1>2. Removes(g, s, hs)
    BY RemovesExists
  <1>3. /\ DOMAIN hs = 1 .. Len(hs) /\ Len(hs) \in Nat
        /\ \A h : Count(s, h) \in Nat
    BY CountType
  <1> HIDE DEF g
  <1>4. \A r \in SUBSET DOMAIN hs :
          g[r] = IF r = {} THEN s ELSE SX!RemoveFirst(g[r \ {SX!Max(r)}], hs[SX!Max(r)])
    BY <1>2 DEF Removes
  <1>5. Good(0)
    <2>1. 1 .. 0 = {} /\ g[{}] = s
      <3>1. 1 .. 0 = {}
        OBVIOUS
      <3>2. {} \in SUBSET DOMAIN hs
        OBVIOUS
      <3> QED
        BY <1>4, <3>1, <3>2
    <2>2. \A h : P(0, h) = 0
      <3>1. \A h : {i \in 1 .. 0 : hs[i] = h} = {}
        BY <2>1
      <3> QED
        BY <3>1, FS_EmptySet
    <2> QED
      BY <1>3, <2>1, <2>2
  <1>6. ASSUME NEW n \in Nat, n < Len(hs), Good(n)
        PROVE  Good(n + 1)
    <2> DEFINE k == n + 1
               r == g[1 .. n]
               t == g[1 .. k]
               e == hs[k]
    <2>1. k \in 1 .. Len(hs) /\ 1 .. k \in SUBSET DOMAIN hs /\ 1 .. k # {}
      BY <1>3, <1>6
    <2>2. SX!Max(1 .. k) = k
      <3>1. SX!Max(1 .. k) \in 1 .. k /\ \A i \in 1 .. k : i <= SX!Max(1 .. k)
        BY <2>1, <1>3, LastPlace
      <3> QED
        BY <2>1, <3>1
    <2>3. (1 .. k) \ {k} = 1 .. n
      OBVIOUS
    <2>4. t = SX!RemoveFirst(r, e)
      BY <1>4, <2>1, <2>2, <2>3
    <2>5. /\ r \in Seq(Position) /\ Ascending(r)
          /\ \A h : Count(r, h) = IF Count(s, h) > P(n, h) THEN Count(s, h) - P(n, h) ELSE 0
      BY <1>6
    <2> HIDE DEF r
    <2>6. /\ t \in Seq(Position) /\ Ascending(t)
          /\ \A h : Count(t, h) = IF h = e /\ Count(r, h) > 0 THEN Count(r, h) - 1
                                 ELSE Count(r, h)
      BY <2>4, <2>5, RemoveFirstFacts
    <2>7. ASSUME NEW h
          PROVE  P(n, h) \in Nat /\ P(k, h) = IF h = e THEN P(n, h) + 1 ELSE P(n, h)
      <3> DEFINE A == {i \in 1 .. n : hs[i] = h}
                 B == {i \in 1 .. k : hs[i] = h}
      <3>1. IsFiniteSet(1 .. n)
        BY FS_Interval
      <3>2. IsFiniteSet(A)
        BY <3>1, FS_Subset
      <3>3. B = IF h = e THEN A \cup {k} ELSE A
        BY <2>1
      <3>4. k \notin A
        OBVIOUS
      <3>5. Cardinality(A) \in Nat /\ Cardinality(A \cup {k}) = Cardinality(A) + 1
        BY <3>2, <3>4, FS_AddElement, FS_CardinalityType
      <3> QED
        BY <3>3, <3>5
    <2> HIDE DEF P, t, k, e
    <2>8. ASSUME NEW h
          PROVE  Count(t, h) = IF Count(s, h) > P(k, h) THEN Count(s, h) - P(k, h) ELSE 0
      BY <1>3, <2>5, <2>6, <2>7
    <2> QED
      BY <2>6, <2>8 DEF t, k
  <1>7. Bad = {}
    <2>1. SUFFICES ASSUME Bad # {} PROVE FALSE
      OBVIOUS
    <2> HIDE DEF Good
    <2>2. PICK n \in Bad : \A m \in Bad : n <= m
      BY <2>1, Least
    <2>3. n \in Nat /\ n # 0 /\ n <= Len(hs)
      BY <1>5
    <2>4. n - 1 \in Nat /\ n - 1 < Len(hs) /\ Good(n - 1)
      BY <1>3, <2>2, <2>3
    <2>5. Good((n - 1) + 1)
      BY <1>6, <2>4
    <2> QED
      BY <2>3, <2>5
  <1>8. Good(Len(hs))
    <2> HIDE DEF Good
    <2> QED
      BY <1>3, <1>7
  <1>9. \A h : P(Len(hs), h) = Count(hs, h)
    BY <1>3 DEF Count
  <1> QED
    BY <1>1, <1>3, <1>8, <1>9

-----------------------------------------------------------------------------
\* How far it is from h to q, clockwise.
Far(q, h) == (q - h) % Positions

LEMMA FarIs ==
  ASSUME NEW q \in Position, NEW h \in Position
  PROVE  Far(q, h) \in Nat /\ Far(q, h) = IF q >= h THEN q - h ELSE q - h + Positions
  BY ConsistentHashAssumption DEF Far, Position

\* The binary search of Get, and the wrap around the end of the list, find a
\* nearest position.
LEMMA GetNearest ==
  ASSUME NEW ks \in Seq(Position), Ascending(ks), ks # <<>>, NEW map, NEW h \in Position
  PROVE  \E p \in SX!ToSet(ks) :
           /\ Get(ks, map, h) = map[p]
           /\ \A q \in SX!ToSet(ks) : Far(p, h) <= Far(q, h)
  <1> DEFINE n == Len(ks)
             B == {i \in 1 .. n + 1 : i <= n => ks[i] >= h}
  <1>1. /\ n \in Nat \ {0} /\ DOMAIN ks = 1 .. n
        /\ \A i \in 1 .. n : ks[i] \in Position
    OBVIOUS
  <1>2. /\ h \in Int /\ \A i \in 1 .. n : ks[i] \in Int
    BY <1>1, ConsistentHashAssumption DEF Position
  <1>3. PICK e \in B : \A i \in B : e <= i
    <2>1. n + 1 \in B /\ B \in SUBSET Nat
      BY <1>1
    <2> QED
      BY <2>1, Least
  <1>4. e \in 1 .. n + 1
    OBVIOUS
  <1>5. {i \in DOMAIN ks : ks[i] < h} = 1 .. e - 1
    <2>1. ASSUME NEW i \in 1 .. n, ks[i] < h
          PROVE  i \in 1 .. e - 1
      <3>1. CASE e <= n
        <4>1. ks[e] >= h
          BY <3>1
        <4>2. ~(e <= i)
          <5>1. e \in DOMAIN ks /\ (e < i => ks[e] <= ks[i])
            BY <1>1, <1>4, <3>1 DEF Ascending
          <5> QED
            BY <1>1, <1>2, <1>4, <2>1, <3>1, <4>1, <5>1
        <4> QED
          BY <1>1, <1>4, <4>2
      <3>2. CASE ~(e <= n)
        BY <1>1, <1>4, <3>2
      <3> QED
        BY <3>1, <3>2
    <2>2. ASSUME NEW i \in 1 .. e - 1
          PROVE  i \in 1 .. n /\ ks[i] < h
      <3>1. i \in 1 .. n /\ i \notin B
        BY <1>1, <1>3, <1>4
      <3> QED
        BY <1>2, <3>1
    <2> QED
      BY <1>1, <2>1, <2>2
  <1>6. Search(ks, h) = e - 1
    <2>1. e - 1 \in Int /\ (1 > e - 1 => e - 1 = 0)
      BY <1>1, <1>4
    <2>2. Cardinality(1 .. e - 1) = IF 1 > e - 1 THEN 0 ELSE (e - 1) - 1 + 1
      BY <2>1, FS_Interval
    <2>3. Search(ks, h) = Cardinality(1 .. e - 1)
      BY <1>5 DEF Search
    <2> QED
      BY <1>1, <1>4, <2>2, <2>3
  <1> DEFINE k == IF e <= n THEN e ELSE 1
  <1>7. ((e - 1) % n) + 1 = k
    <2>1. CASE e <= n
      BY <1>1, <1>4, <2>1
    <2>2. CASE e = n + 1
      <3>1. n % n = 0
        BY <1>1
      <3> QED
        BY <1>1, <2>2, <3>1
    <2> QED
      BY <1>1, <1>4, <2>1, <2>2
  <1>8. Get(ks, map, h) = map[ks[k]]
    BY <1>6, <1>7 DEF Get
  <1>9. k \in 1 .. n
    BY <1>1, <1>4
  <1>10. ASSUME NEW i \in 1 .. n
         PROVE  Far(ks[k], h) <= Far(ks[i], h)
    <2>1. /\ ks[k] \in 0 .. Positions - 1 /\ ks[i] \in 0 .. Positions - 1
          /\ h \in 0 .. Positions - 1 /\ Positions \in Nat
      BY <1>1, <1>9, ConsistentHashAssumption DEF Position
    <2>2. /\ Far(ks[k], h) = IF ks[k] >= h THEN ks[k] - h ELSE ks[k] - h + Positions
          /\ Far(ks[i], h) = IF ks[i] >= h THEN ks[i] - h ELSE ks[i] - h + Positions
      BY <1>1, <1>9, FarIs
    <2>3. k < i => ks[k] <= ks[i]
      BY <1>1, <1>9 DEF Ascending
    <2>4. CASE e <= n
      <3>1. k = e /\ ks[k] >= h
        BY <2>4
      <3>2. i < e => ks[i] < h
        BY <1>1, <1>4, <1>5
      <3> HIDE DEF k
      <3> QED
        BY <1>1, <1>4, <2>1, <2>2, <2>3, <3>1, <3>2
    <2>5. CASE e = n + 1
      <3>1. k = 1 /\ ks[k] < h /\ ks[i] < h
        BY <1>1, <1>5, <2>5
      <3> HIDE DEF k
      <3> QED
        BY <1>1, <2>1, <2>2, <2>3, <3>1
    <2> QED
      BY <1>1, <1>4, <2>4, <2>5
  <1> HIDE DEF k
  <1>11. ks[k] \in SX!ToSet(ks)
    BY <1>1, <1>9 DEF SX!ToSet
  <1>12. ASSUME NEW q \in SX!ToSet(ks)
         PROVE  Far(ks[k], h) <= Far(q, h)
    BY <1>1, <1>10 DEF SX!ToSet
  <1> QED
    BY <1>8, <1>11, <1>12

\* The distance of a node is that of its nearest replica.
LEMMA DistanceIs ==
  ASSUME hash \in [Node -> Placement], NEW n \in Node, NEW h \in Position
  PROVE  /\ \E q \in SX!ToSet(hash[n]) : Distance(h, n) = Far(q, h)
         /\ \A q \in SX!ToSet(hash[n]) : Distance(h, n) <= Far(q, h)
  <1> DEFINE D == DOMAIN hash[n]
             F(i) == (hash[n][i] - h) % Positions
             B == {F(i) : i \in D}
             c == CHOOSE i \in D : \A j \in D : F(i) <= F(j)
  <1>1. hash[n] \in Seq(Position) /\ hash[n] # <<>>
    BY ConsistentHashAssumption
  <1>2. \A i \in D : hash[n][i] \in Position /\ F(i) \in Nat /\ F(i) = Far(hash[n][i], h)
    <2>1. \A i \in D : hash[n][i] \in Position
      BY <1>1
    <2> QED
      BY <2>1, FarIs DEF Far
  <1>3. 1 \in D
    BY <1>1
  <1> HIDE DEF F
  <1>4. B \in SUBSET Nat /\ B # {}
    BY <1>2, <1>3
  <1>5. PICK b \in B : \A x \in B : b <= x
    BY <1>4, Least
  <1>6. \E i \in D : \A j \in D : F(i) <= F(j)
    BY <1>5
  <1>7. c \in D /\ \A j \in D : F(c) <= F(j)
    BY <1>6
  <1>8. Distance(h, n) = F(c)
    BY DEF Distance, F
  <1> HIDE DEF c
  <1> QED
    BY <1>2, <1>7, <1>8 DEF SX!ToSet

-----------------------------------------------------------------------------
\* The list has the positions of the members, and the map gives each of them to
\* a member that has it.
RingInv ==
  Clean \/ ~removed =>
    /\ \A h \in Position :
         h \in SX!ToSet(keys) <=> \E m \in members : h \in SX!ToSet(hash[m])
    /\ \A h \in SX!ToSet(keys) :
         hashMap[h] \in members /\ h \in SX!ToSet(hash[hashMap[h]])

\* Without collisions the list counts what the members have.
CountInv ==
  Clean => \A m \in members : \A h \in SX!ToSet(hash[m]) :
             Count(keys, h) = Count(hash[m], h)

IInv == TypeOK /\ RingInv /\ CountInv

\* What TypeOK says in the words used here.
LEMMA TypeFacts ==
  ASSUME TypeOK
  PROVE  /\ hash \in [Node -> Placement]
         /\ keys \in Seq(Position) /\ Ascending(keys)
         /\ SX!ToSet(keys) \subseteq Position
         /\ \A n \in Node : /\ hash[n] \in Seq(Position) /\ hash[n] # <<>>
                             /\ SX!ToSet(hash[n]) \subseteq Position
  <1>1. keys \in Seq(Position) /\ hash \in [Node -> Placement] /\ Ascending(keys)
    BY DEF TypeOK, Ascending
  <1>2. \A n \in Node : hash[n] \in Seq(Position) /\ hash[n] # <<>>
    BY <1>1, ConsistentHashAssumption
  <1>3. \A s \in Seq(Position) : SX!ToSet(s) \subseteq Position
    BY DEF SX!ToSet
  <1> QED
    BY <1>1, <1>2, <1>3

\* New makes an empty ring.
LEMMA InitIInv == Init => IInv
  <1> SUFFICES ASSUME Init PROVE IInv
    OBVIOUS
  <1>1. keys = <<>> /\ members = {} /\ SX!ToSet(keys) = {}
    BY DEF Init, SX!ToSet
  <1>2. TypeOK
    <2>1. keys \in Seq(Position) /\ DOMAIN keys = {}
      BY <1>1
    <2> QED
      BY <2>1, <1>1, ConsistentHashAssumption DEF Init, TypeOK
  <1>3. RingInv
    BY <1>1 DEF RingInv
  <1>4. CountInv
    BY <1>1 DEF CountInv
  <1> QED
    BY <1>2, <1>3, <1>4 DEF IInv

\* Add preserves the invariant.
LEMMA AddIInv ==
  ASSUME IInv, NEW n \in Node, Add(n)
  PROVE  IInv'
  <1> DEFINE hn == hash[n]
  <1>1. /\ hash \in [Node -> Placement] /\ keys \in Seq(Position)
        /\ SX!ToSet(keys) \subseteq Position
        /\ hn \in Seq(Position) /\ SX!ToSet(hn) \subseteq Position
        /\ \A m \in Node : hash[m] \in Seq(Position)
    BY TypeFacts DEF IInv
  <1>2. /\ keys' = Sorted(keys \o hn) /\ hash' = hash /\ removed' = removed
        /\ hashMap' = [h \in Position |-> IF h \in SX!ToSet(hn) THEN n ELSE hashMap[h]]
        /\ members' = members \cup {n} /\ twice' = (twice \/ n \in members)
    BY DEF Add
  <1>3. keys \o hn \in Seq(Position)
    BY <1>1
  <1>4. keys' \in Seq(Position) /\ Ascending(keys')
    BY <1>2, <1>3, SortedList
  <1>5. ASSUME NEW h
        PROVE  /\ Count(keys', h) = Count(keys, h) + Count(hn, h)
               /\ Count(keys, h) \in Nat /\ Count(hn, h) \in Nat
    <2>1. Count(keys', h) = Count(keys \o hn, h)
      BY <1>2, <1>3, SortedList
    <2>2. Count(keys \o hn, h) = Count(keys, h) + Count(hn, h)
      BY <1>1, CountConcat
    <2>3. Count(keys, h) \in Nat /\ Count(hn, h) \in Nat
      BY <1>1, CountType
    <2> QED
      BY <2>1, <2>2, <2>3
  <1>6. SX!ToSet(keys') = SX!ToSet(keys) \cup SX!ToSet(hn)
    <2>1. ASSUME NEW h
          PROVE  h \in SX!ToSet(keys') <=> h \in SX!ToSet(keys) \/ h \in SX!ToSet(hn)
      <3>1. /\ Count(keys', h) > 0 <=> h \in SX!ToSet(keys')
            /\ Count(keys, h) > 0 <=> h \in SX!ToSet(keys)
            /\ Count(hn, h) > 0 <=> h \in SX!ToSet(hn)
        BY <1>1, <1>4, CountType
      <3> QED
        BY <1>5, <3>1
    <2> QED
      BY <2>1
  <1> HIDE DEF hn
  <1>7. TypeOK'
    <2>1. hashMap' \in [Position -> Node \cup {None}]
      BY <1>2 DEF IInv, TypeOK
    <2>2. \A h \in Position : hashMap'[h] # None => h \in SX!ToSet(keys')
      BY <1>2, <1>6 DEF IInv, TypeOK
    <2>3. \A i, j \in DOMAIN keys' : i < j => keys'[i] <= keys'[j]
      BY <1>4 DEF Ascending
    <2>4. members' \subseteq Node /\ twice' \in BOOLEAN /\ removed' \in BOOLEAN
      BY <1>2 DEF IInv, TypeOK
    <2> QED
      BY <1>1, <1>2, <1>4, <2>1, <2>2, <2>3, <2>4 DEF TypeOK
  <1>8. Clean' => Clean /\ n \notin members
    BY <1>2 DEF Clean
  <1>9. RingInv'
    <2> SUFFICES ASSUME Clean' \/ ~removed'
                 PROVE  /\ \A h \in Position : h \in SX!ToSet(keys') <=>
                              \E m \in members' : h \in SX!ToSet(hash'[m])
                        /\ \A h \in SX!ToSet(keys') :
                             hashMap'[h] \in members' /\ h \in SX!ToSet(hash'[hashMap'[h]])
      BY DEF RingInv
    <2>1. Clean \/ ~removed
      BY <1>2, <1>8
    <2>2. /\ \A h \in Position :
               h \in SX!ToSet(keys) <=> \E m \in members : h \in SX!ToSet(hash[m])
          /\ \A h \in SX!ToSet(keys) :
               hashMap[h] \in members /\ h \in SX!ToSet(hash[hashMap[h]])
      BY <2>1 DEF IInv, RingInv
    <2>3. ASSUME NEW h \in Position
          PROVE  h \in SX!ToSet(keys') <=> \E m \in members' : h \in SX!ToSet(hash'[m])
      BY <1>2, <1>6, <2>2 DEF hn
    <2>4. ASSUME NEW h \in SX!ToSet(keys')
          PROVE  hashMap'[h] \in members' /\ h \in SX!ToSet(hash'[hashMap'[h]])
      BY <1>1, <1>2, <1>6, <2>2 DEF hn
    <2> QED
      BY <2>3, <2>4
  <1>10. CountInv'
    <2> SUFFICES ASSUME Clean', NEW m \in members', NEW h \in SX!ToSet(hash'[m])
                 PROVE  Count(keys', h) = Count(hash'[m], h)
      BY DEF CountInv
    <2>1. Clean /\ n \notin members /\ members \subseteq Node
      BY <1>8 DEF IInv, TypeOK
    <2>2. h \in SX!ToSet(hash[m]) /\ m \in Node
      BY <1>2, <2>1
    <2>3. CASE m = n
      <3>1. h \notin SX!ToSet(keys)
        <4>1. \A k \in members : h \notin SX!ToSet(hash[k])
          BY <2>1, <2>2, <2>3 DEF Clean
        <4> QED
          BY <1>1, <2>1, <4>1 DEF IInv, RingInv
      <3>2. Count(keys, h) = 0
        BY <1>1, <3>1, CountType
      <3> QED
        BY <1>2, <1>5, <2>3, <3>2 DEF hn
    <2>4. CASE m # n
      <3>1. m \in members /\ h \notin SX!ToSet(hn)
        BY <1>2, <2>1, <2>2, <2>4 DEF Clean, hn
      <3>2. Count(hn, h) = 0
        BY <1>1, <3>1, CountType
      <3>3. Count(keys, h) = Count(hash[m], h)
        BY <2>1, <2>2, <3>1 DEF IInv, CountInv
      <3> QED
        BY <1>2, <1>5, <3>2, <3>3
    <2> QED
      BY <2>3, <2>4
  <1> QED
    BY <1>7, <1>9, <1>10 DEF IInv

\* Remove preserves the invariant.
LEMMA RemoveIInv ==
  ASSUME IInv, NEW n \in Node, Remove(n)
  PROVE  IInv'
  <1> DEFINE hn == hash[n]
  <1>1. /\ hash \in [Node -> Placement] /\ keys \in Seq(Position) /\ Ascending(keys)
        /\ SX!ToSet(keys) \subseteq Position
        /\ hn \in Seq(Position) /\ SX!ToSet(hn) \subseteq Position
        /\ \A m \in Node : hash[m] \in Seq(Position)
    BY TypeFacts DEF IInv
  <1>2. /\ keys' = SX!FoldLeft(SX!RemoveFirst, keys, hn)
        /\ hash' = hash /\ removed' = TRUE /\ twice' = twice /\ members' = members \ {n}
        /\ hashMap' = [h \in Position |->
                        IF h \in SX!ToSet(hn) \cap SX!ToSet(keys) THEN None ELSE hashMap[h]]
    BY DEF Remove
  <1>3. /\ keys' \in Seq(Position) /\ Ascending(keys')
        /\ \A h : Count(keys', h) = IF Count(keys, h) > Count(hn, h)
                                   THEN Count(keys, h) - Count(hn, h) ELSE 0
    BY <1>1, <1>2, RemoveAllFacts
  <1>4. ASSUME NEW h
        PROVE  /\ Count(keys', h) \in Nat /\ Count(keys, h) \in Nat /\ Count(hn, h) \in Nat
               /\ Count(keys', h) > 0 <=> h \in SX!ToSet(keys')
               /\ Count(keys, h) > 0 <=> h \in SX!ToSet(keys)
               /\ Count(hn, h) > 0 <=> h \in SX!ToSet(hn)
    BY <1>1, <1>3, CountType
  <1> HIDE DEF hn
  <1>5. /\ SX!ToSet(keys') \subseteq SX!ToSet(keys)
        /\ SX!ToSet(keys) \ SX!ToSet(hn) \subseteq SX!ToSet(keys')
    <2>1. ASSUME NEW h \in SX!ToSet(keys')
          PROVE  h \in SX!ToSet(keys)
      BY <1>3, <1>4
    <2>2. ASSUME NEW h \in SX!ToSet(keys), h \notin SX!ToSet(hn)
          PROVE  h \in SX!ToSet(keys')
      BY <1>3, <1>4, <2>2
    <2> QED
      BY <2>1, <2>2
  <1>6. TypeOK'
    <2>1. hashMap' \in [Position -> Node \cup {None}]
      BY <1>2 DEF IInv, TypeOK
    <2>2. \A h \in Position : hashMap'[h] # None => h \in SX!ToSet(keys')
      BY <1>2, <1>5 DEF IInv, TypeOK
    <2>3. \A i, j \in DOMAIN keys' : i < j => keys'[i] <= keys'[j]
      BY <1>3 DEF Ascending
    <2>4. members' \subseteq Node /\ twice' \in BOOLEAN /\ removed' \in BOOLEAN
      BY <1>2 DEF IInv, TypeOK
    <2> QED
      BY <1>1, <1>2, <1>3, <2>1, <2>2, <2>3, <2>4 DEF TypeOK
  <1>7. SUFFICES ASSUME Clean' PROVE RingInv' /\ CountInv'
    BY <1>2, <1>6 DEF IInv, RingInv, CountInv
  <1>8. Clean
    BY <1>2, <1>7 DEF Clean
  <1>9. /\ \A h \in Position :
             h \in SX!ToSet(keys) <=> \E m \in members : h \in SX!ToSet(hash[m])
        /\ \A h \in SX!ToSet(keys) :
             hashMap[h] \in members /\ h \in SX!ToSet(hash[hashMap[h]])
        /\ \A m \in members : \A h \in SX!ToSet(hash[m]) : Count(keys, h) = Count(hash[m], h)
        /\ members \subseteq Node
    BY <1>8 DEF IInv, RingInv, CountInv, TypeOK
  <1>10. \A m \in Node : m # n => SX!ToSet(hash[m]) \cap SX!ToSet(hn) = {}
    BY <1>8 DEF Clean, hn
  \* Nothing of n is left.
  <1>11. ASSUME NEW h \in SX!ToSet(hn)
         PROVE  h \notin SX!ToSet(keys')
    <2>1. CASE n \in members
      <3>1. Count(keys, h) = Count(hn, h)
        BY <1>9, <2>1 DEF hn
      <3> QED
        BY <1>3, <1>4, <3>1
    <2>2. CASE n \notin members
      <3>1. h \notin SX!ToSet(keys)
        BY <1>1, <1>9, <1>10, <2>2
      <3> QED
        BY <1>5, <3>1
    <2> QED
      BY <2>1, <2>2
  <1>12. SX!ToSet(keys') = SX!ToSet(keys) \ SX!ToSet(hn)
    BY <1>5, <1>11
  <1>13. RingInv'
    <2>1. ASSUME NEW h \in Position
          PROVE  h \in SX!ToSet(keys') <=> \E m \in members' : h \in SX!ToSet(hash'[m])
      BY <1>2, <1>9, <1>10, <1>12 DEF hn
    <2>2. ASSUME NEW h \in SX!ToSet(keys')
          PROVE  hashMap'[h] \in members' /\ h \in SX!ToSet(hash'[hashMap'[h]])
      <3>1. h \in SX!ToSet(keys) /\ h \notin SX!ToSet(hn) /\ h \in Position
        BY <1>1, <1>12
      <3>2. hashMap'[h] = hashMap[h]
        BY <1>2, <3>1
      <3>3. hashMap[h] # n
        BY <1>9, <3>1 DEF hn
      <3> QED
        BY <1>2, <1>9, <3>1, <3>2, <3>3
    <2> QED
      BY <2>1, <2>2 DEF RingInv
  <1>14. CountInv'
    <2> SUFFICES ASSUME NEW m \in members', NEW h \in SX!ToSet(hash'[m])
                 PROVE  Count(keys', h) = Count(hash'[m], h)
      BY DEF CountInv
    <2>1. m \in members /\ m # n /\ m \in Node /\ h \in SX!ToSet(hash[m])
      BY <1>2, <1>9
    <2>2. h \notin SX!ToSet(hn)
      BY <1>10, <2>1
    <2>3. Count(hn, h) = 0
      BY <1>4, <2>2
    <2>4. Count(keys, h) = Count(hash[m], h)
      BY <1>9, <2>1
    <2> QED
      BY <1>2, <1>3, <1>4, <2>3, <2>4
  <1> QED
    BY <1>13, <1>14

\* The invariant holds in every state.
LEMMA Inductive == Spec => []IInv
  <1>1. IInv /\ [Next]_vars => IInv'
    <2> SUFFICES ASSUME IInv, [Next]_vars PROVE IInv'
      OBVIOUS
    <2>1. ASSUME NEW n \in Node, Add(n) PROVE IInv'
      BY <2>1, AddIInv
    <2>2. ASSUME NEW n \in Node, Remove(n) PROVE IInv'
      BY <2>2, RemoveIInv
    <2>3. CASE UNCHANGED vars
      <3>1. /\ hash' = hash /\ keys' = keys /\ hashMap' = hashMap /\ members' = members
            /\ twice' = twice /\ removed' = removed
        BY <2>3 DEF vars
      <3>2. TypeOK'
        BY <3>1 DEF IInv, TypeOK
      <3>3. RingInv'
        BY <3>1 DEF IInv, RingInv, Clean
      <3>4. CountInv'
        BY <3>1 DEF IInv, CountInv, Clean
      <3> QED
        BY <3>2, <3>3, <3>4 DEF IInv
    <2> QED
      BY <2>1, <2>2, <2>3 DEF Next
  <1> QED
    BY <1>1, InitIInv, PTL DEF Spec

\* The ring is well formed, and its list sorted, for every placement of the
\* replicas and every sequence of Add and Remove.
THEOREM TypeCorrect == Spec => []TypeOK
  <1>1. IInv => TypeOK
    BY DEF IInv
  <1> QED
    BY <1>1, Inductive, PTL

\* The owner of a key is a member with a replica that no replica of a member is
\* nearer than.
Owns ==
  Clean \/ ~removed =>
    \A h \in Position : \A c : c = Get(keys, hashMap, h) =>
      IF members = {} THEN c = None
      ELSE /\ c \in members
           /\ \E p \in SX!ToSet(hash[c]) :
                \A m \in members : \A q \in SX!ToSet(hash[m]) : Far(p, h) <= Far(q, h)

\* The invariant makes Get find such a member.
LEMMA OwnerFacts == IInv => Owns
  <1> SUFFICES ASSUME IInv, Clean \/ ~removed, NEW h \in Position,
                      NEW c, c = Get(keys, hashMap, h)
               PROVE  IF members = {} THEN c = None
                      ELSE /\ c \in members
                           /\ \E p \in SX!ToSet(hash[c]) : \A m \in members :
                                \A q \in SX!ToSet(hash[m]) : Far(p, h) <= Far(q, h)
    BY DEF Owns
  <1>1. /\ keys \in Seq(Position) /\ Ascending(keys)
        /\ SX!ToSet(keys) \subseteq Position /\ members \subseteq Node
        /\ \A m \in Node : /\ hash[m] \in Seq(Position) /\ hash[m] # <<>>
                            /\ SX!ToSet(hash[m]) \subseteq Position
    BY TypeFacts DEF IInv, TypeOK
  <1>2. /\ \A q \in Position :
             q \in SX!ToSet(keys) <=> \E m \in members : q \in SX!ToSet(hash[m])
        /\ \A q \in SX!ToSet(keys) :
             hashMap[q] \in members /\ q \in SX!ToSet(hash[hashMap[q]])
    BY DEF IInv, RingInv
  <1>3. ASSUME NEW s \in Seq(Position)
        PROVE  SX!ToSet(s) = {} <=> s = <<>>
    <2>1. s # <<>> => s[1] \in SX!ToSet(s)
      BY DEF SX!ToSet
    <2>2. s = <<>> => SX!ToSet(s) = {}
      BY DEF SX!ToSet
    <2> QED
      BY <2>1, <2>2
  <1>4. CASE members = {}
    <2>1. SX!ToSet(keys) = {}
      BY <1>1, <1>2, <1>4
    <2>2. keys = <<>>
      BY <1>1, <1>3, <2>1
    <2> QED
      BY <1>4, <2>2 DEF Get
  <1>5. CASE members # {}
    <2>1. keys # <<>>
      <3>1. PICK m \in members : TRUE
        BY <1>5
      <3>2. SX!ToSet(hash[m]) # {}
        BY <1>1, <1>3, <3>1
      <3>3. SX!ToSet(keys) # {}
        BY <1>1, <1>2, <3>1, <3>2
      <3> QED
        BY <1>1, <1>3, <3>3
    <2>2. PICK p \in SX!ToSet(keys) :
            /\ Get(keys, hashMap, h) = hashMap[p]
            /\ \A q \in SX!ToSet(keys) : Far(p, h) <= Far(q, h)
      BY <1>1, <2>1, GetNearest
    <2>3. c \in members /\ p \in SX!ToSet(hash[c])
      BY <1>2, <2>2
    <2>4. ASSUME NEW m \in members, NEW q \in SX!ToSet(hash[m])
          PROVE  Far(p, h) <= Far(q, h)
      BY <1>1, <1>2, <2>2
    <2> QED
      BY <1>5, <2>3, <2>4
  <1> QED
    BY <1>4, <1>5

\* Such a member is a nearest one.
LEMMA Nearest == IInv => NearestMember
  <1> SUFFICES ASSUME IInv, Clean \/ ~removed, NEW h \in Position
               PROVE  LET n == Get(keys, hashMap, h)
                      IN  IF members = {} THEN n = None
                          ELSE n \in members /\ \A m \in members : Distance(h, n) <= Distance(h, m)
    BY DEF NearestMember
  <1> DEFINE n == Get(keys, hashMap, h)
  <1>1. /\ hash \in [Node -> Placement] /\ members \subseteq Node
        /\ \A m \in Node : SX!ToSet(hash[m]) \subseteq Position
    BY TypeFacts DEF IInv, TypeOK
  <1>2. IF members = {} THEN n = None
        ELSE /\ n \in members
             /\ \E p \in SX!ToSet(hash[n]) : \A m \in members :
                  \A q \in SX!ToSet(hash[m]) : Far(p, h) <= Far(q, h)
    BY OwnerFacts DEF Owns
  <1> HIDE DEF n
  <1>3. ASSUME members # {}, NEW m \in members
        PROVE  Distance(h, n) <= Distance(h, m)
    <2>1. PICK p \in SX!ToSet(hash[n]) : \A k \in members :
            \A q \in SX!ToSet(hash[k]) : Far(p, h) <= Far(q, h)
      BY <1>2, <1>3
    <2>2. n \in Node
      BY <1>1, <1>2, <1>3
    <2>3. PICK q \in SX!ToSet(hash[m]) : Distance(h, m) = Far(q, h)
      BY <1>1, DistanceIs
    <2>4. Distance(h, n) <= Far(p, h)
      BY <1>1, <2>2, DistanceIs
    <2>5. PICK r \in SX!ToSet(hash[n]) : Distance(h, n) = Far(r, h)
      BY <1>1, <2>2, DistanceIs
    <2>6. Far(p, h) <= Far(q, h)
      BY <2>1
    <2>7. Far(p, h) \in Nat /\ Far(q, h) \in Nat /\ Far(r, h) \in Nat
      BY <1>1, <2>2, FarIs
    <2> QED
      BY <2>3, <2>4, <2>5, <2>6, <2>7
  <1> QED
    BY <1>2, <1>3 DEF n

\* Get returns a nearest member of the ring, for every number of replicas and
\* every placement: after any Adds, and after Removes as long as no positions
\* collide.
THEOREM OwnerIsNearest == Spec => []NearestMember
  BY Inductive, Nearest, PTL

\* Two positions are at different distances.
LEMMA FarApart ==
  ASSUME NEW p \in Position, NEW q \in Position, NEW h \in Position,
         Far(p, h) <= Far(q, h), Far(q, h) <= Far(p, h)
  PROVE  p = q
  <1>1. /\ Far(p, h) = (IF p >= h THEN p - h ELSE p - h + Positions)
        /\ Far(q, h) = (IF q >= h THEN q - h ELSE q - h + Positions)
        /\ Far(p, h) \in Nat /\ Far(q, h) \in Nat
    BY FarIs
  <1>2. /\ p \in 0 .. Positions - 1 /\ q \in 0 .. Positions - 1
        /\ h \in 0 .. Positions - 1 /\ Positions \in Nat
    BY ConsistentHashAssumption DEF Position
  <1>3. Far(p, h) = Far(q, h)
    BY <1>1
  <1> QED
    BY <1>1, <1>2, <1>3

\* The owner of a key is nearest before and after a step; an owner that stays a
\* member is therefore replaced by nobody who was one.
LEMMA OwnersMove ==
  ASSUME IInv, Owns, Owns', [Next]_vars, Clean, Clean', NEW h \in Position,
         NEW a, a = Get(keys, hashMap, h), NEW b, b = Get(keys', hashMap', h),
         a \in members', b \in members
  PROVE  a = b
  <1>1. hash' = hash
    BY DEF Next, Add, Remove, vars
  <1>2. /\ members \subseteq Node
        /\ \A n \in Node : SX!ToSet(hash[n]) \subseteq Position
    BY TypeFacts DEF IInv, TypeOK
  <1>3. PICK p \in SX!ToSet(hash[a]) : \A m \in members :
          \A q \in SX!ToSet(hash[m]) : Far(p, h) <= Far(q, h)
    BY DEF Owns
  <1>4. a \in members
    BY DEF Owns
  <1>5. PICK q \in SX!ToSet(hash[b]) : \A m \in members' :
          \A r \in SX!ToSet(hash[m]) : Far(q, h) <= Far(r, h)
    BY <1>1 DEF Owns
  <1>6. Far(p, h) <= Far(q, h) /\ Far(q, h) <= Far(p, h)
    BY <1>3, <1>5
  <1>7. a \in Node /\ b \in Node /\ p \in Position /\ q \in Position
    BY <1>2, <1>4
  <1>8. p = q
    BY <1>6, <1>7, FarApart
  <1> QED
    BY <1>7, <1>8 DEF Clean

\* A node that joins only takes keys for itself and a node that leaves only gives
\* up its own.
THEOREM KeysStay == Spec => MinimalMovement
  <1>1. IInv /\ Owns /\ Owns' /\ [Next]_vars =>
          [Clean /\ Clean' =>
             \A h \in Position :
               LET before == Get(keys, hashMap, h)
                   after == Get(keys', hashMap', h)
               IN  before # after => \/ before \notin members'
                                     \/ after \notin members]_vars
    BY OwnersMove
  <1> QED
    BY <1>1, Inductive, OwnerFacts, PTL DEF Spec, MinimalMovement
=============================================================================
