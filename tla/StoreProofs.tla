---------------------------- MODULE StoreProofs -----------------------------
(***************************************************************************)
(* Proofs about Store, for every set of keys and of value lengths, every   *)
(* budget (none and a negative one included), number of shards and ratio,  *)
(* and for both eviction policies.                                         *)
(*                                                                         *)
(* The inductive invariant says of each list that it holds its entries     *)
(* once and that its counter is their bytes (Holds), and of the method     *)
(* that is running what it has established so far (LMethod, SMethod).      *)
(* That the budget is kept between two methods, that Get of SLRU evicts    *)
(* nothing and that nothing of the protected segment leaves while a new    *)
(* key is stored are consequences.                                         *)
(***************************************************************************)
EXTENDS Store, FiniteSets, DataLemmas

-----------------------------------------------------------------------------
\* What MapThenSumSet computes when every element costs c more than its
\* value: the Sum of the costs.
LEMMA SumOfCosts ==
  ASSUME NEW T, IsFiniteSet(T), NEW c \in Nat, NEW v, \A x \in T : v[x] \in Nat
  PROVE  LET iter[s \in SUBSET T] ==
               IF s = {} THEN 0
               ELSE c + v[CHOOSE x \in s : TRUE] + iter[s \ {CHOOSE x \in s : TRUE}]
         IN  iter[T] = Sum([x \in T |-> c + v[x]], T)
  <1> DEFINE f == [x \in T |-> c + v[x]]
             It(g) == g = [s \in SUBSET T |->
                             IF s = {} THEN 0
                             ELSE c + v[CHOOSE x \in s : TRUE]
                                  + g[s \ {CHOOSE x \in s : TRUE}]]
             h == CHOOSE g : It(g)
  <1>1. Numbered(f, T)
    BY DEF Numbered
  <1>2. ASSUME NEW g
        PROVE  It(g) <=> Adds(g, f, T)
    <2>1. ASSUME NEW s \in SUBSET T, s # {}
          PROVE  f[Pick(s)] = c + v[Pick(s)]
      BY <2>1, Picked, FS_Subset
    <2> QED
      BY <2>1 DEF Adds, Pick
  <1> HIDE DEF It
  <1>3. PICK g : Adds(g, f, T)
    BY <1>1, SumExists
  <1>4. It(h)
    BY <1>2, <1>3
  <1> USE DEF It
  <1>5. Sum(f, T) = h[T]
    BY <1>1, <1>2, <1>4, SumIs
  <1> QED
    BY <1>5

\* The same when the values are the lengths of records.
LEMMA SumOfLengths ==
  ASSUME NEW T, IsFiniteSet(T), NEW c \in Nat, NEW v, \A x \in T : v[x].len \in Nat
  PROVE  LET iter[s \in SUBSET T] ==
               IF s = {} THEN 0
               ELSE c + v[CHOOSE x \in s : TRUE].len + iter[s \ {CHOOSE x \in s : TRUE}]
         IN  iter[T] = Sum([x \in T |-> c + v[x].len], T)
  <1> DEFINE f == [x \in T |-> c + v[x].len]
             It(g) == g = [s \in SUBSET T |->
                             IF s = {} THEN 0
                             ELSE c + v[CHOOSE x \in s : TRUE].len
                                  + g[s \ {CHOOSE x \in s : TRUE}]]
             h == CHOOSE g : It(g)
  <1>1. Numbered(f, T)
    BY DEF Numbered
  <1>2. ASSUME NEW g
        PROVE  It(g) <=> Adds(g, f, T)
    <2>1. ASSUME NEW s \in SUBSET T, s # {}
          PROVE  f[Pick(s)] = c + v[Pick(s)].len
      BY <2>1, Picked, FS_Subset
    <2> QED
      BY <2>1 DEF Adds, Pick
  <1> HIDE DEF It
  <1>3. PICK g : Adds(g, f, T)
    BY <1>1, SumExists
  <1>4. It(h)
    BY <1>2, <1>3
  <1> USE DEF It
  <1>5. Sum(f, T) = h[T]
    BY <1>1, <1>2, <1>4, SumIs
  <1> QED
    BY <1>5

-----------------------------------------------------------------------------
\* The elements of a list.
Elems(s) == {s[i] : i \in DOMAIN s}

\* Every element is in it once.
Distinct(s) == \A i, j \in DOMAIN s : s[i] = s[j] => i = j

\* F gives what is left of every prefix of s without the elements of T.
\* This is how Without computes it.
Filters(F, s, T) ==
  F = [i \in 0 .. Len(s) |->
         IF i = 0 THEN <<>>
         ELSE IF s[i] \in T THEN F[i - 1] ELSE Append(F[i - 1], s[i])]

\* That recursion has a solution too, prefix by prefix.
LEMMA FilterExists ==
  ASSUME NEW K, NEW s \in Seq(K), NEW T
  PROVE  \E F \in [0 .. Len(s) -> Seq(K)] : Filters(F, s, T)
  <1> DEFINE Upto(F, n) == \A i \in 0 .. n :
                F[i] = IF i = 0 THEN <<>>
                       ELSE IF s[i] \in T THEN F[i - 1] ELSE Append(F[i - 1], s[i])
             Good(n) == \E F \in [0 .. n -> Seq(K)] : Upto(F, n)
             Bad == {n \in Nat : n <= Len(s) /\ ~Good(n)}
  <1>1. Good(0)
    <2>1. [i \in 0 .. 0 |-> <<>>] \in [0 .. 0 -> Seq(K)]
      OBVIOUS
    <2>2. Upto([i \in 0 .. 0 |-> <<>>], 0)
      OBVIOUS
    <2> QED
      BY <2>1, <2>2
  <1>2. ASSUME NEW n \in 0 .. Len(s) - 1, Good(n)
        PROVE  Good(n + 1)
    <2>1. PICK F \in [0 .. n -> Seq(K)] : Upto(F, n)
      BY <1>2
    <2>2. n \in Nat /\ n + 1 \in 1 .. Len(s) /\ s[n + 1] \in K
      OBVIOUS
    <2> DEFINE t == IF s[n + 1] \in T THEN F[n] ELSE Append(F[n], s[n + 1])
               G == [i \in 0 .. n + 1 |-> IF i <= n THEN F[i] ELSE t]
    <2>3. t \in Seq(K)
      BY <2>2
    <2> HIDE DEF t
    <2>4. G \in [0 .. n + 1 -> Seq(K)]
      BY <2>2, <2>3
    <2>5. G[n + 1] = t /\ (n + 1) - 1 = n /\ \A i \in 0 .. n : G[i] = F[i]
      BY <2>2
    <2>6. ASSUME NEW i \in 0 .. n + 1
          PROVE  G[i] = IF i = 0 THEN <<>>
                        ELSE IF s[i] \in T THEN G[i - 1] ELSE Append(G[i - 1], s[i])
      <3>1. CASE i = n + 1
        BY <2>2, <2>5, <3>1 DEF t
      <3>2. CASE i \in 0 .. n
        <4>1. i = 0 \/ i - 1 \in 0 .. n
          BY <2>2, <3>2
        <4> HIDE DEF G
        <4> QED
          BY <2>1, <2>5, <3>2, <4>1
      <3> QED
        BY <2>2, <3>1, <3>2
    <2> QED
      BY <2>4, <2>6
  <1>3. Bad = {}
    <2>1. SUFFICES ASSUME Bad # {} PROVE FALSE
      OBVIOUS
    <2> HIDE DEF Good
    <2>2. PICK n \in Bad : \A m \in Bad : n <= m
      BY <2>1, Least
    <2>3. n \in Nat \ {0}
      BY <1>1
    <2>4. n - 1 \in 0 .. Len(s) - 1 /\ Good(n - 1)
      BY <2>2, <2>3
    <2>5. Good((n - 1) + 1)
      BY <1>2, <2>4
    <2> QED
      BY <2>3, <2>5
  <1>4. Good(Len(s))
    BY <1>3
  <1> QED
    BY <1>4 DEF Filters

\* An element is appended to a list.
LEMMA AppendElems ==
  ASSUME NEW K, NEW t \in Seq(K), NEW x \in K
  PROVE  Elems(Append(t, x)) = Elems(t) \cup {x}
  <1> DEFINE a == Append(t, x)
  <1>1. /\ DOMAIN a = DOMAIN t \cup {Len(t) + 1}
        /\ a[Len(t) + 1] = x
        /\ \A i \in DOMAIN t : a[i] = t[i]
    OBVIOUS
  <1> QED
    BY <1>1 DEF Elems

\* A prefix without the elements of T: a list of the other elements of the
\* prefix, each as often as before.
LEMMA FilterFacts ==
  ASSUME NEW K, NEW s \in Seq(K), NEW T, NEW F, Filters(F, s, T)
  PROVE  /\ F[Len(s)] \in Seq(K)
         /\ Elems(F[Len(s)]) = Elems(s) \ T
         /\ Distinct(s) => Distinct(F[Len(s)])
         /\ Elems(s) \cap T = {} => F[Len(s)] = s
         /\ s # <<>> /\ Distinct(s) /\ T = {s[Len(s)]} =>
              F[Len(s)] = SubSeq(s, 1, Len(s) - 1)
  <1> DEFINE Until(i) == {s[j] : j \in 1 .. i}
             Good(i) == /\ F[i] \in Seq(K)
                        /\ Elems(F[i]) = Until(i) \ T
                        /\ Distinct(s) => Distinct(F[i])
                        /\ Until(i) \cap T = {} => F[i] = SubSeq(s, 1, i)
             Bad == {n \in Nat : n <= Len(s) /\ ~Good(n)}
  <1>1. F[0] = <<>>
    BY DEF Filters
  <1>2. ASSUME NEW n \in 1 .. Len(s)
        PROVE  F[n] = IF s[n] \in T THEN F[n - 1] ELSE Append(F[n - 1], s[n])
    <2>1. n \in 0 .. Len(s) /\ n # 0
      OBVIOUS
    <2> QED
      BY <2>1 DEF Filters
  <1>3. Good(0)
    BY <1>1 DEF Elems, Distinct
  <1>4. ASSUME NEW n \in 1 .. Len(s), Good(n - 1)
        PROVE  Good(n)
    <2>1. n - 1 \in Nat /\ s[n] \in K /\ Until(n) = Until(n - 1) \cup {s[n]}
      OBVIOUS
    <2>2. F[n] = IF s[n] \in T THEN F[n - 1] ELSE Append(F[n - 1], s[n])
      BY <1>2
    <2>3. CASE s[n] \in T
      <3>1. Until(n) \ T = Until(n - 1) \ T /\ Until(n) \cap T # {}
        BY <2>1, <2>3
      <3> QED
        BY <1>4, <2>2, <2>3, <3>1
    <2>4. CASE s[n] \notin T
      <3> DEFINE t == F[n - 1]
      <3>1. F[n] = Append(t, s[n]) /\ t \in Seq(K)
        BY <1>4, <2>2, <2>4
      <3>2. Elems(Append(t, s[n])) = Elems(t) \cup {s[n]}
        BY <2>1, <3>1, AppendElems
      <3>3. Until(n) \ T = (Until(n - 1) \ T) \cup {s[n]}
        BY <2>1, <2>4
      <3>4. ASSUME Distinct(s)
            PROVE  Distinct(F[n])
        <4>1. s[n] \notin Until(n - 1)
          BY <3>4 DEF Distinct
        <4>2. s[n] \notin Elems(t) /\ Distinct(t)
          BY <1>4, <3>4, <4>1
        <4> HIDE DEF t
        <4> QED
          BY <2>1, <3>1, <4>2 DEF Distinct, Elems
      <3>5. ASSUME Until(n) \cap T = {}
            PROVE  F[n] = SubSeq(s, 1, n)
        <4>1. t = SubSeq(s, 1, n - 1)
          BY <1>4, <2>1, <3>5
        <4>2. SubSeq(s, 1, n) = Append(SubSeq(s, 1, n - 1), s[n])
          OBVIOUS
        <4> QED
          BY <3>1, <4>1, <4>2
      <3> QED
        BY <1>4, <2>1, <3>1, <3>2, <3>3, <3>4, <3>5
    <2> QED
      BY <2>3, <2>4
  <1>5. Bad = {}
    <2>1. SUFFICES ASSUME Bad # {} PROVE FALSE
      OBVIOUS
    <2> HIDE DEF Good
    <2>2. PICK n \in Bad : \A m \in Bad : n <= m
      BY <2>1, Least
    <2>3. n \in 1 .. Len(s)
      BY <1>3
    <2>4. Good(n - 1)
      BY <2>2, <2>3
    <2> QED
      BY <1>4, <2>3, <2>4
  <1> DEFINE n == Len(s)
  <1>6. n \in Nat /\ Elems(s) = Until(n) /\ SubSeq(s, 1, n) = s
    BY DEF Elems
  <1>7. ASSUME NEW i \in Nat, i <= n
        PROVE  Good(i)
    <2> HIDE DEF Good
    <2> QED
      BY <1>5, <1>7
  <1>8. ASSUME s # <<>>, Distinct(s), T = {s[n]}
        PROVE  F[n] = SubSeq(s, 1, n - 1)
    <2>1. n \in 1 .. n /\ n - 1 \in Nat
      BY <1>8
    <2>2. Good(n - 1)
      <3>1. n - 1 <= n
        BY <2>1
      <3> QED
        BY <1>7, <2>1, <3>1
    <2>3. s[n] \notin Until(n - 1)
      BY <1>8, <2>1 DEF Distinct
    <2>4. F[n - 1] = SubSeq(s, 1, n - 1)
      BY <1>8, <2>2, <2>3
    <2> QED
      BY <1>2, <1>8, <2>1, <2>4
  <1>9. Good(n)
    <2>1. n <= n
      BY <1>6
    <2> QED
      BY <1>6, <1>7, <2>1
  <1> QED
    BY <1>6, <1>8, <1>9

\* What list.List.Remove leaves of a list without duplicates.
LEMMA WithoutFacts ==
  ASSUME NEW K, NEW s \in Seq(K), NEW T
  PROVE  LET w == Without(s, T)
         IN  /\ w \in Seq(K)
             /\ Elems(w) = Elems(s) \ T
             /\ Distinct(s) => Distinct(w)
             /\ Elems(s) \cap T = {} => w = s
             /\ s # <<>> /\ Distinct(s) /\ T = {s[Len(s)]} =>
                  w = SubSeq(s, 1, Len(s) - 1)
  <1> DEFINE F == CHOOSE F : Filters(F, s, T)
  <1>1. Filters(F, s, T)
    BY FilterExists
  <1>2. Without(s, T) = F[Len(s)]
    BY DEF Without, Filters
  <1> HIDE DEF F
  <1> QED
    BY <1>1, <1>2, FilterFacts

\* A list has finitely many elements.
LEMMA ElemsFinite ==
  ASSUME NEW K, NEW s \in Seq(K)
  PROVE  IsFiniteSet(Elems(s))
  <1>1. IsFiniteSet(1 .. Len(s))
    BY FS_Interval
  <1>2. s \in Surjection(1 .. Len(s), Elems(s))
    BY DEF Surjection, Elems
  <1> QED
    BY <1>1, <1>2, FS_Surjection

\* An element in front of a list that does not have it.
LEMMA PushFacts ==
  ASSUME NEW K, NEW w \in Seq(K), NEW k \in K, k \notin Elems(w), Distinct(w)
  PROVE  LET t == <<k>> \o w
         IN  /\ t \in Seq(K) /\ t # <<>> /\ t[1] = k
             /\ Elems(t) = Elems(w) \cup {k}
             /\ Distinct(t)
  <1> DEFINE t == <<k>> \o w
  <1>1. /\ t \in Seq(K) /\ Len(t) = Len(w) + 1 /\ t[1] = k
        /\ \A i \in 1 .. Len(w) : t[i + 1] = w[i]
    OBVIOUS
  <1> HIDE DEF t
  <1>2. \A i \in DOMAIN t : i = 1 \/ (i - 1 \in 1 .. Len(w) /\ t[i] = w[i - 1])
    BY <1>1
  <1>3. \A i \in DOMAIN w : i + 1 \in DOMAIN t /\ t[i + 1] = w[i]
    BY <1>1
  <1>4. 1 \in DOMAIN t
    BY <1>1
  <1>5. Elems(t) = Elems(w) \cup {k}
    <2>1. ASSUME NEW x \in Elems(t)
          PROVE  x \in Elems(w) \cup {k}
      <3>1. PICK i \in DOMAIN t : x = t[i]
        BY DEF Elems
      <3>2. i = 1 \/ (i - 1 \in DOMAIN w /\ x = w[i - 1])
        BY <1>2, <3>1
      <3> QED
        BY <1>1, <3>1, <3>2 DEF Elems
    <2>2. k \in Elems(t)
      BY <1>1, <1>4 DEF Elems
    <2>3. ASSUME NEW x \in Elems(w)
          PROVE  x \in Elems(t)
      BY <1>3 DEF Elems
    <2> QED
      BY <2>1, <2>2, <2>3
  <1>6. Distinct(t)
    <2>1. SUFFICES ASSUME NEW i \in DOMAIN t, NEW j \in DOMAIN t, t[i] = t[j]
                   PROVE  i = j
      BY DEF Distinct
    <2>2. \A m \in DOMAIN w : w[m] # k
      BY DEF Elems
    <2>3. CASE i = 1 \/ j = 1
      BY <1>1, <1>2, <2>1, <2>2, <2>3
    <2>4. CASE i # 1 /\ j # 1
      BY <1>1, <1>2, <2>1, <2>4 DEF Distinct
    <2> QED
      BY <2>3, <2>4
  <1>7. t # <<>>
    BY <1>1
  <1> QED
    BY <1>1, <1>5, <1>6, <1>7 DEF t

\* MoveToFront and PushFront.
Fronted(s, k) == <<k>> \o Without(s, {k})

\* After it k is the first element, and there is no duplicate.
LEMMA FrontFacts ==
  ASSUME NEW K, NEW s \in Seq(K), NEW k \in K, Distinct(s)
  PROVE  /\ Fronted(s, k) \in Seq(K)
         /\ Fronted(s, k) # <<>> /\ Fronted(s, k)[1] = k
         /\ Elems(Fronted(s, k)) = Elems(s) \cup {k}
         /\ Distinct(Fronted(s, k))
  <1> DEFINE w == Without(s, {k})
  <1>1. w \in Seq(K) /\ Elems(w) = Elems(s) \ {k} /\ Distinct(w)
    BY WithoutFacts
  <1> HIDE DEF w
  <1>2. k \notin Elems(w) /\ Elems(w) \cup {k} = Elems(s) \cup {k}
    BY <1>1
  <1>3. /\ <<k>> \o w \in Seq(K) /\ <<k>> \o w # <<>> /\ (<<k>> \o w)[1] = k
        /\ Elems(<<k>> \o w) = Elems(w) \cup {k}
        /\ Distinct(<<k>> \o w)
    BY <1>1, <1>2, PushFacts
  <1> QED
    BY <1>2, <1>3 DEF w, Fronted

\* The last element of a list, and the list without it: the first element is
\* still there, unless it was the last one.
LEMMA LastFacts ==
  ASSUME NEW K, NEW s \in Seq(K), s # <<>>, Distinct(s)
  PROVE  LET w == SubSeq(s, 1, Len(s) - 1)
         IN  /\ s[Len(s)] \in Elems(s)
             /\ w = Without(s, {s[Len(s)]})
             /\ Len(s) = 1 => s = <<s[Len(s)]>>
             /\ Len(s) # 1 => w # <<>> /\ w[1] = s[1] /\ s[Len(s)] # s[1]
  <1>1. Len(s) \in Nat \ {0} /\ 1 \in DOMAIN s /\ Len(s) \in DOMAIN s
    OBVIOUS
  <1>2. s[Len(s)] \in Elems(s)
    BY <1>1 DEF Elems
  <1>3. SubSeq(s, 1, Len(s) - 1) = Without(s, {s[Len(s)]})
    BY WithoutFacts
  <1>4. Len(s) = 1 => s = <<s[Len(s)]>>
    OBVIOUS
  <1>5. ASSUME Len(s) # 1
        PROVE  LET w == SubSeq(s, 1, Len(s) - 1)
               IN  w # <<>> /\ w[1] = s[1] /\ s[Len(s)] # s[1]
    <2>1. s[Len(s)] # s[1]
      BY <1>1, <1>5 DEF Distinct
    <2> DEFINE w == SubSeq(s, 1, Len(s) - 1)
    <2>2. 1 \in 1 .. Len(s) - 1 /\ Len(s) - 1 \in Nat
      <3> DEFINE n == Len(s)
      <3>1. n \in Nat \ {0} /\ n # 1
        BY <1>1, <1>5
      <3> HIDE DEF n
      <3>2. 1 \in 1 .. n - 1 /\ n - 1 \in Nat
        BY <3>1
      <3> QED
        BY <3>2 DEF n
    <2>3. w = [i \in 1 .. Len(s) - 1 |-> s[i]]
      BY <1>1
    <2> HIDE DEF w
    <2>4. w[1] = s[1] /\ DOMAIN w # {}
      BY <2>2, <2>3
    <2>5. w # <<>>
      BY <2>4
    <2> QED
      BY <2>1, <2>4, <2>5 DEF w
  <1> QED
    BY <1>2, <1>3, <1>4, <1>5

-----------------------------------------------------------------------------
\* The bytes of every entry.
Costs(v, T) == [x \in T |-> KeyLen + v[x]]

\* The bytes of the entries of T when their values are v.
Weight(v, T) == Sum(Costs(v, T), T)

\* The keys of T have entries.
Valued(v, T) == IsFiniteSet(T) /\ \A x \in T : v[x] \in Nat

\* No entries, no bytes.
LEMMA WeightEmpty ==
  ASSUME NEW v
  PROVE  Weight(v, {}) = 0
  BY SumEmpty DEF Weight

\* The bytes are a natural number.
LEMMA WeightType ==
  ASSUME NEW v, NEW T, Valued(v, T)
  PROVE  Weight(v, T) \in Nat
  <1>1. \A x \in T : Costs(v, T)[x] \in Nat
    BY StoreConfigAssumption DEF Costs, Valued
  <1> QED
    BY <1>1, SumNat DEF Weight, Valued

\* The bytes depend on the values of these entries only.
LEMMA WeightSame ==
  ASSUME NEW v, NEW u, NEW T, Valued(v, T), \A x \in T : u[x] = v[x]
  PROVE  Weight(u, T) = Weight(v, T)
  <1>1. Costs(u, T) = Costs(v, T)
    BY DEF Costs
  <1> QED
    BY <1>1 DEF Weight

\* Some entries are removed.
LEMMA WeightRemove ==
  ASSUME NEW v, NEW T, Valued(v, T), NEW P \in SUBSET T
  PROVE  /\ Weight(v, T \ P) = Weight(v, T) - Weight(v, P)
         /\ Weight(v, T) \in Nat /\ Weight(v, P) \in Nat /\ Weight(v, T \ P) \in Nat
  <1>1. Valued(v, P) /\ Valued(v, T \ P)
    BY FS_Subset DEF Valued
  <1>2. Weight(v, T) \in Nat /\ Weight(v, P) \in Nat /\ Weight(v, T \ P) \in Nat
    BY <1>1, WeightType
  <1> DEFINE f == Costs(v, T)
  <1>3. Numbered(f, T) /\ Numbered(f, P) /\ Numbered(f, T \ P)
    BY <1>1, StoreConfigAssumption DEF Numbered, Costs, Valued
  <1>4. \A x \in P : f[x] = Costs(v, P)[x]
    BY DEF Costs
  <1>5. \A x \in T \ P : f[x] = Costs(v, T \ P)[x]
    BY DEF Costs
  <1> HIDE DEF f
  <1>6. Sum(f, T) = Sum(f, P) + Sum(f, T \ P)
    BY <1>3, SumSplit
  <1>7. Sum(f, P) = Weight(v, P)
    BY <1>3, <1>4, SumSame DEF Weight
  <1>8. Sum(f, T \ P) = Weight(v, T \ P)
    BY <1>3, <1>5, SumSame DEF Weight
  <1>9. Sum(f, T) = Weight(v, T)
    BY DEF Weight, f
  <1> QED
    BY <1>2, <1>6, <1>7, <1>8, <1>9

\* The bytes of one entry.
LEMMA WeightOne ==
  ASSUME NEW v, NEW x, v[x] \in Nat
  PROVE  Weight(v, {x}) = KeyLen + v[x]
  <1> DEFINE f == Costs(v, {x})
  <1>1. f[x] = KeyLen + v[x] /\ f[x] \in Int
    BY StoreConfigAssumption DEF Costs
  <1>2. Numbered(f, {x})
    BY <1>1, FS_Singleton DEF Numbered
  <1> HIDE DEF f
  <1>3. Sum(f, {x}) = f[x] + Sum(f, {x} \ {x})
    BY <1>2, SumRemove
  <1>4. {x} \ {x} = {}
    OBVIOUS
  <1>5. Sum(f, {x} \ {x}) = 0
    BY <1>4, SumEmpty
  <1> QED
    BY <1>1, <1>3, <1>5 DEF Weight, f

\* An entry is added.
LEMMA WeightAdd ==
  ASSUME NEW v, NEW T, Valued(v, T), NEW x, x \notin T,
         NEW u, u[x] \in Nat, \A y \in T : u[y] = v[y]
  PROVE  Weight(u, T \cup {x}) = Weight(v, T) + KeyLen + u[x]
  <1> DEFINE U == T \cup {x}
  <1>1. Valued(u, U)
    BY FS_AddElement DEF Valued
  <1>2. U \ {x} = T
    OBVIOUS
  <1>3. /\ Weight(u, U \ {x}) = Weight(u, U) - Weight(u, {x})
        /\ Weight(u, U) \in Nat /\ Weight(u, {x}) \in Nat
    BY <1>1, WeightRemove
  <1>4. Weight(u, {x}) = KeyLen + u[x]
    BY WeightOne
  <1>5. Weight(u, T) = Weight(v, T) /\ Weight(v, T) \in Nat
    BY WeightSame, WeightType
  <1> QED
    BY <1>2, <1>3, <1>4, <1>5, StoreConfigAssumption

\* The value of an entry is replaced.
LEMMA WeightSet ==
  ASSUME NEW v, NEW T, Valued(v, T), NEW x \in T,
         NEW u, u[x] \in Nat, \A y \in T \ {x} : u[y] = v[y]
  PROVE  Weight(u, T) = Weight(v, T) + u[x] - v[x]
  <1>1. Valued(v, T \ {x}) /\ v[x] \in Nat /\ T = (T \ {x}) \cup {x}
    BY FS_Subset DEF Valued
  <1>2. Weight(u, T) = Weight(v, T \ {x}) + KeyLen + u[x]
    BY <1>1, WeightAdd
  <1>3. /\ Weight(v, T \ {x}) = Weight(v, T) - Weight(v, {x})
        /\ Weight(v, T) \in Nat
    BY WeightRemove
  <1>4. Weight(v, {x}) = KeyLen + v[x]
    BY <1>1, WeightOne
  <1> QED
    BY <1>1, <1>2, <1>3, <1>4, StoreConfigAssumption

-----------------------------------------------------------------------------
\* The list s holds the keys of M, each once, and b is the sum of their bytes.
Holds(s, b, v, M) ==
  /\ s \in Seq(Key) /\ Elems(s) = M /\ Distinct(s)
  /\ \A x \in M : v[x] \in Nat
  /\ b = Weight(v, M)

LEMMA HoldsFacts ==
  ASSUME NEW s, NEW b, NEW v, NEW M, Holds(s, b, v, M)
  PROVE  /\ Valued(v, M) /\ b \in Nat
         /\ s = <<>> <=> M = {}
         /\ M = {} <=> b = 0
  <1>1. IsFiniteSet(M)
    BY ElemsFinite DEF Holds
  <1>2. Valued(v, M)
    BY <1>1 DEF Holds, Valued
  <1>3. s = <<>> <=> M = {}
    <2>1. s \in Seq(Key) /\ M = Elems(s)
      BY DEF Holds
    <2>2. s # <<>> => s[1] \in Elems(s)
      <3>1. s # <<>> => 1 \in DOMAIN s
        BY <2>1
      <3> QED
        BY <3>1 DEF Elems
    <2>3. s = <<>> => Elems(s) = {}
      BY DEF Elems
    <2> QED
      BY <2>1, <2>2, <2>3
  <1>4. M = {} => b = 0
    BY WeightEmpty DEF Holds
  <1>5. ASSUME NEW k \in M
        PROVE  b # 0
    <2>1. Weight(v, {k}) = KeyLen + v[k] /\ v[k] \in Nat
      BY WeightOne DEF Holds
    <2>2. /\ Weight(v, M \ {k}) = Weight(v, M) - Weight(v, {k})
          /\ Weight(v, M) \in Nat /\ Weight(v, M \ {k}) \in Nat
      BY <1>2, WeightRemove
    <2> QED
      BY <2>1, <2>2, StoreConfigAssumption DEF Holds
  <1> QED
    BY <1>2, <1>3, <1>4, <1>5, WeightType DEF Holds

\* The values of other keys do not matter.
LEMMA HoldsSame ==
  ASSUME NEW s, NEW b, NEW v, NEW M, Holds(s, b, v, M),
         NEW u, \A x \in M : u[x] = v[x]
  PROVE  Holds(s, b, u, M)
  <1>1. Weight(u, M) = Weight(v, M)
    BY HoldsFacts, WeightSame
  <1> QED
    BY <1>1 DEF Holds

\* Elements are removed.
LEMMA HoldsRemove ==
  ASSUME NEW s, NEW b, NEW v, NEW M, Holds(s, b, v, M), NEW T,
         NEW u, \A x \in M \ T : u[x] = v[x]
  PROVE  /\ Holds(Without(s, T), b - Weight(v, T \cap M), u, M \ T)
         /\ Weight(v, T \cap M) \in Nat
         /\ Valued(v, T \cap M)
  <1> DEFINE w == Without(s, T)
             P == T \cap M
  <1>1. w \in Seq(Key) /\ Elems(w) = M \ T /\ Distinct(w)
    BY WithoutFacts DEF Holds
  <1>2. Valued(v, M) /\ M \ P = M \ T
    BY HoldsFacts
  <1>3. /\ Weight(v, M \ P) = Weight(v, M) - Weight(v, P)
        /\ Weight(v, P) \in Nat
    BY <1>2, WeightRemove
  <1>4. Valued(v, P) /\ Valued(v, M \ T)
    BY <1>2, FS_Subset DEF Valued
  <1>5. Weight(u, M \ T) = Weight(v, M \ T)
    BY <1>4, WeightSame
  <1>6. \A x \in M \ T : u[x] \in Nat
    BY <1>4 DEF Valued
  <1>7. b - Weight(v, P) = Weight(u, M \ T)
    BY <1>2, <1>3, <1>5 DEF Holds
  <1> QED
    BY <1>1, <1>3, <1>4, <1>6, <1>7 DEF Holds

\* A key is added at the front.
LEMMA HoldsAdd ==
  ASSUME NEW s, NEW b, NEW v, NEW M, Holds(s, b, v, M), NEW k \in Key, k \notin M,
         NEW u, u[k] \in Nat, \A x \in M : u[x] = v[x]
  PROVE  Holds(Fronted(s, k), b + KeyLen + u[k], u, M \cup {k})
  <1> DEFINE t == Fronted(s, k)
  <1>1. s \in Seq(Key) /\ Distinct(s) /\ Elems(s) = M
    BY DEF Holds
  <1>2. /\ t \in Seq(Key)
        /\ t # <<>> /\ t[1] = k
        /\ Elems(t) = Elems(s) \cup {k}
        /\ Distinct(t)
    BY <1>1, FrontFacts
  <1>3. Weight(u, M \cup {k}) = Weight(v, M) + KeyLen + u[k]
    <2>1. Valued(v, M)
      BY HoldsFacts
    <2> QED
      BY <2>1, WeightAdd
  <1>4. \A x \in M \cup {k} : u[x] \in Nat
    BY DEF Holds
  <1>5. b = Weight(v, M)
    BY DEF Holds
  <1> HIDE DEF t
  <1>6. Holds(t, b + KeyLen + u[k], u, M \cup {k})
    BY <1>1, <1>2, <1>3, <1>4, <1>5 DEF Holds
  <1> QED
    BY <1>6 DEF t

\* A key moves to the front, and its value may change.
LEMMA HoldsSet ==
  ASSUME NEW s, NEW b, NEW v, NEW M, Holds(s, b, v, M), NEW k \in Key, k \in M,
         NEW u, u[k] \in Nat, \A x \in M \ {k} : u[x] = v[x]
  PROVE  Holds(Fronted(s, k), b + u[k] - v[k], u, M)
  <1> DEFINE t == Fronted(s, k)
  <1>1. s \in Seq(Key) /\ Distinct(s) /\ Elems(s) = M
    BY DEF Holds
  <1>2. /\ t \in Seq(Key)
        /\ t # <<>> /\ t[1] = k
        /\ Elems(t) = Elems(s) \cup {k}
        /\ Distinct(t)
    BY <1>1, FrontFacts
  <1>3. Weight(u, M) = Weight(v, M) + u[k] - v[k]
    BY HoldsFacts, WeightSet
  <1>4. \A x \in M : u[x] \in Nat
    BY DEF Holds
  <1>5. b = Weight(v, M) /\ M \cup {k} = M
    BY DEF Holds
  <1> HIDE DEF t
  <1>6. Holds(t, b + u[k] - v[k], u, M)
    BY <1>1, <1>2, <1>3, <1>4, <1>5 DEF Holds
  <1> QED
    BY <1>6 DEF t

-----------------------------------------------------------------------------
\* Bytes of LRU and of SLRU add up the entries.
LEMMA BytesAre ==
  ASSUME NEW T, Valued(value, T)
  PROVE  L!Bytes(T) = Weight(value, T) /\ S!Bytes(T) = Weight(value, T)
  <1>1. /\ IsFiniteSet(T) /\ KeyLen \in Nat /\ \A x \in T : value[x] \in Nat
    BY StoreConfigAssumption DEF Valued
  <1> DEFINE s == LET iter[r \in SUBSET T] ==
                        IF r = {} THEN 0
                        ELSE KeyLen + value[CHOOSE x \in r : TRUE]
                             + iter[r \ {CHOOSE x \in r : TRUE}]
                  IN  iter[T]
  <1>2. s = Weight(value, T)
    BY <1>1, SumOfCosts DEF Weight, Costs
  <1>3. L!Bytes(T) = s
    BY DEF L!Bytes, L!Cost, L!SX!MapThenSumSet, L!SX!MapThenFoldSet
  <1>4. S!Bytes(T) = s
    BY DEF S!Bytes, S!Cost, S!SX!MapThenSumSet, S!SX!MapThenFoldSet
  <1> QED
    BY <1>2, <1>3, <1>4

\* The instances of StoreConfig in Store, LRU and SLRU define the same.
LEMMA SameWithout ==
  \A s, T : L!Without(s, T) = Without(s, T) /\ S!Without(s, T) = Without(s, T)
  BY DEF L!Without, S!Without, Without

\* They also compute the same budget.
LEMMA SameConfig == L!MaxBytes = MaxBytes /\ S!MaxBytes = MaxBytes
  BY DEF L!MaxBytes, S!MaxBytes, MaxBytes, L!ShardCount, S!ShardCount, ShardCount

\* A store has a budget, which may be 0 or negative.
LEMMA MaxBytesType == MaxBytes \in Int
  <1>1. ShardCount \in Nat \ {0} /\ CacheBytes \in Int
    BY StoreConfigAssumption DEF ShardCount
  <1>2. CacheBytes \div ShardCount \in Int
    BY <1>1
  <1> QED
    BY <1>1, <1>2 DEF MaxBytes

-----------------------------------------------------------------------------
(* The LRU store. *)

\* The list, the map and the counter of an LRU store agree.
LData ==
  /\ value \in [Key -> Size \cup {None}]
  /\ expire \in [Key -> {"never", "armed", "past"}]
  /\ Holds(ll, curbytes, value, L!Cached)

\* Between two methods the budget is kept; while AddWithTTL makes room for a key,
\* that key is the first one, until it is evicted itself.
LMethod ==
  /\ adding \in Key \cup {None}
  /\ reply \in Size \cup {None}
  /\ adding = None /\ MaxBytes > 0 => curbytes <= MaxBytes
  /\ adding # None /\ adding \in L!Cached => ll # <<>> /\ ll[1] = adding

\* The inductive invariant of an LRU store.
LInv == LData /\ LMethod

\* removeElement, for any entries: the list, the map and the counter still agree.
LEMMA LDeleted ==
  ASSUME LData, NEW T, L!Deleted(T)
  PROVE  LData' /\ L!Cached' = L!Cached \ T /\ curbytes' <= curbytes
  <1>1. ll' = Without(ll, T)
    BY SameWithout DEF L!Deleted
  <1>2. /\ value' = [k \in Key |-> IF k \in T THEN None ELSE value[k]]
        /\ expire' = [k \in Key |-> IF k \in T THEN "never" ELSE expire[k]]
    BY DEF L!Deleted
  <1>3. L!Cached' = L!Cached \ T
    BY <1>2 DEF L!Cached
  <1>4. /\ value' \in [Key -> Size \cup {None}]
        /\ expire' \in [Key -> {"never", "armed", "past"}]
    BY <1>2 DEF LData
  <1>5. \A k \in L!Cached \ T : value'[k] = value[k]
    BY <1>2 DEF L!Cached
  <1>6. /\ Holds(Without(ll, T), curbytes - Weight(value, T \cap L!Cached),
                 value', L!Cached \ T)
        /\ Weight(value, T \cap L!Cached) \in Nat
        /\ Valued(value, T \cap L!Cached)
    BY <1>5, HoldsRemove DEF LData
  <1>7. curbytes' = curbytes - Weight(value, T \cap L!Cached)
    BY <1>6, BytesAre DEF L!Deleted
  <1>8. curbytes \in Nat
    BY HoldsFacts DEF LData
  <1> QED
    BY <1>1, <1>3, <1>4, <1>6, <1>7, <1>8 DEF LData

\* AddWithTTL up to its loop: they still agree, and the key is the first one.
LEMMA LAdded ==
  ASSUME LData, NEW k \in Key, NEW v \in Size, NEW ttl, L!AddWithTTL(k, v, ttl)
  PROVE  LData' /\ ll' # <<>> /\ ll'[1] = k
  <1>1. ll' = Fronted(ll, k)
    BY SameWithout DEF L!AddWithTTL, L!Front, Fronted
  <1>2. /\ value' = [value EXCEPT ![k] = v]
        /\ expire' = [expire EXCEPT ![k] = IF ttl THEN "armed" ELSE "never"]
        /\ curbytes' = curbytes + v - IF k \in L!Cached THEN value[k] ELSE -KeyLen
    BY DEF L!AddWithTTL
  <1>3. v \in Nat /\ v # None /\ KeyLen \in Nat
    BY StoreConfigAssumption
  <1>4. /\ value' \in [Key -> Size \cup {None}]
        /\ expire' \in [Key -> {"never", "armed", "past"}]
    BY <1>2 DEF LData
  <1>5. value'[k] = v /\ \A j \in Key \ {k} : value'[j] = value[j]
    BY <1>2 DEF LData
  <1>6. L!Cached' = L!Cached \cup {k}
    BY <1>3, <1>5 DEF L!Cached
  <1>7. Holds(ll, curbytes, value, L!Cached) /\ curbytes \in Nat
    BY HoldsFacts DEF LData
  <1>8. \A j \in L!Cached \ {k} : value'[j] = value[j]
    BY <1>5 DEF L!Cached
  <1>9. Holds(ll', curbytes', value', L!Cached')
    <2>1. CASE k \in L!Cached
      <3>1. Holds(Fronted(ll, k), curbytes + value'[k] - value[k], value', L!Cached)
        BY <1>3, <1>5, <1>7, <1>8, <2>1, HoldsSet
      <3>2. L!Cached' = L!Cached /\ curbytes' = curbytes + value'[k] - value[k]
        BY <1>2, <1>5, <1>6, <2>1
      <3> QED
        BY <1>1, <3>1, <3>2
    <2>2. CASE k \notin L!Cached
      <3>1. \A j \in L!Cached : value'[j] = value[j]
        BY <1>8, <2>2
      <3>2. Holds(Fronted(ll, k), curbytes + KeyLen + value'[k], value', L!Cached \cup {k})
        BY <1>3, <1>5, <1>7, <2>2, <3>1, HoldsAdd
      <3>3. curbytes' = curbytes + KeyLen + value'[k]
        BY <1>2, <1>3, <1>5, <1>7, <2>2
      <3> QED
        BY <1>1, <1>6, <3>2, <3>3
    <2> QED
      BY <2>1, <2>2
  <1>10. /\ Fronted(ll, k) \in Seq(Key)
         /\ Fronted(ll, k) # <<>> /\ Fronted(ll, k)[1] = k
         /\ Elems(Fronted(ll, k)) = Elems(ll) \cup {k}
         /\ Distinct(Fronted(ll, k))
    BY <1>7, FrontFacts DEF Holds
  <1> QED
    BY <1>1, <1>4, <1>9, <1>10 DEF LData

\* A hit: the key moves to the front, and the counter still is right.
LEMMA LMoved ==
  ASSUME LData, NEW k \in Key, k \in L!Cached, ll' = L!Front(k),
         UNCHANGED <<value, expire, curbytes>>
  PROVE  LData' /\ value[k] \in Size
  <1>1. ll' = Fronted(ll, k) /\ L!Cached' = L!Cached
    BY SameWithout DEF L!Front, L!Cached, Fronted
  <1>2. Holds(ll, curbytes, value, L!Cached) /\ curbytes \in Nat
    BY HoldsFacts DEF LData
  <1>3. value[k] \in Size /\ value[k] \in Nat
    BY StoreConfigAssumption DEF LData, L!Cached
  <1>4. Holds(Fronted(ll, k), curbytes + value[k] - value[k], value, L!Cached)
    BY <1>2, <1>3, HoldsSet
  <1>5. curbytes + value[k] - value[k] = curbytes
    BY <1>2, <1>3
  <1> QED
    BY <1>1, <1>3, <1>4, <1>5 DEF LData

\* RemoveOldest: the entry is there, and unless it is the only one it is not the
\* first one, which stays the first one.
LEMMA LOldest ==
  ASSUME LData, ll # <<>>, L!Deleted({L!SX!Last(ll)})
  PROVE  /\ L!SX!Last(ll) \in L!Cached
         /\ LData' /\ L!Cached' = L!Cached \ {L!SX!Last(ll)} /\ curbytes' <= curbytes
         /\ Len(ll) = 1 => ll = <<L!SX!Last(ll)>>
         /\ Len(ll) # 1 => ll' # <<>> /\ ll'[1] = ll[1] /\ L!SX!Last(ll) # ll[1]
  <1>1. L!SX!Last(ll) = ll[Len(ll)]
    BY DEF L!SX!Last
  <1>2. ll' = Without(ll, {ll[Len(ll)]})
    BY <1>1, SameWithout DEF L!Deleted
  <1>3. LData' /\ L!Cached' = L!Cached \ {L!SX!Last(ll)} /\ curbytes' <= curbytes
    BY LDeleted
  <1>4. ll \in Seq(Key) /\ Distinct(ll) /\ Elems(ll) = L!Cached
    BY DEF LData, Holds
  <1> QED
    BY <1>1, <1>2, <1>3, <1>4, LastFacts

\* Every step of an LRU store keeps its invariant.
LEMMA LStep ==
  ASSUME LInv, L!Next
  PROVE  LInv'
  <1> USE DEF LInv
  <1>1. MaxBytes \in Int /\ curbytes \in Nat /\ None \notin Key /\ None \notin Size
    BY MaxBytesType, HoldsFacts, StoreConfigAssumption DEF LData
  <1>2. ASSUME NEW k \in Key, NEW v \in Size, NEW ttl \in BOOLEAN, L!AddWithTTL(k, v, ttl)
        PROVE  LInv'
    <2>1. LData' /\ ll' # <<>> /\ ll'[1] = k
      BY <1>2, LAdded
    <2>2. adding' = k /\ reply' = None
      BY <1>2 DEF L!AddWithTTL
    <2> QED
      BY <1>1, <2>1, <2>2 DEF LMethod
  <1>3. CASE L!Evict
    <2>1. adding # None /\ UNCHANGED <<adding, reply>>
      BY <1>3 DEF L!Evict, L!Idle
    <2>2. CASE ll = <<>>
      <3>1. UNCHANGED <<ll, value, expire, curbytes>>
        BY <1>3, <2>2 DEF L!Evict
      <3> QED
        BY <2>1, <3>1 DEF LData, LMethod, L!Cached
    <2>3. CASE ll # <<>>
      <3>1. L!Deleted({L!SX!Last(ll)})
        BY <1>3, <2>3 DEF L!Evict
      <3>2. /\ LData' /\ L!Cached' = L!Cached \ {L!SX!Last(ll)}
            /\ Len(ll) = 1 => ll = <<L!SX!Last(ll)>>
            /\ Len(ll) # 1 => ll' # <<>> /\ ll'[1] = ll[1] /\ L!SX!Last(ll) # ll[1]
        BY <2>3, <3>1, LOldest
      <3>3. ASSUME adding \in L!Cached'
            PROVE  ll' # <<>> /\ ll'[1] = adding
        <4>1. adding \in L!Cached /\ adding # L!SX!Last(ll)
          BY <3>2, <3>3
        <4>2. ll[1] = adding
          BY <2>1, <4>1 DEF LMethod
        <4>3. Len(ll) # 1
          BY <3>2, <4>1, <4>2
        <4> QED
          BY <3>2, <4>2, <4>3
      <3> QED
        BY <2>1, <3>2, <3>3 DEF LMethod
    <2> QED
      BY <2>2, <2>3
  <1>4. CASE L!Fits
    <2>1. adding' = None /\ UNCHANGED <<ll, value, expire, curbytes, reply>>
      BY <1>4 DEF L!Fits
    <2>2. MaxBytes > 0 => curbytes <= MaxBytes
      BY <1>1, <1>4, SameConfig DEF L!Fits, L!Over
    <2> QED
      BY <2>1, <2>2 DEF LData, LMethod, L!Cached
  <1>5. ASSUME L!Idle, UNCHANGED adding, reply' \in Size \cup {None}, LData',
               curbytes' <= curbytes
        PROVE  LInv'
    <2>1. curbytes' \in Nat
      BY <1>5, HoldsFacts DEF LData
    <2> QED
      BY <1>1, <1>5, <2>1 DEF LMethod, L!Idle
  <1>6. ASSUME NEW k \in Key, L!Get(k)
        PROVE  LInv'
    <2>1. CASE k \in L!Cached /\ ~L!PastDue(k)
      <3>1. ll' = L!Front(k) /\ reply' = value[k] /\ UNCHANGED <<value, expire, curbytes>>
        BY <1>6, <2>1 DEF L!Get
      <3>2. LData' /\ value[k] \in Size
        BY <2>1, <3>1, LMoved
      <3> QED
        BY <1>1, <1>5, <1>6, <3>1, <3>2 DEF L!Get
    <2>2. CASE ~(k \in L!Cached /\ ~L!PastDue(k))
      BY <1>5, <1>6, <2>2, LDeleted DEF L!Get
    <2> QED
      BY <2>1, <2>2
  <1>7. ASSUME NEW k \in Key, L!Remove(k)
        PROVE  LInv'
    BY <1>5, <1>7, LDeleted DEF L!Remove
  <1>8. ASSUME NEW k \in Key, L!Lapse(k)
        PROVE  LInv'
    <2>1. /\ expire' = [expire EXCEPT ![k] = "past"]
          /\ UNCHANGED <<ll, value, curbytes, adding, reply>>
      BY <1>8 DEF L!Lapse
    <2>2. expire' \in [Key -> {"never", "armed", "past"}]
      BY <2>1 DEF LData
    <2> QED
      BY <2>1, <2>2 DEF LData, LMethod, L!Cached
  <1>9. CASE L!RemoveOldest
    BY <1>5, <1>9, LDeleted DEF L!RemoveOldest
  <1>10. CASE L!RemoveExpired
    BY <1>5, <1>10, LDeleted DEF L!RemoveExpired
  <1> QED
    BY <1>2, <1>3, <1>4, <1>6, <1>7, <1>8, <1>9, <1>10 DEF L!Next

-----------------------------------------------------------------------------
(* The segmented LRU store. *)

\* The keys that the segments g put into segment s.
Part(g, s) == {k \in Key : g[k] = s}

\* The lists, the map, the segments and the three counters of an SLRU store agree.
SData ==
  /\ value \in [Key -> Size \cup {None}]
  /\ expire \in [Key -> {"never", "armed", "past"}]
  /\ seg \in [Key -> {"none", "probation", "protected"}]
  /\ \A k \in Key : value[k] = None <=> seg[k] = "none"
  /\ Holds(probation, probationBytes, value, Part(seg, "probation"))
  /\ Holds(protected, protectedBytes, value, Part(seg, "protected"))
  /\ curbytes = probationBytes + protectedBytes

\* Which method runs which loop, and what the loops have established: the
\* protected segment keeps its share except in enforceProtectedLimit, and the
\* budget is kept except while a key is stored.  With a negative budget a key is
\* always removed by the store that added it, so that none is ever promoted.
SMethod ==
  /\ op \in {"add", "update", "get", None}
  /\ loop \in {"protected", "total", None}
  /\ reply \in Size \cup {None}
  /\ op = None <=> loop = None
  /\ op = "add" => loop = "total"
  /\ MaxBytes > 0 /\ loop # "protected" => protectedBytes <= S!ProtectedMax
  /\ op \in {None, "get"} /\ MaxBytes > 0 => curbytes <= MaxBytes
  /\ MaxBytes < 0 => /\ protected = <<>> /\ op \in {None, "add"}
                     /\ op = None => curbytes = 0

\* The inductive invariant of an SLRU store.
SInv == SData /\ SMethod

\* What follows of the data alone.
LEMMA SFacts ==
  ASSUME SData
  PROVE  /\ curbytes \in Nat /\ probationBytes \in Nat /\ protectedBytes \in Nat
         /\ S!InSeg("probation") = Part(seg, "probation")
         /\ S!InSeg("protected") = Part(seg, "protected")
         /\ S!Cached = Part(seg, "probation") \cup Part(seg, "protected")
         /\ Part(seg, "probation") \cap Part(seg, "protected") = {}
         /\ \A k \in S!Cached : k \in Key /\ value[k] \in Size /\ value[k] \in Nat
         /\ Valued(value, S!Cached)
         /\ curbytes = 0 <=> S!Cached = {}
         /\ probation = <<>> => probationBytes = 0
         /\ protected = <<>> => protectedBytes = 0 /\ Part(seg, "protected") = {}
  <1>1. /\ probationBytes \in Nat /\ protectedBytes \in Nat
        /\ Valued(value, Part(seg, "probation")) /\ Valued(value, Part(seg, "protected"))
    BY HoldsFacts DEF SData
  <1>2. curbytes \in Nat
    BY <1>1 DEF SData
  <1>3. S!InSeg("probation") = Part(seg, "probation")
    BY DEF S!InSeg, Part
  <1>4. S!InSeg("protected") = Part(seg, "protected")
    BY DEF S!InSeg, Part
  <1>5. S!Cached = Part(seg, "probation") \cup Part(seg, "protected")
    BY DEF S!Cached, Part, SData
  <1>6. Part(seg, "probation") \cap Part(seg, "protected") = {}
    BY DEF Part
  <1>7. \A k \in S!Cached : k \in Key /\ value[k] \in Size /\ value[k] \in Nat
    BY StoreConfigAssumption DEF S!Cached, SData
  <1>8. Valued(value, S!Cached)
    BY <1>1, <1>5, <1>7, FS_Union DEF Valued
  <1>9. /\ probation = <<>> <=> Part(seg, "probation") = {}
        /\ Part(seg, "probation") = {} <=> probationBytes = 0
        /\ protected = <<>> <=> Part(seg, "protected") = {}
        /\ Part(seg, "protected") = {} <=> protectedBytes = 0
    BY HoldsFacts DEF SData
  <1>10. curbytes = 0 <=> S!Cached = {}
    <2>1. curbytes = 0 <=> probationBytes = 0 /\ protectedBytes = 0
      BY <1>1 DEF SData
    <2> QED
      BY <1>5, <1>9, <2>1
  <1> QED
    BY <1>1, <1>2, <1>3, <1>4, <1>5, <1>6, <1>7, <1>8, <1>9, <1>10

\* removeElement, for any entries: the data still agree, and the protected list
\* is the same unless one of them was in it.
LEMMA SRemoved ==
  ASSUME SData, NEW T \in SUBSET S!Cached, S!RemoveElements(T)
  PROVE  /\ SData' /\ S!Cached' = S!Cached \ T
         /\ curbytes' <= curbytes /\ protectedBytes' <= protectedBytes
         /\ T \cap Part(seg, "protected") = {} => protected' = protected
  <1> DEFINE A == Part(seg, "probation")
             B == Part(seg, "protected")
  <1>1. /\ value' = [k \in Key |-> IF k \in T THEN None ELSE value[k]]
        /\ expire' = [k \in Key |-> IF k \in T THEN "never" ELSE expire[k]]
        /\ seg' = [k \in Key |-> IF k \in T THEN "none" ELSE seg[k]]
    BY DEF S!RemoveElements
  <1>2. probation' = Without(probation, T) /\ protected' = Without(protected, T)
    BY SameWithout DEF S!RemoveElements
  <1>3. /\ value' \in [Key -> Size \cup {None}]
        /\ expire' \in [Key -> {"never", "armed", "past"}]
        /\ seg' \in [Key -> {"none", "probation", "protected"}]
        /\ \A k \in Key : value'[k] = None <=> seg'[k] = "none"
    BY <1>1 DEF SData
  <1>4. Part(seg', "probation") = A \ T /\ Part(seg', "protected") = B \ T
    BY <1>1 DEF Part
  <1>5. S!Cached' = S!Cached \ T
    BY <1>1 DEF S!Cached
  <1>6. \A k \in Key \ T : value'[k] = value[k]
    BY <1>1
  <1>7. A \subseteq Key /\ B \subseteq Key
    BY DEF Part
  <1>8. /\ curbytes \in Nat /\ probationBytes \in Nat /\ protectedBytes \in Nat
        /\ S!InSeg("probation") = A /\ S!InSeg("protected") = B
        /\ S!Cached = A \cup B /\ A \cap B = {} /\ Valued(value, S!Cached)
    BY SFacts
  <1>9. /\ Holds(probation, probationBytes, value, A)
        /\ Holds(protected, protectedBytes, value, B)
        /\ curbytes = probationBytes + protectedBytes
    BY DEF SData
  <1> HIDE DEF A, B
  <1>10. /\ Holds(Without(probation, T), probationBytes - Weight(value, T \cap A),
                  value', A \ T)
         /\ Weight(value, T \cap A) \in Nat
         /\ Valued(value, T \cap A)
    BY <1>6, <1>7, <1>9, HoldsRemove
  <1>11. /\ Holds(Without(protected, T), protectedBytes - Weight(value, T \cap B),
                  value', B \ T)
         /\ Weight(value, T \cap B) \in Nat
         /\ Valued(value, T \cap B)
    BY <1>6, <1>7, <1>9, HoldsRemove
  <1>12. Valued(value, T)
    BY <1>8, FS_Subset DEF Valued
  <1>13. /\ probationBytes' = probationBytes - Weight(value, T \cap A)
         /\ protectedBytes' = protectedBytes - Weight(value, T \cap B)
         /\ curbytes' = curbytes - Weight(value, T)
    BY <1>8, <1>10, <1>11, <1>12, BytesAre DEF S!RemoveElements
  <1>14. Weight(value, T) = Weight(value, T \cap A) + Weight(value, T \cap B)
    <2>1. T \ (T \cap B) = T \cap A
      BY <1>8
    <2>2. /\ Weight(value, T \ (T \cap B)) = Weight(value, T) - Weight(value, T \cap B)
          /\ Weight(value, T) \in Nat
      BY <1>12, WeightRemove
    <2>3. Weight(value, T \cap A) = Weight(value, T) - Weight(value, T \cap B)
      BY <2>1, <2>2
    <2> QED
      BY <1>10, <1>11, <2>2, <2>3
  <1>15. /\ curbytes' = probationBytes' + protectedBytes'
         /\ curbytes' <= curbytes /\ protectedBytes' <= protectedBytes
    BY <1>8, <1>9, <1>10, <1>11, <1>13, <1>14
  <1>16. /\ Holds(probation', probationBytes', value', Part(seg', "probation"))
         /\ Holds(protected', protectedBytes', value', Part(seg', "protected"))
    BY <1>2, <1>4, <1>10, <1>11, <1>13
  <1>17. T \cap B = {} => protected' = protected
    BY <1>2, <1>9, WithoutFacts DEF Holds
  <1> QED
    BY <1>3, <1>5, <1>15, <1>16, <1>17 DEF SData, B

\* MoveToFront and PushFront, as the lemmas above write them.
LEMMA SameToFront ==
  ASSUME NEW s, NEW k
  PROVE  S!ToFront(s, k) = Fronted(s, k)
  BY SameWithout DEF S!ToFront, Fronted

\* AddWithTTL of a new key, up to its loop.
LEMMA SAdded ==
  ASSUME SData, NEW k \in Key, NEW v \in Size, NEW ttl, S!AddNew(k, v, ttl)
  PROVE  SData'
  <1> DEFINE A == Part(seg, "probation")
             B == Part(seg, "protected")
  <1>1. /\ value' = [value EXCEPT ![k] = v]
        /\ expire' = [expire EXCEPT ![k] = IF ttl THEN "armed" ELSE "never"]
        /\ seg' = [seg EXCEPT ![k] = "probation"]
        /\ curbytes' = curbytes + KeyLen + v
        /\ probationBytes' = probationBytes + KeyLen + v
        /\ UNCHANGED <<protected, protectedBytes>>
    BY DEF S!AddNew
  <1>2. probation' = Fronted(probation, k) /\ k \notin S!Cached
    BY SameToFront DEF S!AddNew
  <1>3. v \in Nat /\ v # None /\ KeyLen \in Nat
    BY StoreConfigAssumption
  <1>4. /\ value' \in [Key -> Size \cup {None}]
        /\ expire' \in [Key -> {"never", "armed", "past"}]
        /\ seg' \in [Key -> {"none", "probation", "protected"}]
    BY <1>1 DEF SData
  <1>5. value'[k] = v /\ \A j \in Key \ {k} : value'[j] = value[j]
    BY <1>1 DEF SData
  <1>6. seg'[k] = "probation" /\ \A j \in Key \ {k} : seg'[j] = seg[j]
    BY <1>1 DEF SData
  <1>7. \A j \in Key : value'[j] = None <=> seg'[j] = "none"
    BY <1>3, <1>5, <1>6 DEF SData
  <1>8. k \notin A /\ k \notin B
    BY <1>2 DEF Part, S!Cached
  <1>9. Part(seg', "probation") = A \cup {k} /\ Part(seg', "protected") = B
    BY <1>6, <1>8 DEF Part
  <1>10. A \subseteq Key /\ B \subseteq Key
    BY DEF Part
  <1>11. /\ Holds(probation, probationBytes, value, A)
         /\ Holds(protected, protectedBytes, value, B)
         /\ curbytes = probationBytes + protectedBytes
         /\ probationBytes \in Nat /\ protectedBytes \in Nat
    BY SFacts DEF SData
  <1> HIDE DEF A, B
  <1>12. Holds(Fronted(probation, k), probationBytes + KeyLen + value'[k], value', A \cup {k})
    BY <1>3, <1>5, <1>8, <1>10, <1>11, HoldsAdd
  <1>13. Holds(protected, protectedBytes, value', B)
    BY <1>5, <1>8, <1>10, <1>11, HoldsSame
  <1>14. Holds(probation', probationBytes', value', Part(seg', "probation"))
    BY <1>1, <1>2, <1>5, <1>9, <1>12
  <1>15. Holds(protected', protectedBytes', value', Part(seg', "protected"))
    BY <1>1, <1>9, <1>13
  <1>16. curbytes' = probationBytes' + protectedBytes'
    BY <1>1, <1>3, <1>11
  <1> QED
    BY <1>4, <1>7, <1>14, <1>15, <1>16 DEF SData

\* AddWithTTL of a key that is there, in either segment, up to its loops.
LEMMA SUpdated ==
  ASSUME SData, NEW k \in Key, NEW v \in Size, NEW ttl, S!Update(k, v, ttl)
  PROVE  SData'
  <1> DEFINE A == Part(seg, "probation")
             B == Part(seg, "protected")
  <1>1. /\ value' = [value EXCEPT ![k] = v]
        /\ expire' = [expire EXCEPT ![k] = IF ttl THEN "armed" ELSE "never"]
        /\ seg' = seg /\ k \in S!Cached
        /\ curbytes' = curbytes + v - value[k]
    BY DEF S!Update
  <1>2. v \in Nat /\ v # None /\ value[k] \in Nat
    BY <1>1, SFacts, StoreConfigAssumption
  <1>3. /\ value' \in [Key -> Size \cup {None}]
        /\ expire' \in [Key -> {"never", "armed", "past"}]
        /\ seg' \in [Key -> {"none", "probation", "protected"}]
    BY <1>1 DEF SData
  <1>4. value'[k] = v /\ \A j \in Key \ {k} : value'[j] = value[j]
    BY <1>1 DEF SData
  <1>5. \A j \in Key : value'[j] = None <=> seg'[j] = "none"
    BY <1>1, <1>2, <1>4 DEF SData, S!Cached
  <1>6. /\ Holds(probation, probationBytes, value, A)
        /\ Holds(protected, protectedBytes, value, B)
        /\ curbytes = probationBytes + protectedBytes
        /\ probationBytes \in Nat /\ protectedBytes \in Nat
        /\ S!Cached = A \cup B /\ A \cap B = {}
    BY SFacts DEF SData
  <1>7. A \subseteq Key /\ B \subseteq Key /\ (seg[k] = "protected" <=> k \in B)
    BY DEF Part
  <1>8. Part(seg', "probation") = A /\ Part(seg', "protected") = B
    BY <1>1
  <1> HIDE DEF A, B
  <1>9. CASE k \in B
    <2>1. /\ protectedBytes' = protectedBytes + v - value[k]
          /\ protected' = Fronted(protected, k)
          /\ UNCHANGED <<probation, probationBytes>>
      BY <1>7, <1>9, SameToFront DEF S!Update
    <2>2. Holds(Fronted(protected, k), protectedBytes + value'[k] - value[k], value', B)
      BY <1>2, <1>4, <1>6, <1>7, <1>9, HoldsSet
    <2>3. \A j \in A : value'[j] = value[j]
      BY <1>4, <1>6, <1>7, <1>9
    <2>4. Holds(probation, probationBytes, value', A)
      BY <1>6, <2>3, HoldsSame
    <2>5. /\ Holds(probation', probationBytes', value', A)
          /\ Holds(protected', protectedBytes', value', B)
      BY <1>4, <2>1, <2>2, <2>4
    <2>6. curbytes' = probationBytes' + protectedBytes'
      BY <1>1, <1>2, <1>6, <2>1
    <2> QED
      BY <1>3, <1>5, <1>8, <2>5, <2>6 DEF SData
  <1>10. CASE k \notin B
    <2>1. /\ probationBytes' = probationBytes + v - value[k]
          /\ probation' = Fronted(probation, k)
          /\ UNCHANGED <<protected, protectedBytes>>
      BY <1>7, <1>10, SameToFront DEF S!Update
    <2>2. k \in A
      BY <1>1, <1>6, <1>10
    <2>3. Holds(Fronted(probation, k), probationBytes + value'[k] - value[k], value', A)
      BY <1>2, <1>4, <1>6, <1>7, <2>2, HoldsSet
    <2>4. \A j \in B : value'[j] = value[j]
      BY <1>4, <1>7, <1>10
    <2>5. Holds(protected, protectedBytes, value', B)
      BY <1>6, <2>4, HoldsSame
    <2>6. /\ Holds(probation', probationBytes', value', A)
          /\ Holds(protected', protectedBytes', value', B)
      BY <1>4, <2>1, <2>3, <2>5
    <2>7. curbytes' = probationBytes' + protectedBytes'
      BY <1>1, <1>2, <1>6, <2>1
    <2> QED
      BY <1>3, <1>5, <1>8, <2>6, <2>7 DEF SData
  <1> QED
    BY <1>9, <1>10

\* An entry k moves from one segment to the front of the other one.
LEMMA Crossed ==
  ASSUME NEW s, NEW b, NEW t, NEW c, NEW v, NEW M, NEW N,
         Holds(s, b, v, M), Holds(t, c, v, N),
         NEW k \in Key, k \in M, k \notin N
  PROVE  /\ Holds(Without(s, {k}), b - (KeyLen + v[k]), v, M \ {k})
         /\ Holds(Fronted(t, k), c + (KeyLen + v[k]), v, N \cup {k})
         /\ v[k] \in Nat
  <1>1. v[k] \in Nat /\ KeyLen \in Nat /\ c \in Nat
    BY HoldsFacts, StoreConfigAssumption DEF Holds
  <1>2. Holds(Without(s, {k}), b - Weight(v, {k} \cap M), v, M \ {k})
    BY HoldsRemove
  <1>3. {k} \cap M = {k} /\ Weight(v, {k}) = KeyLen + v[k]
    BY <1>1, WeightOne
  <1>4. Holds(Fronted(t, k), c + KeyLen + v[k], v, N \cup {k})
    BY <1>1, HoldsAdd
  <1>5. c + KeyLen + v[k] = c + (KeyLen + v[k])
    BY <1>1
  <1> QED
    BY <1>1, <1>2, <1>3, <1>4, <1>5

\* promote, up to its loops.
LEMMA SPromoted ==
  ASSUME SData, NEW k \in Key, S!Promote(k)
  PROVE  SData'
  <1> DEFINE A == Part(seg, "probation")
             B == Part(seg, "protected")
  <1>1. /\ seg[k] = "probation"
        /\ probationBytes' = probationBytes - (KeyLen + value[k])
        /\ protectedBytes' = protectedBytes + (KeyLen + value[k])
        /\ seg' = [seg EXCEPT ![k] = "protected"]
        /\ UNCHANGED <<value, expire, curbytes>>
    BY DEF S!Promote, S!Cost
  <1>2. probation' = Without(probation, {k}) /\ protected' = Fronted(protected, k)
    BY SameWithout, SameToFront DEF S!Promote
  <1>3. k \in A /\ k \notin B
    BY <1>1 DEF Part
  <1>4. Part(seg', "probation") = A \ {k} /\ Part(seg', "protected") = B \cup {k}
    BY <1>1 DEF Part, SData
  <1>5. /\ seg' \in [Key -> {"none", "probation", "protected"}]
        /\ \A j \in Key : value'[j] = None <=> seg'[j] = "none"
    BY <1>1 DEF SData
  <1>6. /\ Holds(probation, probationBytes, value, A)
        /\ Holds(protected, protectedBytes, value, B)
        /\ curbytes = probationBytes + protectedBytes
        /\ probationBytes \in Nat /\ protectedBytes \in Nat
    BY SFacts DEF SData
  <1> HIDE DEF A, B
  <1>7. /\ Holds(Without(probation, {k}), probationBytes - (KeyLen + value[k]), value, A \ {k})
        /\ Holds(Fronted(protected, k), protectedBytes + (KeyLen + value[k]), value, B \cup {k})
        /\ value[k] \in Nat
    BY <1>3, <1>6, Crossed
  <1>8. /\ Holds(probation', probationBytes', value', Part(seg', "probation"))
        /\ Holds(protected', protectedBytes', value', Part(seg', "protected"))
    BY <1>1, <1>2, <1>4, <1>7
  <1>9. curbytes' = probationBytes' + protectedBytes'
    BY <1>1, <1>6, <1>7, StoreConfigAssumption
  <1> QED
    BY <1>1, <1>5, <1>8, <1>9 DEF SData

\* One round of enforceProtectedLimit.
LEMMA SDemoted ==
  ASSUME SData, S!Demote
  PROVE  SData' /\ protectedBytes' <= protectedBytes
  <1> DEFINE A == Part(seg, "probation")
             B == Part(seg, "protected")
             k == protected[Len(protected)]
  <1>1. /\ protected # <<>>
        /\ protected' = SubSeq(protected, 1, Len(protected) - 1)
        /\ probationBytes' = probationBytes + (KeyLen + value[k])
        /\ protectedBytes' = protectedBytes - (KeyLen + value[k])
        /\ seg' = [seg EXCEPT ![k] = "probation"]
        /\ UNCHANGED <<value, expire, curbytes>>
    BY DEF S!Demote, S!OverProtected, S!Cost, S!SX!Last, S!SX!Front
  <1>2. probation' = Fronted(probation, k)
    BY SameToFront DEF S!Demote, S!SX!Last
  <1>3. /\ Holds(probation, probationBytes, value, A)
        /\ Holds(protected, protectedBytes, value, B)
        /\ curbytes = probationBytes + protectedBytes
        /\ probationBytes \in Nat /\ protectedBytes \in Nat
    BY SFacts DEF SData
  <1>4. k \in Elems(protected) /\ protected' = Without(protected, {k})
    BY <1>1, <1>3, LastFacts DEF Holds
  <1>5. k \in B /\ k \in Key /\ k \notin A
    BY <1>3, <1>4 DEF Holds, Part
  <1> HIDE DEF k
  <1>6. Part(seg', "probation") = A \cup {k} /\ Part(seg', "protected") = B \ {k}
    BY <1>1, <1>5 DEF Part, SData
  <1>7. /\ seg' \in [Key -> {"none", "probation", "protected"}]
        /\ \A j \in Key : value'[j] = None <=> seg'[j] = "none"
    BY <1>1, <1>5 DEF SData, Part
  <1> HIDE DEF A, B
  <1>8. /\ Holds(Without(protected, {k}), protectedBytes - (KeyLen + value[k]), value, B \ {k})
        /\ Holds(Fronted(probation, k), probationBytes + (KeyLen + value[k]), value, A \cup {k})
        /\ value[k] \in Nat
    BY <1>3, <1>5, Crossed
  <1>9. /\ Holds(probation', probationBytes', value', Part(seg', "probation"))
        /\ Holds(protected', protectedBytes', value', Part(seg', "protected"))
    BY <1>1, <1>2, <1>4, <1>6, <1>8
  <1>10. curbytes' = probationBytes' + protectedBytes' /\ protectedBytes' <= protectedBytes
    BY <1>1, <1>3, <1>8, StoreConfigAssumption
  <1> QED
    BY <1>1, <1>7, <1>9, <1>10 DEF SData

\* Get of a protected entry.
LEMMA SMoved ==
  ASSUME SData, NEW k \in Key, S!GetProtected(k)
  PROVE  SData'
  <1> DEFINE B == Part(seg, "protected")
  <1>1. /\ seg[k] = "protected" /\ protected' = Fronted(protected, k)
        /\ UNCHANGED <<probation, seg, value, expire, curbytes, probationBytes, protectedBytes>>
    BY SameToFront DEF S!GetProtected, S!counters
  <1>2. k \in B
    BY <1>1 DEF Part
  <1>3. Holds(protected, protectedBytes, value, B) /\ protectedBytes \in Nat
    BY SFacts DEF SData
  <1>4. value[k] \in Nat
    BY <1>2, <1>3 DEF Holds
  <1> HIDE DEF B
  <1>5. Holds(Fronted(protected, k), protectedBytes + value[k] - value[k], value, B)
    BY <1>2, <1>3, <1>4, HoldsSet
  <1>6. protectedBytes + value[k] - value[k] = protectedBytes
    BY <1>3, <1>4
  <1>7. Holds(protected', protectedBytes', value', Part(seg', "protected"))
    BY <1>1, <1>5, <1>6 DEF B
  <1> QED
    BY <1>1, <1>7 DEF SData

\* Division rounds down: n parts of a budget are not more than the budget.
LEMMA DivBound ==
  ASSUME NEW a \in Int, NEW b \in Nat \ {0}
  PROVE  a \div b \in Int /\ b * (a \div b) <= a
  OBVIOUS

\* The share of the protected segment is a part of the budget, for every ratio.
LEMMA ProtectedMaxBound ==
  /\ S!ProtectedMax \in Nat \ {0}
  /\ MaxBytes > 0 => S!ProtectedMax <= MaxBytes
  <1> DEFINE m == MaxBytes
             share == IF 0 < RatioNum /\ RatioNum < RatioDen
                      THEN (m * RatioNum) \div RatioDen
                      ELSE (m * 4) \div 5
  <1>1. S!ProtectedMax = IF share <= 0 THEN 1 ELSE share
    BY SameConfig DEF S!ProtectedMax
  <1>2. m \in Int /\ RatioNum \in Int /\ RatioDen \in Nat \ {0}
    BY MaxBytesType, StoreConfigAssumption
  <1> HIDE DEF m
  <1>3. m * RatioNum \in Int /\ m * 4 \in Int
    BY <1>2
  <1>4. share \in Int
    BY <1>2, <1>3, DivBound
  <1>5. ASSUME m > 0
        PROVE  share <= m
    <2>1. CASE 0 < RatioNum /\ RatioNum < RatioDen
      <3> DEFINE q == (m * RatioNum) \div RatioDen
      <3>1. q \in Int /\ RatioDen * q <= m * RatioNum
        BY <1>2, <1>3, DivBound
      <3>2. share = q
        BY <2>1
      <3> HIDE DEF q
      <3>3. m * RatioNum <= m * RatioDen
        BY <1>2, <1>5, <2>1
      <3>4. RatioDen * q <= RatioDen * m
        BY <1>2, <3>1, <3>3
      <3>5. q <= m
        BY <1>2, <3>1, <3>4
      <3> QED
        BY <3>2, <3>5
    <2>2. CASE ~(0 < RatioNum /\ RatioNum < RatioDen)
      BY <1>2, <1>5, <2>2
    <2> QED
      BY <2>1, <2>2
  <1> QED
    BY <1>1, <1>2, <1>4, <1>5 DEF m

\* There is an oldest entry, and it is a protected one only when probation is
\* empty.
LEMMA SOldest ==
  ASSUME SData, S!Cached # {}
  PROVE  /\ S!Oldest \in S!Cached
         /\ probation # <<>> => S!Oldest \notin Part(seg, "protected")
  <1>1. /\ Holds(probation, probationBytes, value, Part(seg, "probation"))
        /\ Holds(protected, protectedBytes, value, Part(seg, "protected"))
    BY DEF SData
  <1>2. /\ S!Cached = Part(seg, "probation") \cup Part(seg, "protected")
        /\ Part(seg, "probation") \cap Part(seg, "protected") = {}
    BY SFacts
  <1>3. ASSUME probation # <<>>
        PROVE  S!Oldest \in Part(seg, "probation")
    <2>1. S!Oldest = probation[Len(probation)]
      BY <1>3 DEF S!Oldest, S!SX!Last
    <2>2. probation[Len(probation)] \in Elems(probation)
      BY <1>1, <1>3, LastFacts DEF Holds
    <2> QED
      BY <1>1, <2>1, <2>2 DEF Holds
  <1>4. ASSUME probation = <<>>
        PROVE  S!Oldest \in Part(seg, "protected")
    <2>1. S!Oldest = protected[Len(protected)]
      BY <1>4 DEF S!Oldest, S!SX!Last
    <2>2. protected # <<>>
      BY <1>1, <1>2, <1>4, HoldsFacts
    <2>3. protected[Len(protected)] \in Elems(protected)
      BY <1>1, <2>2, LastFacts DEF Holds
    <2> QED
      BY <1>1, <2>1, <2>3 DEF Holds
  <1> QED
    BY <1>2, <1>3, <1>4

\* The condition of the loop of enforceTotalLimit.
LEMMA SOver ==
  ASSUME SData
  PROVE  S!OverTotal <=> MaxBytes # 0 /\ curbytes > MaxBytes /\ S!Cached # {}
  <1>1. probation \in Seq(Key) /\ protected \in Seq(Key)
    BY DEF SData, Holds
  <1>2. probation \o protected = <<>> <=> probation = <<>> /\ protected = <<>>
    BY <1>1
  <1>3. S!Cached = {} <=> probation = <<>> /\ protected = <<>>
    <2>1. /\ Holds(probation, probationBytes, value, Part(seg, "probation"))
          /\ Holds(protected, protectedBytes, value, Part(seg, "protected"))
      BY DEF SData
    <2> QED
      BY <2>1, SFacts, HoldsFacts
  <1> QED
    BY <1>2, <1>3, SameConfig DEF S!OverTotal

\* Every step of an SLRU store keeps its invariant.
LEMMA SStep ==
  ASSUME SInv, S!Next
  PROVE  SInv'
  <1> USE DEF SInv
  <1>1. /\ MaxBytes \in Int /\ curbytes \in Nat /\ protectedBytes \in Nat
        /\ curbytes = 0 <=> S!Cached = {}
        /\ probation = <<>> => probationBytes = 0
        /\ protected = <<>> => protectedBytes = 0 /\ Part(seg, "protected") = {}
        /\ curbytes = probationBytes + protectedBytes
    BY MaxBytesType, SFacts DEF SData
  <1>2. S!ProtectedMax \in Nat \ {0} /\ S!ProtectedMax' = S!ProtectedMax
    BY ProtectedMaxBound DEF S!ProtectedMax, S!MaxBytes, S!ShardCount
  <1>3. None \notin Size /\ None \notin {"add", "update", "get", "protected", "total"}
    BY StoreConfigAssumption
  <1>4. S!Idle <=> op = None
    BY DEF S!Idle
  <1>5. ASSUME NEW k \in Key, NEW v \in Size, NEW ttl \in BOOLEAN, S!AddNew(k, v, ttl)
        PROVE  SInv'
    <2>1. SData'
      BY <1>5, SAdded
    <2>2. /\ op = None /\ op' = "add" /\ loop' = "total" /\ reply' = None
          /\ UNCHANGED <<protected, protectedBytes>>
      BY <1>4, <1>5 DEF S!AddNew, S!Enters
    <2> QED
      BY <1>2, <1>3, <2>1, <2>2 DEF SMethod
  <1>6. ASSUME NEW k \in Key, NEW v \in Size, NEW ttl \in BOOLEAN, S!Update(k, v, ttl)
        PROVE  SInv'
    <2>1. SData'
      BY <1>6, SUpdated
    <2>2. /\ op = None /\ op' = "update" /\ loop' = "protected" /\ reply' = None
          /\ k \in S!Cached
      BY <1>4, <1>6 DEF S!Update, S!Enters
    <2>3. ~(MaxBytes < 0)
      BY <1>1, <2>2 DEF SMethod
    <2> QED
      BY <1>2, <1>3, <2>1, <2>2, <2>3 DEF SMethod
  <1>7. ASSUME NEW k \in Key, S!GetProtected(k)
        PROVE  SInv'
    <2>1. SData'
      BY <1>7, SMoved
    <2>2. /\ op = None /\ reply' = value[k] /\ k \in S!Cached
          /\ UNCHANGED <<op, loop, curbytes, protectedBytes>>
      BY <1>4, <1>7 DEF S!GetProtected, S!counters, S!Cached
    <2>3. ~(MaxBytes < 0)
      BY <1>1, <2>2 DEF SMethod
    <2>4. value[k] \in Size
      BY <2>2, SFacts
    <2> QED
      BY <1>2, <2>1, <2>2, <2>3, <2>4 DEF SMethod
  <1>8. ASSUME NEW k \in Key, S!Promote(k)
        PROVE  SInv'
    <2>1. SData'
      BY <1>8, SPromoted
    <2>2. /\ op = None /\ op' = "get" /\ loop' = "protected" /\ reply' = value[k]
          /\ k \in S!Cached /\ curbytes' = curbytes
      BY <1>4, <1>8 DEF S!Promote, S!Enters, S!Cached
    <2>3. ~(MaxBytes < 0)
      BY <1>1, <2>2 DEF SMethod
    <2>4. value[k] \in Size
      BY <2>2, SFacts
    <2> QED
      BY <1>2, <1>3, <2>1, <2>2, <2>3, <2>4 DEF SMethod
  <1>9. ASSUME S!Idle, NEW T \in SUBSET S!Cached, S!RemoveElements(T),
               reply' = None, UNCHANGED <<op, loop>>
        PROVE  SInv'
    <2>1. /\ SData' /\ curbytes' <= curbytes /\ protectedBytes' <= protectedBytes
          /\ protected = <<>> => protected' = protected
      BY <1>1, <1>9, SRemoved
    <2>2. curbytes' \in Nat /\ protectedBytes' \in Nat
      BY <2>1, HoldsFacts DEF SData
    <2> QED
      BY <1>1, <1>2, <1>4, <1>9, <2>1, <2>2 DEF SMethod
  <1>10. ASSUME NEW k \in Key, S!GetMiss(k) \/ S!Remove(k)
         PROVE  SInv'
    BY <1>9, <1>10 DEF S!GetMiss, S!Remove
  <1>11. CASE S!RemoveOldest
    <2>1. S!Oldest \in S!Cached
      BY <1>11, SOldest DEF S!RemoveOldest
    <2> QED
      BY <1>9, <1>11, <2>1 DEF S!RemoveOldest
  <1>12. CASE S!RemoveExpired
    BY <1>9, <1>12 DEF S!RemoveExpired
  <1>13. CASE S!Demote
    <2>1. SData' /\ protectedBytes' <= protectedBytes
      BY <1>13, SDemoted
    <2>2. /\ loop = "protected" /\ MaxBytes > 0 /\ UNCHANGED <<curbytes, op, loop, reply>>
      BY <1>13, SameConfig DEF S!Demote, S!OverProtected
    <2> QED
      BY <1>1, <1>2, <2>1, <2>2 DEF SMethod
  <1>14. CASE S!ProtectedFits
    <2>1. /\ loop = "protected" /\ loop' = "total"
          /\ UNCHANGED <<probation, protected, seg, value, expire, op, reply,
                         curbytes, probationBytes, protectedBytes>>
      BY <1>14 DEF S!ProtectedFits, S!lists, S!counters
    <2>2. MaxBytes > 0 => protectedBytes <= S!ProtectedMax
      <3>1. MaxBytes > 0 => ~(protectedBytes > S!ProtectedMax) \/ protected = <<>>
        BY <1>14, SameConfig DEF S!ProtectedFits, S!OverProtected
      <3> QED
        BY <1>1, <1>2, <3>1
    <2>3. SData'
      BY <2>1 DEF SData
    <2> QED
      BY <1>2, <1>3, <2>1, <2>2, <2>3 DEF SMethod
  <1>15. CASE S!Evict
    <2>1. /\ loop = "total" /\ S!OverTotal /\ S!RemoveElements({S!Oldest})
          /\ UNCHANGED <<op, loop, reply>>
      BY <1>15 DEF S!Evict
    <2>2. MaxBytes # 0 /\ curbytes > MaxBytes /\ S!Cached # {}
      BY <2>1, SOver
    <2>3. {S!Oldest} \in SUBSET S!Cached
      BY <2>2, SOldest
    <2>4. /\ SData' /\ protectedBytes' <= protectedBytes
          /\ protected = <<>> => protected' = protected
      BY <1>1, <2>1, <2>3, SRemoved
    <2>5. protectedBytes' \in Nat
      BY <2>4, HoldsFacts DEF SData
    <2>6. op \notin {None, "get"}
      BY <1>1, <1>3, <2>1, <2>2 DEF SMethod
    <2> QED
      BY <1>1, <1>2, <2>1, <2>4, <2>5, <2>6 DEF SMethod
  <1>16. CASE S!TotalFits
    <2>1. /\ loop = "total" /\ ~S!OverTotal /\ op' = None /\ loop' = None
          /\ UNCHANGED <<probation, protected, seg, value, expire, reply,
                         curbytes, probationBytes, protectedBytes>>
      BY <1>16 DEF S!TotalFits, S!lists, S!counters, S!Enters
    <2>2. MaxBytes # 0 => curbytes <= MaxBytes \/ curbytes = 0
      BY <1>1, <2>1, SOver
    <2>3. SData'
      BY <2>1 DEF SData
    <2> QED
      BY <1>1, <1>2, <1>3, <2>1, <2>2, <2>3 DEF SMethod
  <1>17. ASSUME NEW k \in Key, S!Lapse(k)
         PROVE  SInv'
    <2>1. /\ expire' = [expire EXCEPT ![k] = "past"]
          /\ UNCHANGED <<probation, protected, seg, value, op, loop, reply,
                         curbytes, probationBytes, protectedBytes>>
      BY <1>17 DEF S!Lapse, S!lists, S!counters
    <2>2. expire' \in [Key -> {"never", "armed", "past"}]
      BY <2>1 DEF SData
    <2>3. SData'
      BY <2>1, <2>2 DEF SData
    <2> QED
      BY <1>2, <2>1, <2>3 DEF SMethod
  <1> QED
    BY <1>5, <1>6, <1>7, <1>8, <1>10, <1>11, <1>12, <1>13, <1>14, <1>15, <1>16, <1>17
    DEF S!Next

-----------------------------------------------------------------------------
(* The store of the group. *)

\* The store that is in use keeps its invariant, the other one does nothing.
IInv ==
  /\ useSLRU \in BOOLEAN
  /\ useSLRU => SInv /\ adding = None
  /\ ~useSLRU => LInv /\ op = None /\ Part(seg, "protected") = {}

\* The empty list.
LEMMA HoldsNothing ==
  ASSUME NEW v
  PROVE  Holds(<<>>, 0, v, {})
  <1>1. <<>> \in Seq(Key) /\ Elems(<<>>) = {} /\ Distinct(<<>>)
    BY DEF Elems, Distinct
  <1>2. Weight(v, {}) = 0
    BY WeightEmpty
  <1> QED
    BY <1>1, <1>2 DEF Holds

\* A new store.
LEMMA InitIInv == Init => IInv
  <1> SUFFICES ASSUME Init
               PROVE  IInv
    OBVIOUS
  <1>1. MaxBytes \in Int /\ S!ProtectedMax \in Nat
    BY MaxBytesType, ProtectedMaxBound
  <1>2. /\ useSLRU \in BOOLEAN
        /\ ll = <<>> /\ adding = None /\ reply = None /\ curbytes = 0
        /\ value = [k \in Key |-> None] /\ expire = [k \in Key |-> "never"]
        /\ probation = <<>> /\ protected = <<>> /\ op = None /\ loop = None
        /\ seg = [k \in Key |-> "none"] /\ probationBytes = 0 /\ protectedBytes = 0
    BY DEF Init, L!Init, S!Init
  <1>3. L!Cached = {} /\ Part(seg, "probation") = {} /\ Part(seg, "protected") = {}
    BY <1>2 DEF L!Cached, Part
  <1>4. LData
    BY <1>2, <1>3, HoldsNothing DEF LData
  <1>5. SData
    BY <1>2, <1>3, HoldsNothing DEF SData
  <1>6. LMethod
    BY <1>1, <1>2 DEF LMethod
  <1>7. SMethod
    BY <1>1, <1>2, StoreConfigAssumption DEF SMethod
  <1> QED
    BY <1>2, <1>3, <1>4, <1>5, <1>6, <1>7 DEF IInv, LInv, SInv

\* Every step of the store.
LEMMA NextIInv == IInv /\ [Next]_vars => IInv'
  <1> SUFFICES ASSUME IInv, [Next]_vars
               PROVE  IInv'
    OBVIOUS
  <1>1. CASE ~useSLRU /\ L!Next /\ UNCHANGED <<useSLRU, ofSLRU>>
    <2>1. LInv'
      BY <1>1, LStep DEF IInv
    <2>2. UNCHANGED <<useSLRU, op, seg>>
      BY <1>1 DEF ofSLRU
    <2> QED
      BY <1>1, <2>1, <2>2 DEF IInv, Part
  <1>2. CASE useSLRU /\ S!Next /\ UNCHANGED <<useSLRU, ofLRU>>
    <2>1. SInv'
      BY <1>2, SStep DEF IInv
    <2>2. UNCHANGED <<useSLRU, adding>>
      BY <1>2 DEF ofLRU
    <2> QED
      BY <1>2, <2>1, <2>2 DEF IInv
  <1>3. CASE UNCHANGED vars
    <2>1. UNCHANGED <<useSLRU, value, expire, curbytes, reply, ll, adding, probation,
                      protected, seg, probationBytes, protectedBytes, op, loop>>
      BY <1>3 DEF vars, ofLRU, ofSLRU
    <2>2. L!Cached' = L!Cached /\ S!ProtectedMax' = S!ProtectedMax
      BY <2>1 DEF L!Cached, S!ProtectedMax, S!MaxBytes, S!ShardCount
    <2>3. LInv => LInv'
      BY <2>1, <2>2 DEF LInv, LData, LMethod
    <2>4. SInv => SInv'
      BY <2>1, <2>2 DEF SInv, SData, SMethod
    <2> QED
      BY <2>1, <2>3, <2>4 DEF IInv
  <1> QED
    BY <1>1, <1>2, <1>3 DEF Next

\* IInv is an invariant.
LEMMA Invariance == Spec => []IInv
  BY InitIInv, NextIInv, PTL DEF Spec

\* A key has a value if and only if it is in a segment.
LEMMA CachedAre ==
  ASSUME SData
  PROVE  L!Cached = S!Cached
  BY DEF SData, L!Cached, S!Cached

\* TypeOK is an invariant of Store: the lists, the map and the segment of each
\* entry agree at every moment, in the middle of the loops too.
THEOREM TypeCorrect == Spec => []TypeOK
  <1>1. IInv => TypeOK
    <2> SUFFICES ASSUME IInv
                 PROVE  TypeOK
      OBVIOUS
    <2>1. CASE useSLRU
      <3>1. SData /\ SMethod
        BY <2>1 DEF IInv, SInv
      <3>2. /\ probation \in Seq(Key) /\ Elems(probation) = Part(seg, "probation")
            /\ Distinct(probation)
            /\ protected \in Seq(Key) /\ Elems(protected) = Part(seg, "protected")
            /\ Distinct(protected)
        BY <3>1 DEF SData, Holds
      <3>3. /\ S!SX!ToSet(probation) = Elems(probation)
            /\ S!SX!ToSet(protected) = Elems(protected)
        BY DEF S!SX!ToSet, Elems
      <3>4. S!SX!IsInjective(probation) /\ S!SX!IsInjective(protected)
        BY <3>2 DEF S!SX!IsInjective, Distinct
      <3>5. /\ curbytes \in Nat /\ probationBytes \in Nat /\ protectedBytes \in Nat
            /\ S!InSeg("probation") = Part(seg, "probation")
            /\ S!InSeg("protected") = Part(seg, "protected")
        BY <3>1, SFacts
      <3>6. S!TypeOK
        BY <3>1, <3>2, <3>3, <3>4, <3>5 DEF S!TypeOK, SData, SMethod
      <3> QED
        BY <2>1, <3>6 DEF TypeOK, IInv
    <2>2. CASE ~useSLRU
      <3>1. LData /\ LMethod
        BY <2>2 DEF IInv, LInv
      <3>2. ll \in Seq(Key) /\ Elems(ll) = L!Cached /\ Distinct(ll)
        BY <3>1 DEF LData, Holds
      <3>3. L!SX!ToSet(ll) = Elems(ll)
        BY DEF L!SX!ToSet, Elems
      <3>4. L!SX!IsInjective(ll)
        BY <3>2 DEF L!SX!IsInjective, Distinct
      <3>5. curbytes \in Nat
        BY <3>1, HoldsFacts DEF LData
      <3>6. L!TypeOK
        BY <3>1, <3>2, <3>3, <3>4, <3>5 DEF L!TypeOK, LData, LMethod
      <3> QED
        BY <2>2, <3>6 DEF TypeOK, IInv
    <2> QED
      BY <2>1, <2>2
  <1> QED
    BY <1>1, Invariance, PTL

\* curbytes, which nothing ever recomputes, is the bytes of the entries.
LEMMA Counted ==
  ASSUME IInv
  PROVE  /\ Valued(value, L!Cached)
         /\ curbytes = Weight(value, L!Cached)
         /\ curbytes \in Nat
  <1>1. CASE useSLRU
    <2>1. SData
      BY <1>1 DEF IInv, SInv
    <2> DEFINE A == Part(seg, "probation")
               B == Part(seg, "protected")
    <2>2. /\ Valued(value, S!Cached) /\ curbytes \in Nat
          /\ S!Cached = A \cup B /\ A \cap B = {}
      BY <2>1, SFacts
    <2>3. /\ probationBytes = Weight(value, A) /\ protectedBytes = Weight(value, B)
          /\ curbytes = probationBytes + protectedBytes
          /\ probationBytes \in Nat
      BY <2>1, SFacts DEF SData, Holds
    <2> HIDE DEF A, B
    <2>4. B \subseteq S!Cached /\ S!Cached \ B = A
      BY <2>2
    <2>5. /\ Weight(value, S!Cached \ B) = Weight(value, S!Cached) - Weight(value, B)
          /\ Weight(value, B) \in Nat
      BY <2>2, <2>4, WeightRemove
    <2>6. Weight(value, S!Cached) \in Int
      BY <2>2, WeightType
    <2>7. probationBytes = Weight(value, S!Cached) - protectedBytes
      BY <2>3, <2>4, <2>5
    <2>8. protectedBytes \in Nat /\ curbytes = probationBytes + protectedBytes
      BY <2>3, <2>5
    <2>9. Weight(value, S!Cached) = curbytes
      BY <2>6, <2>7, <2>8
    <2> QED
      BY <2>1, <2>2, <2>9, CachedAre
  <1>2. CASE ~useSLRU
    <2>1. Holds(ll, curbytes, value, L!Cached)
      BY <1>2 DEF IInv, LInv, LData
    <2>2. Valued(value, L!Cached) /\ curbytes \in Nat
      BY <2>1, HoldsFacts
    <2> QED
      BY <2>1, <2>2 DEF Holds
  <1> QED
    BY <1>1, <1>2 DEF IInv

\* StoresWithinBudget is an invariant of Store: between two methods the stores of
\* a group hold no more than the budget of the group together, whatever the number
\* of shards newConfiguredCache divides it by.
THEOREM BudgetKept == Spec => []StoresWithinBudget
  <1>1. IInv => StoresWithinBudget
    <2> SUFFICES ASSUME IInv, CacheBytes >= Stores, adding = None, op = None
                 PROVE  Stores * L!Bytes(L!Cached) <= CacheBytes
      BY DEF StoresWithinBudget, L!Idle, S!Idle
    <2>1. ShardCount \in Nat \ {0} /\ CacheBytes \in Int
      BY StoreConfigAssumption DEF ShardCount
    <2>2. Stores \in Nat \ {0}
      BY <2>1 DEF Stores
    <2>3. L!Bytes(L!Cached) = curbytes /\ curbytes \in Nat
      BY Counted, BytesAre
    <2>4. MaxBytes \in Int /\ MaxBytes > 0 /\ Stores * MaxBytes <= CacheBytes
      <3>1. CASE ~UseShards
        BY <2>1, <3>1 DEF MaxBytes, Stores
      <3>2. CASE UseShards
        <4> DEFINE n == ShardCount
                   q == CacheBytes \div n
        <4>1. Stores = n /\ MaxBytes = (IF q <= 0 THEN 1 ELSE q)
          BY <3>2 DEF MaxBytes, Stores
        <4>2. q \in Int /\ n * q <= CacheBytes
          BY <2>1, DivBound
        <4>3. n \in Nat \ {0} /\ CacheBytes >= n
          BY <2>1, <4>1
        <4> HIDE DEF n, q
        <4>4. CASE q <= 0
          BY <2>1, <4>1, <4>3, <4>4
        <4>5. CASE ~(q <= 0)
          BY <4>1, <4>2, <4>5
        <4> QED
          BY <4>4, <4>5
      <3> QED
        BY <3>1, <3>2
    <2>5. curbytes <= MaxBytes
      <3>1. CASE useSLRU
        BY <2>4, <3>1 DEF IInv, SInv, SMethod
      <3>2. CASE ~useSLRU
        BY <2>4, <3>2 DEF IInv, LInv, LMethod
      <3> QED
        BY <3>1, <3>2
    <2>6. Stores * curbytes <= Stores * MaxBytes
      BY <2>2, <2>3, <2>4, <2>5
    <2>7. Stores * curbytes \in Int /\ Stores * MaxBytes \in Int
      BY <2>2, <2>3, <2>4
    <2>8. Stores * curbytes <= CacheBytes
      BY <2>1, <2>4, <2>6, <2>7
    <2> QED
      BY <2>3, <2>8
  <1> QED
    BY <1>1, Invariance, PTL

\* ProtectedShare is an invariant of Store: between two methods the bytes of the
\* protected entries are within protectedMaxBytes, for every ratio.
THEOREM ShareKept == Spec => []ProtectedShare
  <1>1. IInv => ProtectedShare
    <2> SUFFICES ASSUME IInv, op = None, MaxBytes > 0
                 PROVE  S!Bytes(S!InSeg("protected")) <= S!ProtectedMax
      BY DEF ProtectedShare, S!Idle
    <2>1. S!ProtectedMax \in Nat \ {0}
      BY ProtectedMaxBound
    <2>2. CASE useSLRU
      <3>1. SData /\ SMethod
        BY <2>2 DEF IInv, SInv
      <3>2. Holds(protected, protectedBytes, value, Part(seg, "protected"))
        BY <3>1 DEF SData
      <3>3. /\ Valued(value, Part(seg, "protected"))
            /\ protectedBytes = Weight(value, Part(seg, "protected"))
        BY <3>2, HoldsFacts DEF Holds
      <3>4. S!InSeg("protected") = Part(seg, "protected")
        BY <3>1, SFacts
      <3>5. S!Bytes(S!InSeg("protected")) = protectedBytes
        BY <3>3, <3>4, BytesAre
      <3>6. loop = None /\ protectedBytes <= S!ProtectedMax
        BY <3>1, StoreConfigAssumption DEF SMethod
      <3> QED
        BY <3>5, <3>6
    <2>3. CASE ~useSLRU
      <3>1. S!InSeg("protected") = {}
        BY <2>3 DEF IInv, S!InSeg, Part
      <3>2. Valued(value, {})
        BY FS_EmptySet DEF Valued
      <3>3. S!Bytes({}) = 0
        BY <3>2, BytesAre, WeightEmpty
      <3> QED
        BY <2>1, <3>1, <3>3
    <2> QED
      BY <2>2, <2>3
  <1> QED
    BY <1>1, Invariance, PTL

\* NewestGoesLast is an action property of Store: the loop of AddWithTTL removes
\* the key it stores only when it is alone and too large by itself.
THEOREM NewestIsLast == Spec => NewestGoesLast
  <1> DEFINE A == adding # None /\ adding \in L!Cached /\ value'[adding] = None
                    => ll = <<adding>> /\ L!Cost(adding) > MaxBytes
  <1>1. IInv /\ [Next]_vars => [A]_vars
    <2> SUFFICES ASSUME IInv, Next, adding # None, adding \in L!Cached,
                        value'[adding] = None
                 PROVE  ll = <<adding>> /\ L!Cost(adding) > MaxBytes
      OBVIOUS
    <2>1. ~useSLRU /\ L!Next /\ LData /\ LMethod
      BY DEF Next, IInv, LInv
    <2>2. adding \in Key /\ value[adding] # None /\ value' # value
      BY <2>1 DEF L!Cached, LMethod
    <2>3. L!Evict
      BY <2>1, <2>2 DEF L!Next, L!AddWithTTL, L!Fits, L!Get, L!Remove, L!Lapse, L!RemoveOldest,
                        L!RemoveExpired, L!Idle
    <2>4. ll # <<>> /\ ll[1] = adding
      BY <2>1 DEF LMethod
    <2>5. L!Deleted({L!SX!Last(ll)}) /\ MaxBytes # 0 /\ curbytes > MaxBytes
      BY <2>3, <2>4, SameConfig DEF L!Evict, L!Over
    <2>6. adding = L!SX!Last(ll)
      BY <2>2, <2>5 DEF L!Deleted
    <2>7. ll = <<adding>>
      BY <2>1, <2>4, <2>5, <2>6, LOldest
    <2>8. L!Cached = {adding}
      BY <2>1, <2>7 DEF LData, Holds, Elems
    <2>9. value[adding] \in Nat
      BY <2>1, <2>2, StoreConfigAssumption DEF LData
    <2>10. Weight(value, {adding}) = KeyLen + value[adding]
      BY <2>9, WeightOne
    <2>11. curbytes = KeyLen + value[adding]
      BY <2>8, <2>10, Counted
    <2> QED
      BY <2>5, <2>7, <2>11 DEF L!Cost
  <1>2. Spec => [][A]_vars
    BY <1>1, Invariance, PTL DEF Spec
  <1> QED
    BY <1>2 DEF NewestGoesLast

\* ScanResistant is an action property of Store: storing a new key, of any size,
\* removes nothing from the protected list and does not reorder it.  This needs
\* that the protected entries fit alone, so probation is not empty while the
\* cache exceeds its budget.
THEOREM ScansResisted == Spec => ScanResistant
  <1> DEFINE A == op = "add" => UNCHANGED protected
  <1>1. IInv /\ [Next]_vars => [A]_vars
    <2> SUFFICES ASSUME IInv, Next, op = "add"
                 PROVE  protected' = protected
      OBVIOUS
    <2>1. useSLRU /\ S!Next /\ SData /\ SMethod
      BY StoreConfigAssumption DEF Next, IInv, SInv
    <2>2. loop = "total" /\ op # None
      BY <2>1, StoreConfigAssumption DEF SMethod
    <2>3. S!Evict \/ S!TotalFits \/ \E k \in Key : S!Lapse(k)
      BY <2>1, <2>2 DEF S!Next, S!AddNew, S!Update, S!GetProtected, S!Promote, S!GetMiss,
                        S!Demote, S!ProtectedFits, S!Remove, S!RemoveOldest, S!RemoveExpired,
                        S!Idle
    <2>4. CASE S!Evict
      <3>1. S!OverTotal /\ S!RemoveElements({S!Oldest})
        BY <2>4 DEF S!Evict
      <3>2. MaxBytes # 0 /\ curbytes > MaxBytes /\ S!Cached # {}
        BY <2>1, <3>1, SOver
      <3>3. /\ probationBytes \in Nat /\ protectedBytes \in Nat
            /\ curbytes = probationBytes + protectedBytes
            /\ probation = <<>> => probationBytes = 0
            /\ protected = <<>> => protectedBytes = 0
        BY <2>1, SFacts DEF SData
      <3>4. /\ MaxBytes \in Int /\ S!ProtectedMax \in Nat
            /\ MaxBytes > 0 => protectedBytes <= S!ProtectedMax
            /\ MaxBytes > 0 => S!ProtectedMax <= MaxBytes
            /\ MaxBytes < 0 => protected = <<>>
        BY <2>1, <2>2, MaxBytesType, ProtectedMaxBound DEF SMethod
      <3>5. probation # <<>> \/ protected = <<>>
        BY <3>2, <3>3, <3>4
      <3>6. S!Oldest \in S!Cached /\ (probation # <<>> => S!Oldest \notin Part(seg, "protected"))
        BY <2>1, <3>2, SOldest
      <3>7. protected = <<>> => Part(seg, "protected") = {}
        BY <2>1, SFacts
      <3> QED
        BY <2>1, <3>1, <3>5, <3>6, <3>7, SRemoved
    <2>5. CASE S!TotalFits
      BY <2>5 DEF S!TotalFits, S!lists
    <2>6. CASE \E k \in Key : S!Lapse(k)
      BY <2>6 DEF S!Lapse, S!lists
    <2> QED
      BY <2>3, <2>4, <2>5, <2>6
  <1>2. Spec => [][A]_vars
    BY <1>1, Invariance, PTL DEF Spec
  <1> QED
    BY <1>2 DEF ScanResistant

-----------------------------------------------------------------------------
(* The stores implement BoundedCache. *)

\* The two variables of BoundedCache that the mapping computes.
Content == [k \in Key |-> IF k \in L!Cached
                          THEN [len |-> value[k], life |-> expire[k]]
                          ELSE None]
Busy == adding # None \/ op \in {"add", "update"}

\* The types of the entries; None is not one.
LEMMA EntryFacts ==
  ASSUME IInv
  PROVE  /\ value \in [Key -> Size \cup {None}]
         /\ expire \in [Key -> {"never", "armed", "past"}]
         /\ None \notin Size /\ Size \subseteq Nat
         /\ \A k \in Key, v \in Size, l \in {"never", "armed", "past"} :
              [len |-> v, life |-> l] # None
  <1>1. /\ value \in [Key -> Size \cup {None}]
        /\ expire \in [Key -> {"never", "armed", "past"}]
    BY DEF IInv, LInv, LData, SInv, SData
  <1>2. None \notin Size /\ Size \subseteq Nat
    BY StoreConfigAssumption
  <1>3. \A v \in Size, l \in {"never", "armed", "past"} :
          [len |-> v, life |-> l] \in [len : Nat, life : {"never", "armed", "past"}]
    BY <1>2
  <1>4. None \notin [len : Nat, life : {"never", "armed", "past"}]
    BY StoreConfigAssumption
  <1>5. \A v \in Size, l \in {"never", "armed", "past"} : [len |-> v, life |-> l] # None
    BY <1>3, <1>4
  <1> QED
    BY <1>1, <1>2, <1>5

\* The contents are the entries.
LEMMA ContentFacts ==
  ASSUME IInv
  PROVE  /\ Bounded!Cached = L!Cached
         /\ \A k \in L!Cached : /\ Content[k] # None
                                /\ Content[k].len = value[k]
                                /\ Content[k].life = expire[k]
         /\ \A k \in Key \ L!Cached : Content[k] = None
  <1>1. ASSUME NEW k \in L!Cached
        PROVE  /\ Content[k] # None
               /\ Content[k].len = value[k] /\ Content[k].life = expire[k]
    <2>1. Content[k] = [len |-> value[k], life |-> expire[k]]
      BY DEF Content, L!Cached
    <2>2. k \in Key /\ value[k] \in Size /\ expire[k] \in {"never", "armed", "past"}
      BY EntryFacts DEF L!Cached
    <2>3. [len |-> value[k], life |-> expire[k]] # None
      BY <2>2, EntryFacts
    <2> QED
      BY <2>1, <2>3
  <1>2. \A k \in Key \ L!Cached : Content[k] = None
    BY DEF Content
  <1>3. Bounded!Cached = {k \in Key : Content[k] # None}
    BY DEF Bounded!Cached, Content
  <1>4. L!Cached \subseteq Key
    BY DEF L!Cached
  <1> QED
    BY <1>1, <1>2, <1>3, <1>4

\* The contents weigh what the counter says.
LEMMA TotalIs ==
  ASSUME IInv
  PROVE  Bounded!Total = curbytes
  <1> DEFINE T == L!Cached
             s == LET iter[r \in SUBSET T] ==
                        IF r = {} THEN 0
                        ELSE KeyLen + Content[CHOOSE x \in r : TRUE].len
                             + iter[r \ {CHOOSE x \in r : TRUE}]
                  IN  iter[T]
  <1>1. Bounded!Cached = T /\ \A k \in T : Content[k].len = value[k]
    BY ContentFacts
  <1>2. IsFiniteSet(T) /\ \A k \in T : value[k] \in Nat
    BY Counted DEF Valued
  <1>3. KeyLen \in Nat
    BY StoreConfigAssumption
  <1>4. Bounded!Total = s
    <2> HIDE DEF T
    <2> QED
      BY <1>1 DEF Bounded!Total, Bounded!MapThenSumSet, Bounded!MapThenFoldSet, Content
  <1> HIDE DEF T
  <1>5. s = Sum([x \in T |-> KeyLen + Content[x].len], T)
    <2>1. \A k \in T : Content[k].len \in Nat
      BY <1>1, <1>2
    <2> QED
      BY <1>2, <1>3, <2>1, SumOfLengths
  <1>6. [x \in T |-> KeyLen + Content[x].len] = [x \in T |-> KeyLen + value[x]]
    BY <1>1
  <1>7. s = Weight(value, T)
    BY <1>5, <1>6 DEF Weight, Costs
  <1> QED
    BY <1>4, <1>7, Counted DEF T

\* So the stores and BoundedCache agree on when the budget is exceeded.
LEMMA OverIs ==
  ASSUME IInv
  PROVE  Bounded!Over <=> MaxBytes # 0 /\ curbytes > MaxBytes
  BY TotalIs DEF Bounded!Over

\* The entries are left alone.
LEMMA ContentSame ==
  ASSUME UNCHANGED <<value, expire>>
  PROVE  Content' = Content
  BY DEF Content, L!Cached

\* Entries are removed.
LEMMA ContentDropped ==
  ASSUME NEW T,
         value' = [k \in Key |-> IF k \in T THEN None ELSE value[k]],
         expire' = [k \in Key |-> IF k \in T THEN "never" ELSE expire[k]]
  PROVE  /\ Content' = [k \in Key |-> IF k \in T THEN None ELSE Content[k]]
         /\ \A k \in Key : T = {k} => Content' = [Content EXCEPT ![k] = None]
  <1>1. \A k \in Key : k \in L!Cached' <=> k \in L!Cached /\ k \notin T
    BY DEF L!Cached
  <1>2. Content' = [k \in Key |-> IF k \in T THEN None ELSE Content[k]]
    BY <1>1 DEF Content
  <1>3. \A k \in Key : [Content EXCEPT ![k] = None]
                        = [j \in Key |-> IF j = k THEN None ELSE Content[j]]
    BY DEF Content
  <1> QED
    BY <1>2, <1>3

\* An entry is stored.
LEMMA ContentPut ==
  ASSUME IInv, NEW k \in Key, NEW v \in Size, NEW life,
         value' = [value EXCEPT ![k] = v], expire' = [expire EXCEPT ![k] = life]
  PROVE  Content' = [Content EXCEPT ![k] = [len |-> v, life |-> life]]
  <1>1. /\ value'[k] = v /\ \A j \in Key \ {k} : value'[j] = value[j]
        /\ expire'[k] = life /\ \A j \in Key \ {k} : expire'[j] = expire[j]
        /\ v # None
    BY EntryFacts
  <1>2. k \in L!Cached' /\ \A j \in Key \ {k} : j \in L!Cached' <=> j \in L!Cached
    BY <1>1 DEF L!Cached
  <1>3. Content' = [j \in Key |-> IF j = k THEN [len |-> v, life |-> life] ELSE Content[j]]
    BY <1>1, <1>2 DEF Content
  <1>4. [Content EXCEPT ![k] = [len |-> v, life |-> life]]
          = [j \in Key |-> IF j = k THEN [len |-> v, life |-> life] ELSE Content[j]]
    BY DEF Content
  <1> QED
    BY <1>3, <1>4

\* The time passes for an entry.
LEMMA ContentLapsed ==
  ASSUME IInv, NEW k \in Key, expire[k] = "armed", UNCHANGED <<value, reply>>,
         expire' = [expire EXCEPT ![k] = "past"], Busy' = Busy
  PROVE  Bounded!Lapse(k) \/ UNCHANGED Bounded!vars
  <1>1. L!Cached' = L!Cached
    BY DEF L!Cached
  <1>2. expire'[k] = "past" /\ \A j \in Key \ {k} : expire'[j] = expire[j]
    BY EntryFacts
  <1>3. CASE k \notin L!Cached
    <2>1. Content' = Content
      BY <1>1, <1>2, <1>3 DEF Content
    <2> QED
      BY <2>1 DEF Bounded!vars, Content, Busy
  <1>4. CASE k \in L!Cached
    <2>1. Content[k] # None /\ Content[k].life = "armed" /\ Content[k].len = value[k]
      BY <1>4, ContentFacts
    <2>2. Content[k] = [len |-> value[k], life |-> expire[k]]
      BY <1>4 DEF Content
    <2>3. [Content[k] EXCEPT !.life = "past"] = [len |-> value[k], life |-> "past"]
      BY <2>2
    <2>4. Content' = [j \in Key |-> IF j = k THEN [len |-> value[k], life |-> "past"]
                                    ELSE Content[j]]
      BY <1>1, <1>2, <1>4 DEF Content
    <2>5. [Content EXCEPT ![k] = [Content[k] EXCEPT !.life = "past"]]
            = [j \in Key |-> IF j = k THEN [len |-> value[k], life |-> "past"]
                             ELSE Content[j]]
      BY <2>3 DEF Content
    <2>6. Content' = [Content EXCEPT ![k] = [Content[k] EXCEPT !.life = "past"]]
      BY <2>4, <2>5
    <2> QED
      BY <2>1, <2>6 DEF Bounded!Lapse, Content, Busy
  <1> QED
    BY <1>3, <1>4

\* When a step of a store is a step of BoundedCache: none at all,
LEMMA IsStutter ==
  ASSUME UNCHANGED <<value, expire, reply>>, Busy' = Busy
  PROVE  UNCHANGED Bounded!vars
  BY ContentSame DEF Bounded!vars, Content, Busy

\* a value is stored,
LEMMA IsPut ==
  ASSUME IInv, NEW k \in Key, NEW v \in Size, NEW ttl \in BOOLEAN,
         ~Busy, Busy', reply' = None,
         value' = [value EXCEPT ![k] = v],
         expire' = [expire EXCEPT ![k] = IF ttl THEN "armed" ELSE "never"]
  PROVE  Bounded!Next
  <1> DEFINE life == IF ttl THEN "armed" ELSE "never"
  <1>1. life \in {"never", "armed"}
    OBVIOUS
  <1>2. Content' = [Content EXCEPT ![k] = [len |-> v, life |-> life]]
    BY ContentPut
  <1> HIDE DEF life
  <1>3. Bounded!Put(k, v, life)
    BY <1>2 DEF Bounded!Put, Content, Busy
  <1> QED
    BY <1>1, <1>3 DEF Bounded!Next

\* a store evicts an entry while the contents exceed the budget,
LEMMA IsShrink ==
  ASSUME IInv, NEW k \in L!Cached, Busy, MaxBytes # 0, curbytes > MaxBytes,
         value' = [j \in Key |-> IF j \in {k} THEN None ELSE value[j]],
         expire' = [j \in Key |-> IF j \in {k} THEN "never" ELSE expire[j]],
         Busy' = Busy, reply' = reply
  PROVE  Bounded!Next
  <1>1. k \in Key
    BY DEF L!Cached
  <1>2. Content' = [Content EXCEPT ![k] = None] /\ Content[k] # None
    BY <1>1, ContentDropped, ContentFacts
  <1>3. Bounded!Over
    BY OverIs
  <1>4. Bounded!Shrink(k)
    BY <1>2, <1>3 DEF Bounded!Shrink, Content, Busy
  <1> QED
    BY <1>1, <1>4 DEF Bounded!Next

\* a store returns,
LEMMA IsSettle ==
  ASSUME IInv, Busy, ~Busy', UNCHANGED <<value, expire, reply>>,
         ~(MaxBytes # 0 /\ curbytes > MaxBytes) \/ L!Cached = {}
  PROVE  Bounded!Next
  <1>1. Content' = Content
    BY ContentSame
  <1>2. ~Bounded!Over \/ Bounded!Cached = {}
    BY OverIs, ContentFacts
  <1>3. Bounded!Settle
    BY <1>1, <1>2 DEF Bounded!Settle, Content, Busy
  <1> QED
    BY <1>3 DEF Bounded!Next

\* a lookup finds an entry that has not expired,
LEMMA IsHit ==
  ASSUME IInv, NEW k \in L!Cached, expire[k] # "past", ~Busy, Busy' = Busy,
         UNCHANGED <<value, expire>>, reply' = value[k]
  PROVE  Bounded!Next
  <1>1. k \in Key
    BY DEF L!Cached
  <1>2. Content' = Content
    BY ContentSame
  <1>3. Content[k] # None /\ Content[k].life # "past" /\ reply' = Content[k].len
    BY ContentFacts
  <1>4. Bounded!Lookup(k)
    BY <1>2, <1>3 DEF Bounded!Lookup, Content, Busy
  <1> QED
    BY <1>1, <1>4 DEF Bounded!Next

\* a lookup finds none,
LEMMA IsMiss ==
  ASSUME IInv, NEW k \in Key, k \in L!Cached => expire[k] = "past", ~Busy, Busy' = Busy,
         value' = [j \in Key |-> IF j \in {k} \cap L!Cached THEN None ELSE value[j]],
         expire' = [j \in Key |-> IF j \in {k} \cap L!Cached THEN "never" ELSE expire[j]],
         reply' = None
  PROVE  Bounded!Next
  <1>1. Content' = [j \in Key |-> IF j \in {k} \cap L!Cached THEN None ELSE Content[j]]
    BY ContentDropped
  <1>2. [Content EXCEPT ![k] = None] = [j \in Key |-> IF j = k THEN None ELSE Content[j]]
    BY DEF Content
  <1>3. k \notin L!Cached => Content[k] = None
    BY ContentFacts
  <1>4. Content' = [Content EXCEPT ![k] = None]
    BY <1>1, <1>2, <1>3
  <1>5. ~(Content[k] # None /\ Content[k].life # "past")
    BY <1>3, ContentFacts
  <1>6. Bounded!Lookup(k)
    BY <1>4, <1>5 DEF Bounded!Lookup, Content, Busy
  <1> QED
    BY <1>6 DEF Bounded!Next

\* entries are removed on request.
LEMMA IsDrop ==
  ASSUME NEW T \in SUBSET Key, ~Busy, Busy' = Busy,
         value' = [j \in Key |-> IF j \in T THEN None ELSE value[j]],
         expire' = [j \in Key |-> IF j \in T THEN "never" ELSE expire[j]],
         reply' = None
  PROVE  Bounded!Next
  <1>1. Content' = [j \in Key |-> IF j \in T THEN None ELSE Content[j]]
    BY ContentDropped
  <1>2. Bounded!Drop(T)
    BY <1>1 DEF Bounded!Drop, Content, Busy
  <1> QED
    BY <1>2 DEF Bounded!Next

\* Every step of an LRU store is a step of BoundedCache or none at all: only
\* RemoveOldest of an empty list, under a negative budget, is none.
LEMMA LRefines ==
  ASSUME IInv, ~useSLRU, L!Next, UNCHANGED ofSLRU
  PROVE  Bounded!Next \/ UNCHANGED Bounded!vars
  <1>1. LData /\ LMethod /\ op = None /\ op' = None
    BY DEF IInv, LInv, ofSLRU
  <1>2. (Busy <=> adding # None) /\ (Busy' <=> adding' # None) /\ (L!Idle <=> adding = None)
    BY <1>1, StoreConfigAssumption DEF Busy, L!Idle
  <1>3. adding' = adding => Busy' = Busy
    BY <1>1 DEF Busy
  <1>4. L!Cached \subseteq Key /\ None \notin Key
    BY StoreConfigAssumption DEF L!Cached
  <1>5. ASSUME NEW k \in Key, NEW v \in Size, NEW ttl \in BOOLEAN, L!AddWithTTL(k, v, ttl)
        PROVE  Bounded!Next
    <2>1. /\ adding = None /\ adding' = k /\ reply' = None
          /\ value' = [value EXCEPT ![k] = v]
          /\ expire' = [expire EXCEPT ![k] = IF ttl THEN "armed" ELSE "never"]
      BY <1>5 DEF L!AddWithTTL, L!Idle
    <2> QED
      BY <1>2, <1>4, <2>1, IsPut
  <1>6. CASE L!Evict
    <2>1. adding # None /\ MaxBytes # 0 /\ curbytes > MaxBytes /\ UNCHANGED <<adding, reply>>
      BY <1>6, SameConfig DEF L!Evict, L!Over, L!Idle
    <2>2. CASE ll = <<>>
      BY <1>3, <1>6, <2>1, <2>2, IsStutter DEF L!Evict
    <2>3. CASE ll # <<>>
      <3>1. L!Deleted({L!SX!Last(ll)})
        BY <1>6, <2>3 DEF L!Evict
      <3>2. L!SX!Last(ll) \in L!Cached
        BY <1>1, <2>3, <3>1, LOldest
      <3> QED
        BY <1>2, <1>3, <2>1, <3>1, <3>2, IsShrink DEF L!Deleted
    <2> QED
      BY <2>2, <2>3
  <1>7. CASE L!Fits
    <2>1. /\ adding # None /\ ~(MaxBytes # 0 /\ curbytes > MaxBytes)
          /\ adding' = None /\ UNCHANGED <<value, expire, reply>>
      BY <1>7, SameConfig DEF L!Fits, L!Over, L!Idle
    <2> QED
      BY <1>2, <2>1, IsSettle
  <1>8. ASSUME L!Idle, UNCHANGED adding, reply' = None,
               NEW T \in SUBSET L!Cached, L!Deleted(T)
        PROVE  Bounded!Next
    <2>1. ~Busy /\ Busy' = Busy /\ T \in SUBSET Key
      BY <1>2, <1>3, <1>4, <1>8
    <2> QED
      BY <1>8, <2>1, IsDrop DEF L!Deleted
  <1>9. ASSUME NEW k \in Key, L!Get(k)
        PROVE  Bounded!Next
    <2>1. ~Busy /\ Busy' = Busy
      BY <1>2, <1>3, <1>9 DEF L!Get
    <2>2. CASE k \in L!Cached /\ expire[k] # "past"
      <3>1. UNCHANGED <<value, expire>> /\ reply' = value[k]
        BY <1>9, <2>2 DEF L!Get, L!PastDue
      <3> QED
        BY <2>1, <2>2, <3>1, IsHit
    <2>3. CASE ~(k \in L!Cached /\ expire[k] # "past")
      <3>1. L!Deleted({k} \cap L!Cached) /\ reply' = None
        BY <1>9, <2>3 DEF L!Get, L!PastDue
      <3> QED
        BY <2>1, <2>3, <3>1, IsMiss DEF L!Deleted
    <2> QED
      BY <2>2, <2>3
  <1>10. ASSUME NEW k \in Key, L!Remove(k)
         PROVE  Bounded!Next
    BY <1>8, <1>10 DEF L!Remove
  <1>11. CASE L!RemoveOldest
    <2>1. L!SX!Last(ll) \in L!Cached
      BY <1>1, <1>11, LOldest DEF L!RemoveOldest
    <2> QED
      BY <1>8, <1>11, <2>1 DEF L!RemoveOldest
  <1>12. CASE L!RemoveExpired
    BY <1>8, <1>12 DEF L!RemoveExpired
  <1>13. ASSUME NEW k \in Key, L!Lapse(k)
         PROVE  Bounded!Next \/ UNCHANGED Bounded!vars
    <2>1. Bounded!Lapse(k) \/ UNCHANGED Bounded!vars
      BY <1>3, <1>13, ContentLapsed DEF L!Lapse
    <2> QED
      BY <2>1 DEF Bounded!Next
  <1> QED
    BY <1>5, <1>6, <1>7, <1>9, <1>10, <1>11, <1>12, <1>13 DEF L!Next

\* Every step of an SLRU store is a step of BoundedCache or none at all: Demote
\* and the loops of Get are none, because Get never evicts.
LEMMA SRefines ==
  ASSUME IInv, useSLRU, S!Next, UNCHANGED ofLRU
  PROVE  Bounded!Next \/ UNCHANGED Bounded!vars
  <1>1. SData /\ SMethod /\ adding = None /\ adding' = None
    BY DEF IInv, SInv, ofLRU
  <1>2. L!Cached = S!Cached /\ S!Cached \subseteq Key
    BY <1>1, CachedAre DEF S!Cached
  <1>3. /\ Busy <=> op \in {"add", "update"}
        /\ Busy' <=> op' \in {"add", "update"}
        /\ S!Idle <=> op = None
        /\ None \notin {"add", "update", "get"}
    BY <1>1, StoreConfigAssumption DEF Busy, S!Idle
  <1>4. op' = op => Busy' = Busy
    BY <1>1 DEF Busy
  <1>5. ASSUME NEW k \in Key, NEW v \in Size, NEW ttl \in BOOLEAN,
               S!AddNew(k, v, ttl) \/ S!Update(k, v, ttl)
        PROVE  Bounded!Next
    <2>1. /\ op = None /\ op' \in {"add", "update"} /\ reply' = None
          /\ value' = [value EXCEPT ![k] = v]
          /\ expire' = [expire EXCEPT ![k] = IF ttl THEN "armed" ELSE "never"]
      BY <1>5 DEF S!AddNew, S!Update, S!Idle, S!Enters
    <2> QED
      BY <1>3, <2>1, IsPut
  <1>6. ASSUME NEW k \in Key, S!GetProtected(k) \/ S!Promote(k)
        PROVE  Bounded!Next
    <2>1. /\ op = None /\ op' \in {None, "get"} /\ reply' = value[k]
          /\ k \in S!Cached /\ expire[k] # "past" /\ UNCHANGED <<value, expire>>
      BY <1>6 DEF S!GetProtected, S!Promote, S!Idle, S!Enters, S!Cached
    <2>2. ~Busy /\ Busy' = Busy
      BY <1>1, <1>3, <2>1 DEF Busy
    <2> QED
      BY <1>2, <2>1, <2>2, IsHit
  <1>7. ASSUME NEW k \in Key, S!GetMiss(k)
        PROVE  Bounded!Next
    <2>1. /\ op = None /\ UNCHANGED op /\ reply' = None
          /\ k \in L!Cached => expire[k] = "past"
          /\ S!RemoveElements({k} \cap L!Cached)
      BY <1>2, <1>7 DEF S!GetMiss, S!Idle
    <2>2. ~Busy /\ Busy' = Busy
      BY <1>3, <1>4, <2>1
    <2> QED
      BY <2>1, <2>2, IsMiss DEF S!RemoveElements
  <1>8. ASSUME S!Idle, UNCHANGED op, reply' = None,
               NEW T \in SUBSET S!Cached, S!RemoveElements(T)
        PROVE  Bounded!Next
    <2>1. ~Busy /\ Busy' = Busy /\ T \in SUBSET Key
      BY <1>2, <1>3, <1>4, <1>8
    <2> QED
      BY <1>8, <2>1, IsDrop DEF S!RemoveElements
  <1>9. ASSUME NEW k \in Key, S!Remove(k)
        PROVE  Bounded!Next
    BY <1>8, <1>9 DEF S!Remove
  <1>10. CASE S!RemoveOldest
    <2>1. S!Oldest \in S!Cached
      BY <1>1, <1>10, SOldest DEF S!RemoveOldest
    <2> QED
      BY <1>8, <1>10, <2>1 DEF S!RemoveOldest
  <1>11. CASE S!RemoveExpired
    BY <1>8, <1>11 DEF S!RemoveExpired
  <1>12. CASE S!Demote \/ S!ProtectedFits
    <2>1. UNCHANGED <<value, expire, reply, op>>
      BY <1>12 DEF S!Demote, S!ProtectedFits
    <2> QED
      BY <1>4, <2>1, IsStutter
  <1>13. CASE S!Evict
    <2>1. /\ loop = "total" /\ S!OverTotal /\ S!RemoveElements({S!Oldest})
          /\ UNCHANGED <<op, reply>>
      BY <1>13 DEF S!Evict
    <2>2. MaxBytes # 0 /\ curbytes > MaxBytes /\ S!Cached # {}
      BY <1>1, <2>1, SOver
    <2>3. S!Oldest \in L!Cached
      BY <1>1, <1>2, <2>2, SOldest
    <2>4. MaxBytes \in Int /\ curbytes \in Nat
      BY <1>1, MaxBytesType, SFacts
    <2>5. op \in {"add", "update"}
      <3>1. op # None
        BY <1>1, <2>1, StoreConfigAssumption DEF SMethod
      <3>2. op # "get"
        BY <1>1, <2>2, <2>4, <3>1 DEF SMethod
      <3> QED
        BY <1>1, <3>1, <3>2 DEF SMethod
    <2> QED
      BY <1>3, <1>4, <2>1, <2>2, <2>3, <2>5, IsShrink DEF S!RemoveElements
  <1>14. CASE S!TotalFits
    <2>1. ~S!OverTotal /\ op' = None /\ UNCHANGED <<value, expire, reply>>
      BY <1>14 DEF S!TotalFits, S!Enters, S!lists
    <2>2. ~(MaxBytes # 0 /\ curbytes > MaxBytes) \/ L!Cached = {}
      BY <1>1, <1>2, <2>1, SOver
    <2>3. CASE Busy
      BY <1>3, <2>1, <2>2, <2>3, IsSettle
    <2>4. CASE ~Busy
      <3>1. Busy' = Busy
        BY <1>1, <1>3, <2>1, <2>4 DEF Busy
      <3> QED
        BY <2>1, <3>1, IsStutter
    <2> QED
      BY <2>3, <2>4
  <1>15. ASSUME NEW k \in Key, S!Lapse(k)
         PROVE  Bounded!Next \/ UNCHANGED Bounded!vars
    <2>1. Bounded!Lapse(k) \/ UNCHANGED Bounded!vars
      BY <1>4, <1>15, ContentLapsed DEF S!Lapse
    <2> QED
      BY <2>1 DEF Bounded!Next
  <1> QED
    BY <1>5, <1>6, <1>7, <1>9, <1>10, <1>11, <1>12, <1>13, <1>14, <1>15 DEF S!Next

\* Store implements BoundedCache: both eviction policies look like one map with a
\* byte budget, in which a lookup returns what was stored last unless it has
\* expired, was removed or was evicted by a store that exceeded the budget.
THEOREM Refinement == Spec => BoundedCacheSpec
  <1>1. Init => Bounded!Init
    <2> SUFFICES ASSUME Init
                 PROVE  Bounded!Init
      OBVIOUS
    <2>1. L!Cached = {} /\ adding = None /\ op = None /\ reply = None
      BY DEF Init, L!Init, S!Init, L!Cached
    <2> QED
      BY <2>1, StoreConfigAssumption DEF Bounded!Init
  <1>2. IInv /\ [Next]_vars => [Bounded!Next]_(Bounded!vars)
    <2> SUFFICES ASSUME IInv, [Next]_vars
                 PROVE  Bounded!Next \/ UNCHANGED Bounded!vars
      OBVIOUS
    <2>1. CASE ~useSLRU /\ L!Next /\ UNCHANGED <<useSLRU, ofSLRU>>
      BY <2>1, LRefines
    <2>2. CASE useSLRU /\ S!Next /\ UNCHANGED <<useSLRU, ofLRU>>
      BY <2>2, SRefines
    <2>3. CASE UNCHANGED vars
      <3>1. UNCHANGED <<value, expire, reply, adding, op>>
        BY <2>3 DEF vars, ofLRU, ofSLRU
      <3>2. Busy' = Busy
        BY <3>1 DEF Busy
      <3> QED
        BY <3>1, <3>2, IsStutter
    <2> QED
      BY <2>1, <2>2, <2>3 DEF Next
  <1> QED
    BY <1>1, <1>2, Invariance, PTL DEF Spec, BoundedCacheSpec, Bounded!Spec

=============================================================================
