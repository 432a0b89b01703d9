---------------------------- MODULE DataLemmas ------------------------------
(***************************************************************************)
(* What several of the proofs need to know of their data: the sum over a   *)
(* finite set, the size of a set that one element joins or leaves, and     *)
(* what Sorted returns.                                                    *)
(*                                                                         *)
(* What a recursion computes is shown here by the least counterexample:    *)
(* the sizes at which a claim fails are a set of natural numbers, and if   *)
(* it had an element it would have a least one (Least), just above a size  *)
(* at which the claim holds.                                               *)
(***************************************************************************)
EXTENDS Sorting, FiniteSetTheorems, WellFoundedInduction, TLAPS

\* A set of natural numbers has a least element.
LEMMA Least ==
  ASSUME NEW B \in SUBSET Nat, B # {}
  PROVE  \E n \in B : \A m \in B : n <= m
  <1> DEFINE R == {ss \in Nat \X Nat : ss[1] < ss[2]}
  <1>1. IsWellFoundedOn(R, Nat)
    BY NatLessThanWellFounded DEF OpToRel
  <1>2. \A m, n \in Nat : m < n => <<m, n>> \in R
    OBVIOUS
  <1> HIDE DEF R
  <1>3. PICK n \in B : \A m \in B : ~(<<m, n>> \in R)
    BY <1>1, WFMin
  <1>4. ASSUME NEW m \in B
        PROVE  n <= m
    <2>1. m \in Nat /\ n \in Nat
      OBVIOUS
    <2>2. ~(m < n)
      BY <1>2, <1>3, <2>1
    <2> QED
      BY <2>1, <2>2
  <1> QED BY <1>4

\* What is below the least element is not in the set.
LEMMA Below ==
  ASSUME NEW B, NEW n \in Nat \ {0}, \A m \in B : n <= m
  PROVE  n - 1 \in Nat /\ n - 1 \notin B
  OBVIOUS

-----------------------------------------------------------------------------
\* The element that a sum over the set s adds first.
Pick(s) == CHOOSE x \in s : TRUE

\* g gives the sum of the numbers f of the elements of every subset of T.
\* This is how MapThenSumSet computes it.
Adds(g, f, T) ==
  g = [s \in SUBSET T |-> IF s = {} THEN 0 ELSE f[Pick(s)] + g[s \ {Pick(s)}]]

\* The sum of the numbers f of the elements of T.
Sum(f, T) == (CHOOSE g : Adds(g, f, T))[T]

\* The elements of T have numbers.
Numbered(f, T) == IsFiniteSet(T) /\ \A x \in T : f[x] \in Int

\* There is such an element, and without it the set is smaller by one.
LEMMA Picked ==
  ASSUME NEW T, IsFiniteSet(T), T # {}
  PROVE  /\ Pick(T) \in T
         /\ Cardinality(T) \in Nat \ {0} /\ IsFiniteSet(T \ {Pick(T)})
         /\ Cardinality(T \ {Pick(T)}) = Cardinality(T) - 1
  <1>1. Pick(T) \in T
    BY DEF Pick
  <1>2. Cardinality(T) \in Nat /\ Cardinality(T) # 0
    BY FS_CardinalityType, FS_EmptySet
  <1> QED
    BY <1>1, <1>2, FS_RemoveElement

\* The recursion has a solution: level by level, a level being the subsets of
\* T with at most n elements.
LEMMA SumExists ==
  ASSUME NEW f, NEW T, Numbered(f, T)
  PROVE  \E g \in [SUBSET T -> Int] : Adds(g, f, T)
  <1> DEFINE Level(n) == {s \in SUBSET T : Cardinality(s) <= n}
             Upto(g, n) == \A s \in Level(n) :
                  g[s] = IF s = {} THEN 0 ELSE f[Pick(s)] + g[s \ {Pick(s)}]
             Good(n) == \E g \in [Level(n) -> Int] : Upto(g, n)
             Bad == {n \in Nat : ~Good(n)}
  <1>1. \A s \in SUBSET T : IsFiniteSet(s) /\ Cardinality(s) \in Nat
    BY FS_Subset, FS_CardinalityType DEF Numbered
  <1>2. Good(0)
    <2>1. Level(0) = {{}}
      BY <1>1, FS_EmptySet
    <2>2. Upto([s \in Level(0) |-> 0], 0)
      BY <2>1
    <2>3. [s \in Level(0) |-> 0] \in [Level(0) -> Int]
      OBVIOUS
    <2> QED
      BY <2>2, <2>3
  <1>3. ASSUME NEW n \in Nat, Good(n)
        PROVE  Good(n + 1)
    <2>1. PICK g \in [Level(n) -> Int] : Upto(g, n)
      BY <1>3
    <2> DEFINE h == [s \in Level(n + 1) |->
                       IF s = {} THEN 0 ELSE f[Pick(s)] + g[s \ {Pick(s)}]]
    <2>2. ASSUME NEW s \in Level(n + 1), s # {}
          PROVE  Pick(s) \in T /\ s \ {Pick(s)} \in Level(n)
      BY <1>1, <2>2, Picked
    <2>3. h \in [Level(n + 1) -> Int]
      BY <2>2 DEF Numbered
    <2>4. ASSUME NEW s \in Level(n)
          PROVE  h[s] = g[s]
      <3>1. s \in Level(n + 1)
        BY <1>1
      <3> QED
        BY <2>1, <3>1
    <2>5. Upto(h, n + 1)
      BY <2>2, <2>4
    <2> QED
      BY <2>3, <2>5
  <1>4. Bad = {}
    <2>1. SUFFICES ASSUME Bad # {} PROVE FALSE
      OBVIOUS
    <2> HIDE DEF Good
    <2>2. PICK n \in Bad : \A m \in Bad : n <= m
      BY <2>1, Least
    <2>3. n # 0
      BY <1>2
    <2>4. n - 1 \in Nat /\ Good(n - 1)
      BY <2>2, <2>3
    <2>5. Good((n - 1) + 1)
      BY <1>3, <2>4
    <2> QED
      BY <2>5
  <1>5. Good(Cardinality(T))
    BY <1>1, <1>4
  <1>6. Level(Cardinality(T)) = SUBSET T
    BY FS_Subset DEF Numbered
  <1>7. PICK g \in [SUBSET T -> Int] : Upto(g, Cardinality(T))
    BY <1>5, <1>6
  <1>8. g = [s \in SUBSET T |-> IF s = {} THEN 0 ELSE f[Pick(s)] + g[s \ {Pick(s)}]]
    BY <1>6, <1>7
  <1> QED
    BY <1>8 DEF Adds

\* It has one only, and that depends on the numbers alone.
LEMMA SumUnique ==
  ASSUME NEW g, NEW f, NEW T, Adds(g, f, T),
         NEW h, NEW e, NEW U, Adds(h, e, U),
         NEW s \in SUBSET T, s \in SUBSET U, IsFiniteSet(s),
         \A x \in s : f[x] = e[x]
  PROVE  g[s] = h[s]
  <1> DEFINE Bad == {n \in Nat : \E r \in SUBSET s : Cardinality(r) = n /\ g[r] # h[r]}
  <1>1. SUFFICES ASSUME g[s] # h[s] PROVE FALSE
    OBVIOUS
  <1>2. Bad # {}
    BY <1>1, FS_CardinalityType
  <1>3. PICK n \in Bad : \A m \in Bad : n <= m
    BY <1>2, Least
  <1>4. PICK r \in SUBSET s : Cardinality(r) = n /\ g[r] # h[r]
    BY <1>3
  <1>5. IsFiniteSet(r)
    BY FS_Subset
  <1>6. g[r] = IF r = {} THEN 0 ELSE f[Pick(r)] + g[r \ {Pick(r)}]
    BY DEF Adds
  <1>7. h[r] = IF r = {} THEN 0 ELSE e[Pick(r)] + h[r \ {Pick(r)}]
    BY DEF Adds
  <1>8. r # {}
    BY <1>4, <1>6, <1>7
  <1>9. /\ Pick(r) \in r /\ n \in Nat \ {0}
        /\ Cardinality(r \ {Pick(r)}) = n - 1
    BY <1>4, <1>5, <1>8, Picked
  <1>10. n - 1 \notin Bad
    BY <1>3, <1>9
  <1>11. g[r \ {Pick(r)}] = h[r \ {Pick(r)}]
    BY <1>9, <1>10
  <1> QED
    BY <1>4, <1>6, <1>7, <1>8, <1>9, <1>11

\* Any solution is the sum.
LEMMA SumIs ==
  ASSUME NEW f, NEW T, Numbered(f, T), NEW g, Adds(g, f, T)
  PROVE  Sum(f, T) = g[T]
  <1> DEFINE h == CHOOSE h : Adds(h, f, T)
  <1>1. Adds(h, f, T)
    BY SumExists
  <1> HIDE DEF h
  <1>2. h[T] = g[T]
    BY <1>1, SumUnique DEF Numbered
  <1> QED
    BY <1>2 DEF Sum, h

\* A sum of integers is an integer.
LEMMA SumType ==
  ASSUME NEW f, NEW T, Numbered(f, T)
  PROVE  Sum(f, T) \in Int
  <1>1. PICK g \in [SUBSET T -> Int] : Adds(g, f, T)
    BY SumExists
  <1>2. g[T] \in Int
    OBVIOUS
  <1> QED
    BY <1>1, <1>2, SumIs

\* The sum of nothing.
LEMMA SumEmpty ==
  ASSUME NEW f
  PROVE  Sum(f, {}) = 0
  <1>1. Numbered(f, {})
    BY FS_EmptySet DEF Numbered
  <1>2. PICK g \in [SUBSET {} -> Int] : Adds(g, f, {})
    BY <1>1, SumExists
  <1>3. g[{}] = 0
    BY <1>2 DEF Adds
  <1> QED
    BY <1>1, <1>2, <1>3, SumIs

\* The sum depends on the numbers of the elements only.
LEMMA SumSame ==
  ASSUME NEW f, NEW e, NEW T, Numbered(f, T), \A x \in T : f[x] = e[x]
  PROVE  Sum(f, T) = Sum(e, T)
  <1>1. Numbered(e, T)
    BY DEF Numbered
  <1>2. PICK g \in [SUBSET T -> Int] : Adds(g, f, T)
    BY SumExists
  <1>3. PICK h \in [SUBSET T -> Int] : Adds(h, e, T)
    BY <1>1, SumExists
  <1>4. g[T] = h[T]
    BY <1>2, <1>3, SumUnique DEF Numbered
  <1> QED
    BY <1>1, <1>2, <1>3, <1>4, SumIs

\* The sum over a set, by its picked element and the rest.
LEMMA SumPicked ==
  ASSUME NEW f, NEW T, Numbered(f, T), T # {}
  PROVE  Sum(f, T) = f[Pick(T)] + Sum(f, T \ {Pick(T)})
  <1> DEFINE U == T \ {Pick(T)}
  <1>1. Numbered(f, U)
    BY Picked DEF Numbered
  <1>2. PICK g \in [SUBSET T -> Int] : Adds(g, f, T)
    BY SumExists
  <1>3. PICK h \in [SUBSET U -> Int] : Adds(h, f, U)
    BY <1>1, SumExists
  <1>4. g[T] = f[Pick(T)] + g[U]
    BY <1>2 DEF Adds
  <1>5. g[U] = h[U]
    BY <1>1, <1>2, <1>3, SumUnique DEF Numbered
  <1> QED
    BY <1>1, <1>2, <1>3, <1>4, <1>5, SumIs

\* An element may be taken out, whichever it is.
LEMMA SumRemove ==
  ASSUME NEW f, NEW T, Numbered(f, T), NEW x \in T
  PROVE  Sum(f, T) = f[x] + Sum(f, T \ {x})
  <1> DEFINE Fails(s, y) == y \in s /\ Sum(f, s) # f[y] + Sum(f, s \ {y})
             Bad == {n \in Nat : \E s \in SUBSET T, y \in T :
                                   Cardinality(s) = n /\ Fails(s, y)}
  <1>1. SUFFICES ASSUME Fails(T, x) PROVE FALSE
    OBVIOUS
  <1>2. \A s \in SUBSET T : Numbered(f, s) /\ Cardinality(s) \in Nat
    BY FS_Subset, FS_CardinalityType DEF Numbered
  <1>3. Bad # {}
    BY <1>1, <1>2
  <1>4. PICK n \in Bad : \A m \in Bad : n <= m
    BY <1>3, Least
  <1>5. PICK s \in SUBSET T, y \in T : Cardinality(s) = n /\ Fails(s, y)
    BY <1>4
  <1> DEFINE z == Pick(s)
  <1>6. /\ z \in s /\ n \in Nat \ {0}
        /\ Cardinality(s \ {z}) = n - 1
    BY <1>2, <1>5, Picked DEF Numbered
  <1>7. Sum(f, s) = f[z] + Sum(f, s \ {z})
    BY <1>2, <1>5, SumPicked
  <1>8. y # z
    BY <1>5, <1>7
  <1> HIDE DEF z
  <1>9. Cardinality(s \ {y}) = n - 1
    BY <1>2, <1>5, FS_RemoveElement DEF Numbered
  <1>10. n - 1 \in Nat /\ n - 1 \notin Bad
    BY <1>4, <1>6, Below
  <1>11. Sum(f, s \ {z}) = f[y] + Sum(f, (s \ {z}) \ {y})
    <2>1. ~Fails(s \ {z}, y)
      BY <1>6, <1>10
    <2> QED
      BY <1>5, <1>8, <2>1
  <1>12. Sum(f, s \ {y}) = f[z] + Sum(f, (s \ {y}) \ {z})
    <2>1. ~Fails(s \ {y}, z)
      BY <1>6, <1>9, <1>10
    <2> QED
      BY <1>6, <1>8, <2>1
  <1>13. (s \ {y}) \ {z} = (s \ {z}) \ {y}
    OBVIOUS
  <1>14. /\ f[y] \in Int /\ f[z] \in Int
         /\ Sum(f, (s \ {z}) \ {y}) \in Int
    BY <1>2, <1>6, SumType DEF Numbered
  <1>15. Sum(f, s) # f[y] + Sum(f, s \ {y})
    BY <1>5
  <1> QED
    BY <1>7, <1>11, <1>12, <1>13, <1>14, <1>15

\* Sums of non-negative numbers are not negative.
LEMMA SumNat ==
  ASSUME NEW f, NEW T, IsFiniteSet(T), \A x \in T : f[x] \in Nat
  PROVE  Sum(f, T) \in Nat
  <1> DEFINE Bad == {n \in Nat : \E s \in SUBSET T : Cardinality(s) = n /\ Sum(f, s) \notin Nat}
  <1>1. SUFFICES ASSUME Sum(f, T) \notin Nat PROVE FALSE
    OBVIOUS
  <1>2. \A s \in SUBSET T : Numbered(f, s) /\ Cardinality(s) \in Nat
    BY FS_Subset, FS_CardinalityType DEF Numbered
  <1>3. Bad # {}
    BY <1>1, <1>2
  <1>4. PICK n \in Bad : \A m \in Bad : n <= m
    BY <1>3, Least
  <1>5. PICK s \in SUBSET T : Cardinality(s) = n /\ Sum(f, s) \notin Nat
    BY <1>4
  <1>6. s # {}
    BY <1>5, SumEmpty
  <1>7. /\ Pick(s) \in s /\ n \in Nat \ {0}
        /\ Cardinality(s \ {Pick(s)}) = n - 1
    BY <1>2, <1>5, <1>6, Picked DEF Numbered
  <1>8. n - 1 \notin Bad
    BY <1>4, <1>7
  <1>9. Sum(f, s \ {Pick(s)}) \in Nat
    BY <1>7, <1>8
  <1>10. Sum(f, s) = f[Pick(s)] + Sum(f, s \ {Pick(s)})
    BY <1>2, <1>6, SumPicked
  <1> QED
    BY <1>5, <1>7, <1>9, <1>10

\* Any part may be taken out.
LEMMA SumSplit ==
  ASSUME NEW f, NEW T, Numbered(f, T), NEW P \in SUBSET T
  PROVE  Sum(f, T) = Sum(f, P) + Sum(f, T \ P)
  <1> DEFINE Bad == {n \in Nat : \E s \in SUBSET P : /\ Cardinality(s) = n
                                          /\ Sum(f, T) # Sum(f, s) + Sum(f, T \ s)}
  <1>1. SUFFICES ASSUME Sum(f, T) # Sum(f, P) + Sum(f, T \ P) PROVE FALSE
    OBVIOUS
  <1>2. \A s \in SUBSET T : Numbered(f, s) /\ Cardinality(s) \in Nat /\ Sum(f, s) \in Int
    BY FS_Subset, FS_CardinalityType, SumType DEF Numbered
  <1>3. Bad # {}
    BY <1>1, <1>2
  <1>4. PICK n \in Bad : \A m \in Bad : n <= m
    BY <1>3, Least
  <1>5. PICK s \in SUBSET P : /\ Cardinality(s) = n
                              /\ Sum(f, T) # Sum(f, s) + Sum(f, T \ s)
    BY <1>4
  <1>6. s # {}
    <2>1. T \ {} = T
      OBVIOUS
    <2>2. Sum(f, {}) = 0 /\ Sum(f, T) \in Int
      BY <1>2, SumEmpty
    <2> QED
      BY <1>5, <2>1, <2>2
  <1> DEFINE y == Pick(s)
             r == s \ {y}
  <1>7. /\ y \in s /\ n \in Nat \ {0}
        /\ Cardinality(r) = n - 1
    BY <1>2, <1>5, <1>6, Picked DEF Numbered
  <1> HIDE DEF y
  <1>8. n - 1 \in Nat /\ n - 1 \notin Bad
    BY <1>4, <1>7, Below
  <1>9. Sum(f, T) = Sum(f, r) + Sum(f, T \ r)
    BY <1>7, <1>8
  <1>10. Sum(f, s) = f[y] + Sum(f, r)
    BY <1>2, <1>7, SumRemove
  <1>11. Sum(f, T \ r) = f[y] + Sum(f, (T \ r) \ {y})
    BY <1>2, <1>7, SumRemove
  <1>12. (T \ r) \ {y} = T \ s
    BY <1>7
  <1>13. /\ f[y] \in Int /\ Sum(f, r) \in Int /\ Sum(f, T \ s) \in Int
    BY <1>2, <1>7 DEF Numbered
  <1>14. Sum(f, T) # Sum(f, s) + Sum(f, T \ s)
    BY <1>5
  <1>15. Sum(f, T \ r) = f[y] + Sum(f, T \ s)
    BY <1>11, <1>12
  <1> HIDE DEF r
  <1> QED
    BY <1>9, <1>10, <1>13, <1>14, <1>15

-----------------------------------------------------------------------------
\* One element joins a set or leaves it.
LEMMA OneMoves ==
  ASSUME NEW A, IsFiniteSet(A), NEW B, NEW x, A \ {x} = B \ {x}
  PROVE  /\ IsFiniteSet(B)
         /\ Cardinality(A) \in Nat /\ Cardinality(B) \in Nat
         /\ Cardinality(B) + (IF x \in A THEN 1 ELSE 0)
              = Cardinality(A) + (IF x \in B THEN 1 ELSE 0)
  <1> DEFINE C == A \ {x}
  <1>1. /\ IsFiniteSet(C) /\ Cardinality(C) \in Nat
        /\ Cardinality(C) = IF x \in A THEN Cardinality(A) - 1 ELSE Cardinality(A)
    BY FS_RemoveElement, FS_CardinalityType
  <1>2. x \notin C /\ C = B \ {x}
    OBVIOUS
  <1>3. Cardinality(A) \in Nat
    BY FS_CardinalityType
  <1>4. CASE x \in B
    <2>1. B = C \cup {x}
      BY <1>2, <1>4
    <2>2. IsFiniteSet(C \cup {x}) /\ Cardinality(C \cup {x}) = Cardinality(C) + 1
      BY <1>1, <1>2, FS_AddElement
    <2> HIDE DEF C
    <2> QED
      BY <1>1, <1>3, <1>4, <2>1, <2>2
  <1>5. CASE x \notin B
    <2>1. B = C
      BY <1>2, <1>5
    <2> HIDE DEF C
    <2> QED
      BY <1>1, <1>3, <1>5, <2>1
  <1> QED
    BY <1>4, <1>5

-----------------------------------------------------------------------------
\* A rearrangement moves the members of a set of places.
LEMMA PlacesMove ==
  ASSUME NEW D, IsFiniteSet(D), NEW p \in Bijection(D, D), NEW A \in SUBSET D
  PROVE  Cardinality({k \in D : p[k] \in A}) = Cardinality(A)
  <1> DEFINE B == {k \in D : p[k] \in A}
             q == [k \in B |-> p[k]]
  <1>1. /\ p \in [D -> D]
        /\ \A i, j \in D : p[i] = p[j] => i = j
        /\ \A a \in D : \E i \in D : p[i] = a
    BY DEF Bijection, Injection, Surjection, IsInjective
  <1>2. q \in [B -> A]
    BY <1>1
  <1>3. q \in Injection(B, A)
    BY <1>1, <1>2 DEF Injection, IsInjective
  <1>4. q \in Surjection(B, A)
    BY <1>1, <1>2 DEF Surjection
  <1>5. ExistsBijection(B, A)
    BY <1>3, <1>4 DEF ExistsBijection, Bijection
  <1>6. IsFiniteSet(B)
    BY FS_Subset
  <1> QED
    BY <1>5, <1>6, FS_Bijection

\* Sorted rearranges the elements and leaves none before a smaller one.
LEMMA SortedFacts ==
  ASSUME NEW s \in Seq(Int)
  PROVE  \E p \in Bijection(1 .. Len(s), 1 .. Len(s)) :
           /\ Sorted(s) = [k \in 1 .. Len(s) |-> s[p[k]]]
           /\ \A i, j \in 1 .. Len(s) : i < j => s[p[i]] <= s[p[j]]
  <1> DEFINE D == 1 .. Len(s)
             Le(j, i) == s[j] < s[i] \/ (s[j] = s[i] /\ j <= i)
             B(i) == {j \in D : Le(j, i)}
             r == [i \in D |-> Rank(s, i)]
             p == [k \in D |-> CHOOSE i \in DOMAIN s : Rank(s, i) = k]
  <1>1. /\ DOMAIN s = D /\ D \subseteq Int /\ \A i \in D : s[i] \in Int
        /\ IsFiniteSet(D) /\ Cardinality(D) = Len(s) /\ Len(s) \in Nat
    <2>1. Len(s) \in Nat /\ DOMAIN s = D
      OBVIOUS
    <2>2. IsFiniteSet(D) /\ Cardinality(D) = Len(s)
      BY <2>1, FS_Interval
    <2>3. \A i \in D : s[i] \in Int
      OBVIOUS
    <2> QED
      BY <2>1, <2>2, <2>3
  <1>2. \A i \in D : r[i] = Cardinality(B(i))
    BY <1>1 DEF Rank
  <1>3. /\ \A i \in D : Le(i, i)
        /\ \A i, j \in D : Le(i, j) \/ Le(j, i)
        /\ \A i, j \in D : Le(i, j) /\ Le(j, i) => i = j
        /\ \A i, j, k \in D : Le(i, j) /\ Le(j, k) => Le(i, k)
        /\ \A i, j \in D : Le(i, j) => s[i] <= s[j]
    BY <1>1
  <1> HIDE DEF Le
  <1>4. ASSUME NEW i \in D
        PROVE  /\ IsFiniteSet(B(i)) /\ Cardinality(B(i)) \in D
    <2>1. /\ IsFiniteSet(B(i)) /\ Cardinality(B(i)) <= Len(s)
          /\ Cardinality(B(i)) \in Nat
      BY <1>1, FS_Subset, FS_CardinalityType
    <2>2. i \in B(i)
      BY <1>3
    <2>3. Cardinality(B(i)) # 0
      BY <2>1, <2>2, FS_EmptySet
    <2> QED
      BY <1>1, <2>1, <2>3
  <1>5. r \in [D -> D]
    BY <1>2, <1>4
  <1>6. ASSUME NEW i \in D, NEW j \in D, i # j, Le(i, j)
        PROVE  r[i] < r[j]
    <2>1. B(i) \subseteq B(j)
      BY <1>3, <1>6
    <2>2. j \in B(j) /\ j \notin B(i)
      BY <1>3, <1>6
    <2>3. /\ Cardinality(B(i)) <= Cardinality(B(j))
          /\ Cardinality(B(i)) # Cardinality(B(j))
      BY <1>4, <2>1, <2>2, FS_Subset
    <2>4. /\ r[i] = Cardinality(B(i)) /\ r[j] = Cardinality(B(j))
          /\ Cardinality(B(i)) \in Int /\ Cardinality(B(j)) \in Int
      BY <1>1, <1>2, <1>4
    <2> HIDE DEF B, r
    <2> QED
      BY <2>3, <2>4
  <1> HIDE DEF r
  <1>7. \A i, j \in D : r[i] = r[j] => i = j
    BY <1>1, <1>3, <1>5, <1>6
  <1>8. r \in Surjection(D, D)
    <2>1. r \in Injection(D, D)
      BY <1>5, <1>7 DEF Injection, IsInjective
    <2> QED
      BY <1>1, <2>1, FS_Injection
  <1>9. \A k \in D : p[k] \in D /\ r[p[k]] = k
    <2>1. ASSUME NEW k \in D
          PROVE  p[k] \in DOMAIN s /\ Rank(s, p[k]) = k
      <3>1. \E i \in DOMAIN s : Rank(s, i) = k
        BY <1>1, <1>8 DEF Surjection, r
      <3> QED
        BY <3>1
    <2> QED
      BY <1>1, <2>1 DEF r
  <1>10. Sorted(s) = [k \in D |-> s[p[k]]]
    BY <1>1 DEF Sorted
  <1> HIDE DEF p
  <1>11. p \in Bijection(D, D)
    <2>1. p = [k \in D |-> p[k]]
      BY DEF p
    <2>2. p \in [D -> D]
      BY <1>9, <2>1
    <2>3. p \in Injection(D, D)
      <3>1. \A i, j \in D : p[i] = p[j] => i = j
        BY <1>9
      <3> QED
        BY <2>2, <3>1 DEF Injection, IsInjective
    <2>4. \A i \in D : r[i] \in D /\ p[r[i]] = i
      BY <1>5, <1>7, <1>9
    <2>5. p \in Surjection(D, D)
      BY <2>2, <2>4 DEF Surjection
    <2> QED
      BY <2>3, <2>5 DEF Bijection
  <1>12. ASSUME NEW i \in D, NEW j \in D, i < j
         PROVE  s[p[i]] <= s[p[j]]
    <2>1. p[i] \in D /\ p[j] \in D /\ r[p[i]] = i /\ r[p[j]] = j
      BY <1>9
    <2>2. p[i] # p[j] /\ ~(r[p[j]] < r[p[i]])
      BY <1>1, <1>12, <2>1
    <2>3. Le(p[i], p[j])
      BY <1>3, <1>6, <2>1, <2>2
    <2> QED
      BY <1>3, <2>1, <2>3
  <1> QED
    BY <1>10, <1>11, <1>12
=============================================================================
