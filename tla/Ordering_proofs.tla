--------------------------- MODULE Ordering_proofs ---------------------------
(* Facts about counting, sorting and selecting for any finite set and any     *)
(* strict order of it, and induction over the naturals from the library's     *)
(* theorem that they are well founded.                                        *)
EXTENDS Ordering, FiniteSetsExt, FiniteSetTheorems, WellFoundedInduction, TLAPS

LEMMA NatLess == IsWellFoundedOn({p \in Nat \X Nat : p[1] < p[2]}, Nat)
BY NatLessThanWellFounded DEF OpToRel

LEMMA NatSetInduction ==
  ASSUME NEW S, 0 \in S, \A n \in Nat : n \in S => n + 1 \in S
  PROVE Nat \subseteq S
<1> DEFINE R == {p \in Nat \X Nat : p[1] < p[2]}
           T == Nat \ S
<1>1. SUFFICES ASSUME T # {} PROVE FALSE
  OBVIOUS
<1>2. PICK x \in T : \A y \in T : <<y, x>> \notin R
  <2> T \subseteq Nat OBVIOUS
  <2> IsWellFoundedOn(R, Nat) BY NatLess
  <2> HIDE DEF R, T
  <2> QED BY WFMin, <1>1, Zenon
<1>3. x \in Nat /\ x # 0 OBVIOUS
<1>4. x - 1 \in Nat /\ <<x - 1, x>> \in R BY <1>3
<1>5. x - 1 \in S BY <1>2, <1>4
<1> QED BY <1>5, <1>4, <1>3

LEMMA RankGrows ==
  ASSUME NEW S, NEW R, IsFiniteSet(S), StrictOrder(S, R), NEW x \in S, NEW z \in S, <<x, z>> \in R
  PROVE  Cardinality({y \in S : <<y, x>> \in R}) < Cardinality({y \in S : <<y, z>> \in R})
<1> DEFINE A == {y \in S : <<y, x>> \in R}
           B == {y \in S : <<y, z>> \in R}
<1>1. A \subseteq B /\ x \in B /\ x \notin A
  BY DEF StrictOrder
<1>2. IsFiniteSet(A) /\ IsFiniteSet(B) 
  BY FS_Subset
<1>3. Cardinality(A) \in Nat /\ Cardinality(B) \in Nat /\ Cardinality(A) <= Cardinality(B) /\ (Cardinality(B) = Cardinality(A) => A = B)
  <2> HIDE DEF A, B
  <2> QED BY <1>1, <1>2, FS_Subset, FS_CardinalityType
<1> QED BY <1>1, <1>3

LEMMA RankedSorts ==
  ASSUME NEW S, NEW R, IsFiniteSet(S), StrictOrder(S, R)
  PROVE  /\ Ranked(S, R) \in Bijection(1..Cardinality(S), S)
         /\ \A i, j \in 1..Cardinality(S) : i < j => <<Ranked(S, R)[i], Ranked(S, R)[j]>> \in R
<1> DEFINE n == Cardinality(S)
           rank == [x \in S |-> Cardinality({y \in S : <<y, x>> \in R}) + 1]
<1>n. n \in Nat BY FS_CardinalityType
<1>1. \A x \in S : rank[x] \in 1..n
  <2> TAKE x \in S
  <2> DEFINE A == {y \in S : <<y, x>> \in R}
  <2>1. A \in SUBSET S /\ x \notin A BY DEF StrictOrder
  <2>2. Cardinality(A) \in Nat /\ Cardinality(A) <= n /\ (n = Cardinality(A) => S = A)
    <3> HIDE DEF A
    <3> QED BY <2>1, FS_Subset, FS_CardinalityType
  <2> QED BY <2>1, <2>2, <1>n
<1>2. \A x, z \in S : <<x, z>> \in R => rank[x] < rank[z]
  <2> TAKE x, z \in S
  <2> HAVE <<x, z>> \in R
  <2>1. Cardinality({y \in S : <<y, x>> \in R}) < Cardinality({y \in S : <<y, z>> \in R})
    BY RankGrows
  <2>2. rank[x] = Cardinality({y \in S : <<y, x>> \in R}) + 1 /\ rank[z] = Cardinality({y \in S : <<y, z>> \in R}) + 1
    OBVIOUS
  <2>3. Cardinality({y \in S : <<y, x>> \in R}) \in Int /\ Cardinality({y \in S : <<y, z>> \in R}) \in Int
    <3>1. rank[x] \in 1..n /\ rank[z] \in 1..n BY <1>1
    <3>2. IsFiniteSet({y \in S : <<y, x>> \in R}) /\ IsFiniteSet({y \in S : <<y, z>> \in R}) BY FS_Subset
    <3> QED BY <3>2, FS_CardinalityType
  <2> QED BY <2>1, <2>2, <2>3
<1>3. rank \in Injection(S, 1..n)
  <2>1. rank \in [S -> 1..n] BY <1>1
  <2>2. \A x, z \in S : rank[x] = rank[z] => x = z
    <3> TAKE x, z \in S
    <3> HAVE rank[x] = rank[z]
    <3>1. rank[x] \in Int /\ rank[z] \in Int BY <1>1, <1>n
    <3>2. x = z \/ <<x, z>> \in R \/ <<z, x>> \in R BY DEF StrictOrder
    <3> QED BY <1>2, <3>1, <3>2
  <2> HIDE DEF rank
  <2> QED BY <2>1, <2>2 DEF Injection, IsInjective
<1>4. IsFiniteSet(1..n) /\ Cardinality(1..n) = n
  BY FS_Interval, <1>n
<1>5. rank \in Surjection(S, 1..n)
  <2> HIDE DEF rank, n
  <2> QED BY <1>3, <1>4, FS_Injection DEF n
<1>6. \A i \in 1..n : \E x \in S : rank[x] = i
  <2> HIDE DEF rank, n
  <2> QED BY <1>5 DEF Surjection
<1>7. \A i \in 1..n : Ranked(S, R)[i] \in S /\ rank[Ranked(S, R)[i]] = i
  <2> TAKE i \in 1..n
  <2>1. PICK x \in S : rank[x] = i BY <1>6
  <2>2. i \in Int /\ Cardinality({y \in S : <<y, x>> \in R}) = i - 1
    <3>1. IsFiniteSet({y \in S : <<y, x>> \in R}) BY FS_Subset
    <3>2. Cardinality({y \in S : <<y, x>> \in R}) \in Nat BY <3>1, FS_CardinalityType
    <3> QED BY <2>1, <3>2, <1>n
  <2> DEFINE w == CHOOSE v \in S : Cardinality({y \in S : <<y, v>> \in R}) = i - 1
  <2>3. w \in S /\ Cardinality({y \in S : <<y, w>> \in R}) = i - 1
    BY <2>2
  <2>4. Ranked(S, R)[i] = w BY DEF Ranked
  <2> HIDE DEF w
  <2>5. rank[w] = Cardinality({y \in S : <<y, w>> \in R}) + 1 BY <2>3
  <2> QED BY <2>3, <2>4, <2>5, <2>2
<1>8. \A x \in S : Ranked(S, R)[rank[x]] = x
  <2> TAKE x \in S
  <2> rank[x] \in 1..n BY <1>1
  <2> rank[Ranked(S, R)[rank[x]]] = rank[x] /\ Ranked(S, R)[rank[x]] \in S BY <1>7
  <2> HIDE DEF rank
  <2> QED BY <1>3, <1>1 DEF Injection, IsInjective
<1>9. Ranked(S, R) \in [1..n -> S]
  BY <1>7 DEF Ranked
<1>10. Ranked(S, R) \in Bijection(1..n, S)
  <2> HIDE DEF rank, n
  <2> QED BY <1>7, <1>8, <1>9, <1>1 DEF Bijection, Injection, Surjection, IsInjective
<1>11. \A i, j \in 1..n : i < j => <<Ranked(S, R)[i], Ranked(S, R)[j]>> \in R
  <2> TAKE i, j \in 1..n
  <2> HAVE i < j
  <2> DEFINE a == Ranked(S, R)[i]
             b == Ranked(S, R)[j]
  <2>1. a \in S /\ b \in S /\ rank[a] = i /\ rank[b] = j BY <1>7
  <2>2. a = b \/ <<a, b>> \in R \/ <<b, a>> \in R BY <2>1 DEF StrictOrder
  <2> HIDE DEF rank, a, b, n
  <2>3. i \in Int /\ j \in Int BY <1>n
  <2>4. <<b, a>> \in R => j < i BY <1>2, <2>1
  <2> QED BY <2>1, <2>2, <2>3, <2>4 DEF a, b
<1> QED BY <1>10, <1>11

LEMMA AtPlacesTyped ==
  ASSUME NEW T, NEW s \in Seq(T), NEW places \in SUBSET DOMAIN s
  PROVE  /\ Cardinality(places) \in Nat
         /\ AtPlaces(s, places) \in Seq(T)
         /\ Len(AtPlaces(s, places)) = Cardinality(places)
         /\ \A n \in 1..Cardinality(places) : \E p \in places : AtPlaces(s, places)[n] = s[p]
         /\ \A p \in places : \E n \in 1..Cardinality(places) : AtPlaces(s, places)[n] = s[p]
<1> DEFINE n == Cardinality(places)
           R == Pairs(places, <)
           place == Ranked(places, R)
<1>1. places \in SUBSET (1..Len(s)) /\ Len(s) \in Nat
  OBVIOUS
<1>2. IsFiniteSet(places) /\ n \in Nat
  <2>1. IsFiniteSet(1..Len(s)) BY <1>1, FS_Interval
  <2> QED BY <1>1, <2>1, FS_Subset, FS_CardinalityType
<1>3. StrictOrder(places, R)
  BY <1>1 DEF StrictOrder, Pairs
<1>4. place \in Bijection(1..n, places)
  <2> HIDE DEF R
  <2> QED BY <1>2, <1>3, RankedSorts
<1>5. AtPlaces(s, places) = [i \in 1..n |-> s[place[i]]]
  BY DEF AtPlaces, Sorted
<1> HIDE DEF place, n
<1>6. place \in [1..n -> places] /\ \A p \in places : \E i \in 1..n : place[i] = p
  BY <1>4 DEF Bijection, Surjection, Injection
<1>7. AtPlaces(s, places) \in [1..n -> T]
  BY <1>5, <1>6, <1>1
<1>8. AtPlaces(s, places) \in Seq(T) /\ Len(AtPlaces(s, places)) = n
  BY <1>7, <1>2
<1>9. \A i \in 1..n : \E p \in places : AtPlaces(s, places)[i] = s[p]
  BY <1>5, <1>6
<1>10. \A p \in places : \E i \in 1..n : AtPlaces(s, places)[i] = s[p]
  BY <1>5, <1>6
<1> QED BY ONLY <1>2, <1>8, <1>9, <1>10 DEF n

\* The first of a finite set in a strict order of it.
LEMMA FirstOfOrder ==
  ASSUME NEW S, NEW R, IsFiniteSet(S), S # {}, StrictOrder(S, R)
  PROVE  \E x \in S : \A y \in S : y = x \/ <<x, y>> \in R
<1>1. Ranked(S, R) \in Bijection(1..Cardinality(S), S)
      /\ \A i, j \in 1..Cardinality(S) : i < j => <<Ranked(S, R)[i], Ranked(S, R)[j]>> \in R
  BY RankedSorts
<1>2. Cardinality(S) \in Nat /\ Cardinality(S) # 0
  BY FS_CardinalityType, FS_EmptySet
<1>3. \A y \in S : \E j \in 1..Cardinality(S) : Ranked(S, R)[j] = y
  BY <1>1 DEF Bijection, Surjection
<1>4. Ranked(S, R)[1] \in S
  BY <1>1, <1>2 DEF Bijection, Injection
<1>5. \A y \in S : y = Ranked(S, R)[1] \/ <<Ranked(S, R)[1], y>> \in R
  <2> TAKE y \in S
  <2>1. PICK j \in 1..Cardinality(S) : Ranked(S, R)[j] = y
    BY <1>3
  <2> QED BY <1>1, <1>2, <2>1
<1> QED BY <1>4, <1>5

\* A sorted set as a sequence: its elements, each once, in order.
LEMMA RankedIsSequence ==
  ASSUME NEW S, NEW R, IsFiniteSet(S), StrictOrder(S, R)
  PROVE  /\ Ranked(S, R) \in Seq(S) /\ Cardinality(S) \in Nat /\ Len(Ranked(S, R)) = Cardinality(S)
         /\ {Ranked(S, R)[i] : i \in DOMAIN Ranked(S, R)} = S
         /\ \A i, j \in DOMAIN Ranked(S, R) : i < j => <<Ranked(S, R)[i], Ranked(S, R)[j]>> \in R
<1> DEFINE s == Ranked(S, R)
           n == Cardinality(S)
<1>1. s \in Bijection(1..n, S) /\ \A i, j \in 1..n : i < j => <<s[i], s[j]>> \in R
  BY RankedSorts
<1>2. n \in Nat
  BY FS_CardinalityType
<1> HIDE DEF s, n
<1>3. s \in [1..n -> S] /\ \A y \in S : \E i \in 1..n : s[i] = y
  BY <1>1 DEF Bijection, Injection, Surjection
<1>4. s \in Seq(S) /\ Len(s) = n /\ DOMAIN s = 1..n
  BY <1>2, <1>3
<1>5. {s[i] : i \in DOMAIN s} = S
  BY <1>3, <1>4
<1> QED BY <1>1, <1>2, <1>4, <1>5 DEF s, n

LEMMA ImageIsFinite ==
  ASSUME NEW S, IsFiniteSet(S), NEW f
  PROVE  IsFiniteSet({f[x] : x \in S})
<1> DEFINE g == [x \in S |-> f[x]]
           T == {f[x] : x \in S}
<1>1. g \in Surjection(S, T)
  BY DEF Surjection
<1> HIDE DEF g, T
<1> QED BY <1>1, FS_Surjection DEF T

\* The sum of integers is an integer: its running sums exist, by induction over the length.
LEMMA TotalTyped ==
  ASSUME NEW s \in Seq(Int)
  PROVE  Total(s) \in Int
<1> DEFINE Step(g, n) == IF n = 0 THEN 0 ELSE g[n - 1] + s[n]
           Sums(k) == {g \in [0..k -> Int] : \A n \in 0..k : g[n] = Step(g, n)}
           S == {k \in Nat : k <= Len(s) => Sums(k) # {}}
<1>1. 0 \in S
  <2> DEFINE g == [n \in 0..0 |-> 0]
  <2>1. g \in [0..0 -> Int] /\ \A n \in 0..0 : g[n] = Step(g, n)
    OBVIOUS
  <2> HIDE DEF g
  <2> QED BY <2>1
<1>2. \A k \in Nat : k \in S => k + 1 \in S
  <2> SUFFICES ASSUME NEW k \in Nat, k \in S, k + 1 <= Len(s)
      PROVE  Sums(k + 1) # {}
    <3> HIDE DEF Sums
    <3> QED OBVIOUS
  <2>1. PICK g \in [0..k -> Int] : \A n \in 0..k : g[n] = Step(g, n)
    OBVIOUS
  <2> DEFINE h == [n \in 0..k + 1 |-> IF n = k + 1 THEN g[k] + s[k + 1] ELSE g[n]]
  <2>2. s[k + 1] \in Int /\ g[k] \in Int
    OBVIOUS
  <2>3. h \in [0..k + 1 -> Int]
    BY <2>2
  <2>4. ASSUME NEW n \in 0..k + 1 PROVE h[n] = Step(h, n)
    <3>1. CASE n = k + 1
      <4>1. h[n] = g[k] + s[k + 1] /\ h[n - 1] = g[k] /\ n # 0
        BY <3>1
      <4> QED BY <3>1, <4>1
    <3>2. CASE n # k + 1
      <4>1. n \in 0..k /\ h[n] = g[n] /\ (n # 0 => h[n - 1] = g[n - 1])
        BY <3>2
      <4> QED BY <2>1, <4>1
    <3> QED BY <3>1, <3>2
  <2> HIDE DEF h
  <2> QED BY <2>3, <2>4
<1> HIDE DEF Step, Sums
<1>3. Nat \subseteq S
  <2> HIDE DEF S
  <2> QED BY <1>1, <1>2, NatSetInduction
<1>4. Len(s) \in Nat
  OBVIOUS
<1>5. PICK g \in [0..Len(s) -> Int] : \A n \in 0..Len(s) : g[n] = Step(g, n)
  <2>1. Sums(Len(s)) # {}
    BY <1>3, <1>4
  <2> QED BY <2>1 DEF Sums
<1>6. g = [n \in 0..Len(s) |-> IF n = 0 THEN 0 ELSE g[n - 1] + s[n]]
  BY <1>5 DEF Step
<1>7. ASSUME NEW f, f = [n \in 0..Len(s) |-> IF n = 0 THEN 0 ELSE f[n - 1] + s[n]]
      PROVE  f[Len(s)] \in Int
  <2> DEFINE T == {n \in Nat : n <= Len(s) => f[n] \in Int}
  <2>1. 0 \in T
    BY <1>4, <1>7
  <2>2. \A n \in Nat : n \in T => n + 1 \in T
    <3> SUFFICES ASSUME NEW n \in Nat, n \in T, n + 1 <= Len(s)
        PROVE  f[n + 1] \in Int
      OBVIOUS
    <3>1. f[n + 1] = f[n] + s[n + 1]
      BY <1>4, <1>7
    <3>2. s[n + 1] \in Int /\ f[n] \in Int
      OBVIOUS
    <3> QED BY <3>1, <3>2
  <2>3. Nat \subseteq T
    <3> HIDE DEF T
    <3> QED BY <2>1, <2>2, NatSetInduction
  <2> QED BY <2>3, <1>4
<1> DEFINE sum == CHOOSE f : f = [n \in 0..Len(s) |-> IF n = 0 THEN 0 ELSE f[n - 1] + s[n]]
<1>8. sum = [n \in 0..Len(s) |-> IF n = 0 THEN 0 ELSE sum[n - 1] + s[n]]
  BY <1>6
<1>9. Total(s) = sum[Len(s)]
  BY DEF Total
<1> HIDE DEF sum
<1> QED BY <1>7, <1>8, <1>9

LEMMA MaxMinOfTwo ==
  ASSUME NEW a \in Int, NEW b \in Int
  PROVE  Max({a, b}) = (IF a >= b THEN a ELSE b) /\ Min({a, b}) = (IF a <= b THEN a ELSE b)
<1>1. ASSUME NEW m \in {a, b}, \A y \in {a, b} : m >= y PROVE Max({a, b}) = m
  BY <1>1 DEF Max
<1>2. ASSUME NEW m \in {a, b}, \A y \in {a, b} : m <= y PROVE Min({a, b}) = m
  BY <1>2 DEF Min
<1> QED BY <1>1, <1>2

\* A smallest element is the smallest, and a finite set of integers has a largest.
LEMMA MinIs ==
  ASSUME NEW S \in SUBSET Int, NEW m \in S, \A y \in S : m <= y
  PROVE  Min(S) = m
<1>1. \A x \in S : (\A y \in S : x <= y) => x = m
  OBVIOUS
<1> QED BY <1>1 DEF Min

LEMMA MaxOfFinite ==
  ASSUME NEW S \in SUBSET Int, IsFiniteSet(S), S # {}
  PROVE  Max(S) \in S /\ \A y \in S : Max(S) >= y
<1> DEFINE R == {p \in S \X S : p[1] > p[2]}
<1>1. StrictOrder(S, R)
  BY DEF StrictOrder
<1>2. \E x \in S : \A y \in S : y = x \/ <<x, y>> \in R
  <2> HIDE DEF R
  <2> QED BY <1>1, FirstOfOrder
<1>3. \E x \in S : \A y \in S : x >= y
  <2>1. PICK x \in S : \A y \in S : y = x \/ <<x, y>> \in R
    BY <1>2
  <2>2. ASSUME NEW y \in S PROVE x >= y
    <3>1. x \in Int /\ y \in Int
      OBVIOUS
    <3>2. y = x \/ x > y
      BY <2>1
    <3> QED BY <3>1, <3>2
  <2> QED BY <2>2
<1> QED BY <1>3 DEF Max

LEMMA MinOfFinite ==
  ASSUME NEW S \in SUBSET Int, IsFiniteSet(S), S # {}
  PROVE  Min(S) \in S /\ \A y \in S : Min(S) <= y
<1> DEFINE R == {p \in S \X S : p[1] < p[2]}
<1>1. StrictOrder(S, R)
  BY DEF StrictOrder
<1>2. \E x \in S : \A y \in S : y = x \/ <<x, y>> \in R
  <2> HIDE DEF R
  <2> QED BY <1>1, FirstOfOrder
<1>3. PICK x \in S : \A y \in S : y = x \/ <<x, y>> \in R
  BY <1>2
<1>4. \A y \in S : x <= y
  <2> TAKE y \in S
  <2>1. x \in Int /\ y \in Int
    OBVIOUS
  <2>2. y = x \/ x < y
    BY <1>3
  <2> QED BY <2>1, <2>2
<1> QED BY <1>4 DEF Min

\* A function iterated k times from a base, and that there is one: by induction over k.
Iterates(f, step, base, k) == f[0] = base /\ \A n \in 1..k : f[n] = step[f[n - 1]]

LEMMA IterationExists ==
  ASSUME NEW T, NEW step \in [T -> T], NEW base \in T, NEW k \in Nat
  PROVE  \E f \in [0..k -> T] : Iterates(f, step, base, k)
<1> DEFINE Fits(f, m) == \A n \in 0..m : f[n] = IF n = 0 THEN base ELSE step[f[n - 1]]
           S == {m \in Nat : \E f \in [0..m -> T] : Fits(f, m)}
<1>1. 0 \in S
  <2> DEFINE f == [n \in 0..0 |-> base]
  <2>1. f \in [0..0 -> T] /\ Fits(f, 0)
    OBVIOUS
  <2> HIDE DEF f, Fits
  <2> QED BY <2>1
<1>2. \A m \in Nat : m \in S => m + 1 \in S
  <2> SUFFICES ASSUME NEW m \in Nat, NEW f \in [0..m -> T], Fits(f, m)
      PROVE  \E g \in [0..m + 1 -> T] : Fits(g, m + 1)
    OBVIOUS
  <2> DEFINE g == [n \in 0..m + 1 |-> IF n = m + 1 THEN step[f[m]] ELSE f[n]]
  <2>1. g \in [0..m + 1 -> T]
    OBVIOUS
  <2>2. ASSUME NEW n \in 0..m + 1 PROVE g[n] = IF n = 0 THEN base ELSE step[g[n - 1]]
    <3>1. CASE n = m + 1
      <4>1. g[n] = step[f[m]] /\ g[n - 1] = f[m] /\ n # 0
        BY <3>1
      <4> QED BY <4>1
    <3>2. CASE n # m + 1
      <4>1. n \in 0..m /\ g[n] = f[n] /\ (n # 0 => g[n - 1] = f[n - 1])
        BY <3>2
      <4> QED BY <4>1
    <3> QED BY <3>1, <3>2
  <2> HIDE DEF g
  <2> QED BY <2>1, <2>2
<1> HIDE DEF Fits
<1>3. Nat \subseteq S
  <2> HIDE DEF S
  <2> QED BY <1>1, <1>2, NatSetInduction
<1>4. PICK f \in [0..k -> T] : Fits(f, k)
  BY <1>3
<1>5. f[0] = base /\ \A n \in 1..k : f[n] = step[f[n - 1]]
  BY <1>4 DEF Fits
<1> QED BY <1>5 DEF Iterates

\* A function on the first numbers is a sequence.
LEMMA IsASequence ==
  ASSUME NEW S, NEW n \in Nat, NEW f \in [1..n -> S]
  PROVE  f \in Seq(S)
OBVIOUS

\* A bijection counts.
LEMMA SameSize ==
  ASSUME NEW S, NEW T, NEW f \in Bijection(S, T), IsFiniteSet(S)
  PROVE  IsFiniteSet(T) /\ Cardinality(T) = Cardinality(S)
<1>1. f \in Surjection(S, T) /\ f \in Injection(S, T)
  BY DEF Bijection
<1> QED BY <1>1, FS_Surjection

\* The elements at a rank have that many before them.
LEMMA RankOfRanked ==
  ASSUME NEW S, NEW R, IsFiniteSet(S), StrictOrder(S, R), NEW i \in 1..Cardinality(S)
  PROVE  /\ Ranked(S, R)[i] \in S
         /\ Cardinality({y \in S : <<y, Ranked(S, R)[i]>> \in R}) = i - 1
<1> DEFINE n == Cardinality(S)
           g == Ranked(S, R)
           below == {y \in S : <<y, g[i]>> \in R}
           f == [j \in 1..i - 1 |-> g[j]]
<1>1. n \in Nat
  BY FS_CardinalityType
<1>2. g \in Bijection(1..n, S) /\ \A a, b \in 1..n : a < b => <<g[a], g[b]>> \in R
  BY RankedSorts
<1> HIDE DEF g, n
<1>3. g \in [1..n -> S] /\ (\A y \in S : \E j \in 1..n : g[j] = y)
      /\ \A a, b \in 1..n : g[a] = g[b] => a = b
  BY <1>2 DEF Bijection, Injection, Surjection, IsInjective
<1>4. i \in 1..n
  BY DEF n
<1>5. g[i] \in S
  BY <1>3, <1>4
<1>6. \A j \in 1..n : <<g[j], g[i]>> \in R => j < i
  <2> TAKE j \in 1..n
  <2> HAVE <<g[j], g[i]>> \in R
  <2>1. j \in Int /\ i \in Int
    BY <1>1, <1>4
  <2>2. g[j] \in S
    BY <1>3
  <2>3. ~(j = i)
    BY <1>5 DEF StrictOrder
  <2>4. ~(i < j)
    BY <1>2, <1>4, <1>5, <2>2 DEF StrictOrder
  <2> QED BY <2>1, <2>3, <2>4
<1>7. \A j \in 1..i - 1 : j \in 1..n /\ j < i
  BY <1>1, <1>4
<1>8. f \in Bijection(1..i - 1, below)
  <2>1. f \in [1..i - 1 -> below]
    BY <1>2, <1>3, <1>4, <1>7
  <2>2. \A a, b \in 1..i - 1 : f[a] = f[b] => a = b
    BY <1>3, <1>7
  <2>3. ASSUME NEW y \in below PROVE \E j \in 1..i - 1 : f[j] = y
    <3>1. PICK j \in 1..n : g[j] = y
      BY <1>3
    <3>2. j \in 1..i - 1
      BY <1>1, <1>4, <1>6, <3>1
    <3> QED BY <3>1, <3>2
  <2> HIDE DEF f, below
  <2> QED BY <2>1, <2>2, <2>3 DEF Bijection, Injection, Surjection, IsInjective
<1>9. IsFiniteSet(1..i - 1) /\ Cardinality(1..i - 1) = i - 1
  <2>1. i - 1 \in Nat
    BY <1>1, <1>4
  <2> QED BY <2>1, FS_Interval
<1>10. Cardinality(below) = i - 1
  <2> HIDE DEF f, below
  <2> QED BY <1>8, <1>9, SameSize
<1> QED BY <1>5, <1>10 DEF g

\* Two orders that are the same but for the names of the elements sort alike.
LEMMA SortedAlike ==
  ASSUME NEW S, NEW R, IsFiniteSet(S), StrictOrder(S, R),
         NEW T, NEW Q, StrictOrder(T, Q),
         NEW f \in Bijection(S, T),
         \A x, y \in S : <<x, y>> \in R => <<f[x], f[y]>> \in Q
  PROVE  /\ IsFiniteSet(T) /\ Cardinality(T) = Cardinality(S)
         /\ \A i \in 1..Cardinality(S) : Ranked(S, R)[i] \in S /\ Ranked(T, Q)[i] = f[Ranked(S, R)[i]]
<1>1. IsFiniteSet(T) /\ Cardinality(T) = Cardinality(S)
  BY SameSize
<1>2. f \in [S -> T] /\ (\A x, y \in S : f[x] = f[y] => x = y) /\ \A t \in T : \E x \in S : f[x] = t
  BY DEF Bijection, Injection, Surjection, IsInjective
<1>3. \A x, y \in S : <<f[x], f[y]>> \in Q => <<x, y>> \in R
  <2> TAKE x, y \in S
  <2> HAVE <<f[x], f[y]>> \in Q
  <2>1. f[x] \in T /\ f[y] \in T
    BY <1>2
  <2>2. x # y
    BY <2>1 DEF StrictOrder
  <2>3. <<y, x>> \notin R
    BY <2>1 DEF StrictOrder
  <2> QED BY <2>2, <2>3 DEF StrictOrder
<1>4. ASSUME NEW i \in 1..Cardinality(S)
      PROVE  Ranked(S, R)[i] \in S /\ Ranked(T, Q)[i] = f[Ranked(S, R)[i]]
  <2> DEFINE x == Ranked(S, R)[i]
             t == Ranked(T, Q)[i]
             below == {y \in S : <<y, x>> \in R}
             image == {y \in T : <<y, f[x]>> \in Q}
             h == [y \in below |-> f[y]]
  <2>1. x \in S /\ Cardinality(below) = i - 1
    BY RankOfRanked
  <2>2. t \in T /\ Cardinality({y \in T : <<y, t>> \in Q}) = i - 1
    BY <1>1, RankOfRanked
  <2> HIDE DEF x, t
  <2>3. f[x] \in T
    BY <1>2, <2>1
  <2>4. h \in Bijection(below, image)
    <3>1. h \in [below -> image]
      BY <1>2, <2>1
    <3>2. \A a, b \in below : h[a] = h[b] => a = b
      BY <1>2
    <3>3. ASSUME NEW y \in image PROVE \E a \in below : h[a] = y
      <4>1. PICK a \in S : f[a] = y
        BY <1>2
      <4>2. a \in below
        BY <1>3, <2>1, <4>1
      <4> QED BY <4>1, <4>2
    <3> HIDE DEF h, below, image
    <3> QED BY <3>1, <3>2, <3>3 DEF Bijection, Injection, Surjection, IsInjective
  <2>5. IsFiniteSet(below)
    BY FS_Subset
  <2>6. Cardinality(image) = i - 1
    <3> HIDE DEF h, below, image
    <3> QED BY <2>1, <2>4, <2>5, SameSize
  <2>7. Cardinality({y \in T : <<y, t>> \in Q}) \in Int /\ Cardinality(image) \in Int
    <3>1. IsFiniteSet({y \in T : <<y, t>> \in Q}) /\ IsFiniteSet(image)
      BY <1>1, FS_Subset
    <3> HIDE DEF image
    <3> QED BY <3>1, FS_CardinalityType
  <2>8. ~(<<t, f[x]>> \in Q) /\ ~(<<f[x], t>> \in Q)
    <3>1. <<t, f[x]>> \in Q => Cardinality({y \in T : <<y, t>> \in Q}) < Cardinality(image)
      BY <1>1, <2>2, <2>3, RankGrows
    <3>2. <<f[x], t>> \in Q => Cardinality(image) < Cardinality({y \in T : <<y, t>> \in Q})
      BY <1>1, <2>2, <2>3, RankGrows
    <3> HIDE DEF image
    <3> QED BY <2>2, <2>6, <2>7, <3>1, <3>2
  <2>9. t = f[x]
    BY <2>2, <2>3, <2>8 DEF StrictOrder
  <2> QED BY <2>1, <2>9 DEF x, t
<1> QED BY <1>1, <1>4

\* A selection is read in the order of the places it keeps.
LEMMA AtPlacesIncreasing ==
  ASSUME NEW T, NEW s \in Seq(T), NEW places \in SUBSET DOMAIN s
  PROVE  \E f \in Bijection(1..Cardinality(places), places) :
            /\ \A i, j \in 1..Cardinality(places) : i < j => f[i] < f[j]
            /\ AtPlaces(s, places) = [i \in 1..Cardinality(places) |-> s[f[i]]]
<1> DEFINE n == Cardinality(places)
           R == Pairs(places, <)
           f == Ranked(places, R)
<1>1. places \in SUBSET (1..Len(s)) /\ Len(s) \in Nat
  OBVIOUS
<1>2. IsFiniteSet(places)
  <2>1. IsFiniteSet(1..Len(s)) BY <1>1, FS_Interval
  <2> QED BY <1>1, <2>1, FS_Subset
<1>3. StrictOrder(places, R)
  BY <1>1 DEF StrictOrder, Pairs
<1>4. f \in Bijection(1..n, places) /\ \A i, j \in 1..n : i < j => <<f[i], f[j]>> \in R
  <2> HIDE DEF R
  <2> QED BY <1>2, <1>3, RankedSorts
<1>5. \A i, j \in 1..n : i < j => f[i] < f[j]
  <2> HIDE DEF f, n
  <2> QED BY <1>4 DEF Pairs
<1>6. AtPlaces(s, places) = [i \in 1..n |-> s[f[i]]]
  BY DEF AtPlaces, Sorted
<1> HIDE DEF f, n
<1> QED BY <1>4, <1>5, <1>6 DEF n

\* What a function makes of a state and the entries of a sequence, one after the other,
\* exists: by induction over the number of entries.
Runs(g, step, base, s) ==
  g[0] = base /\ \A n \in 1..Len(s) : g[n] = step[<<g[n - 1], s[n]>>]

LEMMA RunExists ==
  ASSUME NEW T, NEW Y, NEW step \in [T \X Y -> T], NEW base \in T, NEW s \in Seq(Y)
  PROVE  \E g \in [0..Len(s) -> T] : Runs(g, step, base, s)
<1> DEFINE Fits(g, m) == \A n \in 0..m : g[n] = IF n = 0 THEN base ELSE step[<<g[n - 1], s[n]>>]
           S == {m \in Nat : m <= Len(s) => \E g \in [0..m -> T] : Fits(g, m)}
<1>1. 0 \in S
  <2> DEFINE g == [n \in 0..0 |-> base]
  <2>1. g \in [0..0 -> T] /\ Fits(g, 0)
    OBVIOUS
  <2> HIDE DEF g, Fits
  <2> QED BY <2>1
<1>2. \A m \in Nat : m \in S => m + 1 \in S
  <2> SUFFICES ASSUME NEW m \in Nat, m + 1 <= Len(s), NEW g \in [0..m -> T], Fits(g, m)
      PROVE  \E h \in [0..m + 1 -> T] : Fits(h, m + 1)
    <3> HIDE DEF Fits
    <3>1. \A m \in Nat : m + 1 <= Len(s) => m <= Len(s)
      OBVIOUS
    <3> QED BY <3>1
  <2> DEFINE h == [n \in 0..m + 1 |-> IF n = m + 1 THEN step[<<g[m], s[m + 1]>>] ELSE g[n]]
  <2>0. s[m + 1] \in Y /\ g[m] \in T
    OBVIOUS
  <2>1. h \in [0..m + 1 -> T]
    BY <2>0
  <2>2. ASSUME NEW n \in 0..m + 1 PROVE h[n] = IF n = 0 THEN base ELSE step[<<h[n - 1], s[n]>>]
    <3>1. CASE n = m + 1
      <4>1. h[n] = step[<<g[m], s[n]>>] /\ h[n - 1] = g[m] /\ n # 0
        BY <3>1
      <4> QED BY <4>1
    <3>2. CASE n # m + 1
      <4>1. n \in 0..m /\ h[n] = g[n] /\ (n # 0 => h[n - 1] = g[n - 1])
        BY <3>2
      <4> QED BY <4>1
    <3> QED BY <3>1, <3>2
  <2> HIDE DEF h
  <2> QED BY <2>1, <2>2
<1> HIDE DEF Fits
<1>3. Nat \subseteq S
  <2> HIDE DEF S
  <2> QED BY <1>1, <1>2, NatSetInduction
<1>4. Len(s) \in Nat
  OBVIOUS
<1>5. PICK g \in [0..Len(s) -> T] : Fits(g, Len(s))
  BY <1>3, <1>4
<1>6. g[0] = base /\ \A n \in 1..Len(s) : g[n] = step[<<g[n - 1], s[n]>>]
  BY <1>4, <1>5 DEF Fits
<1> QED BY <1>6 DEF Runs

\* What is true of the first of a run of numbers, and of each after the one before it,
\* is true of all.
LEMMA UpToInduction ==
  ASSUME NEW k \in Nat, NEW S, 0 \in S, \A n \in 1..k : n - 1 \in S => n \in S
  PROVE  0..k \subseteq S
<1> DEFINE T == {n \in Nat : n <= k => n \in S}
<1>1. 0 \in T
  OBVIOUS
<1>2. ASSUME NEW n \in Nat, n \in T PROVE n + 1 \in T
  <2> SUFFICES ASSUME n + 1 <= k PROVE n + 1 \in S
    OBVIOUS
  <2>1. n + 1 \in 1..k /\ (n + 1) - 1 = n /\ n <= k
    OBVIOUS
  <2>2. n \in S
    BY <1>2, <2>1
  <2> QED BY <2>1, <2>2
<1>3. Nat \subseteq T
  <2> HIDE DEF T
  <2> QED BY <1>1, <1>2, NatSetInduction
<1> QED BY <1>3

\* Lists that are chained: each number of them is the one before and the next list.
LEMMA ChainedLists ==
  ASSUME NEW T, NEW lists \in Seq(Seq(T))
  PROVE  /\ Chained(lists) \in [0..Len(lists) -> Seq(T)]
         /\ Chained(lists)[0] = <<>>
         /\ \A n \in 1..Len(lists) : Chained(lists)[n] = Chained(lists)[n - 1] \o lists[n]
<1> DEFINE L == Seq(T)
           step == [p \in L \X L |-> p[1] \o p[2]]
           f == Chained(lists)
<1>1. step \in [L \X L -> L] /\ <<>> \in L /\ lists \in Seq(L)
  OBVIOUS
<1>2. \A p \in L \X L : step[p] = p[1] \o p[2]
  OBVIOUS
<1>3. \A n \in 1..Len(lists) : lists[n] \in L
  <2> HIDE DEF L
  <2> QED BY <1>1
<1> DEFINE k == Len(lists)
<1>4. k \in Nat /\ 0 \in 0..k /\ \A n \in 1..k : n \in 0..k /\ n - 1 \in 0..k /\ n # 0
  OBVIOUS
<1>0. \A n \in 0..k : n = 0 \/ n \in 1..k
  BY ONLY <1>4
<1> HIDE DEF step, L
<1>5. PICK g \in [0..k -> L] : Runs(g, step, <<>>, lists)
  BY <1>1, RunExists
<1> HIDE DEF k
<1>6. \A n \in 1..k : g[n] = g[n - 1] \o lists[n]
  <2> TAKE n \in 1..k
  <2>1. g[n - 1] \in L /\ lists[n] \in L
    BY <1>3, <1>4 DEF k
  <2>2. g[n] = step[<<g[n - 1], lists[n]>>]
    BY <1>5 DEF Runs, k
  <2> QED BY <1>2, <2>1, <2>2
<1>7. g = [n \in 0..k |-> IF n = 0 THEN <<>> ELSE g[n - 1] \o lists[n]]
  <2>1. g[0] = <<>>
    BY <1>5 DEF Runs
  <2>2. \A n \in 0..k : g[n] = IF n = 0 THEN <<>> ELSE g[n - 1] \o lists[n]
    BY ONLY <1>0, <1>6, <2>1
  <2> QED BY <2>2
<1>8. f = [n \in 0..k |-> IF n = 0 THEN <<>> ELSE f[n - 1] \o lists[n]]
  BY <1>7 DEF Chained, k
<1> HIDE DEF f
<1>9. f[0] = <<>> /\ \A n \in 1..k : f[n] = f[n - 1] \o lists[n]
  <2>1. \A n \in 0..k : f[n] = IF n = 0 THEN <<>> ELSE f[n - 1] \o lists[n]
    BY <1>8
  <2> QED BY ONLY <1>4, <2>1
<1> DEFINE S == {n \in 0..k : f[n] \in L}
<1>10. 0 \in S
  BY <1>1, <1>4, <1>9
<1>11. \A n \in 1..k : n - 1 \in S => n \in S
  <2> SUFFICES ASSUME NEW n \in 1..k, f[n - 1] \in L PROVE f[n] \in L
    BY <1>4
  <2>1. lists[n] \in L /\ f[n] = f[n - 1] \o lists[n]
    BY <1>3, <1>9 DEF k
  <2>2. \A a, b \in L : a \o b \in L
    BY DEF L
  <2> QED BY <2>1, <2>2
<1>12. 0..k \subseteq S
  <2> HIDE DEF S
  <2> QED BY <1>4, <1>10, <1>11, UpToInduction
<1>13. f \in [0..k -> L]
  <2>1. DOMAIN f = 0..k /\ f = [n \in DOMAIN f |-> f[n]]
    BY <1>8
  <2> QED BY <2>1, <1>12
<1> QED BY <1>9, <1>13 DEF L, f, k

\* Fewer lists are the beginning of more.
LEMMA ChainedGrows ==
  ASSUME NEW T, NEW lists \in Seq(Seq(T)), NEW j \in 0..Len(lists), NEW i \in 0..j
  PROVE  /\ Len(Chained(lists)[i]) <= Len(Chained(lists)[j])
         /\ \A p \in 1..Len(Chained(lists)[i]) : Chained(lists)[j][p] = Chained(lists)[i][p]
<1> DEFINE f == Chained(lists)
           Begins(n) == Len(f[i]) <= Len(f[n]) /\ \A p \in 1..Len(f[i]) : f[n][p] = f[i][p]
           S == {n \in 0..Len(lists) : n >= i => Begins(n)}
<1>1. Len(lists) \in Nat
  OBVIOUS
<1>2. f \in [0..Len(lists) -> Seq(T)]
  BY ChainedLists
<1>3. \A n \in 1..Len(lists) : lists[n] \in Seq(T)
  <2> DEFINE L == Seq(T)
  <2>1. lists \in Seq(L)
    OBVIOUS
  <2> HIDE DEF L
  <2>2. \A n \in 1..Len(lists) : lists[n] \in L
    BY <2>1
  <2> QED BY <2>2 DEF L
<1>4. \A n \in 1..Len(lists) : f[n] = f[n - 1] \o lists[n]
  BY ChainedLists
<1> HIDE DEF f
<1>5. \A n \in 0..Len(lists) : f[n] \in Seq(T)
  BY <1>2
<1>6. 0 \in S
  <2>1. CASE i = 0
    BY <2>1, <1>1, <1>5
  <2>2. CASE i # 0
    BY <2>2, <1>1
  <2> QED BY <2>1, <2>2
<1>7. ASSUME NEW n \in 1..Len(lists), n - 1 \in S PROVE n \in S
  <2>1. CASE n < i
    BY <2>1
  <2>2. CASE n = i
    <3>1. f[n] \in Seq(T)
      BY <1>5
    <3> QED BY <2>2, <3>1
  <2>3. CASE n > i
    <3>1. Begins(n - 1)
      BY <1>7, <2>3
    <3>2. f[n - 1] \in Seq(T) /\ lists[n] \in Seq(T) /\ f[i] \in Seq(T) /\ n \in 0..Len(lists)
      BY <1>3, <1>5
    <3>3. f[n] = f[n - 1] \o lists[n]
      BY <1>4
    <3>4. \A a, b, c \in Seq(T) : a = b \o c =>
            Len(b) <= Len(a) /\ \A p \in 1..Len(b) : a[p] = b[p]
      OBVIOUS
    <3>5. Len(f[n - 1]) <= Len(f[n]) /\ \A p \in 1..Len(f[n - 1]) : f[n][p] = f[n - 1][p]
      <4>1. f[n] \in Seq(T)
        BY <1>5, <3>2
      <4> QED BY ONLY <3>2, <3>3, <3>4, <4>1
    <3>6. Begins(n)
      <4>1. f[n] \in Seq(T)
        BY <1>5, <3>2
      <4>2. Len(f[i]) \in Nat /\ Len(f[n - 1]) \in Nat /\ Len(f[n]) \in Nat
        <5>1. \A a \in Seq(T) : Len(a) \in Nat
          OBVIOUS
        <5> QED BY ONLY <3>2, <4>1, <5>1
      <4>3. 1..Len(f[i]) \subseteq 1..Len(f[n - 1]) /\ Len(f[i]) <= Len(f[n])
        <5>1. Len(f[i]) <= Len(f[n - 1]) /\ Len(f[n - 1]) <= Len(f[n])
          BY <3>1, <3>5
        <5> QED BY ONLY <4>2, <5>1
      <4> QED BY <3>1, <3>5, <4>3
    <3> QED BY <3>2, <3>6
  <2> QED BY <2>1, <2>2, <2>3
<1>8. 0..Len(lists) \subseteq S
  <2> DEFINE k == Len(lists)
  <2>1. k \in Nat
    BY <1>1
  <2> HIDE DEF S, k
  <2>2. \A n \in 1..k : n - 1 \in S => n \in S
    BY <1>7 DEF k
  <2>3. 0..k \subseteq S
    BY ONLY <1>6, <2>1, <2>2, UpToInduction
  <2> QED BY <2>3 DEF k
<1>9. j \in S /\ j >= i
  <2> HIDE DEF S
  <2> QED BY <1>1, <1>8
<1> QED BY <1>9 DEF f
=============================================================================
