----------------------- MODULE VendorRateLimitsProofs -----------------------
(***************************************************************************)
(* For every vendor, every choice of limits, waits and steps back, and any  *)
(* number of callers: while the program counts what it sent, it keeps the   *)
(* vendor's limits; and the time it announces is one when it sends again.   *)
(*                                                                          *)
(* The newest requests are the last ones of the sequence, each counted at   *)
(* an instant that is, by the wall clock, no longer ago than the request    *)
(* was sent: the clock only loses time.  Hence those of a window that has   *)
(* not passed are a suffix, of which a bisection misses nothing, although   *)
(* the sequence is not sorted.                                              *)
(***************************************************************************)
EXTENDS VendorRateLimits, FiniteSetTheorems, SequenceTheorems, WellFoundedInduction,
        NaturalsInduction, TLAPS

-----------------------------------------------------------------------------
(* Sets of numbers *)

\* A set of naturals has a least element.
LEMMA Smallest ==
  ASSUME NEW S \in SUBSET Nat, S # {}
  PROVE  \E n \in S : \A m \in S : n <= m
<1>1. IsWellFoundedOn(OpToRel(<, Nat), Nat)
  BY NatLessThanWellFounded
<1>2. PICK n \in S : \A m \in S : ~(<<m, n>> \in OpToRel(<, Nat))
  BY <1>1, WFMin, Zenon
<1>3. ASSUME NEW m \in S PROVE n <= m
  <2>1. ~(<<m, n>> \in {ss \in Nat \X Nat : ss[1] < ss[2]})
    BY <1>2 DEF OpToRel
  <2>2. m \in Nat /\ n \in Nat
    OBVIOUS
  <2>3. QED
    BY <2>1, <2>2
<1>4. QED
  BY <1>3

LEMMA MinIs ==
  ASSUME NEW S \in SUBSET Nat, S # {}
  PROVE  Min(S) \in S /\ \A n \in S : Min(S) <= n
<1>1. \E n \in S : \A m \in S : n <= m
  BY Smallest
<1>2. QED
  BY <1>1 DEF Min

\* A finite set of integers has a greatest element: the least number of elements that
\* a set without one could have leads to a smaller one.
LEMMA MaxIs ==
  ASSUME NEW S \in SUBSET Int, IsFiniteSet(S), S # {}
  PROVE  Max(S) \in S /\ \A n \in S : n <= Max(S)
<1> DEFINE Topless(T) == T # {} /\ \A x \in T : \E y \in T : y > x
           Sizes == {k \in Nat : \E T \in SUBSET S : Cardinality(T) = k /\ Topless(T)}
<1>1. Sizes = {}
  <2>1. SUFFICES ASSUME Sizes # {} PROVE FALSE
    OBVIOUS
  <2>2. PICK k \in Sizes : \A other \in Sizes : k <= other
    BY <2>1, Smallest
  <2>3. PICK T \in SUBSET S : Cardinality(T) = k /\ Topless(T)
    BY <2>2
  <2>4. PICK x \in T : TRUE
    BY <2>3
  <2> DEFINE rest == T \ {x}
  <2>5. rest \in SUBSET S /\ Cardinality(rest) \in Nat /\ Cardinality(rest) < k
    <3>1. IsFiniteSet(T)
      BY FS_Subset
    <3>2. IsFiniteSet(rest) /\ Cardinality(rest) = Cardinality(T) - 1
      BY <2>4, <3>1, FS_RemoveElement
    <3>3. Cardinality(rest) \in Nat /\ Cardinality(T) \in Nat
      BY <3>1, <3>2, FS_CardinalityType
    <3>4. QED
      BY <2>3, <3>2, <3>3
  <2>6. ~Topless(rest)
    BY <2>2, <2>5
  <2>7. CASE rest = {}
    <3>1. T = {x} /\ x \in Int
      BY <2>4, <2>7
    <3>2. QED
      BY <2>3, <3>1
  <2>8. CASE rest # {}
    <3>1. PICK m \in rest : \A y \in rest : ~(y > m)
      BY <2>6, <2>8
    <3>2. m \in Int /\ x \in Int /\ m \in T
      BY <2>4
    <3>3. \A y \in T : y \in Int /\ (y = x \/ y <= m)
      BY <3>1, <3>2
    <3>4. PICK y \in T : y > m
      BY <2>3, <3>2
    <3>5. PICK z \in T : z > x
      BY <2>3, <2>4
    <3>6. QED
      BY <3>2, <3>3, <3>4, <3>5
  <2>9. QED
    BY <2>7, <2>8
<1>2. \E x \in S : \A y \in S : x >= y
  <2>1. Cardinality(S) \in Nat
    BY FS_CardinalityType
  <2>2. ~Topless(S)
    BY <1>1, <2>1
  <2>3. PICK x \in S : \A y \in S : ~(y > x)
    BY <2>2
  <2>4. QED
    BY <2>3
<1>3. Max(S) \in S /\ \A y \in S : Max(S) >= y
  BY <1>2 DEF Max
<1>4. QED
  BY <1>3

TotalOrder(R, S) ==
  /\ \A i, j \in S : <<i, j>> \in R \/ <<j, i>> \in R
  /\ \A i, j \in S : <<i, j>> \in R /\ <<j, i>> \in R => i = j
  /\ \A i, j, k \in S : <<i, j>> \in R /\ <<j, k>> \in R => <<i, k>> \in R

Below(R, S, i) == {j \in S : <<j, i>> \in R}
AtPlace(R, S, i, k) == Cardinality(Below(R, S, i)) = k

\* In a finite total order, every place is that of an element.
LEMMA Ranked ==
  ASSUME NEW S, IsFiniteSet(S), NEW R, TotalOrder(R, S), NEW k \in 1..Cardinality(S)
  PROVE  \E i \in S : AtPlace(R, S, i, k)
<1> DEFINE down(i) == Below(R, S, i)
           n == Cardinality(S)
           rank == [i \in S |-> Cardinality(down(i))]
<1>1. n \in Nat
  BY FS_CardinalityType
<1>2. ASSUME NEW i \in S
      PROVE  IsFiniteSet(down(i)) /\ Cardinality(down(i)) \in 1..n
  <2>1. i \in down(i) /\ down(i) \in SUBSET S
    BY DEF TotalOrder, Below
  <2> HIDE DEF down
  <2>2. IsFiniteSet(down(i)) /\ Cardinality(down(i)) <= n
    BY <2>1, FS_Subset
  <2>3. Cardinality(down(i)) \in Nat /\ Cardinality(down(i)) # 0
    BY <2>1, <2>2, FS_CardinalityType, FS_EmptySet
  <2>4. QED
    BY <1>1, <2>2, <2>3
<1>3. ASSUME NEW i \in S, NEW j \in S, i # j, <<i, j>> \in R
      PROVE  rank[i] < rank[j]
  <2>1. down(i) \in SUBSET down(j) /\ j \in down(j) /\ j \notin down(i)
    BY <1>3 DEF TotalOrder, Below
  <2> HIDE DEF down
  <2>2. IsFiniteSet(down(j)) /\ Cardinality(down(j)) \in Nat /\ Cardinality(down(i)) \in Nat
    BY <1>1, <1>2
  <2>3. Cardinality(down(i)) <= Cardinality(down(j)) /\ Cardinality(down(i)) # Cardinality(down(j))
    BY <2>1, <2>2, FS_Subset
  <2>4. QED
    BY <2>2, <2>3
<1>4. SUFFICES ASSUME \A i \in S : rank[i] # k PROVE FALSE
  BY DEF AtPlace
<1> HIDE DEF down
<1>5. rank \in [S -> (1..n) \ {k}]
  BY <1>2, <1>4
<1>6. IsFiniteSet((1..n) \ {k}) /\ Cardinality((1..n) \ {k}) < Cardinality(S)
  <2>1. IsFiniteSet(1..n) /\ Cardinality(1..n) = n
    BY <1>1, FS_Interval
  <2>2. IsFiniteSet((1..n) \ {k}) /\ Cardinality((1..n) \ {k}) = n - 1
    BY <2>1, FS_RemoveElement
  <2>3. QED
    BY <1>1, <2>2
<1>7. \A i \in S : rank[i] \in Nat
  BY <1>2
<1> HIDE DEF rank
<1>8. PICK i, j \in S : i # j /\ rank[i] = rank[j]
  BY <1>5, <1>6, FS_PigeonHole
<1>9. <<i, j>> \in R \/ <<j, i>> \in R
  BY DEF TotalOrder
<1>10. QED
  BY <1>3, <1>7, <1>8, <1>9

\* Nth gives one of the indices, and among consecutive ones the one that is counted.
LEMMA NthIs ==
  ASSUME NEW S \in SUBSET Nat, IsFiniteSet(S), NEW k \in 1..Cardinality(S)
  PROVE  Nth(S, k) \in S /\ Cardinality({j \in S : j <= Nth(S, k)}) = k
<1> DEFINE R == {p \in S \X S : p[1] <= p[2]}
<1>1. \A i, j \in S : <<i, j>> \in R <=> i <= j
  OBVIOUS
<1> HIDE DEF R
<1>2. \E i \in S : AtPlace(R, S, i, k)
  <2>1. \A i, j \in S : <<i, j>> \in R \/ <<j, i>> \in R
    <3>1. \A i, j \in S : i <= j \/ j <= i
      OBVIOUS
    <3>2. QED
      BY <1>1, <3>1, Zenon
  <2>2. \A i, j \in S : <<i, j>> \in R /\ <<j, i>> \in R => i = j
    BY <1>1
  <2>3. \A i, j, h \in S : <<i, j>> \in R /\ <<j, h>> \in R => <<i, h>> \in R
    <3>1. \A i, j, h \in S : i <= j /\ j <= h => i <= h
      OBVIOUS
    <3>2. QED
      BY <1>1, <3>1, Zenon
  <2>4. TotalOrder(R, S)
    BY <2>1, <2>2, <2>3, Zenon DEF TotalOrder
  <2>5. QED
    BY <2>4, Ranked, Zenon
<1>3. \A i \in S : AtPlace(R, S, i, k) => Cardinality({j \in S : j <= i}) = k
  <2>1. \A i \in S : Below(R, S, i) = {j \in S : j <= i}
    BY <1>1 DEF Below
  <2>2. QED
    BY <2>1 DEF AtPlace
<1>4. \E i \in S : Cardinality({j \in S : j <= i}) = k
  BY <1>2, <1>3
<1>5. QED
  BY <1>4 DEF Nth

LEMMA NthOfInterval ==
  ASSUME NEW a \in Nat, NEW b \in Nat, NEW k \in 1..(b - a)
  PROVE  Nth((a + 1)..b, k) = a + k
<1> DEFINE S == (a + 1)..b
           i == Nth(S, k)
<1>1. IsFiniteSet(S) /\ Cardinality(S) = b - a /\ S \in SUBSET Nat
  BY FS_Interval
<1>2. i \in S /\ Cardinality({j \in S : j <= i}) = k
  BY <1>1, NthIs
<1> HIDE DEF i
<1>3. {j \in S : j <= i} = (a + 1)..i /\ i \in Nat
  BY <1>2
<1> HIDE DEF S
<1>4. Cardinality((a + 1)..i) = k
  BY <1>2, <1>3
<1>5. i = a + k
  <2>1. Cardinality((a + 1)..i) = IF a + 1 > i THEN 0 ELSE i - (a + 1) + 1
    BY <1>3, FS_Interval
  <2>2. QED
    BY <1>3, <1>4, <2>1
<1>6. QED
  BY <1>5 DEF i, S

-----------------------------------------------------------------------------
(* Bisection *)

Ranges(seq) == {r \in (0..Len(seq)) \X (0..Len(seq)) : r[1] + r[2] <= Len(seq)}

\* One step of UpperBound, with f for the shorter ranges.
Halved(seq, value, f, range) ==
  LET half   == range[2] \div 2
      middle == range[1] + half
  IN  IF range[2] = 0 THEN range[1]
      ELSE IF value < seq[middle + 1] THEN f[<<range[1], half>>]
      ELSE f[<<middle + 1, range[2] - half - 1>>]

\* f is what UpperBound defines by recursion, for ranges no longer than n.
Bisects(seq, value, f, n) ==
  f = [range \in {r \in Ranges(seq) : r[2] <= n} |-> Halved(seq, value, f, range)]

\* The halves of a range are shorter ranges.
LEMMA HalvesShorter ==
  ASSUME NEW seq \in Seq(Int), NEW range \in Ranges(seq), range[2] # 0
  PROVE  LET half == range[2] \div 2
         IN  /\ half \in 0..(range[2] - 1)
             /\ range[1] \in Nat /\ range[2] \in Nat /\ range[1] + half + 1 \in 1..Len(seq)
             /\ <<range[1], half>> \in Ranges(seq)
             /\ <<range[1] + half + 1, range[2] - half - 1>> \in Ranges(seq)
<1>1. range[1] \in Nat /\ range[2] \in Nat \ {0} /\ range[1] + range[2] <= Len(seq) /\ Len(seq) \in Nat
  BY DEF Ranges
<1>2. range[2] \div 2 \in 0..(range[2] - 1)
  BY <1>1
<1> DEFINE half == range[2] \div 2
<1>3. half \in 0..(range[2] - 1)
  BY <1>2
<1> HIDE DEF half
<1>4. /\ range[1] + half + 1 \in 1..Len(seq)
      /\ <<range[1], half>> \in Ranges(seq)
      /\ <<range[1] + half + 1, range[2] - half - 1>> \in Ranges(seq)
  <2>1. \A x, y \in Nat : x + y <= Len(seq) => <<x, y>> \in Ranges(seq)
    BY <1>1 DEF Ranges
  <2>2. \A a, b, h, n \in Nat : a + b <= n /\ h < b =>
           /\ a + h <= n /\ a + h + 1 \in Nat /\ b - h - 1 \in Nat
           /\ (a + h + 1) + (b - h - 1) <= n /\ a + h + 1 \in 1..n
    OBVIOUS
  <2>3. half \in Nat /\ half < range[2]
    BY <1>1, <1>3
  <2>4. /\ range[1] + half <= Len(seq) /\ range[1] + half + 1 \in Nat /\ range[2] - half - 1 \in Nat
        /\ (range[1] + half + 1) + (range[2] - half - 1) <= Len(seq) /\ range[1] + half + 1 \in 1..Len(seq)
    BY <1>1, <2>2, <2>3
  <2>5. QED
    BY <1>1, <2>1, <2>3, <2>4
<1>5. QED
  BY <1>1, <1>3, <1>4 DEF half

LEMMA BisectionExists ==
  ASSUME NEW seq \in Seq(Int), NEW value \in Int, NEW n \in Nat
  PROVE  \E f : Bisects(seq, value, f, n)
<1> DEFINE Bad == {m \in Nat : ~ \E f : Bisects(seq, value, f, m)}
<1>1. SUFFICES ASSUME Bad # {} PROVE FALSE
  OBVIOUS
<1>2. PICK m \in Bad : \A other \in Bad : m <= other
  BY <1>1, Smallest
<1>3. m # 0
  <2> DEFINE D == {r \in Ranges(seq) : r[2] <= 0}
             f == [r \in D |-> r[1]]
  <2>1. \A r \in D : r[2] = 0
    BY DEF Ranges
  <2>2. \A r \in D : f[r] = Halved(seq, value, f, r)
    BY <2>1 DEF Halved
  <2>3. f = [r \in D |-> f[r]]
    OBVIOUS
  <2> HIDE DEF f
  <2>4. Bisects(seq, value, f, 0)
    BY <2>2, <2>3 DEF Bisects
  <2>5. QED
    BY <1>2, <2>4
<1>4. m \in Nat /\ m - 1 \in Nat /\ m - 1 \notin Bad
  BY <1>2, <1>3
<1>5. PICK g : Bisects(seq, value, g, m - 1)
  BY <1>4
<1> DEFINE D == {r \in Ranges(seq) : r[2] <= m}
           shorter == {r \in Ranges(seq) : r[2] <= m - 1}
           f == [r \in D |-> IF r \in shorter THEN g[r] ELSE Halved(seq, value, g, r)]
<1>6. shorter \subseteq D /\ \A r \in shorter : f[r] = g[r]
  BY <1>4 DEF Ranges
<1>7. \A r \in D : f[r] = Halved(seq, value, g, r)
  <2>1. \A r \in shorter : g[r] = Halved(seq, value, g, r)
    BY <1>5 DEF Bisects
  <2>2. QED
    BY <2>1
<1>8. f = [r \in D |-> f[r]]
  OBVIOUS
<1> HIDE DEF f
<1>9. ASSUME NEW r \in D PROVE Halved(seq, value, g, r) = Halved(seq, value, f, r)
  <2>1. CASE r[2] = 0
    BY <2>1 DEF Halved
  <2>2. CASE r[2] # 0
    <3> DEFINE half == r[2] \div 2
               left == <<r[1], half>>
               right == <<r[1] + half + 1, r[2] - half - 1>>
    <3>1. /\ half \in 0..(r[2] - 1) /\ r[2] \in Nat /\ r[2] <= m
          /\ left \in Ranges(seq) /\ right \in Ranges(seq)
      BY <2>2, HalvesShorter
    <3> HIDE DEF half
    <3>2. left \in shorter /\ right \in shorter
      BY <1>4, <3>1
    <3>3. f[left] = g[left] /\ f[right] = g[right]
      BY <1>6, <3>2
    <3> HIDE DEF left, right
    <3>4. \A h : Halved(seq, value, h, r) = IF value < seq[r[1] + half + 1] THEN h[left] ELSE h[right]
      BY <2>2 DEF Halved, left, right, half
    <3>5. QED
      BY <3>3, <3>4
  <2>3. QED
    BY <2>1, <2>2
<1>10. Bisects(seq, value, f, m)
  BY <1>7, <1>8, <1>9 DEF Bisects
<1>11. QED
  BY <1>2, <1>10

\* Whether or not the sequence is sorted: what is before the bound is not after the
\* value, and what is behind it is.
LEMMA UpperBoundIs ==
  ASSUME NEW seq \in Seq(Int), NEW value \in Int
  PROVE  LET b == UpperBound(seq, value)
         IN  /\ b \in 0..Len(seq)
             /\ b # 0 => seq[b] <= value
             /\ b # Len(seq) => seq[b + 1] > value
<1> DEFINE f == CHOOSE h : Bisects(seq, value, h, Len(seq))
<1>1. Len(seq) \in Nat
  OBVIOUS
<1>2. Bisects(seq, value, f, Len(seq))
  BY <1>1, BisectionExists
<1>3. {r \in Ranges(seq) : r[2] <= Len(seq)} = Ranges(seq)
  BY DEF Ranges
<1>4. UpperBound(seq, value) = f[<<0, Len(seq)>>]
  BY <1>3 DEF UpperBound, Bisects, Halved, Ranges
<1> HIDE DEF f
<1>5. \A r \in Ranges(seq) : f[r] = Halved(seq, value, f, r)
  BY <1>2, <1>3 DEF Bisects
<1> DEFINE Bounds(r, b) == /\ b \in r[1]..(r[1] + r[2])
                           /\ b # r[1] => seq[b] <= value
                           /\ b # r[1] + r[2] => seq[b + 1] > value
           Bad == {n \in Nat : \E r \in Ranges(seq) : r[2] = n /\ ~Bounds(r, f[r])}
<1>6. Bad = {}
  <2>1. SUFFICES ASSUME Bad # {} PROVE FALSE
    OBVIOUS
  <2>2. PICK n \in Bad : \A m \in Bad : n <= m
    BY <2>1, Smallest
  <2>3. PICK r \in Ranges(seq) : r[2] = n /\ ~Bounds(r, f[r])
    BY <2>2
  <2>4. r[1] \in Nat /\ r[2] \in Nat
    BY DEF Ranges
  <2>5. r[2] # 0
    <3>1. SUFFICES ASSUME r[2] = 0 PROVE FALSE
      OBVIOUS
    <3>2. f[r] = r[1]
      BY <1>5, <3>1 DEF Halved
    <3>3. QED
      BY <2>3, <2>4, <3>1, <3>2
  <2> DEFINE half == r[2] \div 2
             left == <<r[1], half>>
             right == <<r[1] + half + 1, r[2] - half - 1>>
  <2>6. /\ half \in 0..(r[2] - 1) /\ r[1] + half + 1 \in 1..Len(seq)
        /\ left \in Ranges(seq) /\ right \in Ranges(seq)
    BY <2>5, HalvesShorter
  <2>7. f[r] = IF value < seq[r[1] + half + 1] THEN f[left] ELSE f[right]
    BY <1>5, <2>5 DEF Halved
  <2> HIDE DEF half
  <2>8. left[1] = r[1] /\ left[2] = half /\ right[1] = r[1] + half + 1 /\ right[2] = r[2] - half - 1
    OBVIOUS
  <2> HIDE DEF left, right, Bounds
  <2>9. Bounds(left, f[left]) /\ Bounds(right, f[right])
    BY <2>2, <2>3, <2>4, <2>6, <2>8
  <2>10. seq[r[1] + half + 1] \in Int
    BY <2>6
  <2>11. CASE value < seq[r[1] + half + 1]
    <3>1. f[r] = f[left]
      BY <2>7, <2>11
    <3> DEFINE b == f[left]
    <3>2. b \in r[1]..(r[1] + half) /\ (b # r[1] => seq[b] <= value)
          /\ (b # r[1] + half => seq[b + 1] > value)
      BY <2>8, <2>9 DEF Bounds
    <3> HIDE DEF b
    <3>3. b \in r[1]..(r[1] + r[2]) /\ (b = r[1] + half => seq[b + 1] > value)
      <4>1. \A a, c, h, x \in Int : x \in a..(a + h) /\ h \in 0..(c - 1) => x \in a..(a + c)
        OBVIOUS
      <4>2. b \in r[1]..(r[1] + r[2])
        <5>1. r[1] \in Int /\ r[2] \in Int /\ half \in Int /\ b \in Int
          BY <2>4, <2>6, <3>2
        <5>2. b \in r[1]..(r[1] + half) /\ half \in 0..(r[2] - 1)
          BY <2>6, <3>2
        <5>3. QED
          BY <4>1, <5>1, <5>2
      <4>3. seq[r[1] + half + 1] > value
        BY <2>10, <2>11
      <4>4. QED
        BY <4>2, <4>3
    <3>4. Bounds(r, f[r])
      BY <3>1, <3>2, <3>3 DEF Bounds, b
    <3>5. QED
      BY <2>3, <3>4
  <2>12. CASE ~(value < seq[r[1] + half + 1])
    <3>1. f[r] = f[right] /\ seq[r[1] + half + 1] <= value
      BY <2>7, <2>10, <2>12
    <3> DEFINE b == f[right]
               middle == r[1] + half + 1
    <3>2. b \in middle..(middle + (r[2] - half - 1)) /\ (b # middle => seq[b] <= value)
          /\ (b # middle + (r[2] - half - 1) => seq[b + 1] > value)
      BY <2>8, <2>9 DEF Bounds
    <3> HIDE DEF b
    <3>3. /\ middle \in Int /\ r[1] < middle /\ middle + (r[2] - half - 1) = r[1] + r[2]
      <4>1. \A a, c, h \in Int : h >= 0 => /\ (a + h + 1) \in Int /\ a < a + h + 1
                                         /\ (a + h + 1) + (c - h - 1) = a + c
        OBVIOUS
      <4>2. r[1] \in Int /\ r[2] \in Int /\ half \in Int /\ half >= 0
        BY <2>4, <2>6
      <4>3. QED
        BY <4>1, <4>2
    <3>4. seq[middle] <= value
      BY <3>1
    <3> HIDE DEF middle
    <3>5. b \in r[1]..(r[1] + r[2]) /\ (b # r[1] => seq[b] <= value) /\ (b # r[1] + r[2] => seq[b + 1] > value)
      BY <2>4, <3>2, <3>3, <3>4
    <3>6. Bounds(r, f[r])
      BY <3>1, <3>5 DEF Bounds, b
    <3>7. QED
      BY <2>3, <3>6
  <2>13. QED
    BY <2>11, <2>12
<1>7. <<0, Len(seq)>> \in Ranges(seq) /\ <<0, Len(seq)>>[1] = 0 /\ <<0, Len(seq)>>[2] = Len(seq)
  BY <1>1 DEF Ranges
<1>8. Bounds(<<0, Len(seq)>>, f[<<0, Len(seq)>>])
  BY <1>1, <1>6, <1>7
<1>9. QED
  BY <1>1, <1>4, <1>7, <1>8


-----------------------------------------------------------------------------
(* What a prune keeps *)

LEMMA Constants ==
  /\ Minute \in Nat \ {0} /\ Day \in Nat \ {0} /\ MaxBlock \in Nat \ {0}
  /\ MaxAttempts \in Nat \ {0} /\ MaxStored \in Nat \ {0} /\ MaxWait \in Nat /\ MaxTime \in Nat
  /\ Hints \subseteq Nat \ {0} /\ None \notin Nat /\ Sessions \subseteq SessionType
  BY LimitsAssumption

\* A prune keeps consecutive requests; unless the newest is in the future, those up
\* to the newest.
LEMMA PruneIs ==
  ASSUME NEW seq \in Seq(Int), NEW clock \in Int
  PROVE  \E low \in Nat \ {0}, high \in 0..Len(seq) :
           /\ Prune(seq, clock) = SubSeq(seq, low, high)
           /\ high - low < MaxStored
           /\ ~Forgets(seq, clock) =>
                \A i \in DOMAIN seq : i > Len(seq) - MaxStored /\ seq[i] > clock - Day =>
                                        high = Len(seq) /\ low <= i
<1> DEFINE recent  == {i \in DOMAIN seq : seq[i] > clock - Day}
           first   == IF recent = {} THEN Len(seq) + 1 ELSE Min(recent)
           present == {i \in first..Len(seq) : ~Future(seq[i], clock)}
           last    == IF present = {} THEN 0 ELSE Max(present)
           low     == Max2(first, last - MaxStored + 1)
<1>1. Prune(seq, clock) = SubSeq(seq, low, last)
  BY DEF Prune
<1>2. Len(seq) \in Nat /\ DOMAIN seq = 1..Len(seq)
  OBVIOUS
<1>3. first \in 1..(Len(seq) + 1) /\ \A i \in recent : first <= i
  <2>1. recent \in SUBSET Nat
    BY <1>2
  <2>2. recent # {} => Min(recent) \in recent /\ \A i \in recent : Min(recent) <= i
    BY <2>1, MinIs
  <2>3. \A i \in recent : i \in 1..Len(seq)
    BY <1>2
  <2>4. QED
    BY <1>2, <2>2, <2>3
<1> HIDE DEF first
<1>4. last \in 0..Len(seq) /\ (Len(seq) \in present => last = Len(seq))
  <2>1. present \in SUBSET Int /\ \A i \in present : i \in 1..Len(seq)
    BY <1>2, <1>3
  <2>2. IsFiniteSet(present)
    <3>1. IsFiniteSet(first..Len(seq))
      BY <1>2, <1>3, FS_Interval
    <3>2. QED
      BY <3>1, FS_Subset
  <2> HIDE DEF present
  <2>3. present # {} => Max(present) \in present /\ \A i \in present : i <= Max(present)
    BY <2>1, <2>2, MaxIs
  <2>4. CASE present = {}
    BY <1>2, <2>4
  <2>5. CASE present # {}
    <3> DEFINE m == Max(present)
    <3>1. m \in 1..Len(seq) /\ (Len(seq) \in present => Len(seq) <= m)
      BY <2>1, <2>3, <2>5
    <3>2. last = m
      BY <2>5, Zenon
    <3> HIDE DEF m, last
    <3>3. last \in 1..Len(seq) /\ (Len(seq) \in present => Len(seq) <= last)
      BY <3>1, <3>2, Zenon
    <3>4. last \in 0..Len(seq)
      BY <1>2, <3>3
    <3>5. \A x, n \in Int : x \in 0..n /\ n <= x => x = n
      OBVIOUS
    <3>6. last \in Int /\ Len(seq) \in Int
      BY <1>2, <3>4
    <3>7. QED
      BY <3>3, <3>4, <3>5, <3>6, Zenon
  <2>6. QED
    BY <2>4, <2>5
<1>5. MaxStored \in Nat \ {0}
  BY Constants
<1> HIDE DEF last
<1>6. low \in Nat \ {0} /\ last - low < MaxStored
  BY <1>3, <1>4, <1>5 DEF Max2
<1>7. ASSUME ~Forgets(seq, clock), NEW i \in DOMAIN seq, i > Len(seq) - MaxStored, seq[i] > clock - Day
      PROVE  last = Len(seq) /\ low <= i
  <2>1. i \in recent /\ i \in 1..Len(seq)
    BY <1>2, <1>7
  <2>2. first <= i /\ first <= Len(seq)
    BY <1>2, <1>3, <2>1
  <2>3. seq # <<>> /\ Last(seq) = seq[Len(seq)]
    BY <1>2, <2>1 DEF Last
  <2>4. ~Future(seq[Len(seq)], clock)
    BY <1>7, <2>3 DEF Forgets
  <2>5. Len(seq) \in present
    BY <1>2, <1>3, <2>2, <2>4
  <2>6. last = Len(seq)
    BY <1>4, <2>5
  <2>7. QED
    BY <1>2, <1>3, <1>5, <1>7, <2>1, <2>2, <2>6 DEF Max2
<1>8. QED
  BY <1>1, <1>4, <1>6, <1>7

\* The requests are numbers, and no more than are stored.
LEMMA PruneType ==
  ASSUME NEW seq \in Seq(Int), NEW clock \in Int
  PROVE  /\ Prune(seq, clock) \in Seq(Int)
         /\ Len(Prune(seq, clock)) \in 0..MaxStored
<1>1. PICK low \in Nat \ {0}, high \in 0..Len(seq) :
         Prune(seq, clock) = SubSeq(seq, low, high) /\ high - low < MaxStored
  BY PruneIs
<1>2. MaxStored \in Nat /\ Len(seq) \in Nat
  BY Constants
<1>3. Prune(seq, clock) \in Seq(Int)
  BY <1>1, <1>2
<1>4. Len(SubSeq(seq, low, high)) = IF low <= high THEN high - low + 1 ELSE 0
  BY <1>1, <1>2
<1>5. QED
  BY <1>1, <1>2, <1>3, <1>4

\* Counted from the newest, a request of the last day keeps its place, unless there
\* are too many.
LEMMA PruneKeeps ==
  ASSUME NEW seq \in Seq(Int), NEW clock \in Int, ~Forgets(seq, clock),
         NEW k \in 0..(MaxStored - 1), k < Len(seq), seq[Len(seq) - k] > clock - Day
  PROVE  LET kept == Prune(seq, clock)
         IN  k < Len(kept) /\ kept[Len(kept) - k] = seq[Len(seq) - k]
<1> DEFINE i == Len(seq) - k
<1>1. MaxStored \in Nat /\ Len(seq) \in Nat /\ k \in Nat
  BY Constants
<1>2. i \in DOMAIN seq /\ i \in Int /\ i > Len(seq) - MaxStored
  BY <1>1
<1>3. PICK low \in Nat \ {0}, high \in 0..Len(seq) :
         Prune(seq, clock) = SubSeq(seq, low, high) /\ high = Len(seq) /\ low <= i
  BY <1>2, PruneIs
<1> DEFINE kept == SubSeq(seq, low, Len(seq))
<1>4. Len(kept) = Len(seq) - low + 1 /\ \A m \in 1..Len(kept) : kept[m] = seq[low + m - 1]
  <2> DEFINE size == Len(seq)
  <2>1. low \in Nat /\ low # 0 /\ size \in Nat /\ low <= size /\ size = Len(seq)
    BY <1>1, <1>2, <1>3
  <2> HIDE DEF size
  <2>2. SubSeq(seq, low, size) = [m \in 1..(size - low + 1) |-> seq[low + m - 1]]
    BY <2>1
  <2>3. Len(SubSeq(seq, low, size)) = size - low + 1
    <3>1. size - low + 1 \in Nat
      BY <2>1
    <3>2. QED
      BY <2>2, <3>1
  <2>4. QED
    BY <2>1, <2>2, <2>3
<1>5. Prune(seq, clock) = kept
  BY <1>3
<1> HIDE DEF kept
<1>6. k < Len(kept) /\ Len(kept) - k \in 1..Len(kept) /\ low + (Len(kept) - k) - 1 = Len(seq) - k
  <2>1. \A size, s, l, x \in Int :
          size = s - l + 1 /\ x >= 0 /\ l <= s - x
            => x < size /\ size - x \in 1..size /\ l + (size - x) - 1 = s - x
    OBVIOUS
  <2>2. Len(kept) \in Int /\ Len(seq) \in Int /\ low \in Int /\ k \in Int /\ k >= 0
    BY <1>1, <1>3, <1>4
  <2>3. Len(kept) = Len(seq) - low + 1
    BY <1>4
  <2>4. low <= Len(seq) - k
    BY <1>3
  <2>5. QED
    BY <2>1, <2>2, <2>3, <2>4
<1>7. QED
  BY <1>4, <1>5, <1>6

-----------------------------------------------------------------------------
(* When a request may be sent *)

Window == [seconds : 1..Day, limit : 1..MaxStored]
Quota == [limit : 1..MaxStored, remaining : 0..MaxStored, at : Int]

\* What the operators read of the state.
VendorTyped ==
  /\ windows \in Seq(Window)
  /\ quota = None \/ quota \in Quota
  /\ blockedUntil \in Nat

LEMMA WindowType ==
  ASSUME NEW window \in Window
  PROVE  /\ window.seconds \in Nat \ {0} /\ window.seconds <= Day
         /\ window.limit \in Nat \ {0} /\ window.limit <= MaxStored
  BY Constants DEF Window

\* At least the counted requests behind the bound are used up; without a reported
\* quota, just those.
LEMMA UsedInIs ==
  ASSUME VendorTyped, NEW seq \in Seq(Int), NEW window \in Window, NEW clock \in Int
  PROVE  LET counted == Len(seq) - UpperBound(seq, clock - window.seconds)
         IN  /\ counted \in 0..Len(seq)
             /\ UsedIn(seq, window, clock) \in Int
             /\ UsedIn(seq, window, clock) >= counted
             /\ quota = None => UsedIn(seq, window, clock) = counted
<1> DEFINE since    == clock - window.seconds
           counted  == Len(seq) - UpperBound(seq, since)
           reported == quota.limit - quota.remaining + Len(seq) - UpperBound(seq, quota.at)
<1>1. UsedIn(seq, window, clock) =
        IF quota # None /\ quota.limit = window.limit /\ quota.at > since
        THEN Max2(counted, reported) ELSE counted
  BY DEF UsedIn
<1>2. since \in Int /\ Len(seq) \in Nat
  BY WindowType
<1>3. counted \in 0..Len(seq)
  <2> HIDE DEF since
  <2>1. UpperBound(seq, since) \in 0..Len(seq)
    BY <1>2, UpperBoundIs
  <2>2. QED
    BY <1>2, <2>1
<1>4. quota # None => reported \in Int
  <2>1. SUFFICES ASSUME quota # None PROVE reported \in Int
    OBVIOUS
  <2>2. quota.at \in Int /\ quota.limit \in Int /\ quota.remaining \in Int
    BY <2>1 DEF VendorTyped, Quota
  <2>3. UpperBound(seq, quota.at) \in 0..Len(seq)
    BY <2>2, UpperBoundIs
  <2>4. QED
    BY <1>2, <2>2, <2>3
<1> HIDE DEF since, counted, reported
<1>5. UsedIn(seq, window, clock) \in Int /\ UsedIn(seq, window, clock) >= counted
  <2>1. counted \in Int /\ counted <= counted
    BY <1>2, <1>3
  <2>2. quota # None => Max2(counted, reported) \in Int /\ Max2(counted, reported) >= counted
    BY <1>4, <2>1 DEF Max2
  <2>3. QED
    BY <1>1, <2>1, <2>2
<1>6. quota = None => UsedIn(seq, window, clock) = counted
  BY <1>1
<1>7. QED
  BY <1>3, <1>5, <1>6 DEF counted, since

\* A full window has room again only later.
LEMMA FullIsLater ==
  ASSUME VendorTyped, NEW seq \in Seq(Int), NEW window \in Window, NEW clock \in Int,
         Full(seq, window, clock)
  PROVE  FreeAt(seq, window, clock) \in Int /\ FreeAt(seq, window, clock) > clock
<1> DEFINE inWindow == {i \in DOMAIN seq : seq[i] > clock - window.seconds}
           index    == UsedIn(seq, window, clock) - window.limit + 1
<1>1. FreeAt(seq, window, clock) =
        window.seconds + (IF index <= Cardinality(inWindow) THEN seq[Nth(inWindow, index)]
                          ELSE IF inWindow = {} THEN clock ELSE seq[Max(inWindow)])
  BY DEF FreeAt
<1>2. window.seconds \in Nat \ {0} /\ window.limit \in Nat \ {0}
  BY WindowType
<1>3. index \in Int /\ index >= 1
  <2>1. UsedIn(seq, window, clock) \in Int
    BY UsedInIs
  <2>2. UsedIn(seq, window, clock) >= window.limit
    BY DEF Full
  <2>3. QED
    BY <1>2, <2>1, <2>2
<1>4. inWindow \in SUBSET Nat /\ inWindow \in SUBSET Int /\ IsFiniteSet(inWindow)
  <2>1. DOMAIN seq = 1..Len(seq) /\ Len(seq) \in Nat
    OBVIOUS
  <2>2. IsFiniteSet(1..Len(seq))
    BY <2>1, FS_Interval
  <2>3. inWindow \in SUBSET (1..Len(seq))
    BY <2>1
  <2>4. QED
    BY <2>1, <2>2, <2>3, FS_Subset
<1>5. \A i \in inWindow : seq[i] \in Int /\ window.seconds + seq[i] > clock
  BY <1>2
<1>6. Cardinality(inWindow) \in Nat
  BY <1>4, FS_CardinalityType
<1> HIDE DEF inWindow, index
<1>7. CASE index <= Cardinality(inWindow)
  <2>1. index \in 1..Cardinality(inWindow)
    BY <1>3, <1>6, <1>7
  <2>2. Nth(inWindow, index) \in inWindow
    BY <1>4, <2>1, NthIs
  <2>3. FreeAt(seq, window, clock) = window.seconds + seq[Nth(inWindow, index)]
    BY <1>1, <1>7
  <2>4. seq[Nth(inWindow, index)] \in Int /\ window.seconds + seq[Nth(inWindow, index)] > clock
    BY <1>5, <2>2
  <2>5. QED
    BY <1>2, <2>3, <2>4
<1>8. CASE ~(index <= Cardinality(inWindow)) /\ inWindow = {}
  BY <1>1, <1>2, <1>8
<1>9. CASE ~(index <= Cardinality(inWindow)) /\ inWindow # {}
  <2>1. Max(inWindow) \in inWindow
    BY <1>4, <1>9, MaxIs
  <2>2. FreeAt(seq, window, clock) = window.seconds + seq[Max(inWindow)]
    BY <1>1, <1>9
  <2>3. seq[Max(inWindow)] \in Int /\ window.seconds + seq[Max(inWindow)] > clock
    BY <1>5, <2>1
  <2>4. QED
    BY <1>2, <2>2, <2>3
<1>10. QED
  BY <1>7, <1>8, <1>9

FullWindows(seq, clock) == {w \in Range(windows) : Full(seq, w, clock)}
Times(seq, clock) == {FreeAt(seq, w, clock) : w \in FullWindows(seq, clock)} \cup {blockedUntil}

LEMMA TimesAre ==
  ASSUME VendorTyped, NEW seq \in Seq(Int), NEW clock \in Int
  PROVE  /\ Times(seq, clock) \in SUBSET Int
         /\ Max(Times(seq, clock)) \in Times(seq, clock)
         /\ \A t \in Times(seq, clock) : t <= Max(Times(seq, clock))
<1>1. Range(windows) \subseteq Window /\ DOMAIN windows = 1..Len(windows) /\ Len(windows) \in Nat
      /\ Range(windows) = {windows[i] : i \in DOMAIN windows}
  BY DEF VendorTyped, Range
<1> DEFINE I == {i \in DOMAIN windows : Full(seq, windows[i], clock)}
           T == {FreeAt(seq, w, clock) : w \in FullWindows(seq, clock)}
           f == [i \in I |-> FreeAt(seq, windows[i], clock)]
<1>2. IsFiniteSet(I)
  <2>1. IsFiniteSet(1..Len(windows))
    BY <1>1, FS_Interval
  <2>2. I \in SUBSET (1..Len(windows))
    BY <1>1
  <2>3. QED
    BY <2>1, <2>2, FS_Subset
<1>3. f \in Surjection(I, T)
  <2>1. \A i \in I : windows[i] \in FullWindows(seq, clock)
    BY <1>1 DEF FullWindows
  <2>2. \A w \in FullWindows(seq, clock) : \E i \in I : windows[i] = w
    BY <1>1 DEF FullWindows
  <2>3. f \in [I -> T]
    BY <2>1
  <2>4. \A t \in T : \E i \in I : f[i] = t
    BY <2>2
  <2>5. QED
    BY <2>3, <2>4 DEF Surjection
<1>4. IsFiniteSet(T)
  BY <1>2, <1>3, FS_Surjection
<1>5. T \subseteq Int
  <2>1. \A w \in FullWindows(seq, clock) : w \in Window /\ Full(seq, w, clock)
    BY <1>1 DEF FullWindows
  <2>2. QED
    BY <2>1, FullIsLater
<1>6. Times(seq, clock) = T \cup {blockedUntil}
  BY DEF Times
<1> HIDE DEF T
<1>7. IsFiniteSet(Times(seq, clock)) /\ Times(seq, clock) # {}
  BY <1>4, <1>6, FS_AddElement
<1>8. Times(seq, clock) \in SUBSET Int
  BY <1>5, <1>6 DEF VendorTyped
<1>9. QED
  BY <1>7, <1>8, MaxIs

\* The wait is over when no window is full and no wait the vendor asked for is left.
LEMMA WaitIs ==
  ASSUME VendorTyped, NEW seq \in Seq(Int), NEW clock \in Int
  PROVE  LET at == AvailableAt(seq, clock)
         IN  /\ at \in Int /\ WaitSeconds(seq, clock) \in Nat
             /\ WaitSeconds(seq, clock) = 0 =>
                  blockedUntil <= clock /\ \A w \in Range(windows) : ~Full(seq, w, clock)
             /\ at > 0 =>
                  /\ at > clock /\ blockedUntil <= at
                  /\ \A w \in Range(windows) : Full(seq, w, clock) => FreeAt(seq, w, clock) <= at
             /\ clock > 0 /\ blockedUntil <= clock /\ (\A w \in Range(windows) : ~Full(seq, w, clock)) =>
                  WaitSeconds(seq, clock) = 0
<1> DEFINE latest == Max(Times(seq, clock))
           at == AvailableAt(seq, clock)
<1>1. at = IF latest > clock THEN latest ELSE 0
  BY DEF AvailableAt, Times, FullWindows
<1>2. /\ latest \in Int /\ latest \in Times(seq, clock) /\ blockedUntil <= latest
      /\ \A w \in FullWindows(seq, clock) : FreeAt(seq, w, clock) <= latest
  <2>1. blockedUntil \in Times(seq, clock)
    BY DEF Times
  <2>2. \A w \in FullWindows(seq, clock) : FreeAt(seq, w, clock) \in Times(seq, clock)
    BY DEF Times
  <2>3. QED
    BY <2>1, <2>2, TimesAre
<1>3. \A w \in FullWindows(seq, clock) : FreeAt(seq, w, clock) \in Int /\ FreeAt(seq, w, clock) > clock
  <2>1. Range(windows) \subseteq Window
    BY DEF VendorTyped, Range
  <2>2. \A w \in FullWindows(seq, clock) : w \in Window /\ Full(seq, w, clock)
    BY <2>1 DEF FullWindows
  <2>3. QED
    BY <2>2, FullIsLater
<1>4. blockedUntil \in Int
  BY DEF VendorTyped
<1> HIDE DEF latest, at
<1>5. WaitSeconds(seq, clock) = Max2(0, at - clock)
  BY DEF WaitSeconds, at
<1>6. at \in Int /\ WaitSeconds(seq, clock) \in Nat
  BY <1>1, <1>2, <1>5 DEF Max2
<1>7. ASSUME WaitSeconds(seq, clock) = 0
      PROVE  blockedUntil <= clock /\ \A w \in Range(windows) : ~Full(seq, w, clock)
  <2>1. latest <= clock
    <3>1. SUFFICES ASSUME latest > clock PROVE FALSE
      BY <1>2
    <3>2. QED
      BY <1>1, <1>2, <1>5, <1>7, <3>1 DEF Max2
  <2>2. FullWindows(seq, clock) = {}
    <3>1. \A t \in Int : ~(t <= latest /\ t > clock)
      BY <1>2, <2>1
    <3>2. QED
      BY <1>2, <1>3, <3>1
  <2>3. QED
    BY <1>2, <1>4, <2>1, <2>2 DEF FullWindows
<1>8. ASSUME at > 0
      PROVE  /\ at > clock /\ blockedUntil <= at
             /\ \A w \in Range(windows) : Full(seq, w, clock) => FreeAt(seq, w, clock) <= at
  <2>1. at = latest /\ latest > clock
    BY <1>1, <1>2, <1>8
  <2>2. QED
    BY <1>2, <2>1 DEF FullWindows
<1>9. ASSUME clock > 0, blockedUntil <= clock, \A w \in Range(windows) : ~Full(seq, w, clock)
      PROVE  WaitSeconds(seq, clock) = 0
  <2>1. FullWindows(seq, clock) = {}
    BY <1>9 DEF FullWindows
  <2>2. latest = blockedUntil
    BY <1>2, <2>1 DEF Times
  <2>3. at = 0
    BY <1>1, <1>4, <1>9, <2>2
  <2>4. QED
    BY <1>5, <1>9, <2>3 DEF Max2
<1>10. QED
  BY <1>6, <1>7, <1>8, <1>9 DEF at

-----------------------------------------------------------------------------
(* What covers what was sent *)

\* The newest requests of the last day are the last ones of seq, each counted no
\* longer ago by the clock than it was sent.
Covered(seq, history, t, clock) ==
  \A k \in 0..(MaxStored - 1) :
    k < Len(history) /\ history[Len(history) - k] > t - Day =>
      k < Len(seq) /\ seq[Len(seq) - k] - clock >= history[Len(history) - k] - t

\* The k-th of the newest, as far as it was sent in the last day.
LEMMA CoveredAt ==
  ASSUME NEW seq \in Seq(Int), NEW history \in Seq(Int), NEW t \in Int, NEW clock \in Int,
         Covered(seq, history, t, clock),
         NEW k \in 0..(MaxStored - 1), k < Len(history), history[Len(history) - k] > t - Day
  PROVE  /\ k \in Nat /\ k < Len(seq)
         /\ Len(seq) - k \in 1..Len(seq) /\ Len(history) - k \in 1..Len(history)
         /\ seq[Len(seq) - k] \in Int /\ history[Len(history) - k] \in Int
         /\ seq[Len(seq) - k] - clock >= history[Len(history) - k] - t
         /\ seq[Len(seq) - k] > clock - Day
<1>1. Len(seq) \in Nat /\ Len(history) \in Nat /\ k \in Nat
  BY Constants
<1>2. k < Len(seq)
  BY DEF Covered
<1>3. seq[Len(seq) - k] - clock >= history[Len(history) - k] - t
  BY DEF Covered
<1>4. Len(seq) - k \in 1..Len(seq) /\ Len(history) - k \in 1..Len(history)
  BY <1>1, <1>2
<1>5. seq[Len(seq) - k] \in Int /\ history[Len(history) - k] \in Int
  <2>1. \A s \in Seq(Int) : \A i \in 1..Len(s) : s[i] \in Int
    OBVIOUS
  <2>2. QED
    BY <1>4, <2>1, Zenon
<1>6. Day \in Int
  BY Constants
<1>7. \A x, y \in Int : x - clock >= y - t /\ y > t - Day => x > clock - Day
  BY <1>6
<1>8. seq[Len(seq) - k] > clock - Day
  BY <1>3, <1>5, <1>7
<1>9. QED
  BY <1>1, <1>2, <1>3, <1>4, <1>5, <1>8

\* When a second passes, or the clock steps back.
LEMMA CoveredLater ==
  ASSUME NEW seq \in Seq(Int), NEW history \in Seq(Int), NEW t \in Int, NEW clock \in Int,
         Covered(seq, history, t, clock)
  PROVE  Covered(seq, history, t + 1, clock + 1) /\ Covered(seq, history, t, clock - 1)
<1>1. Len(history) \in Nat /\ Day \in Int /\ MaxStored \in Nat
  BY Constants
<1>2. \A x, y \in Int : x - clock >= y - t => x - (clock + 1) >= y - (t + 1) /\ x - (clock - 1) >= y - t
  OBVIOUS
<1>3. ASSUME NEW k \in 0..(MaxStored - 1), k < Len(history), history[Len(history) - k] > (t + 1) - Day
      PROVE  k < Len(seq) /\ seq[Len(seq) - k] - (clock + 1) >= history[Len(history) - k] - (t + 1)
  <2>1. k \in Nat /\ Len(history) - k \in 1..Len(history)
    BY <1>1, <1>3
  <2>2. history[Len(history) - k] \in Int
    BY <2>1
  <2>3. \A y \in Int : y > (t + 1) - Day => y > t - Day
    BY <1>1
  <2>4. history[Len(history) - k] > t - Day
    BY <1>3, <2>2, <2>3
  <2>5. /\ k < Len(seq) /\ seq[Len(seq) - k] \in Int
        /\ seq[Len(seq) - k] - clock >= history[Len(history) - k] - t
    BY <1>3, <2>4, CoveredAt
  <2>6. QED
    BY <1>2, <2>2, <2>5
<1>4. ASSUME NEW k \in 0..(MaxStored - 1), k < Len(history), history[Len(history) - k] > t - Day
      PROVE  k < Len(seq) /\ seq[Len(seq) - k] - (clock - 1) >= history[Len(history) - k] - t
  <2>1. /\ k < Len(seq) /\ seq[Len(seq) - k] \in Int /\ history[Len(history) - k] \in Int
        /\ seq[Len(seq) - k] - clock >= history[Len(history) - k] - t
    BY <1>4, CoveredAt
  <2>2. QED
    BY <1>2, <2>1
<1>5. Covered(seq, history, t + 1, clock + 1)
  BY <1>3 DEF Covered
<1>6. Covered(seq, history, t, clock - 1)
  BY <1>4 DEF Covered
<1>7. QED
  BY <1>5, <1>6

LEMMA CoveredPruned ==
  ASSUME NEW seq \in Seq(Int), NEW history \in Seq(Int), NEW t \in Int, NEW clock \in Int,
         Covered(seq, history, t, clock), ~Forgets(seq, clock)
  PROVE  Covered(Prune(seq, clock), history, t, clock)
<1> DEFINE kept == Prune(seq, clock)
<1>1. ASSUME NEW k \in 0..(MaxStored - 1), k < Len(history), history[Len(history) - k] > t - Day
      PROVE  k < Len(kept) /\ kept[Len(kept) - k] - clock >= history[Len(history) - k] - t
  <2>1. /\ k < Len(seq) /\ seq[Len(seq) - k] - clock >= history[Len(history) - k] - t
        /\ seq[Len(seq) - k] > clock - Day
    BY <1>1, CoveredAt
  <2>2. k < Len(kept) /\ kept[Len(kept) - k] = seq[Len(seq) - k]
    BY <2>1, PruneKeeps
  <2>3. QED
    BY <2>1, <2>2
<1>2. QED
  BY <1>1 DEF Covered

\* When a request is counted and sent.
LEMMA CoveredNext ==
  ASSUME NEW seq \in Seq(Int), NEW history \in Seq(Int), NEW t \in Int, NEW clock \in Int,
         Covered(seq, history, t, clock)
  PROVE  Covered(Append(seq, clock), Append(history, t), t, clock)
<1> DEFINE seq2 == Append(seq, clock)
           history2 == Append(history, t)
<1>1. /\ Len(seq) \in Nat /\ Len(seq2) = Len(seq) + 1 /\ seq2[Len(seq) + 1] = clock
      /\ \A i \in 1..Len(seq) : seq2[i] = seq[i]
  OBVIOUS
<1>2. /\ Len(history) \in Nat /\ Len(history2) = Len(history) + 1 /\ history2[Len(history) + 1] = t
      /\ \A i \in 1..Len(history) : history2[i] = history[i]
  OBVIOUS
<1> HIDE DEF seq2, history2
<1>3. ASSUME NEW k \in 0..(MaxStored - 1), k < Len(history2), history2[Len(history2) - k] > t - Day
      PROVE  k < Len(seq2) /\ seq2[Len(seq2) - k] - clock >= history2[Len(history2) - k] - t
  <2>1. k \in Nat /\ MaxStored \in Nat
    BY Constants
  <2>2. CASE k = 0
    <3>1. seq2[Len(seq2) - k] = clock /\ history2[Len(history2) - k] = t
      BY <1>1, <1>2, <2>2
    <3>2. clock - clock >= t - t /\ k < Len(seq2)
      BY <1>1, <2>2
    <3>3. QED
      BY <3>1, <3>2
  <2>3. CASE k # 0
    <3> DEFINE m == k - 1
    <3>1. m \in 0..(MaxStored - 1) /\ m < Len(history) /\ Len(history2) - k = Len(history) - m
      BY <1>2, <1>3, <2>1, <2>3
    <3>2. Len(history) - m \in 1..Len(history)
      BY <1>2, <3>1
    <3>3. history[Len(history) - m] > t - Day /\ history2[Len(history2) - k] = history[Len(history) - m]
      BY <1>2, <1>3, <3>1, <3>2
    <3>4. m < Len(seq) /\ seq[Len(seq) - m] - clock >= history[Len(history) - m] - t
      BY <3>1, <3>3 DEF Covered
    <3>5. Len(seq) - m \in 1..Len(seq) /\ Len(seq2) - k = Len(seq) - m /\ k < Len(seq2)
      <4>1. m < Len(seq) /\ m \in Nat
        BY <2>1, <3>1, <3>4
      <4>2. \A n, h \in Nat : h - 1 \in Nat /\ h - 1 < n =>
              n - (h - 1) \in 1..n /\ (n + 1) - h = n - (h - 1) /\ h < n + 1
        OBVIOUS
      <4>3. QED
        BY <1>1, <2>1, <4>1, <4>2
    <3>6. seq2[Len(seq2) - k] = seq[Len(seq) - m]
      BY <1>1, <3>5
    <3>7. QED
      BY <3>3, <3>4, <3>5, <3>6
  <2>4. QED
    BY <2>2, <2>3
<1>4. QED
  BY <1>3 DEF Covered, seq2, history2

\* As long as the vendor counts no more than the program, it has room when the
\* program has.
LEMMA WithinLimit ==
  ASSUME NEW seq \in Seq(Int), NEW history \in Seq(Int), NEW t \in Int, NEW clock \in Int,
         Covered(seq, history, t, clock), Ascending(history), NEW window \in Window,
         Len(seq) - UpperBound(seq, clock - window.seconds) < window.limit
  PROVE  Cardinality({i \in DOMAIN history : history[i] > t - window.seconds}) < window.limit
<1> DEFINE b == UpperBound(seq, clock - window.seconds)
           seen == {i \in DOMAIN history : history[i] > t - window.seconds}
<1>1. /\ Len(seq) \in Nat /\ Len(history) \in Nat /\ DOMAIN history = 1..Len(history)
      /\ Day \in Nat /\ MaxStored \in Nat
  BY Constants
<1>2. /\ window.seconds \in Nat /\ window.seconds <= Day
      /\ window.limit \in Nat /\ window.limit <= MaxStored /\ window.limit # 0
  BY WindowType
<1>3. b \in 0..Len(seq) /\ (b # 0 => seq[b] <= clock - window.seconds)
  <2> DEFINE since == clock - window.seconds
  <2>1. since \in Int
    BY <1>2
  <2> HIDE DEF since
  <2>2. UpperBound(seq, since) \in 0..Len(seq)
        /\ (UpperBound(seq, since) # 0 => seq[UpperBound(seq, since)] <= since)
    BY <2>1, UpperBoundIs
  <2>3. QED
    BY <2>2 DEF since
<1> HIDE DEF b
\* The limit's worth of requests behind the bound are not all counted.
<1>4. PICK k \in 0..(window.limit - 1) :
        ~(k < Len(seq) /\ seq[Len(seq) - k] > clock - window.seconds)
  <2>1. CASE b = 0
    <3>1. Len(seq) \in 0..(window.limit - 1)
      BY <1>1, <1>2, <2>1 DEF b
    <3>2. QED
      BY <1>1, <3>1
  <2>2. CASE b # 0
    <3> DEFINE m == Len(seq) - b
    <3>1. m \in 0..(window.limit - 1) /\ Len(seq) - m = b /\ b \in 1..Len(seq)
      <4>1. Len(seq) - b < window.limit
        BY DEF b
      <4>2. b \in 0..Len(seq)
        BY <1>3
      <4>3. QED
        BY <1>1, <1>2, <2>2, <4>1, <4>2
    <3>2. seq[b] \in Int /\ seq[b] <= clock - window.seconds
      BY <1>3, <2>2, <3>1
    <3>3. ~(seq[Len(seq) - m] > clock - window.seconds)
      BY <1>2, <3>1, <3>2
    <3>4. QED
      BY <3>1, <3>3
  <2>3. QED
    BY <2>1, <2>2
<1> DEFINE n == Len(history) - k
\* Hence neither has the vendor seen so many.
<1>5. ~(k < Len(history) /\ history[n] > t - window.seconds)
  <2>1. SUFFICES ASSUME k < Len(history), history[n] > t - window.seconds PROVE FALSE
    OBVIOUS
  <2>2. k \in 0..(MaxStored - 1) /\ k \in Nat
    BY <1>1, <1>2
  <2>3. n \in 1..Len(history)
    BY <1>1, <2>1, <2>2
  <2>4. history[n] \in Int
    BY <2>3
  <2>5. \A y \in Int : y > t - window.seconds => y > t - Day
    BY <1>1, <1>2
  <2>6. k < Len(seq) /\ seq[Len(seq) - k] \in Int /\ seq[Len(seq) - k] - clock >= history[n] - t
    BY <2>1, <2>2, <2>4, <2>5, CoveredAt
  <2>7. \A x, y \in Int : x - clock >= y - t /\ y > t - window.seconds => x > clock - window.seconds
    BY <1>2
  <2>8. seq[Len(seq) - k] > clock - window.seconds
    BY <2>1, <2>4, <2>6, <2>7
  <2>9. QED
    BY <1>4, <2>6, <2>8
<1>6. seen \in SUBSET ((Max2(0, n) + 1)..Len(history))
  <2>1. k \in Nat /\ n \in Int
    BY <1>1, <1>2
  <2>2. ASSUME NEW i \in seen PROVE i \in (Max2(0, n) + 1)..Len(history)
    <3>1. i \in 1..Len(history) /\ history[i] \in Int /\ history[i] > t - window.seconds
      BY <1>1
    <3>2. i > n
      <4>1. SUFFICES ASSUME i <= n PROVE FALSE
        BY <2>1, <3>1
      <4>2. n \in 1..Len(history) /\ k < Len(history)
        BY <1>1, <2>1, <3>1, <4>1
      <4>3. history[n] \in Int /\ history[i] <= history[n]
        <5>1. \A x, y \in 1..Len(history) : x <= y => history[x] <= history[y]
          BY <1>1 DEF Ascending
        <5>2. history[n] \in Int
          BY <4>2
        <5>3. QED
          BY <3>1, <4>1, <4>2, <5>1, <5>2, Zenon
      <4>4. \A x, y \in Int : x > t - window.seconds /\ x <= y => y > t - window.seconds
        BY <1>2
      <4>5. history[n] > t - window.seconds
        BY <3>1, <4>3, <4>4
      <4>6. QED
        BY <1>5, <4>2, <4>5
    <3>3. QED
      BY <2>1, <3>1, <3>2 DEF Max2
  <2>3. QED
    BY <2>2
<1>7. Cardinality((Max2(0, n) + 1)..Len(history)) <= k /\ Cardinality((Max2(0, n) + 1)..Len(history)) \in Nat
      /\ IsFiniteSet((Max2(0, n) + 1)..Len(history))
  <2>1. Max2(0, n) \in Nat /\ Len(history) - Max2(0, n) <= k /\ k \in Nat
    BY <1>1, <1>2 DEF Max2
  <2> HIDE DEF n
  <2> DEFINE low == Max2(0, n) + 1
  <2>2. low \in Int /\ Len(history) - low + 1 <= k
    BY <1>1, <2>1
  <2> HIDE DEF low
  <2>3. IsFiniteSet(low..Len(history)) /\
        Cardinality(low..Len(history)) = IF low > Len(history) THEN 0 ELSE Len(history) - low + 1
    <3>1. low \in Int /\ Len(history) \in Int
      BY <1>1, <2>2
    <3> DEFINE top == Len(history)
    <3> HIDE DEF top
    <3>2. top \in Int
      BY <3>1 DEF top
    <3>3. IsFiniteSet(low..top) /\ Cardinality(low..top) = IF low > top THEN 0 ELSE top - low + 1
      BY <3>1, <3>2, FS_Interval
    <3>4. QED
      BY <3>3 DEF top
  <2>4. QED
    BY <1>1, <2>1, <2>2, <2>3 DEF low
<1> HIDE DEF n, seen
<1>8. Cardinality(seen) <= k
  <2>1. IsFiniteSet(seen) /\ Cardinality(seen) <= Cardinality((Max2(0, n) + 1)..Len(history))
    BY <1>6, <1>7, FS_Subset
  <2>2. Cardinality(seen) \in Nat
    BY <2>1, FS_CardinalityType
  <2>3. QED
    BY <1>2, <1>7, <2>1, <2>2
<1>9. Cardinality(seen) \in Nat
  BY <1>6, <1>7, FS_Subset, FS_CardinalityType
<1>10. Cardinality(seen) < window.limit
  BY <1>2, <1>8, <1>9
<1>11. QED
  BY <1>10 DEF seen

-----------------------------------------------------------------------------
(* What a start loads *)

\* The k-th request of the sorted ones is one at which k are not after it.
LEMMA SortedIs ==
  ASSUME NEW seq \in Seq(Int), NEW I \in SUBSET DOMAIN seq
  PROVE  /\ IsFiniteSet(I) /\ Cardinality(I) \in Nat
         /\ Sorted(seq, I) \in Seq(Int) /\ Len(Sorted(seq, I)) = Cardinality(I)
         /\ \A k \in 1..Cardinality(I) : \E i \in I :
              Sorted(seq, I)[k] = seq[i] /\ Cardinality({j \in I : NotAfter(seq, j, i)}) = k
<1> DEFINE R == {p \in I \X I : NotAfter(seq, p[1], p[2])}
           ranked(i, k) == Cardinality({j \in I : NotAfter(seq, j, i)}) = k
<1>1. DOMAIN seq = 1..Len(seq) /\ Len(seq) \in Nat
  OBVIOUS
<1>2. \A i \in I : i \in Int /\ seq[i] \in Int
  BY <1>1
<1>3. IsFiniteSet(I) /\ Cardinality(I) \in Nat
  <2>1. IsFiniteSet(1..Len(seq))
    BY <1>1, FS_Interval
  <2>2. IsFiniteSet(I)
    BY <1>1, <2>1, FS_Subset
  <2>3. QED
    BY <2>2, FS_CardinalityType
<1>4. \A i, j \in I : <<i, j>> \in R <=> NotAfter(seq, i, j)
  OBVIOUS
<1> HIDE DEF R
<1>5. TotalOrder(R, I)
  <2>1. \A i, j \in I : NotAfter(seq, i, j) \/ NotAfter(seq, j, i)
    BY <1>2 DEF NotAfter
  <2>2. \A i, j \in I : NotAfter(seq, i, j) /\ NotAfter(seq, j, i) => i = j
    BY <1>2 DEF NotAfter
  <2>3. \A i, j, h \in I : NotAfter(seq, i, j) /\ NotAfter(seq, j, h) => NotAfter(seq, i, h)
    BY <1>2 DEF NotAfter
  <2>4. /\ \A i, j \in I : <<i, j>> \in R \/ <<j, i>> \in R
        /\ \A i, j \in I : <<i, j>> \in R /\ <<j, i>> \in R => i = j
        /\ \A i, j, h \in I : <<i, j>> \in R /\ <<j, h>> \in R => <<i, h>> \in R
    BY <1>4, <2>1, <2>2, <2>3
  <2>5. QED
    BY <2>4, Zenon DEF TotalOrder
<1>6. \A i \in I : \A k : AtPlace(R, I, i, k) <=> ranked(i, k)
  <2>1. \A i \in I : Below(R, I, i) = {j \in I : NotAfter(seq, j, i)}
    BY <1>4 DEF Below
  <2>2. QED
    BY <2>1 DEF AtPlace
<1>7. ASSUME NEW k \in 1..Cardinality(I) PROVE \E i \in I : ranked(i, k)
  <2>1. \E i \in I : AtPlace(R, I, i, k)
    BY <1>3, <1>5, Ranked, Zenon
  <2>2. QED
    BY <1>6, <2>1
<1> DEFINE S == Sorted(seq, I)
           at(k) == CHOOSE i \in I : ranked(i, k)
<1>8. S = [k \in 1..Cardinality(I) |-> seq[at(k)]]
  BY DEF Sorted
<1> HIDE DEF ranked, S
<1>9. \A k \in 1..Cardinality(I) : at(k) \in I /\ ranked(at(k), k)
  BY <1>7
<1> HIDE DEF at
<1>10. \A k \in 1..Cardinality(I) : S[k] = seq[at(k)] /\ S[k] \in Int
  BY <1>2, <1>8, <1>9
<1>11. S \in Seq(Int) /\ Len(S) = Cardinality(I)
  <2>1. S \in [1..Cardinality(I) -> Int]
    BY <1>8, <1>10
  <2>2. QED
    BY <1>3, <2>1
<1>12. \A k \in 1..Cardinality(I) : \E i \in I : S[k] = seq[i] /\ ranked(i, k)
  BY <1>9, <1>10
<1>13. QED
  BY <1>3, <1>11, <1>12 DEF S, ranked

\* Sorting disturbs nothing: at least k + 1 are not older than what the k-th newest
\* was.
LEMMA CoveredSorted ==
  ASSUME NEW seq \in Seq(Int), NEW history \in Seq(Int), NEW t \in Int, NEW clock \in Int,
         Covered(seq, history, t, clock), Ascending(history),
         NEW I \in SUBSET DOMAIN seq, \A i \in DOMAIN seq : seq[i] > clock - Day => i \in I
  PROVE  Covered(Sorted(seq, I), history, t, clock)
<1> DEFINE S == Sorted(seq, I)
           n == Cardinality(I)
<1>1. Len(seq) \in Nat /\ DOMAIN seq = 1..Len(seq) /\ Len(history) \in Nat /\ DOMAIN history = 1..Len(history)
      /\ MaxStored \in Nat /\ Day \in Int
  BY Constants
<1>2. /\ IsFiniteSet(I) /\ n \in Nat /\ Len(S) = n
      /\ \A k \in 1..n : \E i \in I : S[k] = seq[i] /\ Cardinality({j \in I : NotAfter(seq, j, i)}) = k
  BY SortedIs
<1> HIDE DEF S, n
<1>3. ASSUME NEW k \in 0..(MaxStored - 1), k < Len(history), history[Len(history) - k] > t - Day
      PROVE  k < Len(S) /\ S[Len(S) - k] - clock >= history[Len(history) - k] - t
  <2> DEFINE old == history[Len(history) - k]
             newest == (Len(seq) - k)..Len(seq)
  <2>1. /\ k \in Nat /\ k < Len(seq) /\ Len(seq) - k \in 1..Len(seq)
        /\ Len(history) - k \in 1..Len(history) /\ old \in Int
    BY <1>3, CoveredAt
  <2>2. ASSUME NEW i \in newest
        PROVE  i \in I /\ seq[i] \in Int /\ seq[i] - clock >= old - t
    <3> DEFINE m == Len(seq) - i
    <3>1. m \in 0..k /\ m \in 0..(MaxStored - 1) /\ Len(seq) - m = i /\ i \in 1..Len(seq)
      BY <1>1, <2>1
    <3> HIDE DEF m
    <3>2. m < Len(history) /\ Len(history) - m \in 1..Len(history) /\ Len(history) - k <= Len(history) - m
      <4>1. \A x, y, z \in Nat : x \in 0..y /\ y < z => x < z /\ z - x \in 1..z /\ z - y <= z - x
        OBVIOUS
      <4>2. m \in Nat /\ m \in 0..k
        BY <2>1, <3>1
      <4>3. k < Len(history)
        BY <1>3
      <4>4. QED
        BY <1>1, <2>1, <4>1, <4>2, <4>3
    <3>3. history[Len(history) - m] \in Int /\ old <= history[Len(history) - m]
      <4>1. \A i1, i2 \in 1..Len(history) : i1 <= i2 => history[i1] <= history[i2]
        BY <1>1 DEF Ascending
      <4>2. history[Len(history) - k] <= history[Len(history) - m]
        BY <2>1, <3>2, <4>1
      <4>3. QED
        BY <3>2, <4>2
    <3>4. \A x, y \in Int : x > t - Day /\ x <= y => y > t - Day
      BY <1>1
    <3>5. history[Len(history) - m] > t - Day
      BY <1>3, <2>1, <3>3, <3>4
    <3>6. /\ seq[i] \in Int /\ seq[i] - clock >= history[Len(history) - m] - t
          /\ seq[i] > clock - Day
      BY <3>1, <3>2, <3>5, CoveredAt
    <3>7. i \in I
      BY <1>1, <3>1, <3>6
    <3>8. \A x, y, z \in Int : x - clock >= y - t /\ z <= y => x - clock >= z - t
      OBVIOUS
    <3>9. QED
      BY <2>1, <3>3, <3>6, <3>7, <3>8
  <2>3. newest \in SUBSET I
    BY <2>2
  <2>4. IsFiniteSet(newest) /\ Cardinality(newest) = k + 1
    <3> DEFINE low == Len(seq) - k
               high == Len(seq)
    <3>1. low \in Int /\ high \in Int /\ ~(low > high) /\ high - low + 1 = k + 1
      BY <1>1, <2>1
    <3> HIDE DEF low, high
    <3>2. IsFiniteSet(low..high) /\ Cardinality(low..high) = k + 1
      BY <3>1, FS_Interval
    <3>3. QED
      BY <3>2 DEF low, high
  <2> HIDE DEF newest, old
  <2>5. k + 1 <= n
    <3>1. Cardinality(newest) <= Cardinality(I)
      BY <1>2, <2>3, FS_Subset
    <3>2. QED
      BY <2>4, <3>1 DEF n
  <2>6. n - k \in 1..n
    BY <1>2, <2>1, <2>5
  <2> DEFINE place == n - k
  <2>7. PICK i \in I : S[place] = seq[i] /\ Cardinality({j \in I : NotAfter(seq, j, i)}) = place
    BY <1>2, <2>6
  <2> DEFINE before == {j \in I : NotAfter(seq, j, i)}
  <2>8. seq[i] \in Int
    BY <1>1
  <2>9. ~(seq[i] - clock < old - t)
    <3>1. SUFFICES ASSUME seq[i] - clock < old - t PROVE FALSE
      OBVIOUS
    <3>2. ASSUME NEW j \in newest PROVE ~NotAfter(seq, j, i)
      <4>1. seq[j] \in Int /\ seq[j] - clock >= old - t
        BY <2>2
      <4>2. \A x, y, z \in Int : x - clock < z - t /\ y - clock >= z - t => ~(y < x) /\ y # x
        OBVIOUS
      <4>3. QED
        BY <2>1, <2>8, <3>1, <4>1, <4>2 DEF NotAfter
    <3>3. before \in SUBSET (I \ newest)
      BY <3>2
    <3>4. IsFiniteSet(I \ newest) /\ Cardinality(I \ newest) = n - (k + 1)
      <4>1. I \cap newest = newest
        BY <2>3
      <4>2. QED
        <5>1. IsFiniteSet(I \ newest) /\ Cardinality(I \ newest) = Cardinality(I) - Cardinality(I \cap newest)
          BY <1>2, FS_Difference
        <5>2. QED
          BY <2>4, <4>1, <5>1 DEF n
    <3>5. Cardinality(before) <= n - (k + 1)
      BY <3>3, <3>4, FS_Subset
    <3>6. Cardinality(before) = n - k
      BY <2>7
    <3>7. QED
      BY <1>2, <2>1, <3>5, <3>6
  <2>10. S[Len(S) - k] = seq[i]
    BY <1>2, <2>7
  <2>11. \A x, y \in Int : ~(x - clock < y - t) => x - clock >= y - t
    OBVIOUS
  <2>12. seq[i] - clock >= old - t
    BY <2>1, <2>8, <2>9, <2>11
  <2>13. k < Len(S)
    BY <1>2, <2>1, <2>5
  <2>14. QED
    BY <2>10, <2>12, <2>13 DEF old
<1>4. QED
  BY <1>3 DEF Covered, S

-----------------------------------------------------------------------------
(* The invariant *)

Answer == [at : {"quota"}, clock : Int, time : Nat, left : 0..MaxStored, hint : Nat \cup {None}]
            \cup [at : {"refusal"}, clock : Int, time : Nat, left : Nat \cup {None}, hint : Nat]
State == [at : {"idle", "sent"}] \cup [at : {"asleep"}, until : Nat, attempts : Nat] \cup Answer
FileType == [requests : Seq(Int), blockedUntil : Nat]

Typed ==
  /\ session \in SessionType /\ time \in Nat /\ asked \in Nat /\ now \in Int
  /\ requests \in Seq(Int) /\ Len(requests) <= MaxStored + 1 /\ blockedUntil \in Nat
  /\ sent \in Seq(0..time)
  /\ quota = None \/ quota \in Quota
  /\ file \in FileType
  /\ callers \in [Callers -> State]
  /\ windows = <<>> => \A c \in Callers : callers[c].at # "quota"
  /\ unsaved \in BOOLEAN /\ trusted \in BOOLEAN

\* The clock has lost time, if any, since it was read for an answer.
AnswersRecent ==
  \A c \in Callers : callers[c].at \in {"quota", "refusal"} =>
                       callers[c].clock - callers[c].time >= now - time

\* The wait that the vendor asked for is over, or no shorter by the clock.
BlockCovers(blocked) == asked <= time \/ blocked - now >= asked - time
Safe(seq, blocked) == Covered(seq, sent, time, now) /\ BlockCovers(blocked)
Counted ==
  trusted => /\ Safe(requests, blockedUntil)
             /\ ~unsaved => Safe(file.requests, file.blockedUntil)

Inv == Typed /\ Ascending(sent) /\ AnswersRecent /\ Counted

LEMMA SeqWider ==
  ASSUME NEW A, NEW B, A \subseteq B, NEW seq \in Seq(A)
  PROVE  seq \in Seq(B)
<1>1. seq \in [1..Len(seq) -> A] /\ Len(seq) \in Nat
  OBVIOUS
<1>2. seq \in [1..Len(seq) -> B]
  BY <1>1
<1>3. QED
  BY <1>1, <1>2

LEMMA SentType ==
  ASSUME Typed
  PROVE  sent \in Seq(Int) /\ Len(sent) \in Nat /\ DOMAIN sent = 1..Len(sent)
<1>1. 0..time \subseteq Int /\ sent \in Seq(0..time)
  BY DEF Typed
<1>2. sent \in Seq(Int)
  BY <1>1, SeqWider
<1>3. QED
  BY <1>2

LEMMA TypedVendor ==
  ASSUME Typed
  PROVE  VendorTyped /\ Range(windows) \subseteq Window
<1>1. windows \in Seq(Window)
  BY DEF Typed, SessionType, windows, Window
<1>2. VendorTyped
  BY <1>1 DEF Typed, VendorTyped
<1>3. QED
  BY <1>1, <1>2 DEF Range

LEMMA InvInit ==
  ASSUME Init
  PROVE  Inv
<1>1. Typed
  <2>1. session \in SessionType /\ 2 * Day \in Int
    BY Constants DEF Init
  <2>2. callers \in [Callers -> State]
    BY DEF Init, State
  <2>3. file \in FileType
    BY DEF Init, FileType
  <2>4. requests \in Seq(Int) /\ Len(requests) <= MaxStored + 1
    <3>1. requests = <<>> /\ Len(<<>>) = 0
      BY DEF Init
    <3>2. 0 <= MaxStored + 1
      BY Constants
    <3>3. QED
      BY <3>1, <3>2
  <2>5. sent \in Seq(0..time)
    BY DEF Init
  <2>6. windows = <<>> => \A c \in Callers : callers[c].at # "quota"
    BY DEF Init
  <2>7. /\ time \in Nat /\ asked \in Nat /\ now \in Int /\ blockedUntil \in Nat
        /\ quota = None /\ unsaved \in BOOLEAN /\ trusted \in BOOLEAN
    BY <2>1 DEF Init
  <2>8. QED
    BY <2>1, <2>2, <2>3, <2>4, <2>5, <2>6, <2>7 DEF Typed
<1>2. Ascending(sent)
  BY DEF Init, Ascending
<1>3. AnswersRecent
  BY DEF Init, AnswersRecent
<1>4. Counted
  <2>1. ASSUME NEW seq PROVE Covered(seq, sent, time, now)
    <3>1. Len(sent) = 0
      BY DEF Init
    <3>2. \A k \in 0..(MaxStored - 1) : ~(k < 0)
      BY Constants
    <3>3. QED
      BY <3>1, <3>2 DEF Covered
  <2>2. ASSUME NEW blocked PROVE BlockCovers(blocked)
    BY DEF Init, BlockCovers
  <2>3. QED
    BY <2>1, <2>2 DEF Counted, Safe
<1>5. QED
  BY <1>1, <1>2, <1>3, <1>4 DEF Inv

LEMMA SessionLess ==
  ASSUME NEW s \in SessionType, NEW b \in {"requests", "backs", "refusals", "quotas", "faults", "restarts"},
         s[b] > 0
  PROVE  [s EXCEPT ![b] = @ - 1] \in SessionType /\ [s EXCEPT ![b] = @ - 1].windows = s.windows
<1>1. \A n \in Nat : n > 0 => n - 1 \in Nat
  OBVIOUS
<1>2. QED
  BY <1>1 DEF SessionType

\* A save changes the file to what is given, or fails.
LEMMA SaveIs ==
  ASSUME file \in FileType, NEW seq \in Seq(Int), NEW blocked \in Nat, NEW rest \in SessionType,
         Save(seq, blocked, rest)
  PROVE  /\ session' \in SessionType /\ session'.windows = rest.windows
         /\ file' \in FileType /\ unsaved' \in BOOLEAN
         /\ ~unsaved' => file'.requests = seq /\ file'.blockedUntil = blocked
<1>1. CASE /\ file' = [requests |-> seq, blockedUntil |-> blocked]
           /\ unsaved' = FALSE
           /\ session' = rest
  BY <1>1 DEF FileType
<1>2. CASE /\ rest.faults > 0 /\ session' = [rest EXCEPT !.faults = @ - 1]
           /\ unsaved' = TRUE
           /\ UNCHANGED file
  <2>1. session' \in SessionType /\ session'.windows = rest.windows
    BY <1>2, SessionLess
  <2>2. QED
    BY <1>2, <2>1
<1>3. QED
  BY <1>1, <1>2 DEF Save

\* What is counted after the prune of an attempt.
LEMMA AttemptIs ==
  ASSUME Inv, NEW c \in Callers, Attempt(c)
  PROVE  /\ Pruned \in Seq(Int) /\ Len(Pruned) <= MaxStored /\ Wait \in Nat
         /\ trusted' \in BOOLEAN
         /\ trusted' => trusted /\ Covered(Pruned, sent, time, now)
<1>1. Typed
  BY DEF Inv
<1>2. requests \in Seq(Int) /\ now \in Int /\ time \in Int
  BY <1>1 DEF Typed
<1>3. Pruned \in Seq(Int) /\ Len(Pruned) <= MaxStored
  BY <1>2, PruneType, Constants DEF Pruned
<1>4. Wait \in Nat
  BY <1>1, <1>2, <1>3, TypedVendor, WaitIs DEF Wait
<1>5. trusted' = (trusted /\ ~Forgets(requests, now))
  BY DEF Attempt
<1>6. trusted' \in BOOLEAN
  BY <1>5
<1>7. ASSUME trusted' PROVE trusted /\ Covered(Pruned, sent, time, now)
  <2>1. trusted /\ ~Forgets(requests, now)
    BY <1>5, <1>7
  <2>2. Covered(requests, sent, time, now)
    BY <2>1 DEF Inv, Counted, Safe
  <2>3. QED
    BY <1>1, <1>2, <2>1, <2>2, CoveredPruned, SentType DEF Pruned
<1>8. QED
  BY <1>3, <1>4, <1>6, <1>7

-----------------------------------------------------------------------------
(* Every step keeps it *)

\* Where nothing of these changes, what is counted is still safe.
LEMMA CountedUnchanged ==
  ASSUME Counted,
         UNCHANGED <<requests, blockedUntil, file, sent, asked, time, now, unsaved, trusted>>
  PROVE  Counted'
BY DEF Counted, Safe, Covered, BlockCovers

\* A caller that is not answered leaves the answers of the others.
LEMMA RecentKept ==
  ASSUME Typed, AnswersRecent, NEW c \in Callers, UNCHANGED <<time, now>>, NEW s, Becomes(c, s),
         s.at \in {"idle", "sent", "asleep"}
  PROVE  AnswersRecent'
<1>1. callers' = [callers EXCEPT ![c] = s] /\ callers \in [Callers -> State]
  BY DEF Becomes, Typed
<1>2. callers'[c] = s /\ \A d \in Callers \ {c} : callers'[d] = callers[d]
  BY <1>1
<1>3. QED
  BY <1>2 DEF AnswersRecent

\* The request that is sent is the first that is counted: the vendor has room for it.
LEMMA AdmittedStep ==
  ASSUME Inv, NEW c \in Callers, Admitted(c)
  PROVE  Inv' /\ (trusted' => WithinWindows /\ time >= asked)
<1>1. Typed /\ Ascending(sent) /\ AnswersRecent
  BY DEF Inv
<1>2. /\ Pruned \in Seq(Int) /\ Len(Pruned) <= MaxStored /\ trusted' \in BOOLEAN
      /\ trusted' => trusted /\ Covered(Pruned, sent, time, now)
  BY AttemptIs DEF Admitted
<1>3. /\ Wait = 0 /\ session.requests > 0 /\ requests' = Append(Pruned, now)
      /\ Save(requests', blockedUntil, [session EXCEPT !.requests = @ - 1])
      /\ sent' = Append(sent, time) /\ Becomes(c, Sent)
      /\ UNCHANGED <<time, now, blockedUntil, quota, asked>>
  BY DEF Admitted, Attempt
<1>4. /\ session \in SessionType /\ time \in Nat /\ now \in Int /\ file \in FileType
      /\ blockedUntil \in Nat /\ asked \in Nat
  BY <1>1 DEF Typed
<1>5. requests' \in Seq(Int) /\ Len(requests') <= MaxStored + 1
  <2>1. Len(Pruned) \in Nat /\ Len(Append(Pruned, now)) = Len(Pruned) + 1 /\ Append(Pruned, now) \in Seq(Int)
    BY <1>2, <1>4
  <2>2. QED
    BY <1>2, <1>3, <2>1, Constants
<1>6. /\ session' \in SessionType /\ session'.windows = session.windows
      /\ file' \in FileType /\ unsaved' \in BOOLEAN
      /\ ~unsaved' => file'.requests = requests' /\ file'.blockedUntil = blockedUntil
  <2> DEFINE rest == [session EXCEPT !.requests = @ - 1]
  <2>1. rest \in SessionType /\ rest.windows = session.windows
    BY <1>3, <1>4, SessionLess
  <2>2. Save(requests', blockedUntil, rest)
    BY <1>3
  <2> HIDE DEF rest
  <2>3. /\ session' \in SessionType /\ session'.windows = rest.windows
        /\ file' \in FileType /\ unsaved' \in BOOLEAN
        /\ ~unsaved' => file'.requests = requests' /\ file'.blockedUntil = blockedUntil
    BY <1>4, <1>5, <2>1, <2>2, SaveIs
  <2>4. QED
    BY <2>1, <2>3
<1>7. sent \in Seq(Int) /\ Len(sent) \in Nat /\ DOMAIN sent = 1..Len(sent) /\ sent \in Seq(0..time)
  BY <1>1, SentType DEF Typed
<1>8. Typed'
  <2>1. callers' \in [Callers -> State] /\ (windows' = <<>> => \A d \in Callers : callers'[d].at # "quota")
    <3>1. callers' = [callers EXCEPT ![c] = Sent] /\ Sent \in State /\ Sent.at # "quota"
      BY <1>3 DEF Becomes, Sent, State
    <3>2. windows' = windows
      BY <1>6 DEF windows
    <3>3. callers \in [Callers -> State] /\ (windows = <<>> => \A d \in Callers : callers[d].at # "quota")
      BY <1>1 DEF Typed
    <3>4. QED
      BY <3>1, <3>2, <3>3
  <2>2. sent' \in Seq(0..time')
    <3>1. time \in 0..time
      BY <1>4
    <3>2. QED
      BY <1>3, <1>7, <3>1
  <2>3. quota' = None \/ quota' \in Quota
    BY <1>1, <1>3 DEF Typed
  <2>4. QED
    BY <1>2, <1>3, <1>4, <1>5, <1>6, <2>1, <2>2, <2>3 DEF Typed
<1>9. Ascending(sent)'
  <2>1. /\ Len(sent') = Len(sent) + 1 /\ sent'[Len(sent) + 1] = time /\ DOMAIN sent' = 1..(Len(sent) + 1)
        /\ \A i \in 1..Len(sent) : sent'[i] = sent[i]
    BY <1>3, <1>4, <1>7
  <2>2. \A i \in 1..Len(sent) : sent[i] \in Int /\ sent[i] <= time
    BY <1>4, <1>7
  <2>3. ASSUME NEW i \in DOMAIN sent', NEW j \in DOMAIN sent', i <= j PROVE sent'[i] <= sent'[j]
    <3>1. CASE j \in 1..Len(sent)
      <4>1. i \in 1..Len(sent)
        BY <1>7, <2>1, <2>3, <3>1
      <4>2. QED
        BY <1>1, <1>7, <2>1, <2>3, <3>1, <4>1 DEF Ascending
    <3>2. CASE j = Len(sent) + 1
      BY <1>4, <1>7, <2>1, <2>2, <3>2
    <3>3. QED
      BY <1>7, <2>1, <3>1, <3>2
  <2>4. QED
    BY <2>3 DEF Ascending
<1>10. AnswersRecent'
  BY <1>1, <1>3, RecentKept DEF Sent
<1>11. ASSUME trusted' PROVE WithinWindows /\ time >= asked /\ Safe(requests, blockedUntil)'
  <2>1. Covered(Pruned, sent, time, now) /\ BlockCovers(blockedUntil)
    BY <1>2, <1>11 DEF Inv, Counted, Safe
  <2>2. blockedUntil <= now /\ \A w \in Range(windows) : ~Full(Pruned, w, now)
    BY <1>1, <1>2, <1>3, <1>4, TypedVendor, WaitIs DEF Wait
  <2>3. time >= asked
    BY <1>4, <2>1, <2>2 DEF BlockCovers
  <2>4. ASSUME NEW w \in Range(windows)
        PROVE  Cardinality({i \in DOMAIN sent : sent[i] > time - w.seconds}) < w.limit
    <3>1. w \in Window /\ VendorTyped
      BY <1>1, TypedVendor
    <3> DEFINE counted == Len(Pruned) - UpperBound(Pruned, now - w.seconds)
    <3>2. counted \in Int /\ UsedIn(Pruned, w, now) \in Int /\ UsedIn(Pruned, w, now) >= counted
      <4>1. counted \in 0..Len(Pruned) /\ UsedIn(Pruned, w, now) \in Int /\ UsedIn(Pruned, w, now) >= counted
        BY <1>2, <1>4, <3>1, UsedInIs
      <4> HIDE DEF counted
      <4>2. counted \in Int
        BY <4>1
      <4>3. QED
        BY <4>1, <4>2
    <3>3. ~(UsedIn(Pruned, w, now) >= w.limit) /\ w.limit \in Int
      BY <2>2, <3>1, WindowType DEF Full
    <3> HIDE DEF counted
    <3>4. counted < w.limit
      BY <3>2, <3>3
    <3>5. time \in Int
      BY <1>4
    <3>6. QED
      BY <1>1, <1>2, <1>4, <1>7, <2>1, <3>1, <3>4, <3>5, WithinLimit DEF counted
  <2>5. Covered(Append(Pruned, now), Append(sent, time), time, now)
    BY <1>2, <1>4, <1>7, <2>1, CoveredNext
  <2>6. Safe(requests, blockedUntil)'
    BY <1>3, <2>1, <2>5 DEF Safe, BlockCovers, Covered
  <2>7. QED
    BY <2>3, <2>4, <2>6 DEF WithinWindows
<1>12. Counted'
  BY <1>3, <1>6, <1>11 DEF Counted, Safe, BlockCovers, Covered
<1>13. QED
  BY <1>8, <1>9, <1>10, <1>11, <1>12 DEF Inv

\* An attempt that sends nothing.
LEMMA WaitStep ==
  ASSUME Inv, NEW c \in Callers, Refused(c) \/ Sleeps(c)
  PROVE  Inv' /\ sent' = sent
<1>1. Typed /\ Ascending(sent) /\ AnswersRecent
  BY DEF Inv
<1>2. /\ Pruned \in Seq(Int) /\ Len(Pruned) <= MaxStored /\ trusted' \in BOOLEAN /\ Wait \in Nat
      /\ trusted' => trusted /\ Covered(Pruned, sent, time, now)
  BY AttemptIs DEF Refused, Sleeps
<1>3. /\ requests' = Pruned
      /\ UNCHANGED <<session, file, sent, unsaved, time, now, blockedUntil, quota, asked>>
  BY DEF Refused, Sleeps, Attempt
<1>4. PICK s \in State : Becomes(c, s) /\ s.at \in {"idle", "asleep"}
  <2>1. CASE Refused(c)
    BY <2>1 DEF Refused, Idle, State
  <2>2. CASE Sleeps(c)
    <3> DEFINE n == 1 + IF callers[c].at = "idle" THEN 0 ELSE callers[c].attempts
               s == [at |-> "asleep", until |-> time + Wait, attempts |-> n]
    <3>1. Becomes(c, s)
      BY <2>2 DEF Sleeps
    <3>2. n \in Nat
      <4>1. callers[c] \in State
        BY <1>1 DEF Typed
      <4>2. callers[c].at = "idle" \/ callers[c].at = "asleep"
        BY <2>2 DEF Sleeps, Attempt
      <4>3. callers[c].at = "asleep" => callers[c].attempts \in Nat
        BY <4>1 DEF State, Answer
      <4>4. QED
        BY <4>2, <4>3
    <3>3. time + Wait \in Nat
      BY <1>1, <1>2 DEF Typed
    <3> HIDE DEF n
    <3>4. s \in State
      BY <3>2, <3>3 DEF State
    <3>5. QED
      BY <3>1, <3>4
  <2>3. QED
    BY <2>1, <2>2
<1>5. Typed'
  <2>1. callers' \in [Callers -> State] /\ (windows' = <<>> => \A d \in Callers : callers'[d].at # "quota")
    BY <1>1, <1>3, <1>4 DEF Typed, Becomes, windows
  <2>2. Len(requests') <= MaxStored + 1
    <3>1. Len(Pruned) \in Nat /\ MaxStored \in Nat
      BY <1>2, Constants
    <3>2. QED
      BY <1>2, <1>3, <3>1
  <2>3. QED
    BY <1>1, <1>2, <1>3, <2>1, <2>2 DEF Typed
<1>6. AnswersRecent'
  BY <1>1, <1>3, <1>4, RecentKept
<1>7. Counted'
  <2>1. ASSUME trusted' PROVE trusted /\ Safe(requests, blockedUntil)'
    <3>1. trusted /\ Covered(Pruned, sent, time, now) /\ BlockCovers(blockedUntil)
      BY <1>2, <2>1 DEF Inv, Counted, Safe
    <3>2. QED
      BY <1>3, <3>1 DEF Safe, BlockCovers, Covered
  <2>2. ASSUME trusted, ~unsaved PROVE Safe(file.requests, file.blockedUntil)'
    <3>1. Safe(file.requests, file.blockedUntil)
      BY <2>2 DEF Inv, Counted
    <3>2. QED
      BY <1>3, <3>1 DEF Safe, BlockCovers, Covered
  <2>3. QED
    BY <1>3, <2>1, <2>2 DEF Counted
<1>8. Ascending(sent)'
  BY <1>1, <1>3 DEF Ascending
<1>9. QED
  BY <1>3, <1>5, <1>6, <1>7, <1>8 DEF Inv

\* The caller gives up, or its answer says nothing.
LEMMA IdleStep ==
  ASSUME Inv, NEW c \in Callers, GivesUp(c) \/ Answered(c)
  PROVE  Inv' /\ sent' = sent
<1>1. Typed /\ Ascending(sent) /\ AnswersRecent /\ Counted
  BY DEF Inv
<1>2. /\ Becomes(c, Idle)
      /\ UNCHANGED <<session, time, now, memory, file, sent, asked, unsaved, trusted>>
  BY DEF GivesUp, Answered
<1>3. Typed'
  <2>1. Idle \in State /\ Idle.at = "idle"
    BY DEF Idle, State
  <2>2. callers' \in [Callers -> State] /\ (windows' = <<>> => \A d \in Callers : callers'[d].at # "quota")
    BY <1>1, <1>2, <2>1 DEF Typed, Becomes, windows
  <2>3. QED
    BY <1>1, <1>2, <2>2 DEF Typed, memory
<1>4. AnswersRecent'
  BY <1>1, <1>2, RecentKept DEF Idle
<1>5. Counted'
  BY <1>1, <1>2, CountedUnchanged DEF memory
<1>6. Ascending(sent)'
  BY <1>1, <1>2 DEF Ascending
<1>7. QED
  BY <1>2, <1>3, <1>4, <1>5, <1>6 DEF Inv

\* The clock is read with the answer.
LEMMA NotedStep ==
  ASSUME Inv, NEW c \in Callers, AnswerNoted(c)
  PROVE  Inv' /\ sent' = sent
<1>1. Typed /\ Ascending(sent) /\ AnswersRecent /\ Counted
  BY DEF Inv
<1>2. UNCHANGED <<time, now, memory, file, sent, asked, unsaved, trusted>>
  BY DEF AnswerNoted
<1>3. PICK left \in 0..MaxStored \cup {None}, hint \in Hints \cup {0, None} :
        /\ left # None => windows # <<>> /\ left <= Last(windows).limit /\ session.quotas > 0
        /\ hint # None => session.refusals > 0
        /\ left # None \/ hint # None
        /\ Becomes(c, [at |-> IF left # None THEN "quota" ELSE "refusal",
                       clock |-> now, time |-> time, left |-> left, hint |-> hint])
        /\ session' = [session EXCEPT !.quotas = IF left # None THEN @ - 1 ELSE @,
                                      !.refusals = IF hint # None THEN @ - 1 ELSE @]
  BY DEF AnswerNoted
<1>4. time \in Nat /\ now \in Int /\ session \in SessionType
  BY <1>1 DEF Typed
<1> DEFINE s == [at |-> IF left # None THEN "quota" ELSE "refusal",
                 clock |-> now, time |-> time, left |-> left, hint |-> hint]
<1>5. s \in State /\ (s.at = "quota" => windows # <<>>)
  <2>1. hint \in Nat \cup {None} /\ left \in 0..MaxStored \cup {None} /\ 0..MaxStored \subseteq Nat
    BY Constants
  <2>2. CASE left # None
    BY <1>3, <1>4, <2>1, <2>2 DEF State, Answer
  <2>3. CASE left = None
    BY <1>3, <1>4, <2>1, <2>3 DEF State, Answer
  <2>4. QED
    BY <2>2, <2>3
<1>6. session' \in SessionType /\ session'.windows = session.windows
  <2>1. \A n \in Nat : n > 0 => n - 1 \in Nat
    OBVIOUS
  <2>2. session.quotas \in Nat /\ session.refusals \in Nat
    BY <1>4 DEF SessionType
  <2> DEFINE q == IF left # None THEN session.quotas - 1 ELSE session.quotas
             r == IF hint # None THEN session.refusals - 1 ELSE session.refusals
  <2>3. q \in Nat /\ r \in Nat
    BY <1>3, <2>1, <2>2
  <2>4. session' = [[session EXCEPT !.quotas = q] EXCEPT !.refusals = r]
    BY <1>3, <1>4 DEF SessionType
  <2> HIDE DEF q, r
  <2>5. QED
    BY <1>4, <2>3, <2>4 DEF SessionType
<1>7. callers' = [callers EXCEPT ![c] = s] /\ callers \in [Callers -> State]
  BY <1>1, <1>3 DEF Becomes, Typed
<1>8. callers'[c] = s /\ \A d \in Callers \ {c} : callers'[d] = callers[d]
  BY <1>7
<1>9. Typed'
  <2>1. callers' \in [Callers -> State]
    BY <1>5, <1>7
  <2>2. windows' = windows
    BY <1>6 DEF windows
  <2> HIDE DEF s
  <2>3. windows' = <<>> => \A d \in Callers : callers'[d].at # "quota"
    BY <1>1, <1>5, <1>8, <2>2 DEF Typed
  <2>4. QED
    BY <1>1, <1>2, <1>6, <2>1, <2>3 DEF Typed, memory
<1>10. AnswersRecent'
  <2>1. s.clock - s.time >= now - time
    BY <1>4
  <2> HIDE DEF s
  <2>2. QED
    BY <1>1, <1>2, <1>8, <2>1 DEF AnswersRecent
<1>11. Counted'
  BY <1>1, <1>2, CountedUnchanged DEF memory
<1>12. Ascending(sent)'
  BY <1>1, <1>2 DEF Ascending
<1>13. QED
  BY <1>2, <1>9, <1>10, <1>11, <1>12 DEF Inv

\* What is left of the quota is recorded.
LEMMA QuotaStep ==
  ASSUME Inv, NEW c \in Callers, RecordServerQuota(c)
  PROVE  Inv' /\ sent' = sent
<1>1. Typed /\ Ascending(sent) /\ AnswersRecent /\ Counted
  BY DEF Inv
<1>2. /\ callers[c].at = "quota"
      /\ quota' = [limit |-> Last(windows).limit, remaining |-> callers[c].left, at |-> callers[c].clock]
      /\ UNCHANGED <<session, time, now, requests, blockedUntil, file, sent, asked, unsaved, trusted>>
  BY DEF RecordServerQuota
<1>3. callers \in [Callers -> State] /\ callers[c] \in State
  BY <1>1 DEF Typed
<1>4. /\ callers[c].left \in 0..MaxStored /\ callers[c].clock \in Int /\ callers[c].time \in Nat
      /\ callers[c].hint \in Nat \cup {None}
      /\ callers[c] \in [at : {"quota"}, clock : Int, time : Nat, left : 0..MaxStored, hint : Nat \cup {None}]
  BY <1>2, <1>3 DEF State, Answer
<1>5. quota' \in Quota
  <2>1. windows # <<>>
    BY <1>1, <1>2 DEF Typed
  <2>2. windows \in Seq(Window)
    BY <1>1, TypedVendor DEF VendorTyped
  <2>3. Last(windows) \in Window
    BY <2>1, <2>2 DEF Last
  <2>4. Last(windows).limit \in 1..MaxStored
    BY <2>3 DEF Window
  <2>5. QED
    BY <1>2, <1>4, <2>4 DEF Quota
<1>6. PICK s \in State : /\ callers' = [callers EXCEPT ![c] = s] /\ s.at \in {"idle", "refusal"}
                         /\ s.at = "refusal" => s.clock = callers[c].clock /\ s.time = callers[c].time
  <2>1. CASE callers[c].hint = None
    <3>1. callers' = [callers EXCEPT ![c] = Idle]
      BY <2>1 DEF RecordServerQuota, Becomes
    <3>2. Idle \in State /\ Idle.at = "idle"
      BY DEF Idle, State
    <3> HIDE DEF State
    <3>3. Idle.at \in {"idle", "refusal"} /\ Idle.at # "refusal"
      BY <3>2
    <3>4. QED
      BY <3>1, <3>2, <3>3, Zenon
  <2>2. CASE callers[c].hint # None
    <3> DEFINE s == [callers[c] EXCEPT !.at = "refusal"]
    <3>1. callers' = [callers EXCEPT ![c] = s]
      BY <1>3, <2>2 DEF RecordServerQuota
    <3>2. callers[c].left \in Nat \cup {None} /\ callers[c].hint \in Nat
      <4>1. 0..MaxStored \subseteq Nat
        BY Constants
      <4>2. QED
        BY <1>4, <2>2, <4>1
    <3>3. s.at = "refusal" /\ s.clock = callers[c].clock /\ s.time = callers[c].time
      BY <1>4
    <3>4. s \in [at : {"refusal"}, clock : Int, time : Nat, left : Nat \cup {None}, hint : Nat]
      BY <1>4, <3>2
    <3> HIDE DEF s
    <3>5. s \in State
      BY <3>4, Zenon DEF State, Answer
    <3>6. QED
      BY <3>1, <3>3, <3>5
  <2>3. QED
    BY <2>1, <2>2
<1>7. callers'[c] = s /\ \A d \in Callers \ {c} : callers'[d] = callers[d]
  BY <1>3, <1>6
<1>8. Typed'
  <2>1. callers' \in [Callers -> State]
    BY <1>3, <1>6
  <2>2. windows' = <<>> => \A d \in Callers : callers'[d].at # "quota"
    BY <1>1, <1>2, <1>6, <1>7 DEF Typed, windows
  <2>3. QED
    BY <1>1, <1>2, <1>5, <2>1, <2>2 DEF Typed
<1>9. AnswersRecent'
  BY <1>1, <1>2, <1>6, <1>7 DEF AnswersRecent
<1>10. Counted'
  BY <1>1, <1>2, CountedUnchanged
<1>11. Ascending(sent)'
  BY <1>1, <1>2 DEF Ascending
<1>12. QED
  BY <1>2, <1>8, <1>9, <1>10, <1>11 DEF Inv

\* What a status 429 without a hint is taken for is a number.
LEMMA GuessType ==
  ASSUME Typed, NEW clock \in Int
  PROVE  Guess(clock) \in Int
<1> DEFINE nearly == {i \in DOMAIN windows : UsedIn(requests, windows[i], clock) * 10 >= windows[i].limit * 9}
           window == windows[Max(nearly)]
<1>1. /\ Guess(clock) =
           IF windows = <<>> THEN Minute
           ELSE IF nearly = {} THEN Head(windows).seconds
           ELSE IF Full(requests, window, clock) /\ FreeAt(requests, window, clock) > clock
                THEN FreeAt(requests, window, clock) - clock ELSE window.seconds
  BY DEF Guess
<1>2. windows \in Seq(Window) /\ DOMAIN windows = 1..Len(windows) /\ Len(windows) \in Nat
  BY TypedVendor DEF VendorTyped
<1>3. CASE windows = <<>>
  BY <1>1, <1>3, Constants
<1>4. CASE windows # <<>> /\ nearly = {}
  <2>1. Head(windows) \in Window
    BY <1>2, <1>4
  <2>2. QED
    BY <1>1, <1>4, <2>1, WindowType
<1>5. CASE windows # <<>> /\ nearly # {}
  <2>1. nearly \in SUBSET Int /\ nearly \in SUBSET (1..Len(windows))
    BY <1>2
  <2>2. IsFiniteSet(nearly)
    <3>1. IsFiniteSet(1..Len(windows))
      BY <1>2, FS_Interval
    <3>2. QED
      BY <2>1, <3>1, FS_Subset
  <2> HIDE DEF nearly
  <2>3. Max(nearly) \in nearly
    BY <1>5, <2>1, <2>2, MaxIs
  <2>4. window \in Window
    <3>1. Max(nearly) \in 1..Len(windows)
      BY <2>1, <2>3
    <3> DEFINE last == Max(nearly)
    <3> HIDE DEF last
    <3>2. last \in 1..Len(windows)
      BY <3>1 DEF last
    <3>3. windows[last] \in Window
      BY <1>2, <3>2
    <3>4. QED
      BY <3>3 DEF last
  <2>5. requests \in Seq(Int)
    BY DEF Typed
  <2>6. Guess(clock) = IF Full(requests, window, clock) /\ FreeAt(requests, window, clock) > clock
                       THEN FreeAt(requests, window, clock) - clock ELSE window.seconds
    BY <1>1, <1>5
  <2> HIDE DEF window
  <2>7. window.seconds \in Int
    BY <2>4, WindowType
  <2>8. Full(requests, window, clock) => FreeAt(requests, window, clock) \in Int
    BY <2>4, <2>5, TypedVendor, FullIsLater
  <2>9. QED
    BY <2>6, <2>7, <2>8
<1>6. QED
  BY <1>3, <1>4, <1>5

\* The wait that is recorded ends no earlier, by the clock, than the one asked for.
LEMMA LimitReachedStep ==
  ASSUME Inv, NEW c \in Callers, RecordLimitReached(c)
  PROVE  Inv' /\ sent' = sent
<1> DEFINE hint  == callers[c].hint
           clock == callers[c].clock
           at    == callers[c].time
           block == IF hint > 0 THEN Min2(hint, MaxBlock) ELSE Guess(clock)
<1>1. Typed /\ Ascending(sent) /\ AnswersRecent /\ Counted
  BY DEF Inv
<1>2. /\ callers[c].at = "refusal"
      /\ blockedUntil' = Max2(blockedUntil, clock + block)
      /\ asked' = IF hint > 0 THEN Max2(asked, at + Min2(hint, MaxBlock)) ELSE asked
      /\ Save(requests, blockedUntil', session)
      /\ Becomes(c, Idle)
      /\ UNCHANGED <<time, now, requests, quota, sent, trusted>>
  BY DEF RecordLimitReached
<1>3. callers \in [Callers -> State] /\ callers[c] \in State
  BY <1>1 DEF Typed
<1>4. hint \in Nat /\ clock \in Int /\ at \in Nat
  BY <1>2, <1>3 DEF State, Answer
<1>5. clock - at >= now - time
  BY <1>1, <1>2 DEF AnswersRecent
<1>6. /\ time \in Nat /\ now \in Int /\ blockedUntil \in Nat /\ asked \in Nat /\ requests \in Seq(Int)
      /\ session \in SessionType /\ file \in FileType /\ MaxBlock \in Nat
  BY <1>1, Constants DEF Typed
<1>7. block \in Int
  <2>1. Guess(clock) \in Int
    BY <1>1, <1>4, GuessType
  <2>2. Min2(hint, MaxBlock) \in Int
    BY <1>4, <1>6 DEF Min2
  <2>3. QED
    BY <2>1, <2>2
<1> HIDE DEF hint, clock, at, block
<1>8. blockedUntil' \in Nat /\ blockedUntil' >= blockedUntil /\ blockedUntil' >= clock + block
  BY <1>2, <1>4, <1>6, <1>7 DEF Max2
<1>9. asked' \in Nat /\ (asked' = asked \/ asked' = at + block)
  <2>1. hint > 0 => block = Min2(hint, MaxBlock) /\ Min2(hint, MaxBlock) \in Nat
    BY <1>4, <1>6 DEF block, Min2
  <2>2. QED
    BY <1>2, <1>4, <1>6, <2>1 DEF Max2
<1>10. /\ session' \in SessionType /\ session'.windows = session.windows
       /\ file' \in FileType /\ unsaved' \in BOOLEAN
       /\ ~unsaved' => file'.requests = requests /\ file'.blockedUntil = blockedUntil'
  BY <1>2, <1>6, <1>8, SaveIs
<1>11. Typed'
  <2>1. Idle \in State /\ Idle.at = "idle"
    BY DEF Idle, State
  <2>2. windows' = windows
    BY <1>10 DEF windows
  <2>3. callers' \in [Callers -> State] /\ (windows' = <<>> => \A d \in Callers : callers'[d].at # "quota")
    BY <1>1, <1>2, <1>3, <2>1, <2>2 DEF Typed, Becomes
  <2>4. QED
    BY <1>1, <1>2, <1>8, <1>9, <1>10, <2>3 DEF Typed
<1>12. AnswersRecent'
  BY <1>1, <1>2, RecentKept DEF Idle
<1>13. ASSUME BlockCovers(blockedUntil) PROVE BlockCovers(blockedUntil)'
  <2>1. CASE asked' = asked
    BY <1>2, <1>6, <1>8, <1>13, <2>1 DEF BlockCovers
  <2>2. CASE asked' = at + block
    <3>1. \A b, x, y, z \in Int : b >= x + z /\ x - y >= now - time => b - now >= (y + z) - time
      BY <1>6
    <3>2. clock \in Int /\ at \in Int /\ clock - at >= now - time
      BY <1>4, <1>5 DEF clock, at
    <3>3. blockedUntil' - now >= asked' - time
      <4>1. blockedUntil' \in Int /\ blockedUntil' >= clock + block
        BY <1>8
      <4>2. blockedUntil' - now >= (at + block) - time
        BY <1>7, <3>1, <3>2, <4>1
      <4>3. QED
        BY <2>2, <4>2
    <3>4. QED
      BY <1>2, <3>3 DEF BlockCovers
  <2>3. QED
    BY <1>9, <2>1, <2>2
<1>14. Counted'
  <2>1. ASSUME trusted PROVE Safe(requests, blockedUntil)'
    <3>1. Covered(requests, sent, time, now) /\ BlockCovers(blockedUntil)
      BY <1>1, <2>1 DEF Counted, Safe
    <3>2. Covered(requests, sent, time, now)'
      BY <1>2, <3>1 DEF Covered
    <3>3. QED
      BY <1>13, <3>1, <3>2 DEF Safe
  <2>2. ~unsaved' => (Safe(file.requests, file.blockedUntil)' <=> Safe(requests, blockedUntil)')
    BY <1>2, <1>10 DEF Safe, Covered, BlockCovers
  <2>3. QED
    BY <1>2, <2>1, <2>2 DEF Counted
<1>15. Ascending(sent)'
  BY <1>1, <1>2 DEF Ascending
<1>16. QED
  BY <1>2, <1>11, <1>12, <1>14, <1>15 DEF Inv

\* Another start counts what the file holds, unless the clock has stepped back so far
\* that some of it is not believed.
LEMMA RestartStep ==
  ASSUME Inv, Restart
  PROVE  Inv' /\ sent' = sent
<1> DEFINE blocked == file.blockedUntil
           recent  == {i \in DOMAIN file.requests : file.requests[i] > now - Day}
           current == {i \in recent : ~Future(file.requests[i], now)}
           loaded  == Sorted(file.requests, current)
<1>1. Typed /\ Ascending(sent) /\ Counted
  BY DEF Inv
<1>2. /\ Use("restarts")
      /\ callers' = [c \in Callers |-> Idle]
      /\ requests' = Prune(loaded, now)
      /\ blockedUntil' = IF blocked > now /\ blocked - now <= MaxBlock THEN blocked ELSE 0
      /\ quota' = None
      /\ trusted' = (trusted /\ ~unsaved /\ current = recent /\ blocked - now <= MaxBlock)
      /\ unsaved' = FALSE
      /\ UNCHANGED <<time, now, file, sent, asked>>
  BY DEF Restart
<1>3. /\ time \in Nat /\ now \in Int /\ asked \in Nat /\ session \in SessionType
      /\ file.requests \in Seq(Int) /\ blocked \in Nat /\ MaxBlock \in Nat /\ MaxStored \in Nat /\ Day \in Nat
  BY <1>1, Constants DEF Typed, FileType
<1>4. current \in SUBSET DOMAIN file.requests
  OBVIOUS
<1> HIDE DEF current
<1>5. loaded \in Seq(Int)
  BY <1>3, <1>4, SortedIs
<1>6. requests' \in Seq(Int) /\ Len(requests') \in 0..MaxStored
  BY <1>2, <1>3, <1>5, PruneType
<1>7. session' \in SessionType /\ session'.windows = session.windows
  BY <1>2, <1>3, SessionLess DEF Use
<1>8. Typed'
  <2>1. Idle \in State /\ Idle.at = "idle"
    BY DEF Idle, State
  <2>2. callers' \in [Callers -> State] /\ \A d \in Callers : callers'[d].at # "quota"
    BY <1>2, <2>1
  <2>3. Len(requests') <= MaxStored + 1
    BY <1>3, <1>6
  <2>4. trusted' \in BOOLEAN /\ blockedUntil' \in Nat
    BY <1>2, <1>3
  <2>5. QED
    BY <1>1, <1>2, <1>6, <1>7, <2>2, <2>3, <2>4 DEF Typed
<1>9. AnswersRecent'
  BY <1>2 DEF AnswersRecent, Idle
<1>10. ASSUME trusted'
       PROVE  Safe(requests, blockedUntil)' /\ Safe(file.requests, file.blockedUntil)'
  <2>1. current = recent /\ blocked - now <= MaxBlock /\ trusted /\ ~unsaved
    BY <1>2, <1>10
  <2>2. Covered(file.requests, sent, time, now) /\ BlockCovers(blocked)
    BY <1>1, <2>1 DEF Counted, Safe
  <2>3. ~Forgets(loaded, now)
    <3>1. SUFFICES ASSUME loaded # <<>>, Future(Last(loaded), now) PROVE FALSE
      BY DEF Forgets
    <3> DEFINE n == Cardinality(current)
    <3>2. Len(loaded) = n /\ n \in Nat /\ \A k \in 1..n : \E i \in current : loaded[k] = file.requests[i]
      <4> DEFINE seq == file.requests
      <4> HIDE DEF seq
      <4>1. seq \in Seq(Int) /\ current \in SUBSET DOMAIN seq
        BY <1>3, <1>4 DEF seq
      <4>2. /\ Len(Sorted(seq, current)) = n /\ n \in Nat
            /\ \A k \in 1..n : \E i \in current : Sorted(seq, current)[k] = seq[i]
        <5>1. /\ Len(Sorted(seq, current)) = n /\ n \in Nat
              /\ \A k \in 1..n : \E i \in current :
                   /\ Sorted(seq, current)[k] = seq[i]
                   /\ Cardinality({j \in current : NotAfter(seq, j, i)}) = k
          BY <4>1, SortedIs
        <5>2. QED
          BY <5>1
      <4>3. QED
        BY <4>2 DEF seq
    <3>3. n \in 1..n
      <4>1. Len(loaded) # 0
        BY <1>5, <3>1
      <4> HIDE DEF loaded, n
      <4>2. QED
        BY <3>2, <4>1
    <3>4. PICK i \in current : Last(loaded) = file.requests[i]
      BY <3>2, <3>3 DEF Last
    <3>5. QED
      BY <3>1, <3>4 DEF current
  <2>4. Covered(loaded, sent, time, now)
    <3>1. \A i \in DOMAIN file.requests : file.requests[i] > now - Day => i \in current
      BY <2>1
    <3>2. sent \in Seq(Int) /\ time \in Int
      BY <1>1, <1>3, SentType
    <3> HIDE DEF recent
    <3>3. QED
      BY <1>1, <1>3, <1>4, <2>2, <3>1, <3>2, CoveredSorted
  <2> HIDE DEF loaded
  <2>5. Covered(Prune(loaded, now), sent, time, now)
    <3>1. sent \in Seq(Int) /\ time \in Int
      BY <1>1, <1>3, SentType
    <3>2. QED
      BY <1>3, <1>5, <2>3, <2>4, <3>1, CoveredPruned
  <2>6. BlockCovers(blockedUntil)'
    <3>1. CASE blocked > now
      <4>1. blockedUntil' = blocked
        BY <1>2, <2>1, <3>1
      <4>2. QED
        BY <1>2, <2>2, <4>1 DEF BlockCovers
    <3>2. CASE ~(blocked > now)
      <4>1. asked <= time
        BY <1>3, <2>2, <3>2 DEF BlockCovers
      <4>2. QED
        BY <1>2, <4>1 DEF BlockCovers
    <3>3. QED
      BY <3>1, <3>2
  <2>7. Covered(requests, sent, time, now)'
    BY <1>2, <2>5 DEF Covered
  <2>8. Safe(file.requests, file.blockedUntil)'
    BY <1>2, <2>2 DEF Safe, Covered, BlockCovers
  <2>9. QED
    BY <2>6, <2>7, <2>8 DEF Safe
<1>11. Counted'
  BY <1>10 DEF Counted
<1>12. Ascending(sent)'
  BY <1>1, <1>2 DEF Ascending
<1>13. QED
  BY <1>2, <1>8, <1>9, <1>11, <1>12 DEF Inv

\* Time passes, by the clock or not.
LEMMA ClockStep ==
  ASSUME Inv, Tick \/ StepBack
  PROVE  Inv' /\ sent' = sent
<1>1. Typed /\ Ascending(sent) /\ AnswersRecent /\ Counted
  BY DEF Inv
<1>2. /\ UNCHANGED <<requests, blockedUntil, quota, file, callers, sent, asked, unsaved, trusted>>
      /\ (time' = time + 1 /\ now' = now + 1) \/ (time' = time /\ now' = now - 1)
  BY DEF Tick, StepBack, memory
<1>3. /\ time \in Nat /\ now \in Int /\ asked \in Nat /\ requests \in Seq(Int)
      /\ file.requests \in Seq(Int) /\ blockedUntil \in Nat /\ file.blockedUntil \in Nat
  BY <1>1 DEF Typed, FileType
<1>4. sent \in Seq(Int) /\ sent \in Seq(0..time)
  BY <1>1, SentType DEF Typed
<1>5. session' \in SessionType /\ session'.windows = session.windows
  <2>1. session \in SessionType
    BY <1>1 DEF Typed
  <2>2. CASE Tick
    BY <2>1, <2>2 DEF Tick
  <2>3. CASE StepBack
    BY <2>1, <2>3, SessionLess DEF StepBack, Use
  <2>4. QED
    BY <2>2, <2>3
<1>6. Typed'
  <2>1. time' \in Nat /\ now' \in Int /\ time <= time'
    BY <1>2, <1>3
  <2>2. sent' \in Seq(0..time')
    <3>1. 0..time \subseteq 0..time'
      BY <1>3, <2>1
    <3>2. QED
      BY <1>2, <1>4, <3>1, SeqWider
  <2>3. windows' = windows
    BY <1>5 DEF windows
  <2>4. QED
    BY <1>1, <1>2, <1>5, <2>1, <2>2, <2>3 DEF Typed
<1>7. AnswersRecent'
  <2>1. now' - time' <= now - time
    BY <1>2, <1>3
  <2>2. ASSUME NEW c \in Callers, callers[c].at \in {"quota", "refusal"}
        PROVE  callers[c].clock - callers[c].time >= now' - time'
    <3>1. callers[c].clock - callers[c].time >= now - time
      BY <1>1, <2>2 DEF AnswersRecent
    <3>2. callers[c].clock \in Int /\ callers[c].time \in Nat
      <4>1. callers[c] \in State
        BY <1>1 DEF Typed
      <4>2. QED
        BY <2>2, <4>1 DEF State, Answer
    <3> DEFINE x == callers[c].clock
               y == callers[c].time
    <3> HIDE DEF x, y
    <3>3. x \in Int /\ y \in Int /\ x - y >= now - time
      BY <3>1, <3>2 DEF x, y
    <3>4. x - y >= now' - time'
      BY <1>2, <1>3, <3>3
    <3>5. QED
      BY <3>4 DEF x, y
  <2>3. QED
    BY <1>2, <2>2 DEF AnswersRecent
<1>8. ASSUME NEW seq \in Seq(Int), NEW blocked \in Nat, Safe(seq, blocked)
      PROVE  /\ Covered(seq, sent', time', now')
             /\ asked' <= time' \/ blocked - now' >= asked' - time'
  <2>1. Covered(seq, sent, time + 1, now + 1) /\ Covered(seq, sent, time, now - 1)
    BY <1>3, <1>4, <1>8, CoveredLater DEF Safe
  <2>2. asked <= time \/ blocked - now >= asked - time
    BY <1>8 DEF Safe, BlockCovers
  <2>3. Covered(seq, sent', time', now')
    BY <1>2, <2>1
  <2>4. asked' <= time' \/ blocked - now' >= asked' - time'
    BY <1>2, <1>3, <2>2
  <2>5. QED
    BY <2>3, <2>4
<1>9. Counted'
  <2>1. trusted => Covered(requests, sent', time', now') /\ (asked' <= time' \/ blockedUntil - now' >= asked' - time')
    BY <1>1, <1>3, <1>8 DEF Counted
  <2>2. trusted /\ ~unsaved =>
          /\ Covered(file.requests, sent', time', now')
          /\ asked' <= time' \/ file.blockedUntil - now' >= asked' - time'
    BY <1>1, <1>3, <1>8 DEF Counted
  <2>3. QED
    BY <1>2, <2>1, <2>2 DEF Counted, Safe, Covered, BlockCovers
<1>10. Ascending(sent)'
  BY <1>1, <1>2 DEF Ascending
<1>11. QED
  BY <1>2, <1>6, <1>7, <1>9, <1>10 DEF Inv

LEMMA InvNext ==
  ASSUME Inv, [Next]_vars
  PROVE  Inv' /\ (trusted' /\ sent' # sent => WithinWindows /\ time >= asked)
<1>1. ASSUME NEW c \in Callers, Admitted(c) PROVE Inv' /\ (trusted' => WithinWindows /\ time >= asked)
  BY <1>1, AdmittedStep
<1>2. ASSUME NEW c \in Callers, Refused(c) \/ Sleeps(c) PROVE Inv' /\ sent' = sent
  BY <1>2, WaitStep
<1>3. ASSUME NEW c \in Callers, GivesUp(c) \/ Answered(c) PROVE Inv' /\ sent' = sent
  BY <1>3, IdleStep
<1>4. ASSUME NEW c \in Callers, AnswerNoted(c) PROVE Inv' /\ sent' = sent
  BY <1>4, NotedStep
<1>5. ASSUME NEW c \in Callers, RecordServerQuota(c) PROVE Inv' /\ sent' = sent
  BY <1>5, QuotaStep
<1>6. ASSUME NEW c \in Callers, RecordLimitReached(c) PROVE Inv' /\ sent' = sent
  BY <1>6, LimitReachedStep
<1>7. CASE Restart
  BY <1>7, RestartStep
<1>8. CASE Tick \/ StepBack
  BY <1>8, ClockStep
<1>9. CASE UNCHANGED vars
  <2>1. UNCHANGED <<session, time, now, requests, blockedUntil, quota, file, callers, sent, asked, unsaved, trusted>>
    BY <1>9 DEF vars, memory
  <2>2. Typed'
    BY <2>1 DEF Inv, Typed, windows
  <2>3. AnswersRecent' /\ Ascending(sent)' /\ Counted'
    BY <2>1, CountedUnchanged DEF Inv, AnswersRecent, Ascending
  <2>4. QED
    BY <2>1, <2>2, <2>3 DEF Inv
<1>10. QED
  BY <1>1, <1>2, <1>3, <1>4, <1>5, <1>6, <1>7, <1>8, <1>9 DEF Next

-----------------------------------------------------------------------------
(* The time that is announced *)

\* Among sorted requests, those in a window are the ones behind the bound; the limit's
\* worth of them from the newest makes room with the oldest of these.
LEMMA FreeAtIs ==
  ASSUME VendorTyped, quota = None, NEW seq \in Seq(Int), Ascending(seq), NEW window \in Window,
         NEW clock \in Int, NEW i \in DOMAIN seq, i <= Len(seq) - window.limit + 1,
         seq[i] > clock - window.seconds
  PROVE  /\ Full(seq, window, clock)
         /\ FreeAt(seq, window, clock) >= window.seconds + seq[i]
<1> DEFINE since == clock - window.seconds
           b     == UpperBound(seq, since)
           n     == Len(seq)
           limit == window.limit
           seconds == window.seconds
           inWindow == {j \in DOMAIN seq : seq[j] > since}
           used == n - b
           index == used - limit + 1
           last == n - limit + 1
<1>1. n \in Nat /\ i \in 1..n
  OBVIOUS
<1>2. seconds \in Nat /\ limit \in Nat \ {0}
  BY WindowType
<1>3. since \in Int
  BY <1>2
<1>4. DOMAIN seq = 1..n /\ \A j \in 1..n : seq[j] \in Int
  OBVIOUS
<1>5. \A j, m \in 1..n : j <= m => seq[j] <= seq[m]
  BY <1>4 DEF Ascending
<1>6. seq[i] > since /\ i <= last
  OBVIOUS
<1>7. UsedIn(seq, window, clock) = used /\ (Full(seq, window, clock) <=> used >= limit)
  BY UsedInIs DEF Full
<1>8. FreeAt(seq, window, clock) =
        seconds + (IF index <= Cardinality(inWindow) THEN seq[Nth(inWindow, index)]
                   ELSE IF inWindow = {} THEN clock ELSE seq[Max(inWindow)])
  BY <1>7 DEF FreeAt
<1>9. inWindow = {j \in 1..n : seq[j] > since}
  BY <1>4
<1> HIDE DEF since, inWindow
<1>10. b \in 0..n
  BY <1>3, UpperBoundIs
<1>11. b # 0 => seq[b] <= since
  BY <1>3, UpperBoundIs
<1>12. b # n => seq[b + 1] > since
  BY <1>3, UpperBoundIs
<1> HIDE DEF b, n, limit, seconds
<1>13. \A x, y \in Int : /\ x <= y /\ y <= since => ~(x > since)
                         /\ x > since /\ x <= y => y > since
  BY <1>3
<1>14. b < i
  <2>1. SUFFICES ASSUME ~(b < i) PROVE FALSE
    OBVIOUS
  <2>2. b \in 1..n /\ i <= b /\ b # 0
    BY <1>1, <1>10, <2>1
  <2>3. seq[i] <= seq[b] /\ seq[b] \in Int /\ seq[i] \in Int
    BY <1>1, <1>4, <1>5, <2>2
  <2>4. QED
    BY <1>6, <1>11, <1>13, <2>2, <2>3
<1>15. /\ b \in Nat /\ b + 1 \in 1..n /\ b # n
       /\ used \in Nat /\ used >= limit /\ index \in 1..used /\ b + index = last /\ last \in 1..n
  BY <1>1, <1>2, <1>6, <1>10, <1>14
<1>16. inWindow = (b + 1)..n
  <2>1. ASSUME NEW j \in 1..n PROVE seq[j] > since <=> j \in (b + 1)..n
    <3>1. CASE j \in (b + 1)..n
      <4>1. b + 1 <= j
        BY <1>15, <3>1
      <4>2. seq[b + 1] > since /\ seq[b + 1] <= seq[j] /\ seq[b + 1] \in Int /\ seq[j] \in Int
        BY <1>4, <1>5, <1>12, <1>15, <4>1
      <4>3. QED
        BY <1>13, <3>1, <4>2
    <3>2. CASE j \notin (b + 1)..n
      <4>1. j <= b /\ b \in 1..n /\ b # 0
        BY <1>1, <1>10, <1>15, <3>2
      <4>2. seq[j] <= seq[b] /\ seq[b] <= since /\ seq[b] \in Int /\ seq[j] \in Int
        BY <1>4, <1>5, <1>11, <4>1
      <4>3. QED
        BY <1>13, <3>2, <4>2
    <3>3. QED
      BY <3>1, <3>2
  <2>2. \A j \in (b + 1)..n : j \in 1..n
    BY <1>1, <1>15
  <2>3. QED
    BY <1>9, <2>1, <2>2
<1> HIDE DEF index, last, used
<1>17. Cardinality(inWindow) = used
  <2>1. b + 1 \in Int /\ n \in Int /\ ~(b + 1 > n) /\ n - (b + 1) + 1 = used
    BY <1>1, <1>15 DEF used
  <2> DEFINE low == b + 1
  <2> HIDE DEF low
  <2>2. low \in Int /\ n \in Int /\ ~(low > n) /\ n - low + 1 = used
    BY <2>1 DEF low
  <2>3. Cardinality(low..n) = used
    BY <2>2, FS_Interval
  <2>4. QED
    BY <1>16, <2>3 DEF low
<1>18. Nth(inWindow, index) = last
  <2>1. index \in 1..(n - b)
    BY <1>15 DEF used
  <2>2. Nth((b + 1)..n, index) = b + index
    BY <1>1, <1>15, <2>1, NthOfInterval
  <2>3. QED
    BY <1>15, <1>16, <2>2
<1>19. index <= Cardinality(inWindow)
  BY <1>15, <1>17
<1>20. FreeAt(seq, window, clock) = seconds + seq[last]
  BY <1>8, <1>18, <1>19
<1>21. seq[i] <= seq[last] /\ seq[i] \in Int /\ seq[last] \in Int
  BY <1>1, <1>4, <1>5, <1>6, <1>15
<1>22. \A x, y \in Int : x <= y => seconds + y >= seconds + x
  BY <1>2
<1>23. Full(seq, window, clock)
  BY <1>7, <1>15
<1>24. FreeAt(seq, window, clock) >= seconds + seq[i]
  BY <1>20, <1>21, <1>22
<1>25. QED
  BY <1>23, <1>24 DEF seconds

\* A window that were full at the announced time would have been full at first, and the
\* time at which it makes room later than the announced one.
LEMMA AnnouncedFree ==
  ASSUME Typed
  PROVE  FreeWhenAnnounced
<1> DEFINE seq == Pruned
           at  == AvailableAt(seq, now)
           later == Prune(seq, at)
<1>1. SUFFICES ASSUME at > 0, quota = None, Ascending(seq) PROVE WaitSeconds(later, at) = 0
  BY DEF FreeWhenAnnounced
<1>2. VendorTyped /\ Range(windows) \subseteq Window /\ now \in Int /\ requests \in Seq(Int)
  BY TypedVendor DEF Typed
<1>3. seq \in Seq(Int)
  BY <1>2, PruneType DEF Pruned
<1> HIDE DEF seq
<1>4. /\ at \in Int /\ at > now /\ blockedUntil <= at
      /\ \A w \in Range(windows) : Full(seq, w, now) => FreeAt(seq, w, now) <= at
  BY <1>1, <1>2, <1>3, WaitIs
<1>5. at > 0
  BY <1>1
<1> HIDE DEF at
<1>6. later \in Seq(Int)
  BY <1>3, <1>4, PruneType
<1>7. PICK low \in Nat \ {0}, high \in 0..Len(seq) : later = SubSeq(seq, low, high)
  BY <1>3, <1>4, PruneIs
<1>8. /\ Len(seq) \in Nat /\ DOMAIN seq = 1..Len(seq)
      /\ Len(later) = IF low <= high THEN high - low + 1 ELSE 0
      /\ \A j \in 1..Len(later) : later[j] = seq[low + j - 1]
  BY <1>3, <1>7
<1> HIDE DEF later
<1>9. ASSUME NEW w \in Range(windows), Full(later, w, at) PROVE FALSE
  <2> DEFINE since == at - w.seconds
             b == UpperBound(later, since)
  <2>1. w \in Window /\ w.seconds \in Nat \ {0} /\ w.limit \in Nat \ {0}
    BY <1>2, WindowType
  <2>2. since \in Int
    BY <1>4, <2>1
  <2>3. Len(later) - b >= w.limit
    <3>1. UsedIn(later, w, at) = Len(later) - b
      BY <1>1, <1>2, <1>4, <1>6, <2>1, UsedInIs
    <3>2. QED
      BY <1>9, <3>1 DEF Full
  <2> HIDE DEF since
  <2>4. b \in 0..Len(later) /\ (b # Len(later) => later[b + 1] > since)
    BY <1>6, <2>2, UpperBoundIs
  <2> HIDE DEF b
  <2> DEFINE i == low + b
  <2>5. /\ b + 1 \in 1..Len(later) /\ b # Len(later) /\ low + (b + 1) - 1 = i
        /\ i \in 1..Len(seq) /\ i <= Len(seq) - w.limit + 1
    BY <1>7, <1>8, <2>1, <2>3, <2>4
  <2> HIDE DEF i
  <2>6. seq[i] > since /\ seq[i] \in Int
    <3>1. later[b + 1] = seq[low + (b + 1) - 1]
      BY <1>8, <2>5
    <3>2. later[b + 1] > since
      BY <2>4, <2>5
    <3>3. seq[i] \in Int
      BY <1>3, <2>5
    <3>4. QED
      BY <2>5, <3>1, <3>2, <3>3
  <2>7. \A x \in Int : x > since => x > now - w.seconds /\ w.seconds + x > at
    BY <1>2, <1>4, <2>1 DEF since
  <2>8. Full(seq, w, now) /\ FreeAt(seq, w, now) >= w.seconds + seq[i]
    BY <1>1, <1>2, <1>3, <1>8, <2>1, <2>5, <2>6, <2>7, FreeAtIs
  <2>9. FreeAt(seq, w, now) \in Int /\ FreeAt(seq, w, now) <= at
    BY <1>2, <1>3, <1>4, <2>1, <2>8, FullIsLater
  <2>10. w.seconds + seq[i] > at /\ w.seconds + seq[i] \in Int
    BY <2>1, <2>6, <2>7
  <2>11. QED
    BY <1>4, <2>8, <2>9, <2>10
<1>10. QED
  BY <1>2, <1>4, <1>5, <1>6, <1>9, WaitIs

-----------------------------------------------------------------------------
(* The theorems *)

\* What the counts, in memory and in the file, still cover of what was sent; what a
\* caller read of the clock for an answer; and that requests are sent in time.
THEOREM Invariance == Spec => []Inv
<1>1. Init => Inv
  BY InvInit
<1>2. Inv /\ [Next]_vars => Inv'
  BY InvNext
<1>3. QED
  BY <1>1, <1>2, PTL DEF Spec

\* The state of the counts, of the callers and of the file has its type.
THEOREM TypeCorrect == Spec => []TypeOK
<1>1. Inv => TypeOK
  <2>1. SUFFICES ASSUME Typed PROVE TypeOK
    BY DEF Inv
  <2>2. \A c \in Callers : callers[c].at \in {"idle", "asleep", "sent", "quota", "refusal"}
    <3>1. \A s \in State : s.at \in {"idle", "asleep", "sent", "quota", "refusal"}
      BY DEF State, Answer
    <3>2. \A c \in Callers : callers[c] \in State
      BY <2>1 DEF Typed
    <3>3. QED
      BY <3>1, <3>2
  <2>3. {time, blockedUntil, asked} \subseteq Nat /\ {unsaved, trusted} \subseteq BOOLEAN
    BY <2>1 DEF Typed
  <2>4. QED
    BY <2>1, <2>2, <2>3 DEF Typed, TypeOK, Quota, FileType
<1>2. QED
  BY <1>1, Invariance, PTL

\* No request is sent that the vendor would refuse, as long as the program counts what
\* it sent.
THEOREM LimitsAreKept == Spec => LimitsKept
<1>1. Inv /\ [Next]_vars => [trusted' /\ sent' # sent => WithinWindows /\ time >= asked]_vars
  BY InvNext
<1>2. QED
  BY <1>1, Invariance, PTL DEF Spec, LimitsKept

\* A request is admitted at the time that is announced, unless others are sent before,
\* the clock has stepped back or the vendor has reported a quota.
THEOREM AnnouncedIsFree == Spec => []FreeWhenAnnounced
<1>1. Inv => FreeWhenAnnounced
  BY AnnouncedFree DEF Inv
<1>2. QED
  BY <1>1, Invariance, PTL

=============================================================================
