-------------------------- MODULE ProcessesProofs --------------------------
(***************************************************************************)
(* Theorems about the processes of a scan: which chains of calls are kept, *)
(* and under which names, for any functions, calls and communities and     *)
(* any caps on depth and number.                                           *)
(***************************************************************************)
EXTENDS DecisionProofs

----------------------------------------------------------------------------
(* A finite set in order.  An order is a set of pairs.                     *)

StrictOrder(R, S) ==
  /\ \A x \in S : <<x, x>> \notin R
  /\ \A x, y, z \in S : <<x, y>> \in R /\ <<y, z>> \in R => <<x, z>> \in R
  /\ \A x, y \in S : x # y => <<x, y>> \in R \/ <<y, x>> \in R

Before(R, S, x) == {y \in S : <<y, x>> \in R}

\* How many members come before one tells them apart, and leaves no number out.
LEMMA RanksCount ==
  ASSUME NEW S, IsFiniteSet(S), NEW R, StrictOrder(R, S)
  PROVE  /\ \A x \in S : Cardinality(Before(R, S, x)) \in 0 .. Cardinality(S) - 1
         /\ \A x, y \in S : <<x, y>> \in R <=> Cardinality(Before(R, S, x)) < Cardinality(Before(R, S, y))
         /\ \A k \in 0 .. Cardinality(S) - 1 : \E x \in S : Cardinality(Before(R, S, x)) = k
<1> DEFINE rank == [x \in S |-> Cardinality(Before(R, S, x))]
           n    == Cardinality(S)
<1>0. n \in Nat
  BY FS_CardinalityType
<1>1. ASSUME NEW x \in S
      PROVE  /\ IsFiniteSet(Before(R, S, x))
             /\ Cardinality(Before(R, S, x)) \in 0 .. n - 1
  <2>1. Before(R, S, x) \in SUBSET (S \ {x})
    BY DEF Before, StrictOrder
  <2>2. IsFiniteSet(S \ {x}) /\ Cardinality(S \ {x}) = n - 1
    BY FS_RemoveElement
  <2>3. IsFiniteSet(Before(R, S, x)) /\ Cardinality(Before(R, S, x)) <= n - 1
    BY <2>1, <2>2, FS_Subset
  <2>4. Cardinality(Before(R, S, x)) \in Nat
    BY <2>3, FS_CardinalityType
  <2>5. QED
    BY <1>0, <2>3, <2>4
<1>2. ASSUME NEW x \in S, NEW y \in S, <<x, y>> \in R
      PROVE  Cardinality(Before(R, S, x)) < Cardinality(Before(R, S, y))
  <2>1. Before(R, S, x) \in SUBSET Before(R, S, y)
    BY <1>2 DEF Before, StrictOrder
  <2>2. x \in Before(R, S, y) /\ x \notin Before(R, S, x)
    BY <1>2 DEF Before, StrictOrder
  <2>3. /\ Cardinality(Before(R, S, x)) <= Cardinality(Before(R, S, y))
        /\ Cardinality(Before(R, S, x)) # Cardinality(Before(R, S, y))
    BY <1>1, <2>1, <2>2, FS_Subset
  <2>4. QED
    BY <1>0, <1>1, <2>3
<1>3. ASSUME NEW x \in S, NEW y \in S, Cardinality(Before(R, S, x)) < Cardinality(Before(R, S, y))
      PROVE  <<x, y>> \in R
  <2>1. x # y
    BY <1>0, <1>1, <1>3
  <2>2. <<y, x>> \notin R
    BY <1>0, <1>1, <1>2, <1>3
  <2>3. QED
    BY <2>1, <2>2 DEF StrictOrder
<1>4. rank \in Injection(S, 0 .. n - 1)
  <2>1. rank \in [S -> 0 .. n - 1]
    BY <1>1
  <2>2. \A x, y \in S : rank[x] = rank[y] => x = y
    <3>1. ASSUME NEW x \in S, NEW y \in S, rank[x] = rank[y], x # y
          PROVE  FALSE
      <4>1. rank[x] < rank[y] \/ rank[y] < rank[x]
        BY <1>2, <3>1 DEF StrictOrder
      <4>2. QED
        BY <1>0, <2>1, <3>1, <4>1
    <3>2. QED
      BY <3>1
  <2>3. QED
    BY <2>1, <2>2 DEF Injection, IsInjective
<1>5. IsFiniteSet(0 .. n - 1) /\ Cardinality(0 .. n - 1) = n
  BY <1>0, FS_Interval
<1>6. rank \in Surjection(S, 0 .. n - 1)
  BY <1>4, <1>5, FS_Injection
<1>7. \A k \in 0 .. n - 1 : \E x \in S : rank[x] = k
  BY <1>6 DEF Surjection
<1>8. QED
  BY <1>1, <1>2, <1>3, <1>7

Sorted(R, S) == [i \in 1 .. Cardinality(S) |-> CHOOSE x \in S : Cardinality(Before(R, S, x)) = i - 1]

\* Putting a set in order leaves nothing out and repeats nothing.
LEMMA SortedIs ==
  ASSUME NEW S, IsFiniteSet(S), NEW R, StrictOrder(R, S)
  PROVE  /\ Cardinality(S) \in Nat
         /\ Sorted(R, S) \in [1 .. Cardinality(S) -> S]
         /\ \A x \in S : \E i \in 1 .. Cardinality(S) : Sorted(R, S)[i] = x
         /\ \A i, j \in 1 .. Cardinality(S) : <<Sorted(R, S)[i], Sorted(R, S)[j]>> \in R <=> i < j
         /\ \A i, j \in 1 .. Cardinality(S) : Sorted(R, S)[i] = Sorted(R, S)[j] => i = j
<1> DEFINE n == Cardinality(S)
           s == Sorted(R, S)
           rank(x) == Cardinality(Before(R, S, x))
<1>1. n \in Nat
  BY FS_CardinalityType
<1>2. /\ \A x \in S : rank(x) \in 0 .. n - 1
      /\ \A x, y \in S : <<x, y>> \in R <=> rank(x) < rank(y)
      /\ \A k \in 0 .. n - 1 : \E x \in S : rank(x) = k
  BY RanksCount
<1>3. \A i \in 1 .. n : s[i] = CHOOSE x \in S : rank(x) = i - 1
  BY DEF Sorted
<1> HIDE DEF s, n, rank
<1>4. \A i \in 1 .. n : s[i] \in S /\ rank(s[i]) = i - 1
  <2>1. ASSUME NEW i \in 1 .. n
        PROVE  s[i] \in S /\ rank(s[i]) = i - 1
    <3>1. i - 1 \in 0 .. n - 1
      BY <1>1
    <3>2. \E x \in S : rank(x) = i - 1
      BY <1>2, <3>1
    <3>3. QED
      BY <1>3, <3>2
  <2>2. QED
    BY <2>1
<1>5. \A x \in S : \E i \in 1 .. n : s[i] = x
  <2>1. ASSUME NEW x \in S
        PROVE  \E i \in 1 .. n : s[i] = x
    <3>1. rank(x) + 1 \in 1 .. n
      BY <1>1, <1>2
    <3>2. rank(s[rank(x) + 1]) = rank(x) /\ s[rank(x) + 1] \in S
      BY <1>1, <1>2, <1>4, <3>1
    <3>3. <<x, s[rank(x) + 1]>> \notin R /\ <<s[rank(x) + 1], x>> \notin R
      BY <1>2, <3>2
    <3>4. s[rank(x) + 1] = x
      BY <3>2, <3>3 DEF StrictOrder
    <3>5. QED
      BY <3>1, <3>4
  <2>2. QED
    BY <2>1
<1>6. \A i, j \in 1 .. n : <<s[i], s[j]>> \in R <=> i < j
  BY <1>1, <1>2, <1>4
<1>7. \A i, j \in 1 .. n : s[i] = s[j] => i = j
  BY <1>1, <1>4
<1>8. s = [i \in 1 .. n |-> CHOOSE x \in S : rank(x) = i - 1]
  BY DEF Sorted, s, n, rank
<1>9. s \in [1 .. n -> S]
  BY <1>4, <1>8
<1>10. QED
  BY <1>1, <1>5, <1>6, <1>7, <1>9 DEF s, n

----------------------------------------------------------------------------
(* A fold over a sequence goes from one prefix to the next.                *)

LEMMA MaxIs ==
  ASSUME NEW S, S \subseteq Int, NEW n \in S, \A m \in S : n >= m
  PROVE  Max(S) = n
<1>1. \A m \in S : (\A k \in S : m >= k) => m = n
  OBVIOUS
<1>2. QED
  BY <1>1 DEF Max

LEMMA MaxOf ==
  ASSUME NEW n \in Nat, NEW S \in SUBSET (1 .. n), S # {}
  PROVE  Max(S) \in S /\ \A k \in S : k <= Max(S)
<1>1. \E m \in S : \A k \in S : k <= m
  <2> DEFINE left == {n - k : k \in S}
  <2>1. left \subseteq Nat /\ left # {}
    <3>1. \A k \in S : n - k \in Nat
      OBVIOUS
    <3>2. PICK k \in S : TRUE
      OBVIOUS
    <3>3. n - k \in left
      OBVIOUS
    <3>4. QED
      BY <3>1, <3>3
  <2>2. PICK l \in left : \A j \in left : l <= j
    BY <2>1, LeastExists
  <2>3. PICK m \in S : l = n - m
    BY <2>2
  <2>4. \A k \in S : n - m <= n - k
    BY <2>2, <2>3
  <2>5. QED
    BY <2>4
<1>2. QED
  BY <1>1 DEF Max

\* The equation of a fold of F from base over the numbers of a set, the greatest last.
Folds(V, base, F, g, n) ==
  /\ g \in [SUBSET (1 .. n) -> V]
  /\ \A S \in SUBSET (1 .. n) : g[S] = IF S = {} THEN base ELSE F[<<g[S \ {Max(S)}], Max(S)>>]

LEMMA FoldExists ==
  ASSUME NEW V, NEW base \in V, NEW n \in Nat, NEW F \in [V \X (1 .. n) -> V]
  PROVE  \E g : Folds(V, base, F, g, n)
<1> DEFINE D == {m \in Nat : m <= n /\ ~\E g : Folds(V, base, F, g, m)}
<1>1. ASSUME D # {}
      PROVE  FALSE
  <2>1. PICK m \in D : \A k \in D : m <= k
    BY <1>1, LeastExists
  <2>2. CASE m = 0
    <3>1. SUBSET (1 .. 0) = {{}}
      OBVIOUS
    <3>2. Folds(V, base, F, [S \in SUBSET (1 .. 0) |-> base], 0)
      BY <3>1 DEF Folds
    <3>3. QED
      BY <2>1, <2>2, <3>2
  <2>3. CASE m # 0
    <3>1. m - 1 \in Nat /\ m - 1 <= n /\ m - 1 < m /\ m \in 1 .. n
      BY <2>1, <2>3
    <3>2. PICK g : Folds(V, base, F, g, m - 1)
      BY <2>1, <3>1
    <3> DEFINE h == [S \in SUBSET (1 .. m) |-> IF m \in S THEN F[<<g[S \ {m}], m>>] ELSE g[S]]
    <3>3. ASSUME NEW S \in SUBSET (1 .. m)
          PROVE  /\ S \ {m} \in SUBSET (1 .. (m - 1))
                 /\ h[S] \in V
                 /\ h[S] = IF S = {} THEN base ELSE F[<<h[S \ {Max(S)}], Max(S)>>]
      <4>1. S \ {m} \in SUBSET (1 .. (m - 1)) /\ (m \notin S => S \in SUBSET (1 .. (m - 1)))
        BY <3>1
      <4>2. h[S] \in V
        BY <3>1, <3>2, <4>1 DEF Folds
      <4>3. CASE m \in S
        <5>1. Max(S) = m
          <6>1. S \subseteq Int /\ \A k \in S : m >= k
            BY <3>1
          <6>2. QED
            BY <4>3, <6>1, MaxIs
        <5>2. S \ {m} \in SUBSET (1 .. m) /\ m \notin S \ {m}
          OBVIOUS
        <5>3. h[S \ {m}] = g[S \ {m}] /\ h[S] = F[<<g[S \ {m}], m>>]
          BY <4>3, <5>2
        <5>4. QED
          BY <4>1, <4>2, <4>3, <5>1, <5>3
      <4>4. CASE m \notin S
        <5>1. h[S] = g[S]
          BY <4>4
        <5>2. S # {} => S \ {Max(S)} \in SUBSET (1 .. m) /\ m \notin S \ {Max(S)}
          BY <4>4
        <5>3. S # {} => h[S \ {Max(S)}] = g[S \ {Max(S)}]
          BY <5>2
        <5>4. g[S] = IF S = {} THEN base ELSE F[<<g[S \ {Max(S)}], Max(S)>>]
          BY <3>2, <4>1, <4>4 DEF Folds
        <5>5. QED
          BY <4>1, <4>2, <5>1, <5>3, <5>4
      <4>5. QED
        BY <4>3, <4>4
    <3>4. h \in [SUBSET (1 .. m) -> V]
      BY <3>3
    <3> HIDE DEF h
    <3>5. Folds(V, base, F, h, m)
      BY <3>3, <3>4 DEF Folds
    <3>6. QED
      BY <2>1, <3>5
  <2>4. QED
    BY <2>2, <2>3
<1>2. QED
  BY <1>1

\* The greatest of 1 .. k + 1 is k + 1, and what is left is 1 .. k.
LEMMA PrefixLast ==
  ASSUME NEW k \in Nat
  PROVE  Max(1 .. (k + 1)) = k + 1 /\ (1 .. (k + 1)) \ {k + 1} = 1 .. k /\ 1 .. (k + 1) # {}
<1>1. k + 1 \in 1 .. (k + 1) /\ (1 .. (k + 1)) \subseteq Int /\ \A j \in 1 .. (k + 1) : k + 1 >= j
  OBVIOUS
<1>2. Max(1 .. (k + 1)) = k + 1
  BY <1>1, MaxIs
<1>3. QED
  BY <1>1, <1>2

FoldsWithin(V, base, F, g, n) ==
  /\ g[{}] = base
  /\ \A S \in SUBSET (1 .. n) :
       S # {} /\ g[S \ {Max(S)}] \in V => g[S] = F[<<g[S \ {Max(S)}], Max(S)>>]

StepByStep(V, base, F, g, n, at) ==
  /\ at \in [0 .. n -> V] /\ at[0] = base /\ at[n] = g[1 .. n]
  /\ \A k \in 0 .. (n - 1) : at[k + 1] = F[<<at[k], k + 1>>]

\* What satisfies that equation while it stays in V is, from prefix to prefix, a step of F.
LEMMA FoldSteps ==
  ASSUME NEW V, NEW base \in V, NEW n \in Nat, NEW F \in [V \X (1 .. n) -> V], NEW g,
         FoldsWithin(V, base, F, g, n)
  PROVE  \E at : StepByStep(V, base, F, g, n, at)
<1> DEFINE at == [k \in 0 .. n |-> g[1 .. k]]
<1>1. at[0] = base
  <2>1. 1 .. 0 = {}
    OBVIOUS
  <2>2. QED
    BY <2>1 DEF FoldsWithin
<1>2. ASSUME NEW k \in 0 .. (n - 1), at[k] \in V
      PROVE  at[k + 1] = F[<<at[k], k + 1>>] /\ at[k + 1] \in V
  <2> DEFINE S == 1 .. (k + 1)
  <2>1. S \in SUBSET (1 .. n) /\ k \in Nat /\ k \in 0 .. n /\ k + 1 \in 0 .. n /\ k + 1 \in 1 .. n
    OBVIOUS
  <2>2. Max(S) = k + 1 /\ S \ {k + 1} = 1 .. k /\ S # {}
    BY <2>1, PrefixLast
  <2>3. at[k] = g[1 .. k] /\ at[k + 1] = g[S]
    BY <2>1
  <2> HIDE DEF S, at
  <2>4. at[k + 1] = F[<<at[k], k + 1>>]
    BY <1>2, <2>1, <2>2, <2>3 DEF FoldsWithin
  <2>5. QED
    BY <1>2, <2>1, <2>4
<1>3. at[n] = g[1 .. n] /\ at = [k \in 0 .. n |-> at[k]]
  OBVIOUS
<1> HIDE DEF at
<1>4. \A k \in 0 .. n : at[k] \in V
  <2> DEFINE D == {k \in 0 .. n : at[k] \notin V}
  <2>1. ASSUME D # {}
        PROVE  FALSE
    <3>1. D \subseteq Nat
      OBVIOUS
    <3>2. PICK k \in D : \A j \in D : k <= j
      BY <2>1, <3>1, LeastExists
    <3>3. k # 0
      BY <1>1, <3>2
    <3>4. k - 1 \in 0 .. (n - 1) /\ k - 1 \in 0 .. n /\ ~(k <= k - 1) /\ (k - 1) + 1 = k
      BY <3>2, <3>3
    <3>5. at[k - 1] \in V
      BY <3>2, <3>4
    <3>6. at[k] \in V
      BY <1>2, <3>4, <3>5
    <3>7. QED
      BY <3>2, <3>6
  <2>2. QED
    BY <2>1
<1>5. \A k \in 0 .. (n - 1) : at[k + 1] = F[<<at[k], k + 1>>]
  BY <1>2, <1>4
<1>6. at \in [0 .. n -> V]
  BY <1>3, <1>4
<1>7. QED
  BY <1>1, <1>3, <1>5, <1>6 DEF StepByStep

----------------------------------------------------------------------------
(* Chains are ranked by score, then by the names along them.               *)

AlphabeticallyBefore(a, b) ==
  \E i \in 1 .. Len(b) : (i > Len(a) \/ a[i] < b[i]) /\ \A j \in 1 .. (i - 1) : a[j] = b[j]

\* The first place where one differs decides; a beginning comes before what it begins.
LEMMA AlphabeticallyAt ==
  ASSUME NEW a \in Seq(Nat), NEW b \in Seq(Nat), AlphabeticallyBefore(a, b)
  PROVE  \E i \in 1 .. Len(b) : /\ i = Len(a) + 1 \/ (i <= Len(a) /\ a[i] < b[i])
                                /\ \A j \in 1 .. (i - 1) : a[j] = b[j]
<1>1. PICK i \in 1 .. Len(b) : (i > Len(a) \/ a[i] < b[i]) /\ \A j \in 1 .. (i - 1) : a[j] = b[j]
  BY DEF AlphabeticallyBefore
<1>2. CASE i > Len(a)
  <2>1. Len(a) + 1 \in 1 .. Len(b) /\ \A j \in 1 .. Len(a) : j \in 1 .. (i - 1)
    BY <1>2
  <2>2. QED
    BY <1>1, <2>1
<1>3. CASE i <= Len(a)
  BY <1>1, <1>3
<1>4. QED
  BY <1>2, <1>3

LEMMA AlphabetOrders ==
  ASSUME NEW a \in Seq(Nat), NEW b \in Seq(Nat)
  PROVE  /\ ~AlphabeticallyBefore(a, a)
         /\ a # b => AlphabeticallyBefore(a, b) \/ AlphabeticallyBefore(b, a)
<1>1. ~AlphabeticallyBefore(a, a)
  BY DEF AlphabeticallyBefore
<1>2. ASSUME a # b
      PROVE  AlphabeticallyBefore(a, b) \/ AlphabeticallyBefore(b, a)
  <2> DEFINE D == {i \in Nat \ {0} : i > Len(a) \/ i > Len(b) \/ a[i] # b[i]}
  <2>1. Len(a) + 1 \in D /\ D \subseteq Nat
    OBVIOUS
  <2>2. PICK m \in D : \A k \in D : m <= k
    BY <2>1, LeastExists
  <2>3. \A j \in 1 .. (m - 1) : j <= Len(a) /\ j <= Len(b) /\ a[j] = b[j]
    <3>1. ASSUME NEW j \in 1 .. (m - 1)
          PROVE  j \notin D
      BY <2>2
    <3>2. QED
      BY <3>1
  <2>4. CASE m <= Len(a) /\ m <= Len(b)
    <3>1. a[m] < b[m] \/ b[m] < a[m]
      BY <2>2, <2>4
    <3>2. QED
      BY <2>2, <2>3, <2>4, <3>1 DEF AlphabeticallyBefore
  <2>5. CASE m > Len(a) /\ m <= Len(b)
    BY <2>3, <2>5 DEF AlphabeticallyBefore
  <2>6. CASE m <= Len(a) /\ m > Len(b)
    BY <2>3, <2>6 DEF AlphabeticallyBefore
  <2>7. CASE m > Len(a) /\ m > Len(b)
    <3>1. Len(a) = m - 1 /\ Len(b) = m - 1
      <4>1. m = 1 \/ m - 1 \in 1 .. (m - 1)
        OBVIOUS
      <4>2. QED
        BY <2>3, <2>7, <4>1
    <3>2. a = b
      BY <2>3, <3>1
    <3>3. QED
      BY <1>2, <3>2
  <2>8. QED
    BY <2>4, <2>5, <2>6, <2>7
<1>3. QED
  BY <1>1, <1>2

LEMMA AlphabetContinues ==
  ASSUME NEW a \in Seq(Nat), NEW b \in Seq(Nat), NEW c \in Seq(Nat),
         AlphabeticallyBefore(a, b), AlphabeticallyBefore(b, c)
  PROVE  AlphabeticallyBefore(a, c)
<1>1. PICK i \in 1 .. Len(b) : /\ i = Len(a) + 1 \/ (i <= Len(a) /\ a[i] < b[i])
                               /\ \A j \in 1 .. (i - 1) : a[j] = b[j]
  BY AlphabeticallyAt
<1>2. PICK k \in 1 .. Len(c) : /\ k = Len(b) + 1 \/ (k <= Len(b) /\ b[k] < c[k])
                               /\ \A j \in 1 .. (k - 1) : b[j] = c[j]
  BY AlphabeticallyAt
<1>3. CASE i < k
  <2>1. i \in 1 .. Len(c) /\ b[i] = c[i] /\ \A j \in 1 .. (i - 1) : a[j] = c[j]
    BY <1>1, <1>2, <1>3
  <2>2. i > Len(a) \/ a[i] < c[i]
    BY <1>1, <2>1
  <2>3. QED
    BY <2>1, <2>2 DEF AlphabeticallyBefore
<1>4. CASE i = k
  <2>1. b[i] < c[i] /\ \A j \in 1 .. (i - 1) : a[j] = c[j]
    BY <1>1, <1>2, <1>4
  <2>2. i > Len(a) \/ a[i] < c[i]
    <3>1. CASE i = Len(a) + 1
      BY <3>1
    <3>2. CASE i <= Len(a) /\ a[i] < b[i]
      <4>1. a[i] \in Nat /\ b[i] \in Nat /\ c[i] \in Nat
        <5>1. i \in 1 .. Len(a) /\ i \in 1 .. Len(b) /\ i \in 1 .. Len(c)
          BY <1>4, <3>2
        <5>2. QED
          BY <5>1
      <4>2. \A x, y, z \in Nat : x < y /\ y < z => x < z
        OBVIOUS
      <4>3. a[i] < b[i] /\ b[i] < c[i]
        BY <2>1, <3>2
      <4>4. a[i] < c[i]
        BY <4>1, <4>2, <4>3
      <4>5. QED
        BY <4>4
    <3>3. QED
      BY <1>1, <3>1, <3>2
  <2>3. QED
    BY <1>4, <2>1, <2>2 DEF AlphabeticallyBefore
<1>5. CASE i > k
  <2>1. a[k] = b[k] /\ b[k] < c[k] /\ \A j \in 1 .. (k - 1) : a[j] = c[j]
    BY <1>1, <1>2, <1>5
  <2>2. k \in 1 .. Len(c) /\ a[k] < c[k]
    BY <2>1
  <2>3. QED
    BY <2>1, <2>2 DEF AlphabeticallyBefore
<1>6. QED
  BY <1>3, <1>4, <1>5

----------------------------------------------------------------------------
(* The chains of calls, one function longer at a time.                     *)

Longer(graph, chains) == UNION {Extensions(graph, chain) : chain \in chains}

GrowsFrom(graph, entries, of, m) ==
  of = [n \in 1 .. m |-> IF n = 1 THEN {<<f>> : f \in entries} ELSE Longer(graph, of[n - 1])]

LEMMA ChainsGrow ==
  ASSUME NEW graph, NEW entries
  PROVE  \E of : /\ Chains(graph, entries) = UNION {of[n] : n \in 2 .. MaxDepth}
                 /\ GrowsFrom(graph, entries, of, MaxDepth)
<1> USE MaxDepthAssumption
<1> DEFINE base == {<<f>> : f \in entries}
           D    == {m \in Nat \ {0} : ~\E of : GrowsFrom(graph, entries, of, m)}
<1>1. ASSUME D # {}
      PROVE  FALSE
  <2>1. PICK m \in D : \A k \in D : m <= k
    BY <1>1, LeastExists
  <2>2. CASE m = 1
    <3>1. GrowsFrom(graph, entries, [n \in 1 .. 1 |-> base], 1)
      BY DEF GrowsFrom
    <3>2. QED
      BY <2>1, <2>2, <3>1
  <2>3. CASE m # 1
    <3>1. PICK g : GrowsFrom(graph, entries, g, m - 1)
      BY <2>1, <2>3
    <3> DEFINE h == [n \in 1 .. m |-> IF n = m THEN Longer(graph, g[m - 1]) ELSE g[n]]
    <3>2. ASSUME NEW n \in 1 .. m
          PROVE  h[n] = IF n = 1 THEN base ELSE Longer(graph, h[n - 1])
      <4>1. CASE n = m
        <5>1. m - 1 \in 1 .. m /\ m - 1 # m
          BY <2>3
        <5>2. QED
          BY <2>3, <4>1, <5>1
      <4>2. CASE n # m
        <5>1. n \in 1 .. m - 1 /\ (n # 1 => n - 1 \in 1 .. m /\ n - 1 # m)
          BY <4>2
        <5>2. QED
          BY <3>1, <4>2, <5>1 DEF GrowsFrom
      <4>3. QED
        BY <4>1, <4>2
    <3> HIDE DEF base
    <3>3. h = [n \in 1 .. m |-> IF n = 1 THEN base ELSE Longer(graph, h[n - 1])]
      <4>1. DOMAIN h = 1 .. m /\ h = [n \in 1 .. m |-> h[n]]
        OBVIOUS
      <4> HIDE DEF h
      <4>2. QED
        BY <3>2, <4>1
    <3> HIDE DEF h
    <3>4. GrowsFrom(graph, entries, h, m)
      BY <3>3 DEF GrowsFrom, base
    <3>5. QED
      BY <2>1, <3>4
  <2>4. QED
    BY <2>2, <2>3
<1>2. \E of : GrowsFrom(graph, entries, of, MaxDepth)
  BY <1>1
<1> DEFINE chosen == CHOOSE of : GrowsFrom(graph, entries, of, MaxDepth)
<1>3. GrowsFrom(graph, entries, chosen, MaxDepth)
  BY <1>2
<1>4. Chains(graph, entries) = UNION {chosen[n] : n \in 2 .. MaxDepth}
  BY DEF Chains, GrowsFrom, Longer
<1>5. QED
  BY <1>3, <1>4

LEMMA ImageFinite ==
  ASSUME NEW S, IsFiniteSet(S), NEW f, f = [x \in S |-> f[x]]
  PROVE  /\ IsFiniteSet({f[x] : x \in S})
         /\ Cardinality({f[x] : x \in S}) <= Cardinality(S)
<1>1. f \in Surjection(S, {f[x] : x \in S})
  BY DEF Surjection
<1>2. QED
  BY <1>1, FS_Surjection

\* A path of calls from an entry point that comes by no function twice.
IsChain(functions, graph, entries, chain) ==
  /\ chain \in Seq(functions) /\ Len(chain) # 0
  /\ chain[1] \in entries
  /\ IsInjective(chain)
  /\ \A i \in 1 .. Len(chain) - 1 : <<chain[i], chain[i + 1]>> \in graph

LEMMA ExtensionIs ==
  ASSUME NEW functions, NEW graph, graph \subseteq functions \X functions, NEW entries,
         NEW chain, IsChain(functions, graph, entries, chain), NEW longer \in Extensions(graph, chain)
  PROVE  /\ IsChain(functions, graph, entries, longer)
         /\ Len(longer) = Len(chain) + 1
         /\ ToSet(chain) \subseteq ToSet(longer)
<1>1. PICK f \in Callees(graph, Last(chain)) \ ToSet(chain) : longer = Append(chain, f)
  BY DEF Extensions
<1>2. PICK c \in graph : c[1] = Last(chain) /\ c[2] = f
  BY <1>1 DEF Callees
<1>3. c = <<Last(chain), f>> /\ f \in functions
  BY <1>2
<1>4. chain \in Seq(functions) /\ Len(chain) \in Nat \ {0}
  BY DEF IsChain
<1>5. /\ longer \in Seq(functions)
      /\ Len(longer) = Len(chain) + 1
      /\ \A i \in 1 .. Len(chain) : longer[i] = chain[i]
      /\ longer[Len(chain) + 1] = f
  BY <1>1, <1>3, <1>4
<1>6. longer[1] \in entries
  BY <1>4, <1>5 DEF IsChain
<1>7. \A i \in 1 .. Len(chain) : chain[i] # f
  BY <1>1, <1>4 DEF ToSet
<1>8. IsInjective(longer)
  <2>1. \A i, j \in 1 .. Len(chain) : chain[i] = chain[j] => i = j
    BY <1>4 DEF IsChain, IsInjective
  <2>2. \A i, j \in 1 .. Len(chain) + 1 : longer[i] = longer[j] => i = j
    <3>1. ASSUME NEW i \in 1 .. Len(chain) + 1, NEW j \in 1 .. Len(chain) + 1, longer[i] = longer[j]
          PROVE  i = j
      <4>1. CASE i \in 1 .. Len(chain) /\ j \in 1 .. Len(chain)
        BY <1>5, <2>1, <3>1, <4>1
      <4>2. CASE i = Len(chain) + 1 /\ j \in 1 .. Len(chain)
        BY <1>5, <1>7, <3>1, <4>2
      <4>3. CASE i \in 1 .. Len(chain) /\ j = Len(chain) + 1
        BY <1>5, <1>7, <3>1, <4>3
      <4>4. CASE i = Len(chain) + 1 /\ j = Len(chain) + 1
        BY <4>4
      <4>5. QED
        BY <1>4, <3>1, <4>1, <4>2, <4>3, <4>4
    <3>2. QED
      BY <3>1
  <2>3. QED
    BY <1>4, <1>5, <2>2 DEF IsInjective
<1>9. \A i \in 1 .. Len(longer) - 1 : <<longer[i], longer[i + 1]>> \in graph
  <2>1. ASSUME NEW i \in 1 .. Len(chain)
        PROVE  <<longer[i], longer[i + 1]>> \in graph
    <3>1. CASE i = Len(chain)
      <4>1. longer[i] = Last(chain)
        BY <1>5, <3>1 DEF Last
      <4>2. QED
        BY <1>3, <1>5, <3>1, <4>1
    <3>2. CASE i # Len(chain)
      <4>1. i \in 1 .. Len(chain) - 1 /\ i + 1 \in 1 .. Len(chain)
        BY <1>4, <3>2
      <4>2. <<chain[i], chain[i + 1]>> \in graph
        BY <4>1 DEF IsChain
      <4>3. QED
        BY <1>5, <4>1, <4>2
    <3>3. QED
      BY <3>1, <3>2
  <2>2. QED
    BY <1>4, <1>5, <2>1
<1>10. ToSet(chain) \subseteq ToSet(longer)
  <2>1. \A i \in DOMAIN chain : i \in DOMAIN longer /\ longer[i] = chain[i]
    BY <1>4, <1>5
  <2>2. QED
    BY <2>1 DEF ToSet
<1>11. QED
  BY <1>4, <1>5, <1>6, <1>8, <1>9, <1>10 DEF IsChain

LEMMA ExtensionsFinite ==
  ASSUME NEW functions, IsFiniteSet(functions), NEW graph, graph \subseteq functions \X functions,
         NEW chain
  PROVE  IsFiniteSet(Extensions(graph, chain))
<1> DEFINE next   == Callees(graph, Last(chain)) \ ToSet(chain)
           append == [f \in next |-> Append(chain, f)]
<1>1. next \in SUBSET functions
  BY DEF Callees
<1>2. IsFiniteSet(next)
  BY <1>1, FS_Subset
<1>3. {append[f] : f \in next} = Extensions(graph, chain)
  BY DEF Extensions
<1>4. append = [f \in next |-> append[f]]
  OBVIOUS
<1> HIDE DEF append, next
<1>5. QED
  BY <1>2, <1>3, <1>4, ImageFinite

\* The chains enumerated are the paths of two to MaxDepth functions, each with what
\* continues it.
LEMMA ChainsAre ==
  ASSUME NEW functions, IsFiniteSet(functions), NEW graph, graph \subseteq functions \X functions,
         NEW entries \in SUBSET functions
  PROVE  LET chains == Chains(graph, entries)
         IN  /\ IsFiniteSet(chains)
             /\ \A chain \in chains : /\ IsChain(functions, graph, entries, chain)
                                      /\ Len(chain) \in 2 .. MaxDepth
                                      /\ Len(chain) < MaxDepth => Extensions(graph, chain) \subseteq chains
             /\ \A call \in graph : call[1] \in entries /\ call[1] # call[2] => call \in chains
<1> USE MaxDepthAssumption
<1>1. PICK of : /\ Chains(graph, entries) = UNION {of[n] : n \in 2 .. MaxDepth}
                /\ GrowsFrom(graph, entries, of, MaxDepth)
  BY ChainsGrow
<1>2. /\ of = [n \in 1 .. MaxDepth |-> of[n]]
      /\ of[1] = {<<f>> : f \in entries}
      /\ \A n \in 2 .. MaxDepth : of[n] = Longer(graph, of[n - 1])
  <2>1. of = [n \in 1 .. MaxDepth |-> IF n = 1 THEN {<<f>> : f \in entries} ELSE Longer(graph, of[n - 1])]
    BY <1>1 DEF GrowsFrom
  <2>2. of = [n \in 1 .. MaxDepth |-> of[n]]
    BY <2>1
  <2>3. \A n \in 1 .. MaxDepth : of[n] = IF n = 1 THEN {<<f>> : f \in entries} ELSE Longer(graph, of[n - 1])
    BY <2>1
  <2>4. 1 \in 1 .. MaxDepth /\ \A n \in 2 .. MaxDepth : n \in 1 .. MaxDepth /\ n # 1
    OBVIOUS
  <2>5. of[1] = {<<f>> : f \in entries}
    BY <2>3, <2>4
  <2>6. \A n \in 2 .. MaxDepth : of[n] = Longer(graph, of[n - 1])
    BY <2>3, <2>4
  <2>7. QED
    BY <2>2, <2>5, <2>6
<1> DEFINE Good(n) == /\ IsFiniteSet(of[n])
                      /\ \A chain \in of[n] : IsChain(functions, graph, entries, chain) /\ Len(chain) = n
<1>3. Good(1)
  <2>1. IsFiniteSet({<<f>> : f \in entries})
    <3> DEFINE single == [f \in entries |-> <<f>>]
    <3>1. {single[f] : f \in entries} = {<<f>> : f \in entries} /\ single = [f \in entries |-> single[f]]
      OBVIOUS
    <3>2. IsFiniteSet(entries)
      BY FS_Subset
    <3> HIDE DEF single
    <3>3. QED
      BY <3>1, <3>2, ImageFinite
  <2>2. ASSUME NEW f \in entries
        PROVE  IsChain(functions, graph, entries, <<f>>) /\ Len(<<f>>) = 1
    <3>1. f \in functions
      OBVIOUS
    <3>2. <<f>> \in Seq(functions) /\ Len(<<f>>) = 1 /\ <<f>>[1] = f
      BY <3>1
    <3>3. QED
      BY <3>2 DEF IsChain, IsInjective
  <2>3. QED
    BY <1>2, <2>1, <2>2
<1>4. ASSUME NEW n \in 2 .. MaxDepth, Good(n - 1)
      PROVE  Good(n)
  <2>1. IsFiniteSet(Longer(graph, of[n - 1]))
    <3> DEFINE extended == [chain \in of[n - 1] |-> Extensions(graph, chain)]
    <3>1. /\ {extended[chain] : chain \in of[n - 1]} = {Extensions(graph, chain) : chain \in of[n - 1]}
          /\ extended = [chain \in of[n - 1] |-> extended[chain]]
      OBVIOUS
    <3>2. \A T \in {Extensions(graph, chain) : chain \in of[n - 1]} : IsFiniteSet(T)
      BY ExtensionsFinite
    <3> HIDE DEF extended
    <3>3. IsFiniteSet(of[n - 1])
      BY <1>4
    <3>4. IsFiniteSet({extended[chain] : chain \in of[n - 1]})
      BY <3>1, <3>3, ImageFinite
    <3>5. QED
      BY <3>1, <3>2, <3>4, FS_UNION DEF Longer
  <2>2. ASSUME NEW longer \in Longer(graph, of[n - 1])
        PROVE  IsChain(functions, graph, entries, longer) /\ Len(longer) = n
    <3>1. PICK chain \in of[n - 1] : longer \in Extensions(graph, chain)
      BY DEF Longer
    <3>2. IsChain(functions, graph, entries, chain) /\ Len(chain) = n - 1
      BY <1>4, <3>1
    <3>3. IsChain(functions, graph, entries, longer) /\ Len(longer) = (n - 1) + 1
      BY <3>1, <3>2, ExtensionIs
    <3>4. QED
      BY <3>3
  <2>3. QED
    BY <1>2, <2>1, <2>2
<1>5. \A n \in 1 .. MaxDepth : Good(n)
  <2> DEFINE D == {n \in 1 .. MaxDepth : ~Good(n)}
  <2>1. ASSUME D # {}
        PROVE  FALSE
    <3> HIDE DEF Good
    <3>1. D \subseteq Nat
      OBVIOUS
    <3>2. PICK m \in D : \A k \in D : m <= k
      BY <2>1, <3>1, LeastExists
    <3>3. m # 1
      BY <1>3, <3>2
    <3>4. m \in 2 .. MaxDepth /\ m - 1 \in 1 .. MaxDepth /\ m - 1 \notin D
      BY <3>2, <3>3
    <3>5. QED
      BY <1>4, <3>2, <3>4
  <2>2. QED
    BY <2>1
<1>6. IsFiniteSet(Chains(graph, entries))
  <2> DEFINE levels == [n \in 2 .. MaxDepth |-> of[n]]
  <2>1. /\ {levels[n] : n \in 2 .. MaxDepth} = {of[n] : n \in 2 .. MaxDepth}
        /\ levels = [n \in 2 .. MaxDepth |-> levels[n]]
    OBVIOUS
  <2>2. \A T \in {of[n] : n \in 2 .. MaxDepth} : IsFiniteSet(T)
    BY <1>5
  <2>3. IsFiniteSet(2 .. MaxDepth)
    BY FS_Interval
  <2> HIDE DEF levels
  <2>4. IsFiniteSet({levels[n] : n \in 2 .. MaxDepth})
    BY <2>1, <2>3, ImageFinite
  <2>5. QED
    BY <1>1, <2>1, <2>2, <2>4, FS_UNION
<1>7. ASSUME NEW chain \in Chains(graph, entries)
      PROVE  /\ IsChain(functions, graph, entries, chain)
             /\ Len(chain) \in 2 .. MaxDepth
             /\ Len(chain) < MaxDepth => Extensions(graph, chain) \subseteq Chains(graph, entries)
  <2>1. PICK n \in 2 .. MaxDepth : chain \in of[n]
    BY <1>1
  <2>2. IsChain(functions, graph, entries, chain) /\ Len(chain) = n
    BY <1>5, <2>1
  <2>3. ASSUME n < MaxDepth
        PROVE  Extensions(graph, chain) \subseteq Chains(graph, entries)
    <3>1. n + 1 \in 2 .. MaxDepth /\ (n + 1) - 1 = n
      BY <2>3
    <3>2. of[n + 1] = Longer(graph, of[n])
      BY <1>2, <3>1
    <3>3. Extensions(graph, chain) \subseteq of[n + 1]
      BY <2>1, <3>2 DEF Longer
    <3>4. QED
      BY <1>1, <3>1, <3>3
  <2>4. QED
    BY <2>2, <2>3
<1>8. ASSUME NEW call \in graph, call[1] \in entries, call[1] # call[2]
      PROVE  call \in Chains(graph, entries)
  <2>1. call = <<call[1], call[2]>> /\ call[1] \in functions /\ call[2] \in functions
    OBVIOUS
  <2>2. <<call[1]>> \in of[1]
    BY <1>2, <1>8
  <2>3. call[2] \in Callees(graph, Last(<<call[1]>>)) \ ToSet(<<call[1]>>)
    BY <1>8 DEF Callees, Last, ToSet
  <2>4. Append(<<call[1]>>, call[2]) = call
    BY <2>1
  <2>5. call \in Extensions(graph, <<call[1]>>)
    BY <2>3, <2>4 DEF Extensions
  <2>6. 2 \in 2 .. MaxDepth /\ call \in of[2]
    <3>1. 2 \in 2 .. MaxDepth /\ 2 - 1 = 1
      OBVIOUS
    <3>2. of[2] = Longer(graph, of[1])
      BY <1>2, <3>1
    <3>3. QED
      BY <2>2, <2>5, <3>1, <3>2 DEF Longer
  <2>7. QED
    BY <1>1, <2>6
<1>9. QED
  BY <1>6, <1>7, <1>8

----------------------------------------------------------------------------
(* Scores count communities, as labels tell them apart.                    *)

Visits(communities, chain) == {i \in DOMAIN communities : communities[i] \cap ToSet(chain) # {}}

Labelled(functions, communities, labels) == [f \in functions |-> LabelOf(communities, labels, f)]

LabelsFit(communities, labels) ==
  /\ IsFiniteSet(DOMAIN communities)
  /\ DOMAIN labels = DOMAIN communities
  /\ IsInjective(labels)

LEMMA CrossingsCount ==
  ASSUME NEW functions, NEW communities, NEW labels, LabelsFit(communities, labels),
         NEW chain \in Seq(functions)
  PROVE  LET label  == Labelled(functions, communities, labels)
             visits == Visits(communities, chain)
         IN  /\ IsFiniteSet(visits) /\ Cardinality(visits) \in Nat
             /\ Crossings(chain, label) = IF Cardinality(visits) = 0 THEN 0 ELSE Cardinality(visits) - 1
<1> DEFINE label  == Labelled(functions, communities, labels)
           visits == Visits(communities, chain)
           seen   == UNION {label[f] : f \in ToSet(chain)}
           name   == [i \in visits |-> labels[i]]
<1>1. visits \in SUBSET DOMAIN communities
  BY DEF Visits
<1>2. IsFiniteSet(visits) /\ Cardinality(visits) \in Nat
  BY <1>1, FS_Subset, FS_CardinalityType DEF LabelsFit
<1>3. ToSet(chain) \subseteq functions
  BY DEF ToSet
<1>4. \A f \in functions : label[f] = {labels[i] : i \in {j \in DOMAIN communities : f \in communities[j]}}
  BY DEF Labelled, LabelOf
<1> HIDE DEF label
<1>5. \A f \in ToSet(chain) : \A l \in label[f] : \E i \in visits : labels[i] = l
  BY <1>3, <1>4 DEF Visits
<1>6. ASSUME NEW i \in visits
      PROVE  \E f \in ToSet(chain) : labels[i] \in label[f]
  <2>1. PICK f \in ToSet(chain) : f \in communities[i]
    BY DEF Visits
  <2>2. labels[i] \in label[f]
    BY <1>1, <1>3, <1>4, <2>1
  <2>3. QED
    BY <2>2
<1>7. name \in Bijection(visits, seen)
  <2>1. name \in [visits -> seen]
    BY <1>6
  <2>2. \A i, j \in visits : name[i] = name[j] => i = j
    BY <1>1 DEF LabelsFit, IsInjective
  <2>3. \A l \in seen : \E i \in visits : name[i] = l
    BY <1>5
  <2>4. QED
    BY <2>1, <2>2, <2>3 DEF Bijection, Injection, Surjection, IsInjective
<1>8. IsFiniteSet(seen) /\ Cardinality(seen) = Cardinality(visits)
  BY <1>2, <1>7, FS_Bijection DEF ExistsBijection
<1>9. seen = {} <=> Cardinality(seen) = 0
  BY <1>8, FS_EmptySet
<1>10. Crossings(chain, label) = IF seen = {} THEN 0 ELSE Cardinality(seen) - 1
  BY DEF Crossings
<1>11. QED
  BY <1>2, <1>8, <1>9, <1>10 DEF label

\* A chain's score is its length times the communities it enters after the first.
LEMMA ScoresAre ==
  ASSUME NEW functions, NEW communities, NEW labels, LabelsFit(communities, labels),
         NEW chain \in Seq(functions), Len(chain) # 0
  PROVE  LET label == Labelled(functions, communities, labels)
         IN  /\ Score(chain, label) \in Nat
             /\ Score(chain, label) > 0 <=> Cardinality(Visits(communities, chain)) >= 2
             /\ \A longer \in Seq(functions) :
                  Len(longer) > Len(chain) /\ ToSet(chain) \subseteq ToSet(longer) =>
                    (Score(chain, label) > 0 => Score(longer, label) > Score(chain, label))
<1> DEFINE label    == Labelled(functions, communities, labels)
           count(c) == Cardinality(Visits(communities, c))
<1> HIDE DEF label
<1>1. ASSUME NEW c \in Seq(functions)
      PROVE  /\ count(c) \in Nat /\ IsFiniteSet(Visits(communities, c))
             /\ Crossings(c, label) = IF count(c) = 0 THEN 0 ELSE count(c) - 1
             /\ Score(c, label) = Len(c) * Crossings(c, label)
             /\ Len(c) \in Nat
  BY <1>1, CrossingsCount DEF Score, label
<1>2. ASSUME NEW n \in Nat, NEW m \in Nat, NEW x \in Nat, NEW y \in Nat
      PROVE  /\ n * x \in Nat
             /\ n > 0 => (n * x > 0 <=> x > 0)
             /\ m > n /\ y >= x /\ n * x > 0 => m * y > n * x
  <2>1. n * x \in Nat /\ (n > 0 => (n * x > 0 <=> x > 0))
    OBVIOUS
  <2>2. ASSUME m > n, y >= x, n * x > 0
        PROVE  m * y > n * x
    <3>1. x > 0
      BY <2>2
    <3>2. PICK d \in Nat : m = n + 1 + d
      <4>1. m = n + 1 + (m - n - 1) /\ m - n - 1 \in Nat
        BY <2>2
      <4>2. QED
        BY <4>1
    <3>3. PICK e \in Nat : y = x + e
      <4>1. y = x + (y - x) /\ y - x \in Nat
        BY <2>2
      <4>2. QED
        BY <4>1
    <3>4. m * y = n * x + n * e + (1 + d) * (x + e)
      BY <3>2, <3>3
    <3>5. n * e \in Nat /\ (1 + d) * (x + e) > 0 /\ n * x \in Nat /\ (1 + d) * (x + e) \in Nat
      BY <3>1
    <3>6. QED
      BY <3>4, <3>5
  <2>3. QED
    BY <2>1, <2>2
<1>3. ASSUME NEW longer \in Seq(functions), ToSet(chain) \subseteq ToSet(longer)
      PROVE  Crossings(longer, label) >= Crossings(chain, label)
  <2>1. Visits(communities, chain) \in SUBSET Visits(communities, longer)
    BY <1>3 DEF Visits
  <2>2. count(chain) <= count(longer)
    BY <1>1, <2>1, FS_Subset
  <2>3. QED
    BY <1>1, <2>2
<1> HIDE DEF count
<1>4. \A c \in Seq(functions) : Crossings(c, label) \in Nat
  BY <1>1
<1>5. Score(chain, label) \in Nat /\ (Score(chain, label) > 0 <=> Crossings(chain, label) > 0)
  BY <1>1, <1>2, <1>4
<1>6. Crossings(chain, label) > 0 <=> count(chain) >= 2
  BY <1>1
<1>7. ASSUME NEW longer \in Seq(functions), Len(longer) > Len(chain), ToSet(chain) \subseteq ToSet(longer),
             Score(chain, label) > 0
      PROVE  Score(longer, label) > Score(chain, label)
  <2>1. Crossings(longer, label) >= Crossings(chain, label)
    BY <1>3, <1>7
  <2>2. Crossings(longer, label) \in Nat /\ Crossings(chain, label) \in Nat
    BY <1>4
  <2>3. Len(longer) \in Nat /\ Len(chain) \in Nat
    OBVIOUS
  <2>4. /\ Score(chain, label) = Len(chain) * Crossings(chain, label)
        /\ Score(longer, label) = Len(longer) * Crossings(longer, label)
    BY <1>1
  <2>5. Len(longer) * Crossings(longer, label) > Len(chain) * Crossings(chain, label)
    BY <1>2, <1>7, <2>1, <2>2, <2>3, <2>4
  <2>6. QED
    BY <2>4, <2>5
<1>8. QED
  BY <1>5, <1>6, <1>7 DEF label, count

----------------------------------------------------------------------------
(* Ranking and naming.                                                     *)

Scoring(chains, label) == {c \in chains : Score(c, label) > 0}

Ranking(chains, label) ==
  {p \in Scoring(chains, label) \X Scoring(chains, label) : RanksHigher(label, p[1], p[2])}

LEMMA RankingOrders ==
  ASSUME NEW chains \in SUBSET Seq(Nat), NEW label, \A c \in chains : Score(c, label) \in Nat
  PROVE  StrictOrder(Ranking(chains, label), Scoring(chains, label))
<1> DEFINE S == Scoring(chains, label)
           R == Ranking(chains, label)
<1>1. \A a, b \in S : <<a, b>> \in R <=> \/ Score(a, label) > Score(b, label)
                                         \/ Score(a, label) = Score(b, label) /\ AlphabeticallyBefore(a, b)
  BY DEF Ranking, RanksHigher, AlphabeticallyBefore
<1>2. S \subseteq Seq(Nat) /\ \A a \in S : Score(a, label) \in Nat
  BY DEF Scoring
<1> HIDE DEF S, R
<1>3. \A a \in S : <<a, a>> \notin R
  BY <1>1, <1>2, AlphabetOrders
<1>4. ASSUME NEW a \in S, NEW b \in S, NEW c \in S, <<a, b>> \in R, <<b, c>> \in R
      PROVE  <<a, c>> \in R
  <2>1. CASE Score(a, label) > Score(c, label)
    BY <1>1, <2>1
  <2>2. CASE ~(Score(a, label) > Score(c, label))
    <3>1. /\ Score(a, label) = Score(b, label) /\ Score(b, label) = Score(c, label)
          /\ AlphabeticallyBefore(a, b) /\ AlphabeticallyBefore(b, c)
      <4>1. /\ Score(a, label) \in Nat /\ Score(b, label) \in Nat /\ Score(c, label) \in Nat
        BY <1>2
      <4>2. \/ Score(a, label) > Score(b, label)
            \/ Score(a, label) = Score(b, label) /\ AlphabeticallyBefore(a, b)
        BY <1>1, <1>4
      <4>3. \/ Score(b, label) > Score(c, label)
            \/ Score(b, label) = Score(c, label) /\ AlphabeticallyBefore(b, c)
        BY <1>1, <1>4
      <4>4. QED
        BY <2>2, <4>1, <4>2, <4>3
    <3>2. a \in Seq(Nat) /\ b \in Seq(Nat) /\ c \in Seq(Nat)
      BY <1>2
    <3>3. AlphabeticallyBefore(a, c)
      BY <3>1, <3>2, AlphabetContinues
    <3>4. QED
      BY <1>1, <3>1, <3>3
  <2>3. QED
    BY <2>1, <2>2
<1>5. ASSUME NEW a \in S, NEW b \in S, a # b
      PROVE  <<a, b>> \in R \/ <<b, a>> \in R
  <2>1. a \in Seq(Nat) /\ b \in Seq(Nat)
    BY <1>2
  <2>2. AlphabeticallyBefore(a, b) \/ AlphabeticallyBefore(b, a)
    BY <1>5, <2>1, AlphabetOrders
  <2>3. QED
    BY <1>1, <1>2, <2>2
<1>6. QED
  BY <1>3, <1>4, <1>5 DEF StrictOrder, S, R

LEMMA RankedIs ==
  ASSUME NEW chains, NEW label
  PROVE  Ranked(chains, label) = Sorted(Ranking(chains, label), Scoring(chains, label))
<1> DEFINE S == Scoring(chains, label)
           R == Ranking(chains, label)
<1>1. \A x \in S : {y \in S : RanksHigher(label, y, x)} = Before(R, S, x)
  BY DEF Ranking, Before
<1>2. Ranked(chains, label) =
        [i \in 1 .. Cardinality(S) |->
           CHOOSE x \in S : Cardinality({y \in S : RanksHigher(label, y, x)}) = i - 1]
  BY DEF Ranked, InOrder, Scoring
<1>3. Sorted(R, S) =
        [i \in 1 .. Cardinality(S) |-> CHOOSE x \in S : Cardinality(Before(R, S, x)) = i - 1]
  BY DEF Sorted
<1> HIDE DEF S, R
<1>4. ASSUME NEW i \in 1 .. Cardinality(S)
      PROVE  (CHOOSE x \in S : Cardinality({y \in S : RanksHigher(label, y, x)}) = i - 1)
               = CHOOSE x \in S : Cardinality(Before(R, S, x)) = i - 1
  BY <1>1
<1>5. QED
  BY <1>2, <1>3, <1>4 DEF S, R

Kept(found) == {found[i].steps : i \in DOMAIN found}

LEMMA AppendToPair ==
  ASSUME NEW a, NEW b, NEW c
  PROVE  Append(<<a, b>>, c) = <<a, b, c>>
<1> DEFINE S == {a, b, c}
<1>1. a \in S /\ b \in S /\ c \in S
  OBVIOUS
<1> HIDE DEF S
<1>2. <<a, b>> \in Seq(S) /\ Len(<<a, b>>) = 2 /\ <<a, b, c>> \in Seq(S) /\ Len(<<a, b, c>>) = 3
  BY <1>1, ShortSeqs
<1>3. /\ Append(<<a, b>>, c) \in Seq(S)
      /\ Len(Append(<<a, b>>, c)) = 3
      /\ Append(<<a, b>>, c)[1] = a /\ Append(<<a, b>>, c)[2] = b /\ Append(<<a, b>>, c)[3] = c
  BY <1>1, <1>2, AppendProperties
<1>4. \A i \in 1 .. 3 : Append(<<a, b>>, c)[i] = <<a, b, c>>[i]
  <2>1. 1 .. 3 = {1, 2, 3}
    OBVIOUS
  <2>2. QED
    BY <1>3, <2>1
<1>5. QED
  BY <1>2, <1>3, <1>4, SeqEqual

\* The processes are the best scoring chains, each once; one that scores more than a kept
\* one is kept, and all are while there is room.
LEMMA KeptAre ==
  ASSUME NEW chains \in SUBSET Seq(Nat), IsFiniteSet(chains),
         NEW label, \A c \in chains : Score(c, label) \in Nat, NEW short
  PROVE  LET found == Processes(short, chains, label)
             kept  == Kept(found)
         IN  /\ Len(found) \in Nat /\ DOMAIN found = 1 .. Len(found) /\ Len(found) <= MaxProcesses
             /\ kept \subseteq Scoring(chains, label)
             /\ \A c \in kept : \A d \in Scoring(chains, label) :
                  Score(d, label) > Score(c, label) => d \in kept
             /\ Len(found) < MaxProcesses => Scoring(chains, label) \subseteq kept
             /\ \A i, j \in DOMAIN found : i # j => found[i].name # found[j].name
<1> USE MaxProcessesAssumption
<1> DEFINE S      == Scoring(chains, label)
           n      == Cardinality(S)
           ranked == Ranked(chains, label)
           k      == IF Len(ranked) < MaxProcesses THEN Len(ranked) ELSE MaxProcesses
           top    == SubSeq(ranked, 1, k)
           found  == Processes(short, chains, label)
           count(i) == Cardinality({j \in 1 .. i : Name(short, top[j]) = Name(short, top[i])})
<1>1. IsFiniteSet(S) /\ S \in SUBSET chains
  <2>1. S \in SUBSET chains
    BY DEF Scoring
  <2>2. QED
    BY <2>1, FS_Subset
<1>2. /\ n \in Nat
      /\ ranked \in [1 .. n -> S]
      /\ \A x \in S : \E i \in 1 .. n : ranked[i] = x
      /\ \A i, j \in 1 .. n : <<ranked[i], ranked[j]>> \in Ranking(chains, label) <=> i < j
  <2>1. StrictOrder(Ranking(chains, label), S)
    BY RankingOrders
  <2>2. ranked = Sorted(Ranking(chains, label), S)
    BY RankedIs
  <2> HIDE DEF S, ranked
  <2>3. QED
    BY <1>1, <2>1, <2>2, SortedIs
<1> HIDE DEF S, n, ranked
<1>3. ranked \in Seq(S) /\ Len(ranked) = n
  BY <1>2
<1>4. k \in Nat /\ k <= n /\ k <= MaxProcesses /\ (k < MaxProcesses => k = n)
  BY <1>2, <1>3
<1> HIDE DEF k
<1>5. top \in Seq(S) /\ Len(top) = k /\ \A i \in 1 .. k : top[i] = ranked[i]
  BY <1>2, <1>3, <1>4
<1>6. found = [i \in 1 .. k |-> [name |-> Append(Name(short, top[i]), count(i)), steps |-> top[i]]]
  <2>1. DOMAIN top = 1 .. k
    BY <1>5
  <2>2. QED
    BY <2>1 DEF Processes, ranked, top, k
<1> HIDE DEF top, found
<1>7. Len(found) = k /\ DOMAIN found = 1 .. k
  BY <1>4, <1>6
<1>8. \A i \in 1 .. k : found[i].steps = ranked[i] /\ found[i].name = Append(Name(short, top[i]), count(i))
  BY <1>5, <1>6
<1> DEFINE kept == Kept(found)
<1>9. kept = {ranked[i] : i \in 1 .. k}
  BY <1>7, <1>8 DEF Kept
<1> HIDE DEF kept
<1>10. kept \subseteq S
  BY <1>2, <1>4, <1>9
<1>11. ASSUME NEW c \in kept, NEW d \in S, Score(d, label) > Score(c, label)
       PROVE  d \in kept
  <2>1. PICK i \in 1 .. k : c = ranked[i]
    BY <1>9
  <2>2. PICK j \in 1 .. n : d = ranked[j]
    BY <1>2
  <2>3. <<d, c>> \in Ranking(chains, label)
    BY <1>10, <1>11 DEF Ranking, RanksHigher, S
  <2>4. j < i
    BY <1>2, <1>4, <2>1, <2>2, <2>3
  <2>5. j \in 1 .. k
    BY <1>2, <1>4, <2>1, <2>2, <2>4
  <2>6. QED
    BY <1>9, <2>2, <2>5
<1>12. k < MaxProcesses => S \subseteq kept
  BY <1>2, <1>4, <1>9
<1>13. ASSUME NEW i \in 1 .. k, NEW j \in 1 .. k, i < j
       PROVE  found[i].name # found[j].name
  <2> DEFINE alike(m) == {l \in 1 .. m : Name(short, top[l]) = Name(short, top[m])}
  <2>0. \A m \in 1 .. k : count(m) = Cardinality(alike(m))
    OBVIOUS
  <2>1. \A m \in 1 .. k : IsFiniteSet(alike(m)) /\ Cardinality(alike(m)) \in Nat
    <3>1. ASSUME NEW m \in 1 .. k
          PROVE  IsFiniteSet(alike(m)) /\ Cardinality(alike(m)) \in Nat
      <4>1. IsFiniteSet(1 .. m) /\ alike(m) \in SUBSET (1 .. m)
        BY <1>4, FS_Interval
      <4>2. QED
        BY <4>1, FS_Subset, FS_CardinalityType
    <3>2. QED
      BY <3>1
  <2>2. ASSUME Name(short, top[i]) = Name(short, top[j])
        PROVE  count(i) < count(j)
    <3>1. alike(i) \in SUBSET alike(j)
      BY <1>4, <1>13, <2>2
    <3>2. j \in alike(j) /\ j \notin alike(i)
      BY <1>4, <1>13
    <3>3. /\ Cardinality(alike(i)) <= Cardinality(alike(j))
          /\ Cardinality(alike(i)) # Cardinality(alike(j))
      BY <2>1, <3>1, <3>2, FS_Subset
    <3> HIDE DEF count, alike
    <3>4. QED
      BY <2>0, <2>1, <3>3
  <2> HIDE DEF count
  <2>3. \A m \in 1 .. k : \E a, b : Name(short, top[m]) = <<a, b>>
    BY DEF Name
  <2>4. PICK a, b, c, d : Name(short, top[i]) = <<a, b>> /\ Name(short, top[j]) = <<c, d>>
    BY <2>3
  <2>5. /\ Append(<<a, b>>, count(i)) = <<a, b, count(i)>>
        /\ Append(<<c, d>>, count(j)) = <<c, d, count(j)>>
    BY AppendToPair
  <2>6. count(i) \in Nat /\ count(j) \in Nat
    BY <2>0, <2>1
  <2>7. ASSUME found[i].name = found[j].name
        PROVE  FALSE
    <3>1. <<a, b, count(i)>> = <<c, d, count(j)>>
      BY <1>8, <2>4, <2>5, <2>7
    <3>2. a = c /\ b = d /\ count(i) = count(j)
      BY <3>1
    <3>3. QED
      BY <2>2, <2>4, <2>6, <3>2
  <2>8. QED
    BY <2>7
<1>14. \A i, j \in 1 .. k : i # j => found[i].name # found[j].name
  <2>1. ASSUME NEW i \in 1 .. k, NEW j \in 1 .. k, i # j
        PROVE  found[i].name # found[j].name
    <3>1. i < j \/ j < i
      BY <1>4, <2>1
    <3>2. QED
      BY <1>13, <3>1
  <2>2. QED
    BY <2>1
<1>15. QED
  BY <1>4, <1>7, <1>10, <1>11, <1>12, <1>14 DEF found, S, kept

LEMMA EntriesAreFunctions ==
  ASSUME NEW functions, NEW graph
  PROVE  EntryPoints(functions, graph) \in SUBSET functions
  BY DEF EntryPoints

LEMMA ProcessesMade ==
  ASSUME NEW functions \in SUBSET Nat, IsFiniteSet(functions), NEW T, NEW calls \in SUBSET (T \X T),
         NEW short, NEW communities, NEW labels, LabelsFit(communities, labels)
  PROVE  ProcessesBestFor(functions, calls, short, communities, labels)
<1> DEFINE label   == Labelled(functions, communities, labels)
           graph   == CallGraph(functions, calls)
           entries == EntryPoints(functions, graph)
           chains  == Chains(graph, entries)
           found   == Processes(short, chains, label)
           kept    == Kept(found)
           visits(chain) == Visits(communities, chain)
<1>1. /\ graph \subseteq functions \X functions /\ graph \subseteq calls
      /\ \A call \in graph : call[1] # call[2]
  BY DEF CallGraph
<1>2. entries \in SUBSET functions
  BY EntriesAreFunctions
<1> HIDE DEF graph, entries
<1>3. /\ IsFiniteSet(chains)
      /\ \A chain \in chains : /\ IsChain(functions, graph, entries, chain)
                               /\ Len(chain) \in 2 .. MaxDepth
                               /\ Len(chain) < MaxDepth => Extensions(graph, chain) \subseteq chains
      /\ \A call \in graph : call[1] \in entries => call \in chains
  BY <1>1, <1>2, ChainsAre
<1> HIDE DEF chains
<1>4. \A chain \in chains : chain \in Seq(functions) /\ Len(chain) # 0 /\ chain \in Seq(Nat)
  BY <1>3 DEF IsChain
<1>5. \A chain \in chains :
        /\ Score(chain, label) \in Nat
        /\ Score(chain, label) > 0 <=> Cardinality(visits(chain)) >= 2
        /\ \A longer \in Seq(functions) :
             Len(longer) > Len(chain) /\ ToSet(chain) \subseteq ToSet(longer) =>
               (Score(chain, label) > 0 => Score(longer, label) > Score(chain, label))
  BY <1>4, ScoresAre
<1> HIDE DEF label
<1>6. chains \in SUBSET Seq(Nat) /\ \A chain \in chains : Score(chain, label) \in Nat
  BY <1>4, <1>5
<1>7. /\ Len(found) <= MaxProcesses
      /\ kept \subseteq Scoring(chains, label)
      /\ \A c \in kept : \A d \in Scoring(chains, label) :
           Score(d, label) > Score(c, label) => d \in kept
      /\ Len(found) < MaxProcesses => Scoring(chains, label) \subseteq kept
      /\ \A i, j \in DOMAIN found : i # j => found[i].name # found[j].name
  <2>1. IsFiniteSet(chains)
    BY <1>3
  <2>2. chains \in SUBSET Seq(Nat)
    BY <1>6
  <2>3. \A c \in chains : Score(c, label) \in Nat
    BY <1>6
  <2>4. QED
    BY <2>1, <2>2, <2>3, KeptAre
<1> HIDE DEF found, kept
<1>8. \A chain : chain \in Scoring(chains, label) <=> chain \in chains /\ Cardinality(visits(chain)) >= 2
  BY <1>5 DEF Scoring
<1> HIDE DEF visits
<1>9. ASSUME NEW chain \in kept
      PROVE  /\ chain[1] \in entries /\ IsInjective(chain) /\ Cardinality(visits(chain)) >= 2
             /\ \A i \in 1 .. Len(chain) - 1 : <<chain[i], chain[i + 1]>> \in calls
             /\ Len(chain) < MaxDepth => Extensions(graph, chain) \subseteq kept
  <2>1. chain \in chains /\ Cardinality(visits(chain)) >= 2
    BY <1>7, <1>8
  <2>2. chain[1] \in entries /\ IsInjective(chain)
    BY <1>3, <2>1 DEF IsChain
  <2>3. \A i \in 1 .. Len(chain) - 1 : <<chain[i], chain[i + 1]>> \in calls
    BY <1>1, <1>3, <2>1 DEF IsChain
  <2>4. ASSUME Len(chain) < MaxDepth, NEW longer \in Extensions(graph, chain)
        PROVE  longer \in kept
    <3>1. longer \in chains
      BY <1>3, <2>1, <2>4
    <3>2. IsChain(functions, graph, entries, chain)
      BY <1>3, <2>1
    <3>3. /\ IsChain(functions, graph, entries, longer)
          /\ Len(longer) = Len(chain) + 1
          /\ ToSet(chain) \subseteq ToSet(longer)
      <4>1. graph \subseteq functions \X functions /\ longer \in Extensions(graph, chain)
        BY <1>1, <2>4
      <4>2. QED
        BY <3>2, <4>1, ExtensionIs
    <3>4. longer \in Seq(functions) /\ Len(chain) \in Nat
      BY <1>3, <1>4, <2>1, <3>1
    <3>5. Score(chain, label) \in Nat /\ Score(chain, label) > 0
      BY <1>5, <1>7, <2>1 DEF Scoring
    <3>6. Score(longer, label) > Score(chain, label)
      BY <1>5, <2>1, <3>3, <3>4, <3>5
    <3>7. longer \in Scoring(chains, label)
      BY <1>6, <3>1, <3>5, <3>6 DEF Scoring
    <3>8. QED
      BY <1>7, <3>6, <3>7
  <2>5. QED
    BY <2>1, <2>2, <2>3, <2>4
<1>10. ASSUME Len(found) < MaxProcesses, NEW call \in graph, call[1] \in entries,
              Cardinality(visits(call)) = 2
       PROVE  call \in kept
  BY <1>3, <1>7, <1>8, <1>10
<1>11. ProcessesBestFor(functions, calls, short, communities, labels) <=>
         /\ Len(found) <= MaxProcesses
         /\ \A i, j \in DOMAIN found : i # j => found[i].name # found[j].name
         /\ \A chain \in kept :
              /\ chain[1] \in entries /\ IsInjective(chain) /\ Cardinality(visits(chain)) >= 2
              /\ \A i \in 1 .. (Len(chain) - 1) : <<chain[i], chain[i + 1]>> \in calls
              /\ Len(chain) < MaxDepth => Extensions(graph, chain) \subseteq kept
         /\ Len(found) < MaxProcesses =>
              \A call \in graph :
                call[1] \in entries /\ Cardinality(visits(call)) = 2 => call \in kept
  BY DEF ProcessesBestFor, Kept, Labelled, Visits, label, graph, entries, chains, found, kept, visits
<1>12. QED
  BY <1>7, <1>9, <1>10, <1>11

----------------------------------------------------------------------------
(* The labels of communities.                                              *)

Times(words, w) == Cardinality({i \in DOMAIN words : words[i] = w})

FirstAt(words, w) == SelectInSeq(words, LAMBDA x : x = w)

Commoner(words, v, w) ==
  \/ Times(words, v) > Times(words, w)
  \/ Times(words, v) = Times(words, w) /\ FirstAt(words, v) < FirstAt(words, w)

Commonness(words) ==
  {p \in ToSet(words) \X ToSet(words) : Commoner(words, p[1], p[2])}

LEMMA WordsCount ==
  ASSUME NEW W, NEW words \in Seq(W), NEW w \in ToSet(words)
  PROVE  /\ Times(words, w) \in Nat
         /\ FirstAt(words, w) \in DOMAIN words /\ words[FirstAt(words, w)] = w
<1> DEFINE I == {i \in 1 .. Len(words) : words[i] = w}
<1>1. IsFiniteSet(DOMAIN words)
  BY FS_Interval, Len(words) \in Nat, DOMAIN words = 1 .. Len(words)
<1>2. {i \in DOMAIN words : words[i] = w} \in SUBSET DOMAIN words
  OBVIOUS
<1>3. Times(words, w) \in Nat
  BY <1>1, <1>2, FS_Subset, FS_CardinalityType DEF Times
<1>4. I \subseteq Nat /\ I # {}
  BY DEF ToSet
<1>5. FirstAt(words, w) = Min(I)
  BY <1>4 DEF FirstAt, SelectInSeq
<1>6. Min(I) \in I
  BY <1>4, LeastOf
<1>7. QED
  BY <1>3, <1>5, <1>6

\* A community's words by how common they are: its own words only.
LEMMA MostCommonAre ==
  ASSUME NEW W, NEW words \in Seq(W)
  PROVE  MostCommon(words) \in Seq(ToSet(words))
<1> DEFINE S == ToSet(words)
           R == Commonness(words)
<1>1. IsFiniteSet(S)
  <2>1. IsFiniteSet(DOMAIN words)
    BY FS_Interval, Len(words) \in Nat, DOMAIN words = 1 .. Len(words)
  <2>2. words = [i \in DOMAIN words |-> words[i]] /\ S = {words[i] : i \in DOMAIN words}
    BY DEF ToSet
  <2>3. QED
    BY <2>1, <2>2, ImageFinite
<1>2. \A v, w \in S : <<v, w>> \in R <=> Commoner(words, v, w)
  BY DEF Commonness
<1>3. \A w \in S : Times(words, w) \in Nat /\ FirstAt(words, w) \in Nat
  BY WordsCount, DOMAIN words = 1 .. Len(words)
<1>4. \A v, w \in S : FirstAt(words, v) = FirstAt(words, w) => v = w
  BY WordsCount
<1>5. MostCommon(words) =
        [i \in 1 .. Cardinality(S) |->
           CHOOSE x \in S : Cardinality({y \in S : Commoner(words, y, x)}) = i - 1]
  BY DEF MostCommon, InOrder, Commoner, Times, FirstAt
<1>6. \A x \in S : {y \in S : Commoner(words, y, x)} = Before(R, S, x)
  BY <1>2 DEF Before
<1> HIDE DEF S, R
<1>7. StrictOrder(R, S)
  BY <1>2, <1>3, <1>4 DEF StrictOrder, Commoner
<1>8. /\ Sorted(R, S) \in [1 .. Cardinality(S) -> S]
      /\ Cardinality(S) \in Nat
  BY <1>1, <1>7, SortedIs
<1>9. ASSUME NEW i \in 1 .. Cardinality(S)
      PROVE  (CHOOSE x \in S : Cardinality({y \in S : Commoner(words, y, x)}) = i - 1)
               = CHOOSE x \in S : Cardinality(Before(R, S, x)) = i - 1
  BY <1>6
<1>10. Sorted(R, S) =
         [i \in 1 .. Cardinality(S) |-> CHOOSE x \in S : Cardinality(Before(R, S, x)) = i - 1]
  BY DEF Sorted
<1>11. MostCommon(words) = Sorted(R, S)
  BY <1>5, <1>9, <1>10
<1>12. QED
  BY <1>8, <1>11 DEF S

\* A label is the community's number, or some of its words, then one not in use.
LEMMA LabelIs ==
  ASSUME NEW W, NEW ranked \in Seq(W), NEW used, NEW index
  PROVE  LET label == LabelFrom(ranked, used, index)
         IN  \/ label = Numbered(index)
             \/ label \notin used /\ label.number = {} /\ label \in [words : Seq(W), number : {{}}]
<1> DEFINE tried == Tried(ranked)
           I == {i \in 1 .. Len(tried) : tried[i] \notin used}
           free == SelectInSeq(tried, LAMBDA label : label \notin used)
<1>1. DOMAIN tried = 1 .. Len(ranked)
  BY DEF Tried
<1>2. \A i \in 1 .. Len(ranked) : /\ tried[i].number = {}
                                  /\ tried[i] \in [words : Seq(W), number : {{}}]
  <2>1. ASSUME NEW i \in 1 .. Len(ranked)
        PROVE  tried[i].number = {} /\ tried[i] \in [words : Seq(W), number : {{}}]
    <3>1. ranked[1] \in W /\ ranked[i] \in W
      OBVIOUS
    <3>2. <<ranked[1]>> \in Seq(W) /\ <<ranked[1], ranked[i]>> \in Seq(W)
      BY <3>1
    <3>3. tried[i] = Worded(IF i = 1 THEN <<ranked[1]>> ELSE <<ranked[1], ranked[i]>>)
      BY DEF Tried
    <3>4. PICK words \in Seq(W) : tried[i] = Worded(words)
      BY <3>2, <3>3
    <3>5. QED
      BY <3>4 DEF Worded
  <2>2. QED
    BY <2>1
<1>3. tried \in Seq([words : Seq(W), number : {{}}]) /\ Len(tried) = Len(ranked)
  <2>1. tried = [i \in 1 .. Len(ranked) |-> tried[i]]
    BY DEF Tried
  <2>2. tried \in [1 .. Len(ranked) -> [words : Seq(W), number : {{}}]]
    BY <1>2, <2>1
  <2>3. \A T : \A f \in [1 .. Len(ranked) -> T] : f \in Seq(T) /\ Len(f) = Len(ranked)
    OBVIOUS
  <2> HIDE DEF tried
  <2>4. QED
    BY <2>2, <2>3
<1>4. free = IF I # {} THEN Min(I) ELSE 0
  BY DEF SelectInSeq
<1>5. I \subseteq Nat
  OBVIOUS
<1>6. free # 0 => free \in I
  BY <1>4, <1>5, LeastOf
<1>7. LabelFrom(ranked, used, index) = IF free = 0 THEN Numbered(index) ELSE tried[free]
  BY DEF LabelFrom
<1> HIDE DEF tried, free
<1>8. QED
  BY <1>2, <1>3, <1>6, <1>7

\* The words of a community are those of its members.
LEMMA WordsAre ==
  ASSUME NEW W, NEW members \in SUBSET Nat, IsFiniteSet(members), NEW tokens,
         \A f \in members : tokens[f] \in Seq(W)
  PROVE  Words(tokens, members) \in Seq(W)
<1> DEFINE R == {p \in members \X members : p[1] < p[2]}
           n == Cardinality(members)
           order == InOrder(members, <)
           F == [p \in Seq(W) \X (1 .. n) |-> p[1] \o tokens[order[p[2]]]]
           Iterates(g) == g = [S \in SUBSET (1 .. n) |->
                                 IF S = {} THEN <<>> ELSE g[S \ {Max(S)}] \o tokens[order[Max(S)]]]
<1>1. n \in Nat /\ order \in [1 .. n -> members]
  <2>1. StrictOrder(R, members)
    BY DEF StrictOrder
  <2>2. n \in Nat /\ Sorted(R, members) \in [1 .. n -> members]
    BY <2>1, SortedIs
  <2>3. \A x \in members : {y \in members : y < x} = Before(R, members, x)
    BY DEF Before
  <2>4. order = [i \in 1 .. n |-> CHOOSE x \in members : Cardinality({y \in members : y < x}) = i - 1]
    BY DEF InOrder
  <2>5. Sorted(R, members) =
          [i \in 1 .. n |-> CHOOSE x \in members : Cardinality(Before(R, members, x)) = i - 1]
    BY DEF Sorted
  <2> HIDE DEF R, n, order
  <2>6. ASSUME NEW i \in 1 .. n
        PROVE  (CHOOSE x \in members : Cardinality({y \in members : y < x}) = i - 1)
                 = CHOOSE x \in members : Cardinality(Before(R, members, x)) = i - 1
    BY <2>3
  <2>7. QED
    BY <2>2, <2>4, <2>5, <2>6
<1>2. Words(tokens, members) = FoldLeft(LAMBDA words, f : words \o tokens[f], <<>>, order)
  BY DEF Words
<1> HIDE DEF n, order
<1>3. F \in [Seq(W) \X (1 .. n) -> Seq(W)]
  <2>1. ASSUME NEW w \in Seq(W), NEW i \in 1 .. n
        PROVE  w \o tokens[order[i]] \in Seq(W)
    <3>1. tokens[order[i]] \in Seq(W)
      BY <1>1
    <3>2. QED
      BY <3>1
  <2>2. QED
    BY <2>1
<1>4. <<>> \in Seq(W)
  OBVIOUS
<1>5. PICK g : Folds(Seq(W), <<>>, F, g, n)
  BY <1>1, <1>3, <1>4, FoldExists
<1>6. Iterates(g)
  <2>1. ASSUME NEW S \in SUBSET (1 .. n), S # {}
        PROVE  F[<<g[S \ {Max(S)}], Max(S)>>] = g[S \ {Max(S)}] \o tokens[order[Max(S)]]
    <3>1. g[S \ {Max(S)}] \in Seq(W) /\ Max(S) \in 1 .. n
      BY <1>1, <1>5, <2>1, MaxOf DEF Folds
    <3>2. QED
      BY <3>1
  <2>2. QED
    BY <1>5, <2>1 DEF Folds
<1> DEFINE chosen == CHOOSE f : Iterates(f)
<1>7. Iterates(chosen)
  BY <1>6
<1>8. Words(tokens, members) = chosen[1 .. n]
  <2>1. DOMAIN order = 1 .. n
    BY <1>1
  <2>2. QED
    BY <1>2, <2>1 DEF FoldLeft, MapThenFoldSet
<1> HIDE DEF chosen
<1>9. FoldsWithin(Seq(W), <<>>, F, chosen, n)
  <2>1. chosen[{}] = <<>>
    BY <1>7
  <2>2. ASSUME NEW S \in SUBSET (1 .. n), S # {}, chosen[S \ {Max(S)}] \in Seq(W)
        PROVE  chosen[S] = F[<<chosen[S \ {Max(S)}], Max(S)>>]
    <3>1. chosen[S] = chosen[S \ {Max(S)}] \o tokens[order[Max(S)]] /\ Max(S) \in 1 .. n
      BY <1>1, <1>7, <2>2, MaxOf
    <3>2. QED
      BY <2>2, <3>1
  <2>3. QED
    BY <2>1, <2>2 DEF FoldsWithin
<1> HIDE DEF F
<1>10. PICK at : StepByStep(Seq(W), <<>>, F, chosen, n, at)
  BY <1>1, <1>3, <1>4, <1>9, FoldSteps
<1>11. n \in 0 .. n
  BY <1>1
<1>12. QED
  BY <1>8, <1>10, <1>11 DEF StepByStep

\* Of disjointness nothing is needed: any sequence of finite sets of members with words.
Worked(W, tokens, communities) ==
  /\ communities \in Seq(SUBSET Nat)
  /\ \A i \in DOMAIN communities :
       IsFiniteSet(communities[i]) /\ \A f \in communities[i] : tokens[f] \in Seq(W)

\* The labels so far: each is numbered for its community, or made of its words, and no two are one.
LabelsSoFar(W, tokens, communities, labels, k) ==
  /\ Len(labels) = k
  /\ \A i, j \in 1 .. k : i # j => labels[i] # labels[j]
  /\ \A i \in 1 .. k : \/ labels[i] = Numbered(i - 1)
                       \/ /\ labels[i].number = {}
                          /\ ToSet(labels[i].words) \subseteq ToSet(Words(tokens, communities[i]))

LEMMA LabelsMade ==
  ASSUME NEW W, NEW tokens, NEW communities, Worked(W, tokens, communities)
  PROVE  /\ LabelsTellApartFor(tokens, communities)
         /\ LabelsFit(communities, Labels(tokens, communities))
<1> DEFINE n == Len(communities)
           L == [words : Seq(W \cup {"cluster"}), number : SUBSET Nat]
           V == Seq(L)
           next(labels, i) == LabelFrom(MostCommon(Words(tokens, communities[i])), ToSet(labels), i - 1)
           F == [p \in V \X (1 .. n) |-> Append(p[1], next(p[1], p[2]))]
           Iterates(g) == g = [S \in SUBSET (1 .. n) |->
                                 IF S = {} THEN <<>>
                                 ELSE Append(g[S \ {Max(S)}], next(g[S \ {Max(S)}], Max(S)))]
           Good(labels, k) == LabelsSoFar(W, tokens, communities, labels, k)
           all == Labels(tokens, communities)
<1>1. n \in Nat /\ DOMAIN communities = 1 .. n
  BY DEF Worked
<1>2. ASSUME NEW i \in 1 .. n, NEW labels
      PROVE  \/ next(labels, i) = Numbered(i - 1)
             \/ /\ next(labels, i) \notin ToSet(labels)
                /\ next(labels, i).number = {}
                /\ next(labels, i) \in [words : Seq(ToSet(Words(tokens, communities[i]))), number : {{}}]
  <2>1. Words(tokens, communities[i]) \in Seq(W)
    BY <1>1, WordsAre DEF Worked
  <2>2. MostCommon(Words(tokens, communities[i])) \in Seq(ToSet(Words(tokens, communities[i])))
    BY <2>1, MostCommonAre
  <2>3. QED
    BY <2>2, LabelIs
<1>3. ASSUME NEW i \in 1 .. n, NEW labels
      PROVE  next(labels, i) \in L
  <2>1. CASE next(labels, i) = Numbered(i - 1)
    <3>1. <<"cluster">> \in Seq(W \cup {"cluster"}) /\ {i - 1} \in SUBSET Nat
      OBVIOUS
    <3> HIDE DEF next
    <3>2. QED
      BY <2>1, <3>1 DEF Numbered
  <2>2. CASE next(labels, i) \in [words : Seq(ToSet(Words(tokens, communities[i]))), number : {{}}]
    <3>1. Words(tokens, communities[i]) \in Seq(W)
      BY <1>1, WordsAre DEF Worked
    <3>2. ToSet(Words(tokens, communities[i])) \subseteq W \cup {"cluster"}
      BY <3>1 DEF ToSet
    <3>3. Seq(ToSet(Words(tokens, communities[i]))) \subseteq Seq(W \cup {"cluster"})
      BY <3>2
    <3> HIDE DEF next
    <3>4. QED
      BY <2>2, <3>3
  <2>3. QED
    BY <1>2, <2>1, <2>2
<1> HIDE DEF L, next
<1>4. F \in [V \X (1 .. n) -> V]
  BY <1>3
<1>5. <<>> \in V
  OBVIOUS
<1>6. PICK g : Folds(V, <<>>, F, g, n)
  BY <1>1, <1>4, <1>5, FoldExists
<1>7. Iterates(g)
  <2>1. ASSUME NEW S \in SUBSET (1 .. n), S # {}
        PROVE  F[<<g[S \ {Max(S)}], Max(S)>>] = Append(g[S \ {Max(S)}], next(g[S \ {Max(S)}], Max(S)))
    <3>1. g[S \ {Max(S)}] \in V /\ Max(S) \in 1 .. n
      BY <1>1, <1>6, <2>1, MaxOf DEF Folds
    <3>2. QED
      BY <3>1
  <2>2. QED
    BY <1>6, <2>1 DEF Folds
<1> DEFINE chosen == CHOOSE f : Iterates(f)
<1>8. Iterates(chosen)
  BY <1>7
<1>9. all = chosen[1 .. n]
  <2> DEFINE turns == [i \in DOMAIN communities |-> i]
  <2>1. DOMAIN turns = 1 .. n /\ \A i \in 1 .. n : turns[i] = i
    BY <1>1
  <2>2. all = FoldLeft(LAMBDA labels, i : Append(labels, next(labels, i)), <<>>, turns)
    BY DEF Labels, FoldLeftDomain, next
  <2> HIDE DEF turns, all
  <2>3. \A S \in SUBSET (1 .. n) : S # {} => turns[Max(S)] = Max(S)
    BY <1>1, <2>1, MaxOf
  <2> DEFINE Turns(f) == f = [S \in SUBSET (1 .. n) |->
                                IF S = {} THEN <<>>
                                ELSE Append(f[S \ {Max(S)}], next(f[S \ {Max(S)}], turns[Max(S)]))]
  <2>4. all = (CHOOSE f : Turns(f))[1 .. n]
    BY <2>1, <2>2 DEF FoldLeft, MapThenFoldSet
  <2>5. ASSUME NEW f
        PROVE  Turns(f) <=> Iterates(f)
    BY <2>3
  <2>6. (CHOOSE f : Turns(f)) = chosen
    BY <2>5
  <2>7. QED
    BY <2>4, <2>6
<1> HIDE DEF chosen
<1>10. FoldsWithin(V, <<>>, F, chosen, n)
  <2>1. chosen[{}] = <<>>
    BY <1>8
  <2>2. ASSUME NEW S \in SUBSET (1 .. n), S # {}, chosen[S \ {Max(S)}] \in V
        PROVE  chosen[S] = F[<<chosen[S \ {Max(S)}], Max(S)>>]
    <3>1. /\ chosen[S] = Append(chosen[S \ {Max(S)}], next(chosen[S \ {Max(S)}], Max(S)))
          /\ Max(S) \in 1 .. n
      BY <1>1, <1>8, <2>2, MaxOf
    <3>2. QED
      BY <2>2, <3>1
  <2>3. QED
    BY <2>1, <2>2 DEF FoldsWithin
<1>11. PICK at : StepByStep(V, <<>>, F, chosen, n, at)
  <2> HIDE DEF F, V
  <2>1. QED
    BY <1>1, <1>4, <1>5, <1>10, FoldSteps
<1>12. \A k \in 0 .. (n - 1) : at[k] \in V /\ at[k + 1] = Append(at[k], next(at[k], k + 1))
  <2>1. \A k \in 0 .. (n - 1) : k \in 0 .. n /\ k + 1 \in 1 .. n
    BY <1>1
  <2>2. QED
    BY <1>11, <2>1 DEF StepByStep
<1>13. ASSUME NEW k \in 0 .. (n - 1), Good(at[k], k)
       PROVE  Good(at[k + 1], k + 1)
  <2> DEFINE before == at[k]
             label == next(before, k + 1)
  <2>1. /\ before \in Seq(L) /\ at[k + 1] = Append(before, label) /\ label \in L
        /\ k + 1 \in 1 .. n /\ k \in Nat
    BY <1>1, <1>3, <1>12
  <2>2. \/ label = Numbered((k + 1) - 1)
        \/ /\ label \notin ToSet(before)
           /\ label.number = {}
           /\ label.words \in Seq(ToSet(Words(tokens, communities[k + 1])))
    BY <1>2, <2>1
  <2> HIDE DEF before, label
  <2>3. /\ Len(before) = k
        /\ \A i, j \in 1 .. k : i # j => before[i] # before[j]
        /\ \A i \in 1 .. k : \/ before[i] = Numbered(i - 1)
                             \/ /\ before[i].number = {}
                                /\ ToSet(before[i].words) \subseteq ToSet(Words(tokens, communities[i]))
    BY <1>13 DEF LabelsSoFar, before
  <2>4. /\ Len(at[k + 1]) = k + 1
        /\ at[k + 1][k + 1] = label
        /\ \A i \in 1 .. k : at[k + 1][i] = before[i]
    BY <2>1, <2>3
  <2>5. \A i \in 1 .. k : before[i] # label
    <3>1. ASSUME NEW i \in 1 .. k, before[i] = label
          PROVE  FALSE
      <4>1. label \in ToSet(before)
        BY <2>1, <2>3, <3>1 DEF ToSet
      <4>2. label.number = {(k + 1) - 1}
        BY <2>2, <4>1 DEF Numbered
      <4>3. before[i].number = {i - 1} \/ before[i].number = {}
        BY <2>3 DEF Numbered
      <4>4. i - 1 # (k + 1) - 1
        OBVIOUS
      <4>5. QED
        BY <3>1, <4>2, <4>3, <4>4
    <3>2. QED
      BY <3>1
  <2>6. \A i \in 1 .. (k + 1) : i \in 1 .. k \/ i = k + 1
    BY <2>1
  <2>7. \/ label = Numbered((k + 1) - 1)
        \/ label.number = {} /\ ToSet(label.words) \subseteq ToSet(Words(tokens, communities[k + 1]))
    BY <2>2 DEF ToSet
  <2>8. \A i, j \in 1 .. (k + 1) : i # j => at[k + 1][i] # at[k + 1][j]
    BY <2>3, <2>4, <2>5, <2>6
  <2>9. \A i \in 1 .. (k + 1) :
          \/ at[k + 1][i] = Numbered(i - 1)
          \/ /\ at[k + 1][i].number = {}
             /\ ToSet(at[k + 1][i].words) \subseteq ToSet(Words(tokens, communities[i]))
    BY <2>3, <2>4, <2>6, <2>7
  <2>10. QED
    BY <2>4, <2>8, <2>9 DEF LabelsSoFar
<1>14. Good(at[0], 0)
  <2>1. at[0] = <<>>
    BY <1>11 DEF StepByStep
  <2>2. QED
    BY <2>1 DEF LabelsSoFar
<1> HIDE DEF Good
<1>15. Good(at[n], n)
  <2> DEFINE D == {k \in 0 .. n : ~Good(at[k], k)}
  <2>1. ASSUME D # {}
        PROVE  FALSE
    <3>1. D \subseteq Nat
      OBVIOUS
    <3>2. PICK k \in D : \A j \in D : k <= j
      BY <2>1, <3>1, LeastExists
    <3>3. k # 0
      BY <1>14, <3>2
    <3>4. k - 1 \in 0 .. (n - 1) /\ k - 1 \in 0 .. n /\ ~(k <= k - 1) /\ (k - 1) + 1 = k
      BY <1>1, <3>2, <3>3
    <3>5. Good(at[k - 1], k - 1)
      BY <3>2, <3>4
    <3>6. QED
      BY <1>13, <3>2, <3>4, <3>5
  <2>2. QED
    BY <1>1, <2>1
<1>16. all = at[n] /\ all \in V
  BY <1>1, <1>9, <1>11 DEF StepByStep
<1> HIDE DEF all
<1>17. LabelsSoFar(W, tokens, communities, all, n) /\ DOMAIN all = 1 .. n
  <2>1. LabelsSoFar(W, tokens, communities, all, n)
    BY <1>15, <1>16 DEF Good
  <2>2. Len(all) = n /\ DOMAIN all = 1 .. Len(all)
    BY <1>16, <2>1 DEF LabelsSoFar
  <2>3. QED
    BY <2>1, <2>2
<1>18. Len(all) = n /\ IsInjective(all)
  BY <1>17 DEF LabelsSoFar, IsInjective
<1>19. \A i \in DOMAIN communities :
         all[i].number = {} => ToSet(all[i].words) \subseteq ToSet(Words(tokens, communities[i]))
  <2>1. \A i \in 1 .. n : Numbered(i - 1).number # {}
    BY DEF Numbered
  <2>2. QED
    BY <1>1, <1>17, <2>1 DEF LabelsSoFar
<1>20. IsFiniteSet(DOMAIN communities)
  BY <1>1, FS_Interval
<1>21. QED
  BY <1>1, <1>17, <1>18, <1>19, <1>20 DEF LabelsTellApartFor, LabelsFit, all

----------------------------------------------------------------------------
(* What MCDecisions looks at is among what the lemmas are about.           *)

Called == case.of = "calls" => /\ case.communities \in Clusterings
                               /\ case.calls \in SUBSET (SmallFunctions \X SmallFunctions)

Said == case.of = "words" => /\ case.communities \in Clusterings
                             /\ case.tokens \in [SmallFunctions -> BoundedSeq({"v", "w"}, 2)]

LEMMA CalledAlways == Decisions => []Called /\ []Said
<1>1. Begin => Called /\ Said
  BY DEF Begin, Called, Said
<1>2. ASSUME Called, Said, [Decide]_case
      PROVE  Called' /\ Said'
  <2>1. CASE PickCalls
    <3>1. PICK communities \in Clusterings, calls \in SUBSET (SmallFunctions \X SmallFunctions) :
            case' = [of |-> "calls", communities |-> communities, calls |-> calls]
      BY <2>1 DEF PickCalls
    <3>2. QED
      BY <3>1 DEF Called, Said
  <2>2. CASE PickWords
    <3>1. PICK communities \in Clusterings, tokens \in [SmallFunctions -> BoundedSeq({"v", "w"}, 2)] :
            case' = [of |-> "words", communities |-> communities, tokens |-> tokens]
      BY <2>2 DEF PickWords
    <3>2. QED
      BY <3>1 DEF Called, Said
  <2>3. CASE PickPackages
    <3>1. case'.of = "packages"
      BY <2>3 DEF PickPackages
    <3>2. QED
      BY <3>1 DEF Called, Said
  <2>4. CASE PickAssessments
    <3>1. case'.of = "assessed"
      BY <2>4 DEF PickAssessments
    <3>2. QED
      BY <3>1 DEF Called, Said
  <2>5. CASE PickJudgements
    <3>1. case'.of = "judged"
      BY <2>5 DEF PickJudgements
    <3>2. QED
      BY <3>1 DEF Called, Said
  <2>6. CASE PickGate
    <3>1. case'.of = "gate"
      BY <2>6 DEF PickGate
    <3>2. QED
      BY <3>1 DEF Called, Said
  <2>7. CASE PickVerdict
    <3>1. case'.of = "verdict"
      BY <2>7 DEF PickVerdict
    <3>2. QED
      BY <3>1 DEF Called, Said
  <2>8. CASE PickReplies
    <3>1. case'.of = "replies"
      BY <2>8 DEF PickReplies
    <3>2. QED
      BY <3>1 DEF Called, Said
  <2>9. CASE PickScopes
    <3>1. case'.of = "scopes"
      BY <2>9 DEF PickScopes
    <3>2. QED
      BY <3>1 DEF Called, Said
  <2>10. CASE PickHierarchy
    <3>1. case'.of \in {"bases", "classes"}
      BY <2>10 DEF PickHierarchy
    <3>2. QED
      BY <3>1 DEF Called, Said
  <2>11. CASE UNCHANGED case
    BY <1>2, <2>11 DEF Called, Said
  <2>12. QED
    BY <1>2, <2>1, <2>2, <2>3, <2>4, <2>5, <2>6, <2>7, <2>8, <2>9, <2>10, <2>11 DEF Decide
<1>3. QED
  BY <1>1, <1>2, PTL DEF Decisions

LEMMA ClusteringsAre ==
  ASSUME NEW communities \in Clusterings, NEW tokens,
         tokens \in [SmallFunctions -> BoundedSeq({"v", "w"}, 2)]
  PROVE  Worked({"v", "w"}, tokens, communities)
<1>1. /\ DOMAIN communities \in {1 .. 1, 1 .. 2, 1 .. 3}
      /\ communities = [i \in DOMAIN communities |-> communities[i]]
      /\ \A i \in DOMAIN communities : communities[i] \in SUBSET SmallFunctions
  <2>1. communities \in {<<{1, 2}, {3, 4}>>, <<{1}, {2, 3}, {4}>>, <<{1, 3}, {2}>>, <<{1, 2, 3, 4}>>}
    BY DEF Clusterings
  <2>2. DOMAIN communities \in {1 .. 1, 1 .. 2, 1 .. 3} /\ communities = [i \in DOMAIN communities |-> communities[i]]
    BY <2>1
  <2>3. \A i \in DOMAIN communities : communities[i] \in SUBSET SmallFunctions
    BY DEF Clusterings, ToSet
  <2>4. QED
    BY <2>2, <2>3
<1>2. SmallFunctions \in SUBSET Nat /\ IsFiniteSet(SmallFunctions)
  BY MaxFunctionsAssumption, FS_Interval DEF SmallFunctions
<1>3. \A i \in DOMAIN communities : communities[i] \in SUBSET Nat /\ IsFiniteSet(communities[i])
  BY <1>1, <1>2, FS_Subset
<1>4. communities \in Seq(SUBSET Nat)
  <2>1. PICK n \in Nat : DOMAIN communities = 1 .. n
    BY <1>1
  <2>2. communities \in [1 .. n -> SUBSET Nat]
    BY <1>1, <1>3, <2>1
  <2>3. QED
    BY <2>2
<1>5. \A f \in SmallFunctions : tokens[f] \in Seq({"v", "w"})
  <2>1. BoundedSeq({"v", "w"}, 2) \subseteq Seq({"v", "w"})
    <3>1. ASSUME NEW words \in BoundedSeq({"v", "w"}, 2)
          PROVE  words \in Seq({"v", "w"})
      <4>1. PICK m \in 0 .. 2 : words \in [1 .. m -> {"v", "w"}]
        BY DEF BoundedSeq, SeqOf
      <4>2. m \in Nat
        OBVIOUS
      <4>3. QED
        BY <4>1, <4>2
    <3>2. QED
      BY <3>1
  <2>2. QED
    BY <2>1
<1>6. QED
  BY <1>1, <1>3, <1>4, <1>5 DEF Worked

\* Of any communities and any words in their members' names: every community has a label of its
\* own, and one that is not a number is made of its own members' words.
THEOREM LabelsCorrect ==
  /\ \A W, tokens, communities :
       Worked(W, tokens, communities) => LabelsTellApartFor(tokens, communities)
  /\ Decisions => []LabelsTellApart
<1>1. Said => LabelsTellApart
  <2> SUFFICES ASSUME case.communities \in Clusterings,
                      case.tokens \in [SmallFunctions -> BoundedSeq({"v", "w"}, 2)]
               PROVE  LabelsTellApartFor(case.tokens, case.communities)
    BY DEF Said, LabelsTellApart
  <2>1. Worked({"v", "w"}, case.tokens, case.communities)
    BY ClusteringsAre
  <2>2. QED
    BY <2>1, LabelsMade
<1>2. Decisions => []LabelsTellApart
  BY <1>1, CalledAlways, PTL
<1>3. QED
  BY <1>2, LabelsMade

LEMMA NumbersAreLabels ==
  ASSUME NEW communities \in Clusterings
  PROVE  LabelsFit(communities, [i \in DOMAIN communities |-> i])
<1>1. \E n \in Nat : DOMAIN communities = 1 .. n
  <2>1. \/ DOMAIN communities = 1 .. 2 \/ DOMAIN communities = 1 .. 3 \/ DOMAIN communities = 1 .. 1
    BY DEF Clusterings
  <2>2. QED
    BY <2>1
<1>2. IsFiniteSet(DOMAIN communities)
  BY <1>1, FS_Interval
<1>3. QED
  BY <1>2 DEF LabelsFit, IsInjective

\* Of any finite set of functions, whatever the calls and communities: a process is a path of
\* calls from an entry point through two communities at least, a kept chain's continuations
\* are kept, nothing is left out while there is room, and no two have one name.  That is so of
\* any labels that tell communities apart, those that _label_for gives among them.
THEOREM ProcessesCorrect ==
  /\ \A T, short, communities, labels :
       \A functions \in SUBSET Nat, calls \in SUBSET (T \X T) :
         IsFiniteSet(functions) /\ LabelsFit(communities, labels) =>
           ProcessesBestFor(functions, calls, short, communities, labels)
  /\ \A T, W, short, tokens, communities :
       \A functions \in SUBSET Nat, calls \in SUBSET (T \X T) :
         IsFiniteSet(functions) /\ Worked(W, tokens, communities) =>
           ProcessesBestFor(functions, calls, short, communities, Labels(tokens, communities))
  /\ Decisions => []ProcessesBest
<1>1. Called => ProcessesBest
  <2> SUFFICES ASSUME case.communities \in Clusterings,
                      case.calls \in SUBSET (SmallFunctions \X SmallFunctions)
               PROVE  ProcessesBestFor(SmallFunctions, case.calls, ShortNames, case.communities,
                                       [i \in DOMAIN case.communities |-> i])
    BY DEF Called, ProcessesBest
  <2>1. SmallFunctions \in SUBSET Nat /\ IsFiniteSet(SmallFunctions)
    BY MaxFunctionsAssumption, FS_Interval DEF SmallFunctions
  <2>2. LabelsFit(case.communities, [i \in DOMAIN case.communities |-> i])
    BY NumbersAreLabels
  <2>3. QED
    BY <2>1, <2>2, ProcessesMade
<1>2. Decisions => []ProcessesBest
  BY <1>1, CalledAlways, PTL
<1>3. QED
  BY <1>2, ProcessesMade, LabelsMade

=============================================================================
