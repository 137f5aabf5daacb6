----------------------- MODULE ScopeResolutionProofs -----------------------
(***************************************************************************)
(* Theorems about the tree of a file's scopes and the lookup of a line in  *)
(* it, for any finite set of scopes, and about the method that a call      *)
(* reaches through inheritance, for any finite set of classes.             *)
(***************************************************************************)
EXTENDS ProcessesProofs

----------------------------------------------------------------------------
(* A scope of a file covers lines, so it is not empty.                     *)

Valid(scopes) == scopes \in SUBSET {s \in [lo : Int, hi : Int, kind : {"class", "function"}] : s.lo < s.hi}

Empty == [ok |-> TRUE, stack |-> <<>>, parent |-> <<>>]

Trees(scopes) ==
  [ok : BOOLEAN, stack : Seq(scopes), parent : UNION {[D -> SUBSET scopes] : D \in SUBSET scopes}]

\* The open scope that Place takes for the parent is the last that contains the new one.
LEMMA LastOpen ==
  ASSUME NEW scopes, NEW stack \in Seq(scopes), NEW s
  PROVE  LET open == LastAround(stack, s)
         IN  /\ open \in 0 .. Len(stack)
             /\ open # 0 => StrictlyContains(stack[open], s)
             /\ \A i \in (open + 1) .. Len(stack) : ~StrictlyContains(stack[i], s)
<1> DEFINE I == {i \in 1 .. Len(stack) : StrictlyContains(stack[i], s)}
           open == LastAround(stack, s)
<1>1. open = IF I # {} THEN Max(I) ELSE 0
  BY DEF LastAround, SelectLastInSeq
<1>2. Len(stack) \in Nat
  OBVIOUS
<1>3. CASE I = {}
  <2>1. open = 0
    BY <1>1, <1>3
  <2>2. \A i \in 1 .. Len(stack) : ~StrictlyContains(stack[i], s)
    BY <1>3
  <2>3. QED
    BY <1>2, <2>1, <2>2
<1>4. CASE I # {}
  <2>1. open \in I /\ \A i \in I : i <= open
    BY <1>1, <1>2, <1>4, MaxOf
  <2> HIDE DEF open
  <2>2. \A i \in (open + 1) .. Len(stack) : i \in 1 .. Len(stack) /\ ~(i <= open)
    BY <2>1, <1>2
  <2>3. open \in 0 .. Len(stack) /\ StrictlyContains(stack[open], s)
    BY <2>1
  <2>4. \A i \in (open + 1) .. Len(stack) : ~StrictlyContains(stack[i], s)
    BY <2>1, <2>2
  <2>5. QED
    BY <2>3, <2>4 DEF open
<1>5. QED
  BY <1>3, <1>4

LEMMA PlaceTyped ==
  ASSUME NEW scopes, NEW tree \in Trees(scopes), NEW s \in scopes
  PROVE  Place(tree, s) \in Trees(scopes)
<1> DEFINE open == LastAround(tree.stack, s)
           above == IF open = 0 THEN {} ELSE {tree.stack[open]}
           parent == [t \in DOMAIN tree.parent \cup {s} |-> IF t # s THEN tree.parent[t] ELSE above]
<1>1. tree.stack \in Seq(scopes) /\ tree.ok \in BOOLEAN
  BY DEF Trees
<1>2. PICK D \in SUBSET scopes : tree.parent \in [D -> SUBSET scopes]
  BY DEF Trees
<1>3. open \in 0 .. Len(tree.stack)
  BY <1>1, LastOpen
<1>4. above \in SUBSET scopes
  BY <1>1, <1>3
<1>5. Append(SubSeq(tree.stack, 1, open), s) \in Seq(scopes)
  BY <1>1, <1>3
<1> HIDE DEF above
<1>6. parent \in [D \cup {s} -> SUBSET scopes]
  BY <1>2, <1>4
<1>7. D \cup {s} \in SUBSET scopes
  OBVIOUS
<1>8. parent \in UNION {[E -> SUBSET scopes] : E \in SUBSET scopes}
  BY <1>6, <1>7
<1> DEFINE stack == Append(SubSeq(tree.stack, 1, open), s)
           ok    == tree.ok /\ \A t \in {tree.stack[i] : i \in (open + 1) .. Len(tree.stack)} : ~RangesOverlap(t, s)
<1>9. Place(tree, s) = [ok |-> ok, stack |-> stack, parent |-> parent]
  BY DEF Place, above
<1>10. ok \in BOOLEAN
  OBVIOUS
<1> HIDE DEF parent, stack, ok
<1>11. [ok |-> ok, stack |-> stack, parent |-> parent] \in Trees(scopes)
  BY <1>5, <1>8, <1>10 DEF Trees, stack
<1>12. QED
  BY <1>9, <1>11

InTurnPlaced(scopes, n, order, placed) ==
  /\ placed \in [0 .. n -> Trees(scopes)]
  /\ placed[0] = Empty
  /\ \A k \in 0 .. (n - 1) : placed[k + 1] = Place(placed[k], order[k + 1])
  /\ FoldLeft(Place, Empty, order) = placed[n]

\* What is placed after k scopes is what one more Place makes of what was placed before it.
LEMMA PlacedInTurn ==
  ASSUME NEW scopes, NEW n \in Nat, NEW order \in [1 .. n -> scopes]
  PROVE  \E placed : InTurnPlaced(scopes, n, order, placed)
<1> DEFINE V == Trees(scopes)
           F == [p \in V \X (1 .. n) |-> Place(p[1], order[p[2]])]
           Iterates(g) == g = [S \in SUBSET (1 .. n) |->
                                 IF S = {} THEN Empty ELSE Place(g[S \ {Max(S)}], order[Max(S)])]
<1>1. F \in [V \X (1 .. n) -> V]
  BY PlaceTyped
<1>2. Empty \in V
  <2>1. <<>> \in Seq(scopes)
    OBVIOUS
  <2>2. <<>> \in [{} -> SUBSET scopes]
    OBVIOUS
  <2>3. <<>> \in UNION {[E -> SUBSET scopes] : E \in SUBSET scopes}
    BY <2>2
  <2>4. QED
    BY <2>1, <2>3 DEF Trees, Empty
<1>3. PICK g : Folds(V, Empty, F, g, n)
  BY <1>1, <1>2, FoldExists
<1>4. \A S \in SUBSET (1 .. n) : S # {} => g[S \ {Max(S)}] \in V /\ Max(S) \in 1 .. n
  BY <1>3, MaxOf DEF Folds
<1>5. \A S \in SUBSET (1 .. n) :
        g[S] = IF S = {} THEN Empty ELSE Place(g[S \ {Max(S)}], order[Max(S)])
  <2>1. ASSUME NEW S \in SUBSET (1 .. n), S # {}
        PROVE  F[<<g[S \ {Max(S)}], Max(S)>>] = Place(g[S \ {Max(S)}], order[Max(S)])
    BY <1>4, <2>1
  <2>2. QED
    BY <1>3, <2>1 DEF Folds
<1>6. Iterates(g)
  BY <1>3, <1>5 DEF Folds
<1> DEFINE chosen == CHOOSE f : Iterates(f)
<1>7. Iterates(chosen)
  BY <1>6
<1>8. FoldLeft(Place, Empty, order) = chosen[1 .. n]
  BY DEF FoldLeft, MapThenFoldSet
<1> HIDE DEF chosen
<1>9. chosen[{}] = Empty
  BY <1>7
<1>10. ASSUME NEW S \in SUBSET (1 .. n), S # {}, chosen[S \ {Max(S)}] \in V
       PROVE  chosen[S] = F[<<chosen[S \ {Max(S)}], Max(S)>>]
  <2>1. chosen[S] = Place(chosen[S \ {Max(S)}], order[Max(S)]) /\ Max(S) \in 1 .. n
    BY <1>7, <1>10, MaxOf
  <2>2. QED
    BY <1>10, <2>1
<1>11. PICK placed : StepByStep(V, Empty, F, chosen, n, placed)
  <2>1. FoldsWithin(V, Empty, F, chosen, n)
    BY <1>9, <1>10 DEF FoldsWithin
  <2> HIDE DEF F, V
  <2>2. QED
    BY <1>1, <1>2, <2>1, FoldSteps
<1>12. \A k \in 0 .. (n - 1) : k \in 0 .. n /\ k + 1 \in 1 .. n
  OBVIOUS
<1>13. \A k \in 0 .. (n - 1) : placed[k + 1] = Place(placed[k], order[k + 1])
  BY <1>11, <1>12 DEF StepByStep
<1>14. QED
  BY <1>8, <1>11, <1>13 DEF StepByStep, InTurnPlaced

----------------------------------------------------------------------------
(* Outer scopes first.                                                     *)

Unambiguous(scopes) == \A a, b \in scopes : SameRange(a, b) => a = b

Outer(a, b) == a.lo < b.lo \/ (a.lo = b.lo /\ a.hi > b.hi)

LEMMA RangesAre ==
  ASSUME NEW scopes, Valid(scopes), NEW a \in scopes
  PROVE  a.lo \in Int /\ a.hi \in Int /\ a.lo < a.hi
  BY DEF Valid

LEMMA ContainmentOrders ==
  ASSUME NEW scopes, Valid(scopes), NEW a \in scopes, NEW b \in scopes
  PROVE  /\ ~StrictlyContains(a, a)
         /\ StrictlyContains(a, b) => Outer(a, b) /\ ~StrictlyContains(b, a) /\ RangesOverlap(a, b) /\ a # b
         /\ \A c \in scopes : StrictlyContains(a, b) /\ StrictlyContains(b, c) => StrictlyContains(a, c)
         /\ Outer(a, b) => ~StrictlyContains(b, a) /\ ~Outer(b, a) /\ a # b
         /\ \A c \in scopes : Outer(a, b) /\ Outer(b, c) => Outer(a, c)
  BY RangesAre DEF StrictlyContains, SameRange, Outer, RangesOverlap

LEMMA OuterOrders ==
  ASSUME NEW scopes, Valid(scopes), Unambiguous(scopes), IsFiniteSet(scopes)
  PROVE  LET order == OuterFirst(scopes)
             n     == Cardinality(scopes)
         IN  /\ n \in Nat
             /\ order \in [1 .. n -> scopes]
             /\ \A s \in scopes : \E i \in 1 .. n : order[i] = s
             /\ \A i, j \in 1 .. n : i < j => Outer(order[i], order[j])
<1> DEFINE R == {p \in scopes \X scopes : Outer(p[1], p[2])}
           n == Cardinality(scopes)
           sorted == Sorted(R, scopes)
           order == OuterFirst(scopes)
           Rises(f) == \A i, j \in DOMAIN f : i < j => ~Outer(f[j], f[i])
<1>1. \A a, b \in scopes : <<a, b>> \in R <=> Outer(a, b)
  OBVIOUS
<1>2. \A a, b \in scopes : a # b => Outer(a, b) \/ Outer(b, a)
  BY RangesAre DEF Unambiguous, SameRange, Outer
<1>3. StrictOrder(R, scopes)
  BY <1>1, <1>2, ContainmentOrders DEF StrictOrder
<1> HIDE DEF R
<1>4. /\ n \in Nat
      /\ sorted \in [1 .. n -> scopes]
      /\ \A i, j \in 1 .. n : <<sorted[i], sorted[j]>> \in R <=> i < j
      /\ \A i, j \in 1 .. n : sorted[i] = sorted[j] => i = j
  BY <1>3, SortedIs
<1> HIDE DEF sorted
<1>5. sorted \in SetToSeqs(scopes)
  BY <1>4 DEF SetToSeqs
<1>6. Rises(sorted)
  <2>1. ASSUME NEW i \in 1 .. n, NEW j \in 1 .. n, i < j, Outer(sorted[j], sorted[i])
        PROVE  FALSE
    <3>1. <<sorted[j], sorted[i]>> \in R
      BY <1>1, <1>4, <2>1
    <3>2. j < i
      BY <1>4, <3>1
    <3>3. QED
      BY <1>4, <2>1, <3>2
  <2>2. QED
    BY <1>4, <2>1
<1>7. order = CHOOSE f \in SetToSeqs(scopes) : Rises(f)
  BY DEF OuterFirst, InTurn, Outer
<1>8. order \in SetToSeqs(scopes) /\ Rises(order)
  BY <1>5, <1>6, <1>7
<1> HIDE DEF order
<1>9. order \in [1 .. n -> scopes] /\ \A i, j \in 1 .. n : i # j => order[i] # order[j]
  BY <1>8 DEF SetToSeqs
<1>10. order \in Injection(1 .. n, scopes)
  BY <1>9 DEF Injection, IsInjective
<1>11. IsFiniteSet(1 .. n) /\ Cardinality(1 .. n) = n
  BY <1>4, FS_Interval
<1>12. order \in Surjection(1 .. n, scopes)
  BY <1>10, <1>11, FS_Injection
<1>13. \A s \in scopes : \E i \in 1 .. n : order[i] = s
  BY <1>12 DEF Surjection
<1>14. ASSUME NEW i \in 1 .. n, NEW j \in 1 .. n, i < j
       PROVE  Outer(order[i], order[j])
  <2>1. order[i] # order[j] /\ ~Outer(order[j], order[i]) /\ order[i] \in scopes /\ order[j] \in scopes
    BY <1>4, <1>8, <1>9, <1>14
  <2>2. QED
    BY <1>2, <2>1
<1>15. QED
  BY <1>4, <1>9, <1>13, <1>14 DEF order

----------------------------------------------------------------------------
(* What is placed so far, when no two of its scopes cross.                 *)

Around(P, s) == {t \in P : StrictlyContains(t, s)}

Shape(P, tree) ==
  /\ Laminar(P)
  /\ ToSet(tree.stack) \subseteq P
  /\ \A i, j \in DOMAIN tree.stack : i < j => StrictlyContains(tree.stack[i], tree.stack[j])
  /\ DOMAIN tree.parent = P
  /\ \A t \in P : tree.parent[t] = Innermost(Around(P, t))

\* A scope that is no longer open ends before whatever is still to come.
Closed(P, tree, lo) == \A t \in P \ ToSet(tree.stack) : t.hi <= lo

LEMMA PlaceStep ==
  ASSUME NEW scopes, Valid(scopes), Unambiguous(scopes),
         NEW P \in SUBSET scopes, NEW s \in scopes, \A t \in P : Outer(t, s),
         NEW tree \in Trees(scopes), tree.ok, Shape(P, tree), Closed(P, tree, s.lo)
  PROVE  LET new == Place(tree, s)
         IN  /\ new.ok <=> Laminar(P \cup {s})
             /\ new.ok => Shape(P \cup {s}, new) /\ Closed(P \cup {s}, new, s.lo)
<1> DEFINE new    == Place(tree, s)
           open   == LastAround(tree.stack, s)
           popped == {tree.stack[i] : i \in (open + 1) .. Len(tree.stack)}
           Q      == P \cup {s}
<1>1. /\ tree.stack \in Seq(scopes) /\ Len(tree.stack) \in Nat /\ DOMAIN tree.stack = 1 .. Len(tree.stack)
      /\ \A i \in 1 .. Len(tree.stack) : tree.stack[i] \in P
      /\ \A t \in ToSet(tree.stack) : \E i \in 1 .. Len(tree.stack) : tree.stack[i] = t
      /\ \A i \in 1 .. Len(tree.stack) : tree.stack[i] \in ToSet(tree.stack)
  <2>1. tree.stack \in Seq(scopes)
    BY DEF Trees
  <2>2. Len(tree.stack) \in Nat /\ DOMAIN tree.stack = 1 .. Len(tree.stack)
    BY <2>1, LenProperties
  <2>3. QED
    BY <2>1, <2>2 DEF ToSet, Shape
<1>2. /\ open \in 0 .. Len(tree.stack)
      /\ open # 0 => StrictlyContains(tree.stack[open], s)
      /\ \A i \in (open + 1) .. Len(tree.stack) : ~StrictlyContains(tree.stack[i], s)
  BY <1>1, LastOpen
<1>3. /\ new.ok <=> \A t \in popped : ~RangesOverlap(t, s)
      /\ new.stack = Append(SubSeq(tree.stack, 1, open), s)
      /\ new.parent = [t \in DOMAIN tree.parent \cup {s} |->
                         IF t # s THEN tree.parent[t] ELSE IF open = 0 THEN {} ELSE {tree.stack[open]}]
  BY DEF Place
<1> HIDE DEF new, open
<1>4. popped \subseteq P /\ \A t \in popped : ~StrictlyContains(t, s)
  BY <1>1, <1>2
\* Whatever is around s is open, and s is around nothing that came before.
<1>5. ASSUME NEW t \in P
      PROVE  /\ ~StrictlyContains(s, t) /\ t # s
             /\ RangesOverlap(t, s) => t \in ToSet(tree.stack)
             /\ t \notin ToSet(tree.stack) => ~RangesOverlap(t, s)
  <2>1. Outer(t, s) /\ t \in scopes
    OBVIOUS
  <2>2. ~StrictlyContains(s, t) /\ t # s
    BY <2>1, ContainmentOrders
  <2>3. t \notin ToSet(tree.stack) => ~RangesOverlap(t, s)
    BY <2>1, RangesAre DEF Closed, RangesOverlap
  <2>4. QED
    BY <2>2, <2>3
<1>6. ASSUME NEW t \in P, StrictlyContains(t, s)
      PROVE  \E i \in 1 .. open : tree.stack[i] = t
  <2>1. t \in ToSet(tree.stack)
    BY <1>5, <1>6, ContainmentOrders
  <2>2. PICK i \in 1 .. Len(tree.stack) : tree.stack[i] = t
    BY <1>1, <2>1
  <2>3. ~(i \in (open + 1) .. Len(tree.stack))
    BY <1>2, <1>6, <2>2
  <2>4. i \in 1 .. open
    BY <1>1, <1>2, <2>3
  <2>5. QED
    BY <2>2, <2>4
<1>7. \A i \in 1 .. open : StrictlyContains(tree.stack[i], s) /\ tree.stack[i] \in P
  <2>1. ASSUME NEW i \in 1 .. open
        PROVE  StrictlyContains(tree.stack[i], s) /\ tree.stack[i] \in P
    <3>1. i \in 1 .. Len(tree.stack) /\ open \in 1 .. Len(tree.stack) /\ open # 0
      BY <1>1, <1>2
    <3>2. i = open \/ StrictlyContains(tree.stack[i], tree.stack[open])
      <4>1. i = open \/ i < open
        BY <1>2
      <4>2. i \in DOMAIN tree.stack /\ open \in DOMAIN tree.stack
        BY <1>1, <3>1
      <4>3. QED
        BY <4>1, <4>2 DEF Shape
    <3>3. QED
      BY <1>1, <1>2, <3>1, <3>2, ContainmentOrders
  <2>2. QED
    BY <2>1
<1>8. new.ok <=> Laminar(Q)
  <2>1. ASSUME new.ok, NEW t \in P
        PROVE  StrictlyContains(t, s) \/ (~RangesOverlap(t, s) /\ ~RangesOverlap(s, t))
    <3>1. CASE t \in ToSet(tree.stack)
      <4>1. PICK i \in 1 .. Len(tree.stack) : tree.stack[i] = t
        BY <1>1, <3>1
      <4>2. CASE i <= open
        BY <1>1, <1>2, <1>7, <4>1, <4>2
      <4>3. CASE i > open
        <5>1. t \in popped
          BY <1>1, <1>2, <4>1, <4>3
        <5>2. QED
          BY <1>3, <2>1, <5>1 DEF RangesOverlap
      <4>4. QED
        BY <1>1, <1>2, <4>2, <4>3
    <3>2. CASE t \notin ToSet(tree.stack)
      BY <1>5, <3>2 DEF RangesOverlap
    <3>3. QED
      BY <3>1, <3>2
  <2>2. ASSUME new.ok
        PROVE  Laminar(Q)
    <3>1. \A a, b \in Q : a # b => ~SameRange(a, b)
      BY DEF Unambiguous
    <3>2. \A t \in P : StrictlyContains(t, s) \/ (~RangesOverlap(t, s) /\ ~RangesOverlap(s, t))
      BY <2>1, <2>2
    <3>3. Laminar(P)
      BY DEF Shape
    <3>4. QED
      BY <3>1, <3>2, <3>3 DEF Laminar
  <2>3. ASSUME Laminar(Q), NEW t \in popped
        PROVE  ~RangesOverlap(t, s)
    <3>1. t \in P /\ ~StrictlyContains(t, s) /\ ~StrictlyContains(s, t) /\ t # s
      BY <1>4, <1>5
    <3>2. QED
      BY <2>3, <3>1 DEF Laminar
  <2>4. QED
    BY <1>3, <2>2, <2>3
<1>9. /\ Len(new.stack) = open + 1 /\ DOMAIN new.stack = 1 .. (open + 1)
      /\ \A i \in 1 .. open : new.stack[i] = tree.stack[i]
      /\ new.stack[open + 1] = s
      /\ ToSet(new.stack) = {new.stack[i] : i \in 1 .. (open + 1)}
  <2> DEFINE below == SubSeq(tree.stack, 1, open)
  <2>1. below \in Seq(scopes) /\ Len(below) = open /\ \A i \in 1 .. open : below[i] = tree.stack[i]
    <3>1. \A i \in 1 .. open : tree.stack[i] \in scopes
      BY <1>7
    <3>2. QED
      BY <1>2, <3>1, SubSeqProperties
  <2> HIDE DEF below
  <2>2. new.stack = Append(below, s)
    BY <1>3 DEF below
  <2> HIDE DEF popped, Q
  <2>3. new.stack \in Seq(scopes) /\ Len(new.stack) = open + 1
    BY <2>1, <2>2, AppendProperties
  <2>4. DOMAIN new.stack = 1 .. (open + 1)
    BY <2>3, LenProperties
  <2>5. \A i \in 1 .. open : new.stack[i] = tree.stack[i]
    <3>1. \A i \in 1 .. open : new.stack[i] = below[i]
      BY <2>1, <2>2, AppendProperties
    <3>2. QED
      BY <2>1, <3>1
  <2>6. new.stack[open + 1] = s
    BY <2>1, <2>2, AppendProperties
  <2>7. ToSet(new.stack) = {new.stack[i] : i \in 1 .. (open + 1)}
    BY <2>4 DEF ToSet
  <2>8. QED
    BY <2>3, <2>4, <2>5, <2>6, <2>7
<1>10. ASSUME new.ok
       PROVE  Shape(Q, new)
  <2>1. Laminar(Q)
    BY <1>8, <1>10
  <2>2. ToSet(new.stack) \subseteq Q
    <3>1. ASSUME NEW i \in 1 .. (open + 1)
          PROVE  new.stack[i] \in Q
      <4>1. CASE i = open + 1
        BY <1>9, <4>1
      <4>2. CASE i # open + 1
        <5>1. open \in Nat
          BY <1>1, <1>2
        <5>2. i \in 1 .. open
          BY <4>2, <5>1
        <5>3. QED
          BY <1>7, <1>9, <5>2
      <4>3. QED
        BY <4>1, <4>2
    <3>2. QED
      BY <1>9, <3>1
  <2>3. ASSUME NEW i \in DOMAIN new.stack, NEW j \in DOMAIN new.stack, i < j
        PROVE  StrictlyContains(new.stack[i], new.stack[j])
    <3>1. i \in 1 .. open /\ j \in 1 .. (open + 1) /\ new.stack[i] = tree.stack[i]
      BY <1>2, <1>9, <2>3
    <3>2. CASE j = open + 1
      BY <1>7, <1>9, <3>1, <3>2
    <3>3. CASE j # open + 1
      <4>1. j \in 1 .. open /\ new.stack[j] = tree.stack[j]
        BY <1>2, <1>9, <3>1, <3>3
      <4>2. i \in DOMAIN tree.stack /\ j \in DOMAIN tree.stack
        BY <1>1, <1>2, <3>1, <4>1
      <4>3. StrictlyContains(tree.stack[i], tree.stack[j])
        BY <2>3, <4>2 DEF Shape
      <4>4. QED
        BY <3>1, <4>1, <4>3
    <3>4. QED
      BY <3>2, <3>3
  <2>4. DOMAIN new.parent = Q
    BY <1>3 DEF Shape
  <2>5. \A t \in Q : Around(Q, t) = Around(P, t)
    BY <1>5, ContainmentOrders DEF Around
  <2>6. ASSUME NEW t \in P
        PROVE  new.parent[t] = Innermost(Around(Q, t))
    <3>1. new.parent[t] = tree.parent[t]
      BY <1>3, <1>5 DEF Shape
    <3>2. QED
      BY <2>5, <3>1 DEF Shape
  <2>7. new.parent[s] = Innermost(Around(Q, s))
    <3>1. Around(P, s) = {tree.stack[i] : i \in 1 .. open}
      BY <1>6, <1>7 DEF Around
    <3>2. new.parent[s] = IF open = 0 THEN {} ELSE {tree.stack[open]}
      BY <1>3
    <3>3. CASE open = 0
      <4>1. Around(P, s) = {}
        BY <3>1, <3>3
      <4>2. QED
        BY <2>5, <3>2, <3>3, <4>1 DEF Innermost
    <3>4. CASE open # 0
      <4>1. open \in 1 .. open
        BY <1>2, <3>4
      <4>2. \A i \in 1 .. open : i # open => StrictlyContains(tree.stack[i], tree.stack[open])
        <5>1. ASSUME NEW i \in 1 .. open, i # open
              PROVE  StrictlyContains(tree.stack[i], tree.stack[open])
          <6>1. i < open /\ i \in DOMAIN tree.stack /\ open \in DOMAIN tree.stack
            BY <1>1, <1>2, <5>1
          <6>2. QED
            BY <6>1 DEF Shape
        <5>2. QED
          BY <5>1
      <4>3. \A i \in 1 .. open : ~StrictlyContains(tree.stack[open], tree.stack[i])
        <5>1. ASSUME NEW i \in 1 .. open
              PROVE  ~StrictlyContains(tree.stack[open], tree.stack[i])
          <6>1. tree.stack[i] \in scopes /\ tree.stack[open] \in scopes
            BY <1>7, <4>1
          <6>2. QED
            BY <4>2, <6>1, ContainmentOrders
        <5>2. QED
          BY <5>1
      <4>4. Innermost(Around(P, s)) = {tree.stack[open]}
        BY <3>1, <4>1, <4>2, <4>3 DEF Innermost
      <4>5. QED
        BY <2>5, <3>2, <3>4, <4>4
    <3>5. QED
      BY <3>3, <3>4
  <2>8. QED
    BY <2>1, <2>2, <2>3, <2>4, <2>6, <2>7 DEF Shape
<1>11. ASSUME new.ok
       PROVE  Closed(Q, new, s.lo)
  <2>1. ASSUME NEW t \in Q, t \notin ToSet(new.stack)
        PROVE  t.hi <= s.lo
    <3>1. t \in P
      <4>1. s \in ToSet(new.stack)
        BY <1>2, <1>9
      <4>2. QED
        BY <2>1, <4>1
    <3>2. CASE t \in ToSet(tree.stack)
      <4>1. PICK i \in 1 .. Len(tree.stack) : tree.stack[i] = t
        BY <1>1, <3>2
      <4>2. i > open
        BY <1>1, <1>2, <1>9, <2>1, <4>1
      <4>3. t \in popped
        BY <1>1, <1>2, <4>1, <4>2
      <4>4. ~RangesOverlap(t, s) /\ Outer(t, s)
        BY <1>3, <1>11, <3>1, <4>3
      <4>5. QED
        BY <3>1, <4>4, RangesAre DEF RangesOverlap, Outer
    <3>3. CASE t \notin ToSet(tree.stack)
      BY <3>1, <3>3 DEF Closed
    <3>4. QED
      BY <3>2, <3>3
  <2>2. QED
    BY <2>1 DEF Closed
<1>12. QED
  BY <1>8, <1>10, <1>11 DEF new

\* The tree is built exactly for scopes that nest, and each hangs under the smallest around it.
LEMMA TreeBuilt ==
  ASSUME NEW scopes, Valid(scopes), IsFiniteSet(scopes)
  PROVE  LET tree == BuildScopeTree(scopes)
         IN  /\ tree.ok <=> Laminar(scopes)
             /\ tree.ok => /\ DOMAIN tree.parent = scopes
                           /\ \A s \in scopes : tree.parent[s] = Innermost(Around(scopes, s))
<1> DEFINE tree  == BuildScopeTree(scopes)
           order == OuterFirst(scopes)
           n     == Cardinality(scopes)
           all   == FoldLeft(Place, Empty, order)
<1>1. tree = [ok |-> all.ok /\ Unambiguous(scopes), parent |-> all.parent]
  BY DEF BuildScopeTree, Unambiguous, Empty
<1>2. CASE ~Unambiguous(scopes)
  <2>1. ~Laminar(scopes)
    BY <1>2 DEF Unambiguous, Laminar, StrictlyContains, SameRange
  <2>2. tree.ok = (all.ok /\ Unambiguous(scopes))
    BY <1>1
  <2> HIDE DEF tree, all
  <2>3. QED
    BY <1>2, <2>1, <2>2 DEF tree
<1>3. CASE Unambiguous(scopes)
  <2>1. /\ n \in Nat
        /\ order \in [1 .. n -> scopes]
        /\ \A s \in scopes : \E i \in 1 .. n : order[i] = s
        /\ \A i, j \in 1 .. n : i < j => Outer(order[i], order[j])
    BY <1>3, OuterOrders
  <2>2. PICK placed : /\ placed \in [0 .. n -> Trees(scopes)]
                      /\ placed[0] = Empty
                      /\ \A k \in 0 .. (n - 1) : placed[k + 1] = Place(placed[k], order[k + 1])
                      /\ all = placed[n]
    <3>1. all = FoldLeft(Place, Empty, order)
      OBVIOUS
    <3> HIDE DEF order, n, tree, all
    <3>2. \E placed : InTurnPlaced(scopes, n, order, placed)
      BY <2>1, PlacedInTurn
    <3>3. QED
      BY <3>1, <3>2 DEF InTurnPlaced
  <2> HIDE DEF order, n, tree, all
  <2> DEFINE Prefix(k) == {order[i] : i \in 1 .. k}
             Fits(k) == /\ placed[k].ok <=> Laminar(Prefix(k))
                        /\ placed[k].ok => /\ Shape(Prefix(k), placed[k])
                                           /\ \A j \in (k + 1) .. n : Closed(Prefix(k), placed[k], order[j].lo)
  <2>3. Fits(0)
    <3>1. Prefix(0) = {}
      OBVIOUS
    <3>2. placed[0].ok /\ placed[0].stack = <<>> /\ placed[0].parent = <<>>
      BY <2>2 DEF Empty
    <3>3. Laminar({}) /\ Closed({}, placed[0], 0)
      BY DEF Laminar, Closed
    <3>4. Shape({}, placed[0])
      BY <3>2, <3>3 DEF Shape, ToSet
    <3> HIDE DEF Prefix
    <3>5. QED
      BY <3>1, <3>2, <3>3, <3>4 DEF Closed
  <2>4. ASSUME NEW k \in 0 .. (n - 1), Fits(k)
        PROVE  Fits(k + 1)
    <3> DEFINE P == Prefix(k)
               s == order[k + 1]
               new == Place(placed[k], s)
    <3>1. k + 1 \in 1 .. n /\ s \in scopes /\ P \in SUBSET scopes
      BY <2>1
    <3>2. \A t \in P : Outer(t, s)
      BY <2>1, <3>1
    <3>3. Prefix(k + 1) = P \cup {s}
      <4>1. \A i : i \in 1 .. (k + 1) <=> i \in 1 .. k \/ i = k + 1
        OBVIOUS
      <4>2. QED
        BY <4>1
    <3>4. placed[k + 1] = new /\ placed[k] \in Trees(scopes)
      <4>1. k \in 0 .. n
        BY <2>1
      <4>2. QED
        BY <2>2, <4>1
    <3>5. CASE placed[k].ok
      <4>1. Shape(P, placed[k]) /\ Closed(P, placed[k], s.lo)
        <5>1. k + 1 \in (k + 1) .. n
          BY <2>1
        <5> HIDE DEF Prefix
        <5>2. QED
          BY <2>4, <3>5, <5>1
      <4> HIDE DEF P, s
      <4>2. /\ new.ok <=> Laminar(P \cup {s})
            /\ new.ok => Shape(P \cup {s}, new) /\ Closed(P \cup {s}, new, s.lo)
        BY <1>3, <3>1, <3>2, <3>4, <3>5, <4>1, PlaceStep
      <4>3. ASSUME NEW j \in (k + 2) .. n
            PROVE  s.lo <= order[j].lo /\ s.lo \in Int /\ order[j].lo \in Int
        <5>1. j \in 1 .. n /\ k + 1 < j
          BY <2>1
        <5>2. Outer(s, order[j]) /\ order[j] \in scopes
          BY <2>1, <3>1, <5>1 DEF s
        <5>3. QED
          BY <3>1, <5>2, RangesAre DEF Outer
      <4>4. new.ok => \A j \in (k + 2) .. n : Closed(P \cup {s}, new, order[j].lo)
        <5>1. ASSUME new.ok, NEW j \in (k + 2) .. n, NEW t \in (P \cup {s}) \ ToSet(new.stack)
              PROVE  t.hi <= order[j].lo
          <6>1. t.hi <= s.lo /\ t.hi \in Int
            BY <3>1, <4>2, <5>1, RangesAre DEF Closed
          <6>2. QED
            BY <4>3, <6>1
        <5>2. QED
          BY <5>1 DEF Closed
      <4>5. (k + 1) + 1 = k + 2
        OBVIOUS
      <4> HIDE DEF new, Prefix
      <4>6. QED
        BY <3>3, <3>4, <4>2, <4>4, <4>5
    <3>6. CASE ~placed[k].ok
      <4>1. ~Laminar(P \cup {s})
        BY <2>4, <3>6 DEF Laminar
      <4>2. ~new.ok
        BY <3>6 DEF Place
      <4> HIDE DEF new, P, s, Prefix
      <4>3. QED
        BY <3>3, <3>4, <4>1, <4>2
    <3>7. QED
      BY <3>5, <3>6
  <2>5. Fits(n)
    <3> HIDE DEF Fits
    <3> DEFINE D == {k \in 0 .. n : ~Fits(k)}
    <3>1. ASSUME D # {}
          PROVE  FALSE
      <4>1. D \subseteq Nat
        OBVIOUS
      <4>2. PICK k \in D : \A j \in D : k <= j
        BY <3>1, <4>1, LeastExists
      <4>3. k # 0
        BY <2>3, <4>2
      <4>4. k - 1 \in 0 .. (n - 1) /\ ~(k <= k - 1) /\ (k - 1) + 1 = k /\ k - 1 \in 0 .. n
        BY <2>1, <4>2, <4>3
      <4>5. Fits(k - 1)
        BY <4>2, <4>4
      <4>6. Fits(k)
        BY <2>4, <4>4, <4>5
      <4>7. QED
        BY <4>2, <4>6
    <3>2. QED
      BY <2>1, <3>1
  <2>6. Prefix(n) = scopes
    BY <2>1
  <2>7. tree.ok = (all.ok /\ Unambiguous(scopes)) /\ tree.parent = all.parent
    BY <1>1
  <2> HIDE DEF Prefix
  <2>8. placed[n].ok \in BOOLEAN
    BY <2>1, <2>2 DEF Trees
  <2>9. QED
    BY <1>3, <2>2, <2>5, <2>6, <2>7, <2>8 DEF Shape, tree
<1>4. QED
  BY <1>2, <1>3

----------------------------------------------------------------------------
(* The search goes outwards from a scope, then inwards.                    *)

Grown(scopes, tree) ==
  /\ DOMAIN tree.parent = scopes
  /\ \A s \in scopes : tree.parent[s] = Innermost(Around(scopes, s))

Outside(scopes, s) == {t \in scopes : t = s \/ StrictlyContains(t, s)}

Inside(scopes, s) == {t \in scopes : t = s \/ StrictlyContains(s, t)}

Seen(S, at) == {t \in S : Covers(t, at)}

LEMMA ContainmentCovers ==
  ASSUME NEW scopes, Valid(scopes), NEW a \in scopes, NEW b \in scopes, NEW at \in Int
  PROVE  /\ StrictlyContains(a, b) /\ Covers(b, at) => Covers(a, at)
         /\ Covers(a, at) /\ Covers(b, at) => RangesOverlap(a, b)
         /\ StrictlyContains(a, b) => b.hi - b.lo < a.hi - a.lo
         /\ a.hi - a.lo \in Nat
  BY RangesAre DEF StrictlyContains, SameRange, Covers, RangesOverlap

\* Of two scopes with a line in common one is around the other.
LEMMA OverlapNests ==
  ASSUME NEW scopes, Valid(scopes), Laminar(scopes), NEW a \in scopes, NEW b \in scopes,
         RangesOverlap(a, b)
  PROVE  a = b \/ StrictlyContains(a, b) \/ StrictlyContains(b, a)
  BY DEF Laminar

LEMMA InnermostExists ==
  ASSUME NEW scopes, Valid(scopes), NEW S \in SUBSET scopes, S # {}
  PROVE  Innermost(S) # {}
<1> DEFINE widths == {t.hi - t.lo : t \in S}
<1>1. \A t \in S : t.hi - t.lo \in Nat
  BY RangesAre
<1>2. widths \subseteq Nat /\ widths # {}
  BY <1>1
<1>3. PICK w \in widths : \A v \in widths : w <= v
  BY <1>2, LeastExists
<1>4. PICK s \in S : w = s.hi - s.lo
  BY <1>3
<1>5. ASSUME NEW t \in S, StrictlyContains(s, t)
      PROVE  FALSE
  <2>1. t.hi - t.lo < s.hi - s.lo
    BY <1>5, ContainmentCovers, 0 \in Int
  <2>2. s.hi - s.lo <= t.hi - t.lo
    BY <1>3, <1>4
  <2>3. QED
    BY <1>1, <2>1, <2>2
<1>6. QED
  BY <1>5 DEF Innermost

LEMMA OutermostExists ==
  ASSUME NEW scopes, Valid(scopes), NEW s \in scopes, NEW S \in SUBSET scopes, S # {},
         \A t \in S : StrictlyContains(s, t)
  PROVE  \E t \in S : \A u \in S : ~StrictlyContains(u, t)
<1> DEFINE width(t) == t.hi - t.lo
           rests == {width(s) - width(t) : t \in S}
<1>1. \A t \in S : width(t) \in Nat /\ width(s) \in Nat /\ width(t) < width(s)
  BY ContainmentCovers, 0 \in Int
<1> HIDE DEF width
<1>2. \A t \in S : width(s) - width(t) \in Nat
  BY <1>1
<1>3. rests \subseteq Nat /\ rests # {}
  BY <1>2
<1>4. PICK w \in rests : \A v \in rests : w <= v
  BY <1>3, LeastExists
<1>5. PICK t \in S : w = width(s) - width(t)
  BY <1>4
<1>6. ASSUME NEW u \in S, StrictlyContains(u, t)
      PROVE  FALSE
  <2>1. width(t) < width(u)
    BY <1>6, ContainmentCovers, 0 \in Int DEF width
  <2>2. width(s) - width(t) <= width(s) - width(u)
    BY <1>4, <1>5
  <2>3. QED
    BY <1>1, <2>1, <2>2
<1>7. QED
  BY <1>6

\* A parent is around its child, and what else is around the child is around the parent.
LEMMA ParentIs ==
  ASSUME NEW scopes, Valid(scopes), Laminar(scopes), NEW tree, Grown(scopes, tree), NEW s \in scopes
  PROVE  \/ tree.parent[s] = {} /\ Around(scopes, s) = {}
         \/ \E p \in Around(scopes, s) :
              tree.parent[s] = {p} /\ Around(scopes, s) = Outside(scopes, p)
<1>1. Around(scopes, s) \in SUBSET scopes /\ \A t \in Around(scopes, s) : StrictlyContains(t, s)
  BY DEF Around
<1>2. CASE Around(scopes, s) = {}
  BY <1>2 DEF Grown, Innermost
<1>3. CASE Around(scopes, s) # {}
  <2>1. PICK p \in Around(scopes, s) : \A t \in Around(scopes, s) : ~StrictlyContains(p, t)
    BY <1>1, <1>3, InnermostExists DEF Innermost
  <2>2. ASSUME NEW t \in Around(scopes, s)
        PROVE  t = p \/ StrictlyContains(t, p)
    <3>1. RangesOverlap(t, p)
      BY <1>1, RangesAre DEF StrictlyContains, RangesOverlap
    <3>2. QED
      BY <1>1, <2>1, <3>1, OverlapNests
  <2>3. \A t \in Outside(scopes, p) : t \in Around(scopes, s)
    BY <1>1, ContainmentOrders DEF Outside, Around
  <2>4. Around(scopes, s) = Outside(scopes, p)
    BY <1>1, <2>2, <2>3 DEF Outside
  <2>5. Innermost(Around(scopes, s)) = {p}
    BY <2>1, <2>2 DEF Innermost
  <2>6. QED
    BY <2>4, <2>5 DEF Grown
<1>4. QED
  BY <1>2, <1>3

\* Around a child that covers the line there is no further child, and what is inside a scope
\* and is not that scope is inside one of its children.
LEMMA ChildBetween ==
  ASSUME NEW scopes, Valid(scopes), Laminar(scopes), NEW tree, Grown(scopes, tree),
         NEW s \in scopes, NEW t \in scopes, StrictlyContains(s, t)
  PROVE  \E c \in scopes : s \in tree.parent[c] /\ t \in Inside(scopes, c)
<1> DEFINE S == {u \in scopes : StrictlyContains(s, u) /\ t \in Inside(scopes, u)}
<1>1. t \in S /\ S \in SUBSET scopes /\ \A u \in S : StrictlyContains(s, u)
  BY DEF Inside
<1> HIDE DEF S
<1>2. PICK c \in S : \A u \in S : ~StrictlyContains(u, c)
  BY <1>1, OutermostExists
<1>3. ASSUME NEW u \in Around(scopes, c)
      PROVE  ~StrictlyContains(s, u)
  <2>1. u \in scopes /\ StrictlyContains(u, c) /\ c \in scopes
    BY <1>1 DEF Around
  <2>2. t \in Inside(scopes, u)
    BY <2>1, <1>2, ContainmentOrders DEF S, Inside
  <2>3. QED
    BY <1>2, <2>1, <2>2 DEF S
<1>4. s \in Innermost(Around(scopes, c))
  BY <1>1, <1>3 DEF Innermost, Around
<1>5. c \in scopes /\ t \in Inside(scopes, c)
  BY <1>2 DEF S
<1>6. QED
  BY <1>4, <1>5 DEF Grown

LEMMA ChildrenApart ==
  ASSUME NEW scopes, Valid(scopes), Laminar(scopes), NEW tree, Grown(scopes, tree), NEW s \in scopes,
         NEW c \in scopes, s \in tree.parent[c], NEW d \in scopes, s \in tree.parent[d],
         RangesOverlap(c, d)
  PROVE  c = d /\ StrictlyContains(s, c)
<1>1. /\ StrictlyContains(s, c) /\ \A u \in Around(scopes, c) : ~StrictlyContains(s, u)
      /\ StrictlyContains(s, d) /\ \A u \in Around(scopes, d) : ~StrictlyContains(s, u)
  BY DEF Grown, Innermost, Around
<1>2. ~StrictlyContains(c, d) /\ ~StrictlyContains(d, c)
  BY <1>1 DEF Around
<1>3. QED
  BY <1>1, <1>2, OverlapNests

\* Outwards from a scope the search finds the smallest scope around it that covers the line.
LEMMA OutwardsFinds ==
  ASSUME NEW scopes, Valid(scopes), IsFiniteSet(scopes), Laminar(scopes), NEW tree, Grown(scopes, tree),
         NEW at \in Int, NEW start \in scopes
  PROVE  Outwards(tree, start, at) = Innermost(Seen(Outside(scopes, start), at))
<1> DEFINE found(s) == Innermost(Seen(Outside(scopes, s), at))
           Climbs(up) == up = [s \in DOMAIN tree.parent |->
                                 IF Covers(s, at) THEN {s} ELSE UNION {up[p] : p \in tree.parent[s]}]
           depth(s) == Cardinality(Around(scopes, s))
<1>1. DOMAIN tree.parent = scopes
  BY DEF Grown
<1>2. ASSUME NEW s \in scopes, Covers(s, at)
      PROVE  found(s) = {s}
  <2>1. s \in Seen(Outside(scopes, s), at)
    BY <1>2 DEF Seen, Outside
  <2>2. \A t \in Seen(Outside(scopes, s), at) : t = s \/ StrictlyContains(t, s)
    BY DEF Seen, Outside
  <2>3. \A t \in Seen(Outside(scopes, s), at) : ~StrictlyContains(s, t)
    BY <2>2, ContainmentOrders DEF Seen, Outside
  <2>4. QED
    BY <2>1, <2>2, <2>3 DEF Innermost
<1>3. ASSUME NEW s \in scopes, ~Covers(s, at)
      PROVE  /\ tree.parent[s] = {} => found(s) = {}
             /\ \A p \in tree.parent[s] : p \in scopes /\ tree.parent[s] = {p} /\ found(s) = found(p)
  <2>1. Seen(Outside(scopes, s), at) = Seen(Around(scopes, s), at)
    BY <1>3 DEF Seen, Outside, Around
  <2>2. CASE tree.parent[s] = {} /\ Around(scopes, s) = {}
    BY <2>1, <2>2 DEF Seen, Innermost
  <2>3. CASE \E p \in Around(scopes, s) :
               tree.parent[s] = {p} /\ Around(scopes, s) = Outside(scopes, p)
    BY <2>1, <2>3 DEF Around
  <2>4. QED
    BY <2>2, <2>3, ParentIs
<1> HIDE DEF found
<1>4. ASSUME NEW s \in scopes
      PROVE  found(s) = IF Covers(s, at) THEN {s} ELSE UNION {found(p) : p \in tree.parent[s]}
  <2>1. CASE ~Covers(s, at) /\ tree.parent[s] = {}
    BY <1>3, <2>1
  <2>2. CASE ~Covers(s, at) /\ tree.parent[s] # {}
    <3>1. PICK p \in tree.parent[s] : TRUE
      BY <2>2
    <3>2. tree.parent[s] = {p} /\ found(s) = found(p)
      BY <1>3, <2>2, <3>1
    <3>3. QED
      BY <2>2, <3>2
  <2>3. QED
    BY <1>2, <2>1, <2>2
<1> DEFINE g == [s \in scopes |-> found(s)]
<1>5. Climbs(g)
  <2>1. \A s \in scopes : tree.parent[s] \subseteq scopes
    BY DEF Grown, Innermost, Around
  <2>2. ASSUME NEW s \in scopes
        PROVE  g[s] = IF Covers(s, at) THEN {s} ELSE UNION {g[p] : p \in tree.parent[s]}
    <3>1. \A p \in tree.parent[s] : g[p] = found(p)
      BY <2>1
    <3>2. {g[p] : p \in tree.parent[s]} = {found(p) : p \in tree.parent[s]}
      BY <3>1
    <3>3. g[s] = found(s)
      OBVIOUS
    <3> HIDE DEF g
    <3>4. QED
      BY <1>4, <3>2, <3>3
  <2>3. DOMAIN g = scopes /\ g = [s \in scopes |-> g[s]]
    OBVIOUS
  <2> HIDE DEF g
  <2>4. QED
    BY <1>1, <2>2, <2>3
<1> DEFINE up == CHOOSE f : Climbs(f)
<1>6. Climbs(up)
  BY <1>5
<1>7. Outwards(tree, start, at) = up[start]
  BY DEF Outwards
<1> HIDE DEF up, g
<1>8. \A s \in scopes : up[s] = IF Covers(s, at) THEN {s} ELSE UNION {up[p] : p \in tree.parent[s]}
  BY <1>1, <1>6
<1>9. ASSUME NEW s \in scopes
      PROVE  /\ depth(s) \in Nat
             /\ \A p \in tree.parent[s] : p \in scopes /\ depth(p) < depth(s)
  <2>1. IsFiniteSet(Around(scopes, s)) /\ depth(s) \in Nat
    <3>1. Around(scopes, s) \in SUBSET scopes
      BY DEF Around
    <3>2. IsFiniteSet(Around(scopes, s))
      BY <3>1, FS_Subset
    <3>3. QED
      BY <3>2, FS_CardinalityType
  <2>2. ASSUME NEW p \in tree.parent[s]
        PROVE  p \in scopes /\ depth(p) < depth(s)
    <3>1. p \in Around(scopes, s) /\ p \in scopes
      BY DEF Grown, Innermost, Around
    <3>2. Around(scopes, p) \in SUBSET Around(scopes, s) /\ p \notin Around(scopes, p)
      BY <3>1, ContainmentOrders DEF Around
    <3>3. /\ Cardinality(Around(scopes, p)) <= Cardinality(Around(scopes, s))
          /\ Cardinality(Around(scopes, p)) # Cardinality(Around(scopes, s))
      BY <2>1, <3>1, <3>2, FS_Subset
    <3>4. Cardinality(Around(scopes, p)) \in Nat
      BY <2>1, <3>2, FS_Subset, FS_CardinalityType
    <3>5. QED
      BY <2>1, <3>1, <3>3, <3>4
  <2>3. QED
    BY <2>1, <2>2
<1> HIDE DEF depth
<1>10. \A s \in scopes : up[s] = found(s)
  <2> DEFINE depths == {depth(s) : s \in {t \in scopes : up[t] # found(t)}}
  <2>1. ASSUME NEW x \in scopes, up[x] # found(x)
        PROVE  FALSE
    <3>1. depths \subseteq Nat /\ depths # {}
      BY <1>9, <2>1
    <3>2. PICK d \in depths : \A e \in depths : d <= e
      BY <3>1, LeastExists
    <3>3. PICK s \in scopes : up[s] # found(s) /\ d = depth(s)
      BY <3>2
    <3>4. \A p \in tree.parent[s] : up[p] = found(p)
      <4>1. ASSUME NEW p \in tree.parent[s], up[p] # found(p)
            PROVE  FALSE
        <5>1. depth(p) \in depths /\ depth(p) < depth(s) /\ depth(p) \in Nat /\ depth(s) \in Nat
          BY <1>9, <3>3, <4>1
        <5>2. QED
          BY <3>2, <3>3, <5>1
      <4>2. QED
        BY <4>1
    <3>5. {up[p] : p \in tree.parent[s]} = {found(p) : p \in tree.parent[s]}
      BY <3>4
    <3>6. QED
      BY <1>4, <1>8, <3>3, <3>5
  <2>2. QED
    BY <2>1
<1>11. QED
  BY <1>7, <1>10 DEF found

\* Inwards from a scope that covers the line it finds the smallest inside that does.
LEMMA RefineFinds ==
  ASSUME NEW scopes, Valid(scopes), Laminar(scopes), NEW tree, Grown(scopes, tree),
         NEW at \in Int, NEW start \in scopes, Covers(start, at)
  PROVE  RefineInnermost(tree, start, at) = Innermost(Seen(Inside(scopes, start), at))
<1> DEFINE inner(s) == {c \in scopes : s \in tree.parent[c] /\ Covers(c, at)}
           found(s) == IF Covers(s, at) THEN Innermost(Seen(Inside(scopes, s), at)) ELSE {s}
           Descends(down) == down = [s \in DOMAIN tree.parent |->
                                       IF inner(s) = {} THEN {s} ELSE UNION {down[c] : c \in inner(s)}]
           width(s) == s.hi - s.lo
<1>1. DOMAIN tree.parent = scopes
  BY DEF Grown
<1>2. ASSUME NEW s \in scopes, NEW c \in inner(s)
      PROVE  c \in scopes /\ StrictlyContains(s, c) /\ Covers(c, at) /\ Covers(s, at) /\ inner(s) = {c}
  <2>1. c \in scopes /\ s \in tree.parent[c] /\ Covers(c, at)
    OBVIOUS
  <2>2. ASSUME NEW d \in inner(s)
        PROVE  d = c /\ StrictlyContains(s, c)
    <3>1. RangesOverlap(c, d)
      BY <2>1, ContainmentCovers
    <3>2. QED
      BY <2>1, <3>1, ChildrenApart
  <2>3. QED
    BY <2>1, <2>2, ContainmentCovers
<1>3. ASSUME NEW s \in scopes, Covers(s, at)
      PROVE  /\ inner(s) = {} => found(s) = {s}
             /\ \A c \in inner(s) : found(s) = found(c)
  <2>1. ASSUME NEW t \in Seen(Inside(scopes, s), at), t # s
        PROVE  \E c \in inner(s) : t \in Seen(Inside(scopes, c), at)
    <3>1. t \in scopes /\ StrictlyContains(s, t) /\ Covers(t, at)
      BY <2>1 DEF Seen, Inside
    <3>2. PICK c \in scopes : s \in tree.parent[c] /\ t \in Inside(scopes, c)
      BY <3>1, ChildBetween
    <3>3. Covers(c, at)
      BY <3>1, <3>2, ContainmentCovers DEF Inside
    <3>4. QED
      BY <3>1, <3>2, <3>3 DEF Seen
  <2>2. s \in Seen(Inside(scopes, s), at) /\ ~StrictlyContains(s, s)
    BY <1>3, ContainmentOrders DEF Seen, Inside
  <2>3. CASE inner(s) = {}
    <3>1. Seen(Inside(scopes, s), at) = {s}
      BY <2>1, <2>2, <2>3
    <3>2. QED
      BY <1>3, <2>2, <2>3, <3>1 DEF Innermost
  <2>4. ASSUME NEW c \in inner(s)
        PROVE  found(s) = found(c)
    <3>1. c \in scopes /\ StrictlyContains(s, c) /\ Covers(c, at) /\ inner(s) = {c}
      BY <1>2
    <3>2. c \in Seen(Inside(scopes, c), at)
      BY <3>1 DEF Seen, Inside
    <3>3. \A t \in Seen(Inside(scopes, c), at) : t \in Seen(Inside(scopes, s), at) /\ StrictlyContains(s, t)
      BY <3>1, ContainmentOrders DEF Seen, Inside
    <3>4. \A t \in Seen(Inside(scopes, s), at) : t = s \/ t \in Seen(Inside(scopes, c), at)
      BY <2>1, <3>1
    <3>5. \A t \in Seen(Inside(scopes, c), at) : ~StrictlyContains(t, s)
      BY <3>3, ContainmentOrders DEF Seen, Inside
    <3>6. Innermost(Seen(Inside(scopes, s), at)) = Innermost(Seen(Inside(scopes, c), at))
      BY <3>2, <3>3, <3>4, <3>5 DEF Innermost
    <3>7. QED
      BY <1>3, <3>1, <3>6
  <2>5. QED
    BY <2>3, <2>4
<1>4. ASSUME NEW s \in scopes, ~Covers(s, at)
      PROVE  inner(s) = {}
  BY <1>2, <1>4
<1>5. ASSUME NEW s \in scopes
      PROVE  found(s) = IF inner(s) = {} THEN {s} ELSE UNION {found(c) : c \in inner(s)}
  <2>1. CASE inner(s) = {}
    BY <1>3, <2>1
  <2>2. CASE inner(s) # {}
    <3>1. PICK c \in inner(s) : TRUE
      BY <2>2
    <3>2. inner(s) = {c} /\ Covers(s, at)
      BY <1>2, <3>1
    <3>3. found(s) = found(c)
      BY <1>3, <3>1, <3>2
    <3> HIDE DEF found, inner
    <3>4. QED
      BY <2>2, <3>2, <3>3
  <2>3. QED
    BY <2>1, <2>2
<1> HIDE DEF found
<1> DEFINE g == [s \in scopes |-> found(s)]
<1>6. Descends(g)
  <2>1. ASSUME NEW s \in scopes
        PROVE  g[s] = IF inner(s) = {} THEN {s} ELSE UNION {g[c] : c \in inner(s)}
    <3>1. {g[c] : c \in inner(s)} = {found(c) : c \in inner(s)}
      OBVIOUS
    <3>2. g[s] = found(s)
      OBVIOUS
    <3> HIDE DEF g, inner
    <3>3. QED
      BY <1>5, <3>1, <3>2
  <2>2. DOMAIN g = scopes /\ g = [s \in scopes |-> g[s]]
    OBVIOUS
  <2> HIDE DEF g, inner
  <2>3. QED
    BY <1>1, <2>1, <2>2
<1> DEFINE down == CHOOSE f : Descends(f)
<1>7. Descends(down)
  BY <1>6
<1>8. RefineInnermost(tree, start, at) = down[start]
  BY <1>1 DEF RefineInnermost
<1> HIDE DEF down, g
<1>9. \A s \in scopes : down[s] = IF inner(s) = {} THEN {s} ELSE UNION {down[c] : c \in inner(s)}
  BY <1>1, <1>7
<1>10. \A s \in scopes : down[s] = found(s)
  <2> DEFINE widths == {width(s) : s \in {t \in scopes : down[t] # found(t)}}
  <2>1. ASSUME NEW x \in scopes, down[x] # found(x)
        PROVE  FALSE
    <3>1. \A s \in scopes : width(s) \in Nat
      BY ContainmentCovers
    <3>2. widths \subseteq Nat /\ widths # {}
      BY <2>1, <3>1
    <3>3. PICK w \in widths : \A v \in widths : w <= v
      BY <3>2, LeastExists
    <3>4. PICK s \in scopes : down[s] # found(s) /\ w = width(s)
      BY <3>3
    <3>5. ASSUME NEW c \in inner(s), down[c] # found(c)
          PROVE  FALSE
      <4>1. c \in scopes /\ width(c) < width(s) /\ width(c) \in widths
        BY <1>2, <3>4, <3>5, ContainmentCovers
      <4>2. QED
        BY <3>1, <3>3, <3>4, <4>1
    <3>6. {down[c] : c \in inner(s)} = {found(c) : c \in inner(s)}
      BY <3>5
    <3> HIDE DEF inner
    <3>7. QED
      BY <1>5, <1>9, <3>4, <3>6
  <2>2. QED
    BY <2>1
<1>11. QED
  BY <1>8, <1>10 DEF found

\* Whichever candidate the search starts from, it ends at the smallest scope that covers the line.
LEMMA ScopeFound ==
  ASSUME NEW scopes, Valid(scopes), IsFiniteSet(scopes), Laminar(scopes), NEW tree, Grown(scopes, tree),
         NEW at \in Int, NEW s \in Candidates(tree, at)
  PROVE  ScopeAt(tree, s, at) = Innermost(Seen(scopes, at))
<1>1. DOMAIN tree.parent = scopes
  BY DEF Grown
<1>2. s \in scopes /\ \A t \in scopes : t.lo <= at => t.lo <= s.lo
  BY <1>1 DEF Candidates
<1>3. Outwards(tree, s, at) = Innermost(Seen(Outside(scopes, s), at))
  BY <1>2, OutwardsFinds
<1>4. CASE Seen(scopes, at) = {}
  <2>1. Innermost(Seen(Outside(scopes, s), at)) = {} /\ Innermost(Seen(scopes, at)) = {}
    BY <1>4 DEF Seen, Outside, Innermost
  <2>2. QED
    BY <1>3, <2>1 DEF ScopeAt
<1>5. CASE Seen(scopes, at) # {}
  <2>1. PICK m \in Seen(scopes, at) : \A t \in Seen(scopes, at) : ~StrictlyContains(m, t)
    <3>1. Seen(scopes, at) \in SUBSET scopes
      BY DEF Seen
    <3>2. QED
      BY <1>5, <3>1, InnermostExists DEF Innermost
  <2>2. m \in scopes /\ Covers(m, at)
    BY DEF Seen
  <2>3. \A t \in Seen(scopes, at) : t = m \/ StrictlyContains(t, m)
    <3>1. ASSUME NEW t \in Seen(scopes, at)
          PROVE  t = m \/ StrictlyContains(t, m)
      <4>1. t \in scopes /\ RangesOverlap(t, m)
        BY <2>2, ContainmentCovers DEF Seen
      <4>2. QED
        BY <2>1, <2>2, <4>1, OverlapNests
    <3>2. QED
      BY <3>1
  <2>4. ASSUME NEW S \in SUBSET Seen(scopes, at), m \in S
        PROVE  Innermost(S) = {m}
    BY <2>1, <2>3, <2>4 DEF Innermost
  <2>5. Innermost(Seen(scopes, at)) = {m}
    BY <2>4
  <2>6. s = m \/ StrictlyContains(s, m) \/ StrictlyContains(m, s)
    <3>1. m.lo <= s.lo /\ s.lo <= at
      BY <1>1, <1>2, <2>2 DEF Candidates, Covers
    <3>2. RangesOverlap(s, m)
      BY <1>2, <2>2, <3>1, RangesAre DEF RangesOverlap, Covers
    <3>3. QED
      BY <1>2, <2>2, <3>2, OverlapNests
  <2>7. \E u \in scopes : Outwards(tree, s, at) = {u} /\ Covers(u, at) /\ m \in Inside(scopes, u)
    <3>1. CASE s = m \/ StrictlyContains(m, s)
      <4>1. Seen(Outside(scopes, s), at) \in SUBSET Seen(scopes, at)
        BY DEF Seen, Outside
      <4>2. m \in Seen(Outside(scopes, s), at)
        BY <2>2, <3>1 DEF Seen, Outside
      <4>3. Outwards(tree, s, at) = {m}
        BY <1>3, <2>4, <4>1, <4>2
      <4>4. m \in Inside(scopes, m)
        BY <2>2 DEF Inside
      <4>5. QED
        BY <2>2, <4>3, <4>4
    <3>2. CASE StrictlyContains(s, m)
      <4>1. Covers(s, at)
        BY <1>2, <2>2, <3>2, ContainmentCovers
      <4>2. s \in Seen(Outside(scopes, s), at) /\ \A t \in Seen(Outside(scopes, s), at) : t = s \/ StrictlyContains(t, s)
        BY <1>2, <4>1 DEF Seen, Outside
      <4>3. \A t \in Seen(Outside(scopes, s), at) : ~StrictlyContains(s, t)
        BY <1>2, <4>2, ContainmentOrders DEF Seen, Outside
      <4>4. Outwards(tree, s, at) = {s}
        BY <1>3, <4>2, <4>3 DEF Innermost
      <4>5. QED
        BY <1>2, <2>2, <3>2, <4>1, <4>4 DEF Inside
    <3>3. QED
      BY <2>6, <3>1, <3>2
  <2>8. PICK u \in scopes : Outwards(tree, s, at) = {u} /\ Covers(u, at) /\ m \in Inside(scopes, u)
    BY <2>7
  <2>9. RefineInnermost(tree, u, at) = {m}
    <3>1. Seen(Inside(scopes, u), at) \in SUBSET Seen(scopes, at) /\ m \in Seen(Inside(scopes, u), at)
      BY <2>2, <2>8 DEF Seen, Inside
    <3>2. QED
      BY <2>4, <2>8, <3>1, RefineFinds
  <2>10. QED
    BY <2>5, <2>8, <2>9 DEF ScopeAt
<1>6. QED
  BY <1>4, <1>5

LEMMA ScopesFound ==
  ASSUME NEW scopes, Valid(scopes), IsFiniteSet(scopes), NEW positions \in SUBSET Int
  PROVE  ScopesExactFor(scopes, positions)
<1> DEFINE tree == BuildScopeTree(scopes)
<1>1. /\ tree.ok <=> Laminar(scopes)
      /\ tree.ok => Grown(scopes, tree)
  BY TreeBuilt DEF Grown
<1>2. ASSUME tree.ok, NEW at \in positions, NEW candidate \in Candidates(tree, at)
      PROVE  ScopeAt(tree, candidate, at) = Innermost(Seen(scopes, at))
  <2> HIDE DEF tree
  <2>1. QED
    BY <1>1, <1>2, ScopeFound
<1>3. \A at : Seen(scopes, at) = {s \in scopes : Covers(s, at)}
  BY DEF Seen
<1>4. \A s : Around(scopes, s) = {t \in scopes : StrictlyContains(t, s)}
  BY DEF Around
<1> HIDE DEF tree
<1>5. QED
  BY <1>1, <1>2, <1>3, <1>4 DEF ScopesExactFor, Grown, tree

----------------------------------------------------------------------------
(* What MCDecisions looks at is among what the lemmas are about.           *)

Scoped == case.of = "scopes" => case.scopes \in SUBSET ValidScopes

LEMMA ScopedAlways == Decisions => []Scoped
<1>1. Begin => Scoped
  BY DEF Begin, Scoped
<1>2. ASSUME Scoped, [Decide]_case
      PROVE  Scoped'
  <2>1. CASE PickScopes
    <3>1. CASE case' = [of |-> "scopes", scopes |-> {}]
      BY <3>1 DEF Scoped
    <3>2. CASE case.of = "scopes" /\ \E s \in ValidScopes \ case.scopes :
                 case' = [of |-> "scopes", scopes |-> case.scopes \cup {s}]
      BY <1>2, <3>2 DEF Scoped
    <3>3. QED
      BY <2>1, <3>1, <3>2 DEF PickScopes
  <2>2. CASE PickPackages
    <3>1. case'.of = "packages"
      BY <2>2 DEF PickPackages
    <3>2. QED
      BY <3>1 DEF Scoped
  <2>3. CASE PickAssessments
    <3>1. case'.of = "assessed"
      BY <2>3 DEF PickAssessments
    <3>2. QED
      BY <3>1 DEF Scoped
  <2>4. CASE PickJudgements
    <3>1. case'.of = "judged"
      BY <2>4 DEF PickJudgements
    <3>2. QED
      BY <3>1 DEF Scoped
  <2>5. CASE PickGate
    <3>1. case'.of = "gate"
      BY <2>5 DEF PickGate
    <3>2. QED
      BY <3>1 DEF Scoped
  <2>6. CASE PickVerdict
    <3>1. case'.of = "verdict"
      BY <2>6 DEF PickVerdict
    <3>2. QED
      BY <3>1 DEF Scoped
  <2>7. CASE PickReplies
    <3>1. case'.of = "replies"
      BY <2>7 DEF PickReplies
    <3>2. QED
      BY <3>1 DEF Scoped
  <2>8. CASE PickCalls
    <3>1. case'.of = "calls"
      BY <2>8 DEF PickCalls
    <3>2. QED
      BY <3>1 DEF Scoped
  <2>9. CASE PickWords
    <3>1. case'.of = "words"
      BY <2>9 DEF PickWords
    <3>2. QED
      BY <3>1 DEF Scoped
  <2>10. CASE PickHierarchy
    <3>1. case'.of \in {"bases", "classes"}
      BY <2>10 DEF PickHierarchy
    <3>2. QED
      BY <3>1 DEF Scoped
  <2>11. CASE UNCHANGED case
    BY <1>2, <2>11 DEF Scoped
  <2>12. QED
    BY <1>2, <2>1, <2>2, <2>3, <2>4, <2>5, <2>6, <2>7, <2>8, <2>9, <2>10, <2>11 DEF Decide
<1>3. QED
  BY <1>1, <1>2, PTL DEF Decisions

LEMMA LinesFinite == Valid(ValidScopes) /\ IsFiniteSet(ValidScopes)
<1> DEFINE kinds == {"class", "function"}
           lines == 0 .. MaxLine
           boxes == (lines \X lines) \X kinds
           made  == [b \in boxes |-> ScopeOfLines(b[1][1], b[1][2], b[2])]
<1>1. ASSUME NEW first \in lines, NEW last \in lines, NEW kind \in kinds
      PROVE  /\ ScopeOfLines(first, last, kind) \in [lo : Int, hi : Int, kind : kinds]
             /\ <<<<first, last>>, kind>> \in boxes
             /\ made[<<<<first, last>>, kind>>] = ScopeOfLines(first, last, kind)
  BY MaxLineAssumption DEF ScopeOfLines
<1>2. /\ SmallScopes \subseteq [lo : Int, hi : Int, kind : kinds]
      /\ SmallScopes \subseteq {made[b] : b \in boxes}
  <2>1. SmallScopes = {ScopeOfLines(first, last, kind) : first \in lines, last \in lines, kind \in kinds}
    BY DEF SmallScopes
  <2> HIDE DEF kinds, lines, boxes, made
  <2>2. \A s \in SmallScopes : \E first \in lines, last \in lines, kind \in kinds :
          s = ScopeOfLines(first, last, kind)
    BY <2>1
  <2>3. ASSUME NEW s \in SmallScopes
        PROVE  s \in [lo : Int, hi : Int, kind : kinds] /\ s \in {made[b] : b \in boxes}
    <3>1. PICK first \in lines, last \in lines, kind \in kinds : s = ScopeOfLines(first, last, kind)
      BY <2>2
    <3> DEFINE b == <<<<first, last>>, kind>>
    <3>2. b \in boxes /\ s = made[b] /\ s \in [lo : Int, hi : Int, kind : kinds]
      BY <1>1, <3>1
    <3> HIDE DEF b
    <3>3. QED
      BY <3>2
  <2>4. QED
    BY <2>3
<1>3. IsFiniteSet(boxes)
  <2>1. IsFiniteSet({"class"}) /\ IsFiniteSet({"function"}) /\ kinds = {"class"} \cup {"function"}
    BY FS_Singleton
  <2>2. IsFiniteSet(kinds)
    <3> HIDE DEF kinds
    <3>1. QED
      BY <2>1, FS_Union
  <2>3. IsFiniteSet(lines)
    BY MaxLineAssumption, FS_Interval
  <2> HIDE DEF kinds, lines
  <2>4. IsFiniteSet(lines \X lines)
    BY <2>3, FS_Product
  <2>5. QED
    BY <2>2, <2>4, FS_Product
<1>4. IsFiniteSet({made[b] : b \in boxes})
  <2>1. made = [b \in boxes |-> made[b]]
    OBVIOUS
  <2> HIDE DEF made, boxes
  <2>2. QED
    BY <1>3, <2>1, ImageFinite
<1>5. ValidScopes \in SUBSET {made[b] : b \in boxes}
  BY <1>2 DEF ValidScopes
<1>6. IsFiniteSet(ValidScopes)
  BY <1>4, <1>5, FS_Subset
<1>7. QED
  BY <1>2, <1>6 DEF Valid, ValidScopes

\* Of any finite set of scopes that are not empty: the tree is built exactly if they nest, each
\* scope then hangs under the smallest one around it, and every line is given the smallest
\* scope that covers it, whichever of the scopes that start last before it is tried first.
THEOREM ScopesCorrect ==
  /\ \A scopes, positions :
       Valid(scopes) /\ IsFiniteSet(scopes) /\ positions \in SUBSET Int =>
         ScopesExactFor(scopes, positions)
  /\ Decisions => []ScopesExact
<1>1. Scoped => ScopesExact
  <2> SUFFICES ASSUME case.scopes \in SUBSET ValidScopes
               PROVE  ScopesExactFor(case.scopes, 0 .. MaxLine)
    BY DEF Scoped, ScopesExact
  <2>1. Valid(case.scopes) /\ IsFiniteSet(case.scopes)
    BY LinesFinite, FS_Subset DEF Valid
  <2>2. 0 .. MaxLine \in SUBSET Int
    BY MaxLineAssumption
  <2>3. QED
    BY <2>1, <2>2, ScopesFound
<1>2. Decisions => []ScopesExact
  BY <1>1, ScopedAlways, PTL
<1>3. QED
  BY <1>2, ScopesFound

----------------------------------------------------------------------------
(* A class's ancestors: it, its bases, and theirs.                         *)

LEMMA AncestorsAre ==
  ASSUME NEW D, NEW parents \in [D -> Seq(D)], NEW c \in D
  PROVE  LET tree == AncestorsOrSelf(parents, c)
         IN  /\ tree \in SUBSET D
             /\ c \in tree
             /\ UpwardClosed(parents, tree)
             /\ \A S \in SUBSET D : c \in S /\ UpwardClosed(parents, S) => tree \subseteq S
<1> DEFINE tree == AncestorsOrSelf(parents, c)
<1>1. DOMAIN parents = D
  OBVIOUS
<1>2. tree = {a \in D : \A S \in SUBSET D : c \in S /\ UpwardClosed(parents, S) => a \in S}
  BY <1>1 DEF AncestorsOrSelf
<1>3. \A a \in D : ToSet(parents[a]) \subseteq D
  BY DEF ToSet
<1>4. ASSUME NEW a \in tree
      PROVE  ToSet(parents[a]) \subseteq tree
  <2>1. SUFFICES ASSUME NEW p \in ToSet(parents[a]), NEW S \in SUBSET D,
                        c \in S, UpwardClosed(parents, S)
                 PROVE  p \in S
    BY <1>2, <1>3
  <2>2. a \in S
    BY <1>2, <1>4, <2>1
  <2>3. QED
    BY <2>1, <2>2 DEF UpwardClosed
<1>5. QED
  BY <1>2, <1>4 DEF UpwardClosed

LEMMA AncestorsNest ==
  ASSUME NEW D, NEW parents \in [D -> Seq(D)], NEW c \in D, NEW a \in AncestorsOrSelf(parents, c)
  PROVE  AncestorsOrSelf(parents, a) \subseteq AncestorsOrSelf(parents, c)
BY AncestorsAre

LEMMA BasesAreAncestors ==
  ASSUME NEW D, NEW parents \in [D -> Seq(D)], NEW c \in D, NEW p \in ToSet(parents[c])
  PROVE  p \in D /\ AncestorsOrSelf(parents, p) \subseteq AncestorsOrSelf(parents, c)
<1>1. p \in AncestorsOrSelf(parents, c)
  BY AncestorsAre DEF UpwardClosed
<1>2. QED
  BY <1>1, AncestorsAre, AncestorsNest

\* An ancestor other than the class itself is one of some base's.
LEMMA AncestorsOfBases ==
  ASSUME NEW D, NEW parents \in [D -> Seq(D)], NEW c \in D,
         NEW a \in AncestorsOrSelf(parents, c), a # c
  PROVE  \E p \in ToSet(parents[c]) : a \in AncestorsOrSelf(parents, p)
<1> DEFINE S == {c} \cup UNION {AncestorsOrSelf(parents, p) : p \in ToSet(parents[c])}
<1>1. \A p \in ToSet(parents[c]) : p \in D
  BY BasesAreAncestors
<1>2. S \in SUBSET D
  <2>1. \A p \in ToSet(parents[c]) : AncestorsOrSelf(parents, p) \in SUBSET D
    BY <1>1, AncestorsAre
  <2>2. QED
    BY <2>1
<1>3. ASSUME NEW x \in S, NEW q \in ToSet(parents[x])
      PROVE  q \in S
  <2>1. CASE x = c
    BY <1>1, <2>1, AncestorsAre
  <2>2. CASE x # c
    <3>1. PICK p \in ToSet(parents[c]) : x \in AncestorsOrSelf(parents, p)
      BY <2>2
    <3>2. q \in AncestorsOrSelf(parents, p)
      BY <1>1, <3>1, AncestorsAre DEF UpwardClosed
    <3>3. QED
      BY <3>2
  <2>3. QED
    BY <2>1, <2>2
<1>4. UpwardClosed(parents, S)
  BY <1>3 DEF UpwardClosed
<1>5. c \in S /\ \A x \in S : x = c \/ \E p \in ToSet(parents[c]) : x \in AncestorsOrSelf(parents, p)
  OBVIOUS
<1> HIDE DEF S
<1>6. AncestorsOrSelf(parents, c) \subseteq S
  BY <1>2, <1>4, <1>5, AncestorsAre
<1>7. QED
  BY <1>5, <1>6

\* The way from a class in S to an ancestor outside leaves S at a base of some class in S.
LEMMA AncestryLeaves ==
  ASSUME NEW D, NEW parents \in [D -> Seq(D)], NEW a \in D, NEW S, a \in S,
         NEW d \in AncestorsOrSelf(parents, a), d \notin S
  PROVE  \E v \in S \cap AncestorsOrSelf(parents, a) :
            ~(ToSet(parents[v]) \subseteq S)
<1> DEFINE T == S \cap AncestorsOrSelf(parents, a)
<1>1. T \in SUBSET D /\ a \in T
  BY AncestorsAre
<1>2. SUFFICES ASSUME \A v \in T : ToSet(parents[v]) \subseteq S
               PROVE  FALSE
  OBVIOUS
<1>3. UpwardClosed(parents, T)
  BY <1>2, AncestorsAre DEF UpwardClosed
<1>4. AncestorsOrSelf(parents, a) \subseteq T
  BY <1>1, <1>3, AncestorsAre
<1>5. QED
  BY <1>4

----------------------------------------------------------------------------
(* What the walk returns, and the walk as one visit after another.         *)

Findings(D, N) == [methods : UNION {[M -> D] : M \in SUBSET N}, visited : SUBSET D]

\* Findings of a walk that had already visited U.
FindingsFrom(D, N, U) == {r \in Findings(D, N) : U \subseteq r.visited}

\* The walk is typed wherever it has visited U.
WalksFrom(D, N, walk, U) ==
  \A visited \in SUBSET D : U \subseteq visited =>
    \A b \in D : walk[visited][b] \in FindingsFrom(D, N, visited)

LEMMA UpdateIs ==
  ASSUME NEW D, NEW N, NEW r \in Findings(D, N), NEW s \in Findings(D, N)
  PROVE  /\ Update(r.methods, s.methods) \in UNION {[M -> D] : M \in SUBSET N}
         /\ DOMAIN Update(r.methods, s.methods) = DOMAIN r.methods \cup DOMAIN s.methods
         /\ \A name \in DOMAIN r.methods \cup DOMAIN s.methods :
              Update(r.methods, s.methods)[name] =
                IF name \in DOMAIN s.methods THEN s.methods[name] ELSE r.methods[name]
<1>1. PICK M \in SUBSET N : r.methods \in [M -> D]
  BY DEF Findings
<1>2. PICK K \in SUBSET N : s.methods \in [K -> D]
  BY DEF Findings
<1>3. Update(r.methods, s.methods) \in [M \cup K -> D] /\ M \cup K \in SUBSET N
  BY <1>1, <1>2 DEF Update
<1>4. QED
  BY <1>1, <1>2, <1>3 DEF Update

LEMMA VisitTyped ==
  ASSUME NEW D, NEW N, NEW U \in SUBSET D, NEW walk, WalksFrom(D, N, walk, U),
         NEW r \in FindingsFrom(D, N, U), NEW b \in D
  PROVE  /\ walk[r.visited][b] \in FindingsFrom(D, N, r.visited)
         /\ Visit(walk, r, b) \in FindingsFrom(D, N, U)
<1> DEFINE found == walk[r.visited][b]
<1>1. r.visited \in SUBSET D /\ U \subseteq r.visited /\ r \in Findings(D, N)
  BY DEF FindingsFrom, Findings
<1>2. found \in FindingsFrom(D, N, r.visited)
  BY <1>1 DEF WalksFrom
<1>3. found \in Findings(D, N) /\ r.visited \subseteq found.visited /\ found.visited \in SUBSET D
  BY <1>2 DEF FindingsFrom, Findings
<1>4. Visit(walk, r, b) = [methods |-> Update(r.methods, found.methods), visited |-> found.visited]
  BY DEF Visit
<1> DEFINE methods == Update(r.methods, found.methods)
<1>5. methods \in UNION {[M -> D] : M \in SUBSET N}
  BY <1>1, <1>3, UpdateIs
<1> HIDE DEF methods, found
<1>6. [methods |-> methods, visited |-> found.visited] \in Findings(D, N)
  BY <1>3, <1>5 DEF Findings
<1>7. QED
  BY <1>1, <1>2, <1>3, <1>4, <1>6 DEF FindingsFrom, methods, found

\* From base to base, the last one first.
Ascends(D, N, parents, walk, c, visited, at) ==
  LET n == Len(parents[c])
      U == visited \cup {c}
  IN  /\ at \in [0 .. n -> FindingsFrom(D, N, U)]
      /\ at[0] = [methods |-> <<>>, visited |-> U]
      /\ \A k \in 0 .. (n - 1) : at[k + 1] = Visit(walk, at[k], parents[c][n - k])
      /\ Inherit(walk, parents, c, visited) = at[n]

LEMMA NothingFound ==
  ASSUME NEW D, NEW N, NEW U \in SUBSET D
  PROVE  [methods |-> <<>>, visited |-> U] \in FindingsFrom(D, N, U)
<1>1. <<>> \in [{} -> D]
  OBVIOUS
<1>2. <<>> \in UNION {[M -> D] : M \in SUBSET N}
  BY <1>1
<1>3. QED
  BY <1>2 DEF FindingsFrom, Findings

LEMMA InheritAscends ==
  ASSUME NEW D, NEW N, NEW parents \in [D -> Seq(D)], NEW c \in D, NEW visited \in SUBSET D,
         NEW walk, WalksFrom(D, N, walk, visited \cup {c})
  PROVE  \E at : Ascends(D, N, parents, walk, c, visited, at)
<1> DEFINE n == Len(parents[c])
           U == visited \cup {c}
           V == FindingsFrom(D, N, U)
           order == BasesInTurn(parents, c)
           base == [methods |-> <<>>, visited |-> U]
           F == [p \in V \X (1 .. n) |-> Visit(walk, p[1], order[p[2]])]
           Iterates(g) == g = [S \in SUBSET (1 .. n) |->
                                 IF S = {} THEN base ELSE Visit(walk, g[S \ {Max(S)}], order[Max(S)])]
<1>1. n \in Nat /\ U \in SUBSET D /\ parents[c] \in Seq(D)
  OBVIOUS
<1>2. order \in [1 .. n -> D] /\ \A k \in 0 .. (n - 1) : order[k + 1] = parents[c][n - k]
  <2>1. order = [i \in 1 .. n |-> parents[c][(n - i) + 1]]
    BY DEF BasesInTurn, Reverse
  <2>2. \A i \in 1 .. n : (n - i) + 1 \in 1 .. n
    BY <1>1
  <2>3. \A k \in 0 .. (n - 1) : k + 1 \in 1 .. n /\ (n - (k + 1)) + 1 = n - k
    BY <1>1
  <2>4. QED
    BY <1>1, <2>1, <2>2, <2>3
<1> HIDE DEF order
<1>3. base \in V
  BY <1>1, NothingFound
<1>4. F \in [V \X (1 .. n) -> V]
  <2>1. ASSUME NEW r \in V, NEW k \in 1 .. n
        PROVE  Visit(walk, r, order[k]) \in V
    BY <1>1, <1>2, VisitTyped
  <2>2. QED
    BY <2>1
<1> HIDE DEF n, U, V, base
<1>5. PICK g : Folds(V, base, F, g, n)
  BY <1>1, <1>3, <1>4, FoldExists
<1>6. \A S \in SUBSET (1 .. n) : S # {} => g[S \ {Max(S)}] \in V /\ Max(S) \in 1 .. n
  BY <1>1, <1>5, MaxOf DEF Folds
<1>7. \A S \in SUBSET (1 .. n) :
        g[S] = IF S = {} THEN base ELSE Visit(walk, g[S \ {Max(S)}], order[Max(S)])
  <2>1. ASSUME NEW S \in SUBSET (1 .. n), S # {}
        PROVE  F[<<g[S \ {Max(S)}], Max(S)>>] = Visit(walk, g[S \ {Max(S)}], order[Max(S)])
    BY <1>6, <2>1
  <2>2. QED
    BY <1>5, <2>1 DEF Folds
<1>8. Iterates(g)
  BY <1>5, <1>7 DEF Folds
<1> DEFINE chosen == CHOOSE f : Iterates(f)
<1>9. Iterates(chosen)
  BY <1>8
<1>10. Inherit(walk, parents, c, visited) = chosen[1 .. n]
  <2>1. DOMAIN order = 1 .. n
    BY <1>2
  <2>2. QED
    BY <2>1 DEF Inherit, FoldLeft, MapThenFoldSet, base, U, order
<1> HIDE DEF chosen
<1>11. chosen[{}] = base
  BY <1>9
<1>12. ASSUME NEW S \in SUBSET (1 .. n), S # {}, chosen[S \ {Max(S)}] \in V
       PROVE  chosen[S] = F[<<chosen[S \ {Max(S)}], Max(S)>>]
  <2>1. chosen[S] = Visit(walk, chosen[S \ {Max(S)}], order[Max(S)]) /\ Max(S) \in 1 .. n
    BY <1>1, <1>9, <1>12, MaxOf
  <2>2. QED
    BY <1>12, <2>1
<1>13. PICK at : StepByStep(V, base, F, chosen, n, at)
  <2>1. FoldsWithin(V, base, F, chosen, n)
    BY <1>11, <1>12 DEF FoldsWithin
  <2> HIDE DEF F
  <2>2. QED
    BY <1>1, <1>3, <1>4, <2>1, FoldSteps
<1>14. \A k \in 0 .. (n - 1) : k \in 0 .. n /\ k + 1 \in 1 .. n
  BY <1>1
<1>15. \A k \in 0 .. (n - 1) : at[k + 1] = Visit(walk, at[k], parents[c][n - k])
  BY <1>2, <1>13, <1>14 DEF StepByStep
<1>16. QED
  BY <1>10, <1>13, <1>15 DEF StepByStep, Ascends, n, U, V, base

----------------------------------------------------------------------------
(* There is a walk: the more is visited, the less is left to walk.         *)

MergedBy(walk, parents, defines, c, visited) ==
  IF c \in visited THEN [methods |-> <<>>, visited |-> visited]
  ELSE LET inherited == Inherit(walk, parents, c, visited)
       IN  [methods |-> Update(inherited.methods, Own(defines, c)), visited |-> inherited.visited]

Walks(parents, defines, walk) ==
  walk = [visited \in SUBSET DOMAIN parents |->
            [c \in DOMAIN parents |-> MergedBy(walk, parents, defines, c, visited)]]

LEMMA OwnIs ==
  ASSUME NEW D, NEW N, NEW defines \in [D -> SUBSET N], NEW c \in D
  PROVE  [methods |-> Own(defines, c), visited |-> {}] \in Findings(D, N)
<1>1. Own(defines, c) \in [defines[c] -> D] /\ defines[c] \in SUBSET N
  BY DEF Own
<1>2. Own(defines, c) \in UNION {[M -> D] : M \in SUBSET N}
  BY <1>1
<1>3. QED
  BY <1>2 DEF Findings

LEMMA MergedTyped ==
  ASSUME NEW D, NEW N, NEW parents \in [D -> Seq(D)], NEW defines \in [D -> SUBSET N],
         NEW c \in D, NEW visited \in SUBSET D, NEW walk,
         c \notin visited => WalksFrom(D, N, walk, visited \cup {c})
  PROVE  MergedBy(walk, parents, defines, c, visited) \in FindingsFrom(D, N, visited)
<1>1. CASE c \in visited
  BY <1>1, NothingFound DEF MergedBy
<1>2. CASE c \notin visited
  <2> DEFINE inherited == Inherit(walk, parents, c, visited)
             own == [methods |-> Own(defines, c), visited |-> {}]
  <2>1. PICK at : Ascends(D, N, parents, walk, c, visited, at)
    BY <1>2, InheritAscends
  <2>2. inherited \in FindingsFrom(D, N, visited \cup {c})
    <3>1. Len(parents[c]) \in 0 .. Len(parents[c])
      OBVIOUS
    <3>2. QED
      BY <2>1, <3>1 DEF Ascends
  <2>3. inherited \in Findings(D, N) /\ inherited.visited \in SUBSET D /\ visited \subseteq inherited.visited
    BY <2>2 DEF FindingsFrom, Findings
  <2>4. own \in Findings(D, N)
    BY OwnIs
  <2> HIDE DEF inherited, own
  <2>5. Update(inherited.methods, own.methods) \in UNION {[M -> D] : M \in SUBSET N}
    BY <2>3, <2>4, UpdateIs
  <2>6. MergedBy(walk, parents, defines, c, visited) =
          [methods |-> Update(inherited.methods, own.methods), visited |-> inherited.visited]
    BY <1>2 DEF MergedBy, inherited, own
  <2> DEFINE methods == Update(inherited.methods, own.methods)
  <2> HIDE DEF methods
  <2>7. QED
    BY <2>3, <2>5, <2>6 DEF FindingsFrom, Findings, methods
<1>3. QED
  BY <1>1, <1>2

SameFrom(D, v, w, visited) == \A U \in SUBSET D : visited \subseteq U => v[U] = w[U]

\* What is merged depends on what the walk returns where more is visited.
LEMMA MergedAgrees ==
  ASSUME NEW D, NEW N, NEW parents \in [D -> Seq(D)], NEW defines \in [D -> SUBSET N],
         NEW c \in D, NEW visited \in SUBSET D, NEW v, NEW w, c \notin visited,
         WalksFrom(D, N, v, visited \cup {c}), WalksFrom(D, N, w, visited \cup {c}),
         SameFrom(D, v, w, visited \cup {c})
  PROVE  MergedBy(v, parents, defines, c, visited) = MergedBy(w, parents, defines, c, visited)
<1> DEFINE n == Len(parents[c])
           U == visited \cup {c}
<1>1. PICK x : Ascends(D, N, parents, v, c, visited, x)
  BY InheritAscends
<1>2. PICK y : Ascends(D, N, parents, w, c, visited, y)
  BY InheritAscends
<1>3. ASSUME NEW k \in 0 .. (n - 1), x[k] = y[k]
      PROVE  x[k + 1] = y[k + 1]
  <2>1. k \in 0 .. n
    OBVIOUS
  <2>2. x[k] \in FindingsFrom(D, N, U)
    BY <1>1, <2>1 DEF Ascends
  <2>3. v[x[k].visited] = w[x[k].visited]
    BY <2>2 DEF FindingsFrom, Findings, SameFrom
  <2>4. Visit(v, x[k], parents[c][n - k]) = Visit(w, x[k], parents[c][n - k])
    BY <2>3 DEF Visit
  <2>5. QED
    BY <1>1, <1>2, <1>3, <2>4 DEF Ascends
<1>4. x[0] = y[0]
  BY <1>1, <1>2 DEF Ascends
<1>5. x[n] = y[n]
  <2> HIDE DEF n
  <2> DEFINE G == {k \in 0 .. n : x[k] # y[k]}
  <2>0. n \in Nat
    BY DEF n
  <2>1. ASSUME G # {}
        PROVE  FALSE
    <3>1. G \subseteq Nat
      OBVIOUS
    <3>2. PICK k \in G : \A j \in G : k <= j
      BY <2>1, <3>1, LeastExists
    <3>3. k # 0
      BY <1>4, <3>2
    <3>4. k - 1 \in 0 .. (n - 1) /\ k - 1 \in 0 .. n /\ ~(k <= k - 1) /\ (k - 1) + 1 = k
      BY <2>0, <3>2, <3>3
    <3>5. x[k - 1] = y[k - 1]
      BY <3>2, <3>4
    <3>6. x[k] = y[k]
      BY <1>3, <3>4, <3>5
    <3>7. QED
      BY <3>2, <3>6
  <2>2. n \in 0 .. n
    BY <2>0
  <2>3. QED
    BY <2>1, <2>2
<1>6. Inherit(v, parents, c, visited) = Inherit(w, parents, c, visited)
  BY <1>1, <1>2, <1>5 DEF Ascends
<1>7. QED
  BY <1>6 DEF MergedBy

LeftToVisit(D, visited) == Cardinality(D \ visited)

LEMMA LeftShrinks ==
  ASSUME NEW D, IsFiniteSet(D), NEW V \in SUBSET D
  PROVE  /\ LeftToVisit(D, V) \in Nat
         /\ LeftToVisit(D, V) <= Cardinality(D)
         /\ \A U \in SUBSET D, c \in D :
              c \notin V /\ V \cup {c} \subseteq U => LeftToVisit(D, U) < LeftToVisit(D, V)
<1>1. IsFiniteSet(D \ V) /\ LeftToVisit(D, V) \in Nat /\ LeftToVisit(D, V) <= Cardinality(D)
  BY FS_Subset, FS_CardinalityType DEF LeftToVisit
<1>2. ASSUME NEW U \in SUBSET D, NEW c \in D, c \notin V, V \cup {c} \subseteq U
      PROVE  LeftToVisit(D, U) < LeftToVisit(D, V)
  <2>1. D \ U \subseteq D \ V /\ D \ U # D \ V
    BY <1>2
  <2>2. Cardinality(D \ U) \in Nat /\ Cardinality(D \ V) \in Nat
    BY FS_Subset, FS_CardinalityType
  <2>3. QED
    BY <1>1, <2>1, <2>2, FS_Subset DEF LeftToVisit
<1>3. QED
  BY <1>1, <1>2

\* Walks as the code does where less than k classes are left.
WalksBelow(D, N, parents, defines, walk, k) ==
  /\ walk \in [SUBSET D -> [D -> Findings(D, N)]]
  /\ WalksFrom(D, N, walk, {})
  /\ \A V \in SUBSET D : LeftToVisit(D, V) < k =>
       walk[V] = [c \in D |-> MergedBy(walk, parents, defines, c, V)]

LEMMA WalkExists ==
  ASSUME NEW D, NEW N, NEW parents \in [D -> Seq(D)], NEW defines \in [D -> SUBSET N],
         IsFiniteSet(D)
  PROVE  \E walk : Walks(parents, defines, walk)
<1> DEFINE B(k) == \E walk : WalksBelow(D, N, parents, defines, walk, k)
<1>1. B(0)
  <2> DEFINE w == [V \in SUBSET D |-> [c \in D |-> [methods |-> <<>>, visited |-> V]]]
  <2>1. \A V \in SUBSET D : [methods |-> <<>>, visited |-> V] \in FindingsFrom(D, N, V)
    BY NothingFound
  <2>2. w \in [SUBSET D -> [D -> Findings(D, N)]]
    BY <2>1 DEF FindingsFrom
  <2>3. WalksFrom(D, N, w, {})
    BY <2>1 DEF WalksFrom
  <2>4. \A V \in SUBSET D : ~(LeftToVisit(D, V) < 0)
    BY LeftShrinks
  <2> HIDE DEF w
  <2>5. WalksBelow(D, N, parents, defines, w, 0)
    BY <2>2, <2>3, <2>4 DEF WalksBelow
  <2>6. QED
    BY <2>5
<1>2. ASSUME NEW k \in Nat, B(k)
      PROVE  B(k + 1)
  <2>1. PICK v : WalksBelow(D, N, parents, defines, v, k)
    BY <1>2
  <2> DEFINE w == [V \in SUBSET D |->
                     IF LeftToVisit(D, V) = k THEN [c \in D |-> MergedBy(v, parents, defines, c, V)]
                     ELSE v[V]]
  <2>2. \A U \in SUBSET D : WalksFrom(D, N, v, U)
    BY <2>1 DEF WalksBelow, WalksFrom
  <2>3. ASSUME NEW V \in SUBSET D, NEW c \in D
        PROVE  MergedBy(v, parents, defines, c, V) \in FindingsFrom(D, N, V)
    BY <2>2, <2>3, MergedTyped
  <2>4. \A V \in SUBSET D, c \in D : w[V][c] \in FindingsFrom(D, N, V)
    <3>1. \A V \in SUBSET D, c \in D : v[V][c] \in FindingsFrom(D, N, V)
      BY <2>1 DEF WalksBelow, WalksFrom
    <3>2. QED
      BY <2>3, <3>1
  <2>5. w \in [SUBSET D -> [D -> Findings(D, N)]]
    <3>1. \A V \in SUBSET D : w[V] \in [D -> Findings(D, N)]
      <4>1. SUFFICES ASSUME NEW V \in SUBSET D
                     PROVE  w[V] \in [D -> Findings(D, N)]
        OBVIOUS
      <4>2. v[V] \in [D -> Findings(D, N)]
        BY <2>1 DEF WalksBelow
      <4>3. [c \in D |-> MergedBy(v, parents, defines, c, V)] \in [D -> Findings(D, N)]
        BY <2>3 DEF FindingsFrom
      <4>4. QED
        BY <4>2, <4>3
    <3>2. QED
      BY <3>1
  <2>6. \A U \in SUBSET D : WalksFrom(D, N, w, U)
    BY <2>4 DEF WalksFrom
  <2>7. \A V \in SUBSET D : LeftToVisit(D, V) < k => w[V] = v[V]
    <3>1. \A V \in SUBSET D : LeftToVisit(D, V) < k => LeftToVisit(D, V) # k
      BY LeftShrinks
    <3>2. QED
      BY <3>1
  <2>8. \A V \in SUBSET D : LeftToVisit(D, V) = k => w[V] = [c \in D |-> MergedBy(v, parents, defines, c, V)]
    OBVIOUS
  <2> HIDE DEF w
  <2>9. ASSUME NEW V \in SUBSET D, LeftToVisit(D, V) < k + 1, NEW c \in D
        PROVE  MergedBy(v, parents, defines, c, V) = MergedBy(w, parents, defines, c, V)
    <3>1. CASE c \in V
      BY <3>1 DEF MergedBy
    <3>2. CASE c \notin V
      <4>1. \A U \in SUBSET D : V \cup {c} \subseteq U => LeftToVisit(D, U) < k
        <5>1. SUFFICES ASSUME NEW U \in SUBSET D, V \cup {c} \subseteq U
                       PROVE  LeftToVisit(D, U) < k
          OBVIOUS
        <5>2. LeftToVisit(D, U) < LeftToVisit(D, V) /\ LeftToVisit(D, U) \in Nat /\ LeftToVisit(D, V) \in Nat
          BY <3>2, <5>1, LeftShrinks
        <5>3. QED
          BY <2>9, <5>2
      <4>2. WalksFrom(D, N, v, V \cup {c}) /\ WalksFrom(D, N, w, V \cup {c})
        BY <2>2, <2>6
      <4>3. SameFrom(D, v, w, V \cup {c})
        BY <2>7, <4>1 DEF SameFrom
      <4>4. QED
        BY <3>2, <4>2, <4>3, MergedAgrees
    <3>3. QED
      BY <3>1, <3>2
  <2>10. ASSUME NEW V \in SUBSET D, LeftToVisit(D, V) < k + 1
         PROVE  w[V] = [c \in D |-> MergedBy(w, parents, defines, c, V)]
    <3>1. w[V] = [c \in D |-> MergedBy(v, parents, defines, c, V)]
      <4>1. LeftToVisit(D, V) = k \/ LeftToVisit(D, V) < k
        BY <2>10, LeftShrinks
      <4>2. QED
        BY <2>1, <2>7, <2>8, <4>1 DEF WalksBelow
    <3>2. QED
      BY <2>9, <2>10, <3>1
  <2>11. WalksBelow(D, N, parents, defines, w, k + 1)
    <3>1. {} \in SUBSET D
      OBVIOUS
    <3>2. QED
      BY <2>5, <2>6, <2>10, <3>1 DEF WalksBelow
  <2>12. QED
    BY <2>11
<1> HIDE DEF B
<1>3. \A k \in Nat : B(k)
  <2> DEFINE G == {k \in Nat : ~B(k)}
  <2>1. ASSUME G # {}
        PROVE  FALSE
    <3>1. PICK k \in G : \A j \in G : k <= j
      BY <2>1, LeastExists
    <3>2. k # 0
      BY <1>1, <3>1
    <3>3. k - 1 \in Nat /\ ~(k <= k - 1) /\ (k - 1) + 1 = k
      BY <3>1, <3>2
    <3>4. B(k - 1)
      BY <3>1, <3>3
    <3>5. B(k)
      BY <1>2, <3>3, <3>4
    <3>6. QED
      BY <3>1, <3>5
  <2>2. QED
    BY <2>1
<1>4. Cardinality(D) + 1 \in Nat
  BY FS_CardinalityType
<1>5. PICK walk : WalksBelow(D, N, parents, defines, walk, Cardinality(D) + 1)
  BY <1>3, <1>4 DEF B
<1>6. \A V \in SUBSET D : LeftToVisit(D, V) < Cardinality(D) + 1
  <2>1. ASSUME NEW V \in SUBSET D
        PROVE  LeftToVisit(D, V) < Cardinality(D) + 1
    <3>1. LeftToVisit(D, V) \in Nat /\ LeftToVisit(D, V) <= Cardinality(D) /\ Cardinality(D) \in Nat
      BY LeftShrinks, FS_CardinalityType
    <3>2. QED
      BY <3>1
  <2>2. QED
    BY <2>1
<1>7. \A V \in SUBSET D : walk[V] = [c \in D |-> MergedBy(walk, parents, defines, c, V)]
  BY <1>5, <1>6 DEF WalksBelow
<1>8. walk = [V \in SUBSET D |-> walk[V]]
  BY <1>5 DEF WalksBelow
<1>9. walk = [V \in SUBSET D |-> [c \in D |-> MergedBy(walk, parents, defines, c, V)]]
  BY <1>7, <1>8
<1>10. DOMAIN parents = D
  OBVIOUS
<1>11. QED
  BY <1>9, <1>10 DEF Walks

\* ComputeMerged is such a walk, and any such walk is typed.
LEMMA ComputeMergedWalks ==
  ASSUME NEW D, NEW N, NEW parents \in [D -> Seq(D)], NEW defines \in [D -> SUBSET N],
         IsFiniteSet(D)
  PROVE  LET walk == ComputeMerged(parents, defines)
         IN  /\ \A V \in SUBSET D, c \in D : walk[V][c] = MergedBy(walk, parents, defines, c, V)
             /\ \A U \in SUBSET D : WalksFrom(D, N, walk, U)
<1> DEFINE walk == ComputeMerged(parents, defines)
<1>1. \E w : Walks(parents, defines, w)
  BY WalkExists
<1>2. Walks(parents, defines, walk)
  BY <1>1 DEF ComputeMerged, Walks, MergedBy
<1> HIDE DEF walk
<1>3. \A V \in SUBSET D, c \in D : walk[V][c] = MergedBy(walk, parents, defines, c, V)
  <2>1. DOMAIN parents = D
    OBVIOUS
  <2> DEFINE Met(V, c) == MergedBy(walk, parents, defines, c, V)
  <2>2. walk = [V \in SUBSET D |-> [c \in D |-> Met(V, c)]]
    BY <1>2, <2>1 DEF Walks
  <2> HIDE DEF Met
  <2>3. \A V \in SUBSET D, c \in D : walk[V][c] = Met(V, c)
    BY <2>2
  <2>4. QED
    BY <2>3 DEF Met
<1> DEFINE Bad == {V \in SUBSET D : \E c \in D : walk[V][c] \notin FindingsFrom(D, N, V)}
<1>4. ASSUME Bad # {}
      PROVE  FALSE
  <2> DEFINE G == {LeftToVisit(D, V) : V \in Bad}
  <2>1. G \subseteq Nat /\ G # {}
    BY <1>4, LeftShrinks
  <2>2. PICK k \in G : \A j \in G : k <= j
    BY <2>1, LeastExists
  <2>3. PICK V \in Bad : k = LeftToVisit(D, V)
    BY <2>2
  <2>4. PICK c \in D : walk[V][c] \notin FindingsFrom(D, N, V)
    BY <2>3
  <2>5. c \notin V => WalksFrom(D, N, walk, V \cup {c})
    <3>1. SUFFICES ASSUME c \notin V, NEW U \in SUBSET D, V \cup {c} \subseteq U, NEW b \in D
                   PROVE  walk[U][b] \in FindingsFrom(D, N, U)
      BY DEF WalksFrom
    <3>2. LeftToVisit(D, U) < LeftToVisit(D, V) /\ LeftToVisit(D, U) \in Nat /\ LeftToVisit(D, V) \in Nat
      BY <2>3, <3>1, LeftShrinks
    <3>3. ~(LeftToVisit(D, V) <= LeftToVisit(D, U))
      BY <3>2
    <3>4. U \notin Bad
      BY <2>2, <2>3, <3>3
    <3>5. QED
      BY <3>1, <3>4
  <2>6. walk[V][c] \in FindingsFrom(D, N, V)
    <3>1. V \in SUBSET D
      BY <2>3
    <3>2. MergedBy(walk, parents, defines, c, V) \in FindingsFrom(D, N, V)
      BY <2>5, <3>1, MergedTyped
    <3>3. QED
      BY <1>3, <3>1, <3>2
  <2>7. QED
    BY <2>4, <2>6
<1>5. \A U \in SUBSET D : WalksFrom(D, N, walk, U)
  BY <1>4 DEF WalksFrom
<1>6. QED
  BY <1>3, <1>5 DEF walk

----------------------------------------------------------------------------
(* What a walk finds among the classes it newly visits.                    *)

\* Every name one of these classes defines is found, in one of them, and R
\* relates that one to any other of them that defines it.
Chosen(defines, R, new, methods) ==
  /\ \A a \in new : defines[a] \subseteq DOMAIN methods
  /\ \A name \in DOMAIN methods :
       /\ methods[name] \in new /\ name \in defines[methods[name]]
       /\ \A a \in new \ {methods[name]} : name \in defines[a] => <<methods[name], a>> \in R

LEMMA ChosenTogether ==
  ASSUME NEW D, NEW N, NEW r \in Findings(D, N), NEW s \in Findings(D, N), NEW R,
         NEW defines \in [D -> SUBSET N], NEW A \in SUBSET D, NEW B \in SUBSET D,
         Chosen(defines, R, A, r.methods), Chosen(defines, R, B, s.methods),
         \A d \in B, a \in A : d # a => <<d, a>> \in R
  PROVE  Chosen(defines, R, A \cup B, Update(r.methods, s.methods))
<1> DEFINE methods == Update(r.methods, s.methods)
<1>1. /\ DOMAIN methods = DOMAIN r.methods \cup DOMAIN s.methods
      /\ \A name \in DOMAIN methods :
           methods[name] = IF name \in DOMAIN s.methods THEN s.methods[name] ELSE r.methods[name]
  BY UpdateIs
<1> HIDE DEF methods
<1>2. \A a \in A \cup B : defines[a] \subseteq DOMAIN methods
  BY <1>1 DEF Chosen
<1>3. ASSUME NEW name \in DOMAIN s.methods
      PROVE  /\ methods[name] \in A \cup B /\ name \in defines[methods[name]]
             /\ \A a \in (A \cup B) \ {methods[name]} : name \in defines[a] => <<methods[name], a>> \in R
  <2>1. methods[name] = s.methods[name]
    BY <1>1
  <2>2. methods[name] \in B /\ name \in defines[methods[name]]
    BY <2>1 DEF Chosen
  <2>3. \A a \in B \ {methods[name]} : name \in defines[a] => <<methods[name], a>> \in R
    BY <2>1 DEF Chosen
  <2>4. QED
    BY <2>2, <2>3
<1>4. ASSUME NEW name \in DOMAIN methods, name \notin DOMAIN s.methods
      PROVE  /\ methods[name] \in A \cup B /\ name \in defines[methods[name]]
             /\ \A a \in (A \cup B) \ {methods[name]} : name \in defines[a] => <<methods[name], a>> \in R
  <2>1. methods[name] = r.methods[name] /\ name \in DOMAIN r.methods
    BY <1>1, <1>4
  <2>2. methods[name] \in A /\ name \in defines[methods[name]]
    BY <2>1 DEF Chosen
  <2>3. \A a \in A \ {methods[name]} : name \in defines[a] => <<methods[name], a>> \in R
    BY <2>1 DEF Chosen
  <2>4. \A a \in B : name \notin defines[a]
    BY <1>4 DEF Chosen
  <2>5. QED
    BY <2>2, <2>3, <2>4
<1>5. QED
  BY <1>2, <1>3, <1>4 DEF Chosen, methods

Preceding(D, parents, tree) == {p \in D \X D : Precedes(parents, tree, p[1], p[2])}

NotAbove(D, parents) == {p \in D \X D : p[1] \notin AncestorsOrSelf(parents, p[2])}

\* A class visited but not yet walked to the end is on the way down to c.
OnTheWay(parents, V, c) ==
  \A v \in V : ToSet(parents[v]) \subseteq V \/ c \in AncestorsOrSelf(parents, v)

Finds(D, parents, defines, c, V, r) ==
  LET new  == r.visited \ V
      tree == AncestorsOrSelf(parents, c)
  IN  /\ c \in r.visited
      /\ new \subseteq tree
      /\ \A x \in new : ToSet(parents[x]) \subseteq r.visited
      /\ Chosen(defines, Preceding(D, parents, tree), new, r.methods)
      /\ Acyclic(parents) /\ OnTheWay(parents, V, c) =>
           Chosen(defines, NotAbove(D, parents), new, r.methods)

\* The same of c's last k bases, walked one after the other.
FindsInBases(D, parents, defines, c, V, r, k) ==
  LET new  == r.visited \ (V \cup {c})
      last == {j \in 1 .. Len(parents[c]) : j > Len(parents[c]) - k}
  IN  /\ \A j \in last : parents[c][j] \in r.visited
      /\ \A x \in new : \E j \in last : x \in AncestorsOrSelf(parents, parents[c][j])
      /\ \A x \in new : ToSet(parents[x]) \subseteq r.visited
      /\ Chosen(defines, Preceding(D, parents, AncestorsOrSelf(parents, c)), new, r.methods)
      /\ Acyclic(parents) /\ OnTheWay(parents, V, c) =>
           Chosen(defines, NotAbove(D, parents), new, r.methods)

LEMMA ChosenWithin ==
  ASSUME NEW defines, NEW R, NEW S, R \subseteq S, NEW new, NEW methods, Chosen(defines, R, new, methods)
  PROVE  Chosen(defines, S, new, methods)
BY DEF Chosen

LEMMA PrecedingGrows ==
  ASSUME NEW D, NEW parents, NEW small, NEW large, small \subseteq large
  PROVE  Preceding(D, parents, small) \subseteq Preceding(D, parents, large)
BY DEF Preceding, Precedes

LEMMA NextBase ==
  ASSUME NEW D, NEW N, NEW parents \in [D -> Seq(D)], NEW defines \in [D -> SUBSET N],
         NEW c \in D, NEW V \in SUBSET D, NEW k \in 0 .. (Len(parents[c]) - 1),
         NEW r \in FindingsFrom(D, N, V \cup {c}), FindsInBases(D, parents, defines, c, V, r, k),
         NEW found \in FindingsFrom(D, N, r.visited),
         Finds(D, parents, defines, parents[c][Len(parents[c]) - k], r.visited, found)
  PROVE  FindsInBases(D, parents, defines, c, V,
                      [methods |-> Update(r.methods, found.methods), visited |-> found.visited], k + 1)
<1> DEFINE n     == Len(parents[c])
           i     == n - k
           b     == parents[c][i]
           U     == V \cup {c}
           A     == r.visited \ U
           B     == found.visited \ r.visited
           tree  == AncestorsOrSelf(parents, c)
           later == {j \in 1 .. n : j > n - k}
           last  == {j \in 1 .. n : j > n - (k + 1)}
           methods == Update(r.methods, found.methods)
<1>1. n \in Nat /\ i \in 1 .. n /\ b \in D /\ b \in ToSet(parents[c])
  BY DEF ToSet
<1>2. last = later \cup {i} /\ i \notin later /\ \A j \in later : i < j
  BY <1>1
<1>3. \A j \in 1 .. n : parents[c][j] \in D /\ parents[c][j] \in ToSet(parents[c])
  BY DEF ToSet
<1>4. /\ r \in Findings(D, N) /\ found \in Findings(D, N)
      /\ U \subseteq r.visited /\ r.visited \subseteq found.visited
      /\ r.visited \in SUBSET D /\ found.visited \in SUBSET D
  BY DEF FindingsFrom, Findings
<1>5. \A j \in later : parents[c][j] \in r.visited
  BY DEF FindsInBases
<1>6. \A x \in A : \E j \in later : x \in AncestorsOrSelf(parents, parents[c][j])
  BY DEF FindsInBases
<1>7. \A x \in A : ToSet(parents[x]) \subseteq r.visited
  BY DEF FindsInBases
<1>8. Chosen(defines, Preceding(D, parents, tree), A, r.methods)
  BY DEF FindsInBases
<1>9. Acyclic(parents) /\ OnTheWay(parents, V, c) => Chosen(defines, NotAbove(D, parents), A, r.methods)
  BY DEF FindsInBases
<1>10. /\ b \in found.visited /\ B \subseteq AncestorsOrSelf(parents, b)
       /\ \A x \in B : ToSet(parents[x]) \subseteq found.visited
  BY DEF Finds
<1>11. Chosen(defines, Preceding(D, parents, AncestorsOrSelf(parents, b)), B, found.methods)
  BY DEF Finds
<1>12. Acyclic(parents) /\ OnTheWay(parents, r.visited, b) =>
         Chosen(defines, NotAbove(D, parents), B, found.methods)
  BY DEF Finds
<1> HIDE DEF n, i, b, tree, later, last, methods, A, B, U
<1>13. AncestorsOrSelf(parents, b) \subseteq tree
  BY <1>1, BasesAreAncestors DEF tree
<1>14. tree \in SUBSET D /\ c \in tree /\ b \in tree
  BY <1>1, AncestorsAre DEF UpwardClosed, tree
<1>15. A \in SUBSET D /\ B \in SUBSET D /\ found.visited \ U = A \cup B
  BY <1>4 DEF A, B
<1>16. \A j \in last : parents[c][j] \in found.visited
  BY <1>2, <1>4, <1>5, <1>10 DEF b
<1>17. \A x \in A \cup B : \E j \in last : x \in AncestorsOrSelf(parents, parents[c][j])
  BY <1>2, <1>6, <1>10 DEF b
<1>18. \A x \in A \cup B : ToSet(parents[x]) \subseteq found.visited
  BY <1>4, <1>7, <1>10
<1>19. Chosen(defines, Preceding(D, parents, tree), A \cup B, methods)
  <2>1. Chosen(defines, Preceding(D, parents, tree), B, found.methods)
    BY <1>13, <1>11, ChosenWithin, PrecedingGrows
  <2>2. ASSUME NEW d \in B, NEW a \in A
        PROVE  <<d, a>> \in Preceding(D, parents, tree)
    <3>1. PICK j \in later : a \in AncestorsOrSelf(parents, parents[c][j])
      BY <1>6
    <3>2. d \in AncestorsOrSelf(parents, parents[c][i])
      BY <1>10 DEF b
    <3>3. i \in DOMAIN parents[c] /\ j \in DOMAIN parents[c] /\ i < j
      BY <1>1, <1>2 DEF later, n
    <3>4. Precedes(parents, tree, d, a)
      BY <1>14, <3>1, <3>2, <3>3 DEF Precedes
    <3>5. QED
      BY <1>15, <3>4 DEF Preceding
  <2>3. QED
    BY <1>4, <1>8, <1>15, <2>1, <2>2, ChosenTogether DEF methods
<1>20. ASSUME Acyclic(parents), OnTheWay(parents, V, c)
       PROVE  Chosen(defines, NotAbove(D, parents), A \cup B, methods)
  <2>1. OnTheWay(parents, r.visited, b)
    <3>1. ASSUME NEW v \in r.visited
          PROVE  ToSet(parents[v]) \subseteq r.visited \/ b \in AncestorsOrSelf(parents, v)
      <4>1. CASE v \in A
        BY <1>7, <4>1
      <4>2. CASE v = c
        BY <1>14, <4>2 DEF tree
      <4>3. CASE v \in V
        <5>1. V \subseteq r.visited /\ v \in D
          BY <1>4, <4>3 DEF U
        <5>2. c \in AncestorsOrSelf(parents, v) => b \in AncestorsOrSelf(parents, v)
          BY <1>14, <5>1, AncestorsNest DEF tree
        <5>3. QED
          BY <1>20, <4>3, <5>1, <5>2 DEF OnTheWay
      <4>4. QED
        BY <4>1, <4>2, <4>3 DEF A, U
    <3>2. QED
      BY <3>1 DEF OnTheWay
  <2>2. ASSUME NEW d \in B, NEW a \in A
        PROVE  <<d, a>> \in NotAbove(D, parents)
    <3>1. SUFFICES ASSUME d \in AncestorsOrSelf(parents, a)
                   PROVE  FALSE
      BY <1>15 DEF NotAbove
    <3>2. a \in r.visited /\ d \notin r.visited /\ a \in D
      BY <1>15 DEF A, B
    <3>3. PICK v \in r.visited \cap AncestorsOrSelf(parents, a) : ~(ToSet(parents[v]) \subseteq r.visited)
      BY <3>1, <3>2, AncestryLeaves
    <3>4. v \in D /\ v \notin A
      BY <1>4, <1>7, <3>3
    <3>5. c \in AncestorsOrSelf(parents, v)
      <4>1. CASE v = c
        BY <1>14, <4>1 DEF tree
      <4>2. CASE v # c
        <5>1. v \in V /\ V \subseteq r.visited
          BY <1>4, <3>3, <3>4, <4>2 DEF A, U
        <5>2. QED
          BY <1>20, <3>3, <5>1 DEF OnTheWay
      <4>3. QED
        BY <4>1, <4>2
    <3>6. c \in AncestorsOrSelf(parents, a)
      BY <3>2, <3>3, <3>5, AncestorsNest
    <3>7. PICK j \in later : a \in AncestorsOrSelf(parents, parents[c][j])
      BY <1>6
    <3>8. parents[c][j] \in D /\ parents[c][j] \in ToSet(parents[c])
      BY <1>3, <3>7 DEF later
    <3>9. c \in AncestorsOrSelf(parents, parents[c][j])
      BY <3>6, <3>7, <3>8, AncestorsNest
    <3>10. QED
      BY <1>20, <3>8, <3>9 DEF Acyclic
  <2>3. QED
    BY <1>4, <1>9, <1>12, <1>15, <1>20, <2>1, <2>2, ChosenTogether DEF methods
<1>21. QED
  BY <1>15, <1>16, <1>17, <1>18, <1>19, <1>20 DEF FindsInBases, n, last, U, tree, methods

LEMMA NothingChosen ==
  ASSUME NEW defines, NEW R
  PROVE  Chosen(defines, R, {}, <<>>)
<1>1. DOMAIN <<>> = {}
  OBVIOUS
<1>2. QED
  BY <1>1 DEF Chosen

LEMMA MergedFinds ==
  ASSUME NEW D, NEW N, NEW parents \in [D -> Seq(D)], NEW defines \in [D -> SUBSET N],
         NEW c \in D, NEW V \in SUBSET D, NEW walk, c \notin V, WalksFrom(D, N, walk, V \cup {c}),
         \A visited \in SUBSET D, b \in D :
           V \cup {c} \subseteq visited => Finds(D, parents, defines, b, visited, walk[visited][b])
  PROVE  Finds(D, parents, defines, c, V, MergedBy(walk, parents, defines, c, V))
<1> DEFINE n == Len(parents[c])
           U == V \cup {c}
           tree == AncestorsOrSelf(parents, c)
           own == [methods |-> Own(defines, c), visited |-> {}]
<1>1. PICK at : Ascends(D, N, parents, walk, c, V, at)
  BY InheritAscends
<1>2. n \in Nat /\ U \in SUBSET D
  OBVIOUS
<1>3. \A k \in 0 .. n : at[k] \in FindingsFrom(D, N, U)
  BY <1>1 DEF Ascends
<1>4. FindsInBases(D, parents, defines, c, V, at[0], 0)
  <2>1. at[0] = [methods |-> <<>>, visited |-> U]
    BY <1>1 DEF Ascends
  <2>2. {j \in 1 .. n : j > n - 0} = {}
    BY <1>2
  <2>3. at[0].visited \ (V \cup {c}) = {} /\ at[0].methods = <<>>
    BY <2>1
  <2> HIDE DEF n
  <2>4. {j \in 1 .. Len(parents[c]) : j > Len(parents[c]) - 0} = {}
    BY <2>2 DEF n
  <2>5. QED
    BY <2>3, <2>4, NothingChosen DEF FindsInBases
<1>5. ASSUME NEW k \in 0 .. (n - 1), FindsInBases(D, parents, defines, c, V, at[k], k)
      PROVE  FindsInBases(D, parents, defines, c, V, at[k + 1], k + 1)
  <2> DEFINE b == parents[c][n - k]
             found == walk[at[k].visited][b]
  <2>1. k \in 0 .. n /\ n - k \in 1 .. n
    BY <1>2
  <2>2. b \in D
    BY <2>1
  <2>3. at[k] \in FindingsFrom(D, N, U) /\ at[k].visited \in SUBSET D /\ U \subseteq at[k].visited
    BY <1>3, <2>1 DEF FindingsFrom, Findings
  <2>4. found \in FindingsFrom(D, N, at[k].visited)
    BY <2>2, <2>3 DEF WalksFrom
  <2>5. Finds(D, parents, defines, b, at[k].visited, found)
    BY <2>2, <2>3
  <2>6. at[k + 1] = [methods |-> Update(at[k].methods, found.methods), visited |-> found.visited]
    BY <1>1 DEF Ascends, Visit
  <2>7. /\ at[k] \in FindingsFrom(D, N, V \cup {c})
        /\ k \in 0 .. (Len(parents[c]) - 1)
        /\ Finds(D, parents, defines, parents[c][Len(parents[c]) - k], at[k].visited, found)
    BY <2>3, <2>5
  <2> HIDE DEF found, b, n, U
  <2>8. FindsInBases(D, parents, defines, c, V,
                     [methods |-> Update(at[k].methods, found.methods), visited |-> found.visited], k + 1)
    BY <1>5, <2>4, <2>7, NextBase
  <2>9. QED
    BY <2>6, <2>8
<1>6. FindsInBases(D, parents, defines, c, V, at[n], n)
  <2> HIDE DEF n
  <2> DEFINE G == {k \in 0 .. n : ~FindsInBases(D, parents, defines, c, V, at[k], k)}
  <2>1. ASSUME G # {}
        PROVE  FALSE
    <3>1. G \subseteq Nat
      OBVIOUS
    <3>2. PICK k \in G : \A j \in G : k <= j
      BY <2>1, <3>1, LeastExists
    <3>3. k # 0
      BY <1>4, <3>2
    <3>4. k - 1 \in 0 .. (n - 1) /\ k - 1 \in 0 .. n /\ ~(k <= k - 1) /\ (k - 1) + 1 = k
      BY <1>2, <3>2, <3>3
    <3>5. FindsInBases(D, parents, defines, c, V, at[k - 1], k - 1)
      BY <3>2, <3>4
    <3>6. FindsInBases(D, parents, defines, c, V, at[k], k)
      BY <1>5, <3>4, <3>5
    <3>7. QED
      BY <3>2, <3>6
  <2>2. n \in 0 .. n
    BY <1>2
  <2>3. QED
    BY <2>1, <2>2
<1> DEFINE r == at[n]
           A == r.visited \ U
           last == {j \in 1 .. n : j > n - n}
           methods == Update(r.methods, own.methods)
<1>7. r \in Findings(D, N) /\ r.visited \in SUBSET D /\ U \subseteq r.visited
  <2>1. n \in 0 .. n
    BY <1>2
  <2>2. r \in FindingsFrom(D, N, U)
    BY <1>3, <2>1
  <2> HIDE DEF r, U
  <2>3. QED
    BY <2>2 DEF FindingsFrom, Findings
<1>8. MergedBy(walk, parents, defines, c, V) = [methods |-> methods, visited |-> r.visited]
  BY <1>1 DEF MergedBy, Ascends
<1>9. last = 1 .. n
  BY <1>2
<1>10. \A j \in last : parents[c][j] \in r.visited
  BY <1>6 DEF FindsInBases
<1>11. \A x \in A : \E j \in last : x \in AncestorsOrSelf(parents, parents[c][j])
  BY <1>6 DEF FindsInBases
<1>12. \A x \in A : ToSet(parents[x]) \subseteq r.visited
  BY <1>6 DEF FindsInBases
<1>13. Chosen(defines, Preceding(D, parents, tree), A, r.methods)
  BY <1>6 DEF FindsInBases
<1>14. Acyclic(parents) /\ OnTheWay(parents, V, c) => Chosen(defines, NotAbove(D, parents), A, r.methods)
  BY <1>6 DEF FindsInBases
<1>15. c \notin A /\ A \in SUBSET D /\ r.visited \ V = A \cup {c}
  BY <1>7
<1>16. \A j \in 1 .. n : parents[c][j] \in ToSet(parents[c])
  BY DEF ToSet
<1>17. \A p \in ToSet(parents[c]) : \E j \in 1 .. n : p = parents[c][j]
  <2>1. parents[c] \in Seq(D) /\ DOMAIN parents[c] = 1 .. n
    OBVIOUS
  <2> HIDE DEF n
  <2>2. QED
    BY <2>1 DEF ToSet
<1>18. own \in Findings(D, N) /\ own.methods = Own(defines, c)
  BY OwnIs
<1> HIDE DEF n, U, tree, own, r, A, last, methods
<1>19. ASSUME NEW x \in A
       PROVE  \E p \in ToSet(parents[c]) : x \in AncestorsOrSelf(parents, p)
  BY <1>9, <1>11, <1>16
<1>20. A \cup {c} \subseteq tree
  <2>1. ASSUME NEW x \in A
        PROVE  x \in tree
    <3>1. PICK p \in ToSet(parents[c]) : x \in AncestorsOrSelf(parents, p)
      BY <1>19
    <3>2. QED
      BY <3>1, BasesAreAncestors DEF tree
  <2>2. c \in tree
    BY AncestorsAre DEF tree
  <2>3. QED
    BY <2>1, <2>2
<1>21. \A R : Chosen(defines, R, {c}, own.methods)
  BY <1>18 DEF Chosen, Own
<1>22. Chosen(defines, Preceding(D, parents, tree), A \cup {c}, methods)
  <2>1. \A a \in A : <<c, a>> \in Preceding(D, parents, tree)
    BY <1>15, <1>20 DEF Preceding, Precedes, tree
  <2>2. QED
    BY <1>7, <1>13, <1>15, <1>18, <1>21, <2>1, ChosenTogether DEF methods
<1>23. ASSUME Acyclic(parents), OnTheWay(parents, V, c)
       PROVE  Chosen(defines, NotAbove(D, parents), A \cup {c}, methods)
  <2>1. ASSUME NEW a \in A, c \in AncestorsOrSelf(parents, a)
        PROVE  FALSE
    <3>1. PICK p \in ToSet(parents[c]) : a \in AncestorsOrSelf(parents, p)
      BY <1>19
    <3>2. p \in D
      BY <3>1, BasesAreAncestors
    <3>3. c \in AncestorsOrSelf(parents, p)
      BY <2>1, <3>1, <3>2, AncestorsNest
    <3>4. DOMAIN parents = D
      OBVIOUS
    <3>5. QED
      BY <1>23, <3>1, <3>3, <3>4 DEF Acyclic
  <2>2. \A a \in A : <<c, a>> \in NotAbove(D, parents)
    BY <1>15, <2>1 DEF NotAbove
  <2>3. QED
    BY <1>7, <1>14, <1>15, <1>18, <1>21, <1>23, <2>2, ChosenTogether DEF methods
<1>24. \A x \in A \cup {c} : ToSet(parents[x]) \subseteq r.visited
  <2>1. ToSet(parents[c]) \subseteq r.visited
    BY <1>9, <1>10, <1>17
  <2>2. QED
    BY <1>12, <2>1
<1>25. c \in r.visited
  BY <1>15
<1> DEFINE merged == MergedBy(walk, parents, defines, c, V)
<1>26. merged.visited = r.visited /\ merged.methods = methods /\ merged.visited \ V = A \cup {c}
  BY <1>8, <1>15
<1> HIDE DEF merged
<1>27. Finds(D, parents, defines, c, V, merged)
  BY <1>20, <1>22, <1>23, <1>24, <1>25, <1>26 DEF Finds, tree
<1>28. QED
  BY <1>27 DEF merged

LEMMA WalkFinds ==
  ASSUME NEW D, NEW N, NEW parents \in [D -> Seq(D)], NEW defines \in [D -> SUBSET N], IsFiniteSet(D)
  PROVE  \A V \in SUBSET D, c \in D :
           Finds(D, parents, defines, c, V, ComputeMerged(parents, defines)[V][c])
<1> DEFINE walk == ComputeMerged(parents, defines)
           Bad == {V \in SUBSET D : \E c \in D : ~Finds(D, parents, defines, c, V, walk[V][c])}
<1>1. /\ \A V \in SUBSET D, c \in D : walk[V][c] = MergedBy(walk, parents, defines, c, V)
      /\ \A U \in SUBSET D : WalksFrom(D, N, walk, U)
  BY ComputeMergedWalks
<1> HIDE DEF walk
<1>2. ASSUME Bad # {}
      PROVE  FALSE
  <2> DEFINE G == {LeftToVisit(D, V) : V \in Bad}
  <2>1. G \subseteq Nat /\ G # {}
    BY <1>2, LeftShrinks
  <2>2. PICK k \in G : \A j \in G : k <= j
    BY <2>1, LeastExists
  <2>3. PICK V \in Bad : k = LeftToVisit(D, V)
    BY <2>2
  <2>4. PICK c \in D : ~Finds(D, parents, defines, c, V, walk[V][c])
    BY <2>3
  <2>5. V \in SUBSET D
    BY <2>3
  <2>6. CASE c \in V
    <3>1. walk[V][c] = [methods |-> <<>>, visited |-> V]
      BY <1>1, <2>5, <2>6 DEF MergedBy
    <3> DEFINE r == walk[V][c]
    <3>2. r.visited = V /\ r.methods = <<>> /\ r.visited \ V = {}
      BY <3>1
    <3> HIDE DEF r
    <3>3. Finds(D, parents, defines, c, V, r)
      BY <2>6, <3>2, NothingChosen DEF Finds
    <3>4. QED
      BY <2>4, <3>3 DEF r
  <2>7. CASE c \notin V
    <3>1. ASSUME NEW U \in SUBSET D, NEW b \in D, V \cup {c} \subseteq U
          PROVE  Finds(D, parents, defines, b, U, walk[U][b])
      <4>1. LeftToVisit(D, U) < LeftToVisit(D, V) /\ LeftToVisit(D, U) \in Nat /\ LeftToVisit(D, V) \in Nat
        BY <2>5, <2>7, <3>1, LeftShrinks
      <4>2. ~(LeftToVisit(D, V) <= LeftToVisit(D, U))
        BY <4>1
      <4>3. U \notin Bad
        BY <2>2, <2>3, <4>2
      <4>4. QED
        BY <4>3
    <3>2. WalksFrom(D, N, walk, V \cup {c})
      BY <1>1, <2>5
    <3> HIDE DEF G, Bad
    <3>3. Finds(D, parents, defines, c, V, MergedBy(walk, parents, defines, c, V))
      BY <2>5, <2>7, <3>1, <3>2, MergedFinds
    <3>4. QED
      BY <1>1, <2>4, <2>5, <3>3
  <2>8. QED
    BY <2>6, <2>7
<1>3. QED
  BY <1>2 DEF walk

\* From a class on its own: its ancestors are walked, all of them.
LEMMA MethodsFound ==
  ASSUME NEW D, NEW N, NEW parents \in [D -> Seq(D)], NEW defines \in [D -> SUBSET N], IsFiniteSet(D),
         NEW c \in D
  PROVE  LET tree == AncestorsOrSelf(parents, c)
         IN  /\ Chosen(defines, Preceding(D, parents, tree), tree, MethodsFor(parents, defines, c))
             /\ Acyclic(parents) =>
                  Chosen(defines, NotAbove(D, parents), tree, MethodsFor(parents, defines, c))
<1> DEFINE r == ComputeMerged(parents, defines)[{}][c]
           tree == AncestorsOrSelf(parents, c)
<1>1. Finds(D, parents, defines, c, {}, r)
  BY WalkFinds
<1>2. OnTheWay(parents, {}, c)
  BY DEF OnTheWay
<1>3. r.visited \ {} = r.visited
  OBVIOUS
<1>4. UpwardClosed(parents, r.visited) /\ c \in r.visited /\ r.visited \subseteq tree
  BY <1>1, <1>3 DEF Finds, UpwardClosed
<1>5. tree \in SUBSET D /\ \A S \in SUBSET D : c \in S /\ UpwardClosed(parents, S) => tree \subseteq S
  BY AncestorsAre
<1> HIDE DEF r, tree
<1>6. r.visited = tree
  BY <1>4, <1>5
<1>7. QED
  BY <1>1, <1>2, <1>3, <1>6 DEF Finds, MethodsFor, r, tree

LEMMA OverridesFound ==
  ASSUME NEW D, NEW N, NEW parents \in [D -> Seq(D)], NEW defines \in [D -> SUBSET N], IsFiniteSet(D)
  PROVE  OverridesRespectedFor(parents, defines, N)
<1>1. DOMAIN parents = D
  OBVIOUS
<1>2. SUFFICES ASSUME NEW c \in D, NEW name \in N
               PROVE  LET tree  == AncestorsOrSelf(parents, c)
                          found == Dispatch(parents, defines, c, name)
                      IN  /\ found = {} <=> \A a \in tree : name \notin defines[a]
                          /\ \A d \in found :
                               /\ d \in tree /\ name \in defines[d]
                               /\ \A a \in tree \ {d} :
                                    name \in defines[a] =>
                                      /\ Precedes(parents, tree, d, a)
                                      /\ Acyclic(parents) => d \notin AncestorsOrSelf(parents, a)
  BY <1>1 DEF OverridesRespectedFor
<1> DEFINE tree == AncestorsOrSelf(parents, c)
           methods == MethodsFor(parents, defines, c)
           found == Dispatch(parents, defines, c, name)
<1>3. /\ Chosen(defines, Preceding(D, parents, tree), tree, methods)
      /\ Acyclic(parents) => Chosen(defines, NotAbove(D, parents), tree, methods)
  BY MethodsFound
<1>4. found = IF name \in DOMAIN methods THEN {methods[name]} ELSE {}
  BY DEF Dispatch
<1> HIDE DEF tree, methods, found
<1>5. name \in DOMAIN methods <=> \E a \in tree : name \in defines[a]
  BY <1>3 DEF Chosen
<1>6. ASSUME name \in DOMAIN methods
      PROVE  LET d == methods[name]
             IN  /\ d \in tree /\ name \in defines[d]
                 /\ \A a \in tree \ {d} :
                      name \in defines[a] =>
                        /\ Precedes(parents, tree, d, a)
                        /\ Acyclic(parents) => d \notin AncestorsOrSelf(parents, a)
  <2> DEFINE d == methods[name]
  <2>1. d \in tree /\ name \in defines[d]
    BY <1>3, <1>6 DEF Chosen
  <2>2. SUFFICES ASSUME NEW a \in tree \ {d}, name \in defines[a]
                 PROVE  /\ Precedes(parents, tree, d, a)
                        /\ Acyclic(parents) => d \notin AncestorsOrSelf(parents, a)
    BY <2>1
  <2>3. <<d, a>> \in Preceding(D, parents, tree)
    BY <1>3, <1>6, <2>2 DEF Chosen
  <2>4. Acyclic(parents) => <<d, a>> \in NotAbove(D, parents)
    BY <1>3, <1>6, <2>2 DEF Chosen
  <2> HIDE DEF d
  <2>5. QED
    BY <2>3, <2>4 DEF Preceding, NotAbove
<1>7. QED
  BY <1>4, <1>5, <1>6 DEF tree, found

Classed == case.of \in {"bases", "classes"} => case.parents \in Hierarchies

LEMMA ClassedAlways == Decisions => []Classed
<1>1. Begin => Classed
  BY DEF Begin, Classed
<1>2. ASSUME Classed, [Decide]_case
      PROVE  Classed'
  <2>1. CASE PickHierarchy
    <3>1. CASE \E parents \in Hierarchies : case' = [of |-> "bases", parents |-> parents]
      BY <3>1 DEF Classed
    <3>2. CASE case.of = "bases" /\ \E definers \in SUBSET SmallClasses :
                 case' = [of |-> "classes", parents |-> case.parents, definers |-> definers]
      BY <1>2, <3>2 DEF Classed
    <3>3. QED
      BY <2>1, <3>1, <3>2 DEF PickHierarchy
  <2>2. CASE PickPackages
    <3>1. case'.of = "packages"
      BY <2>2 DEF PickPackages
    <3>2. QED
      BY <3>1 DEF Classed
  <2>3. CASE PickAssessments
    <3>1. case'.of = "assessed"
      BY <2>3 DEF PickAssessments
    <3>2. QED
      BY <3>1 DEF Classed
  <2>4. CASE PickJudgements
    <3>1. case'.of = "judged"
      BY <2>4 DEF PickJudgements
    <3>2. QED
      BY <3>1 DEF Classed
  <2>5. CASE PickGate
    <3>1. case'.of = "gate"
      BY <2>5 DEF PickGate
    <3>2. QED
      BY <3>1 DEF Classed
  <2>6. CASE PickVerdict
    <3>1. case'.of = "verdict"
      BY <2>6 DEF PickVerdict
    <3>2. QED
      BY <3>1 DEF Classed
  <2>7. CASE PickReplies
    <3>1. case'.of = "replies"
      BY <2>7 DEF PickReplies
    <3>2. QED
      BY <3>1 DEF Classed
  <2>8. CASE PickCalls
    <3>1. case'.of = "calls"
      BY <2>8 DEF PickCalls
    <3>2. QED
      BY <3>1 DEF Classed
  <2>9. CASE PickWords
    <3>1. case'.of = "words"
      BY <2>9 DEF PickWords
    <3>2. QED
      BY <3>1 DEF Classed
  <2>10. CASE PickScopes
    <3>1. case'.of = "scopes"
      BY <2>10 DEF PickScopes
    <3>2. QED
      BY <3>1 DEF Classed
  <2>11. CASE UNCHANGED case
    BY <1>2, <2>11 DEF Classed
  <2>12. QED
    BY <1>2, <2>1, <2>2, <2>3, <2>4, <2>5, <2>6, <2>7, <2>8, <2>9, <2>10, <2>11 DEF Decide
<1>3. QED
  BY <1>1, <1>2, PTL DEF Decisions

LEMMA HierarchiesAre == IsFiniteSet(SmallClasses) /\ Hierarchies \subseteq [SmallClasses -> Seq(SmallClasses)]
<1>1. IsFiniteSet(SmallClasses)
  BY MaxClassesAssumption, FS_Interval DEF SmallClasses
<1>2. BoundedSeq(SmallClasses, 2) \subseteq Seq(SmallClasses)
  <2>1. SUFFICES ASSUME NEW bases \in BoundedSeq(SmallClasses, 2)
                 PROVE  bases \in Seq(SmallClasses)
    OBVIOUS
  <2>2. PICK m \in 0 .. 2 : bases \in [1 .. m -> SmallClasses]
    BY DEF BoundedSeq, SeqOf
  <2> HIDE DEF SmallClasses
  <2>3. QED
    BY <2>2
<1>3. BaseLists \subseteq Seq(SmallClasses)
  BY <1>2 DEF BaseLists
<1>4. QED
  BY <1>1, <1>3 DEF Hierarchies

\* Of whatever classes a batch extracts, a method is found through a class
\* exactly when one of its ancestors defines it; of several that do, the one
\* found precedes all others going up from the class, base by base in source
\* order; and unless bases form a cycle no other inherits from it
\* (_compute_merged).
THEOREM OverridesCorrect ==
  /\ \A classes, names :
       IsFiniteSet(classes) =>
         \A parents \in [classes -> Seq(classes)], defines \in [classes -> SUBSET names] :
           OverridesRespectedFor(parents, defines, names)
  /\ Decisions => []OverridesRespected
<1>1. ASSUME NEW classes, NEW names, IsFiniteSet(classes),
             NEW parents \in [classes -> Seq(classes)], NEW defines \in [classes -> SUBSET names]
      PROVE  OverridesRespectedFor(parents, defines, names)
  BY <1>1, OverridesFound
<1>2. Classed => OverridesRespected
  <2>1. SUFFICES ASSUME Classed, case.of = "classes"
                 PROVE  OverridesRespectedFor(case.parents,
                          [c \in SmallClasses |-> IF c \in case.definers THEN {"m"} ELSE {}], {"m"})
    BY DEF OverridesRespected
  <2>2. case.parents \in [SmallClasses -> Seq(SmallClasses)] /\ IsFiniteSet(SmallClasses)
    BY <2>1, HierarchiesAre DEF Classed
  <2> DEFINE defines == [c \in SmallClasses |-> IF c \in case.definers THEN {"m"} ELSE {}]
  <2>3. defines \in [SmallClasses -> SUBSET {"m"}]
    OBVIOUS
  <2> HIDE DEF defines
  <2>4. OverridesRespectedFor(case.parents, defines, {"m"})
    BY <1>1, <2>2, <2>3
  <2>5. QED
    BY <2>4 DEF defines
<1>3. Decisions => []OverridesRespected
  BY <1>2, ClassedAlways, PTL
<1>4. QED
  BY <1>1, <1>3

=============================================================================
