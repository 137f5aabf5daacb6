----------------------------- MODULE ScopeTree -----------------------------
(***************************************************************************)
(* Which function or class a line of a file belongs to                     *)
(* (scope_resolution/scope_tree.py, position_index.py and the ranges of    *)
(* _adapter.py).                                                           *)
(*                                                                         *)
(* A scope of a file is [lo, hi, kind]: it covers lo, ..., hi - 1.  The    *)
(* extractors count lines, so lo and hi are line numbers here, although    *)
(* the code's names say bytes.  Files do not interact: one is modelled.    *)
(***************************************************************************)
EXTENDS Integers, SequencesExt

Covers(s, at) == s.lo <= at /\ at < s.hi

RangesOverlap(a, b) == a.lo < b.hi /\ b.lo < a.hi

SameRange(a, b) == a.lo = b.lo /\ a.hi = b.hi

StrictlyContains(outer, inner) ==
    ~SameRange(outer, inner) /\ outer.lo <= inner.lo /\ inner.hi <= outer.hi

(* A definition that fills the lines first, ..., last of its file. *)
ScopeOfLines(first, last, kind) == [lo |-> first, hi |-> last + 1, kind |-> kind]

(***************************************************************************)
(* build_scope_tree: the scopes in document order, wider first, against a  *)
(* stack of open ones.  parent[s] is the set of s's parent, empty for a    *)
(* root; ok is FALSE where the code raises ScopeTreeInvariantError.        *)
(***************************************************************************)
InTurn(scopes, before(_, _)) ==
    CHOOSE order \in SetToSeqs(scopes) :
        \A i, j \in DOMAIN order : i < j => ~before(order[j], order[i])

(* Mutant: the narrower of two scopes that start together comes first. *)
InnerFirst(scopes) ==
    InTurn(scopes, LAMBDA a, b : a.lo < b.lo \/ (a.lo = b.lo /\ a.hi < b.hi))

OuterFirst(scopes) ==
    InTurn(scopes, LAMBDA a, b : a.lo < b.lo \/ (a.lo = b.lo /\ a.hi > b.hi))

(* The last open scope around s, 0 for none. *)
LastAround(stack, s) == SelectLastInSeq(stack, LAMBDA t : StrictlyContains(t, s))

Place(tree, s) ==
    LET open   == LastAround(tree.stack, s)
        popped == {tree.stack[i] : i \in (open + 1)..Len(tree.stack)}
    IN  [ok     |-> tree.ok /\ \A t \in popped : ~RangesOverlap(t, s),
         stack  |-> Append(SubSeq(tree.stack, 1, open), s),
         parent |-> [t \in DOMAIN tree.parent \cup {s} |->
                       IF t # s THEN tree.parent[t]
                       ELSE IF open = 0 THEN {} ELSE {tree.stack[open]}]]

BuildScopeTree(scopes) ==
    LET placed == FoldLeft(Place, [ok |-> TRUE, stack |-> <<>>, parent |-> <<>>],
                           OuterFirst(scopes))
    IN  [ok     |-> placed.ok /\ \A a, b \in scopes : SameRange(a, b) => a = b,
         parent |-> placed.parent]

(***************************************************************************)
(* PositionIndex.scope_at: from a scope that starts last at or before the  *)
(* position (any of them, the scopes come from a set) outwards until one   *)
(* covers it, then inwards again.                                          *)
(***************************************************************************)
Candidates(tree, at) ==
    LET before == {s \in DOMAIN tree.parent : s.lo <= at}
    IN  {s \in before : \A t \in before : t.lo <= s.lo}

Outwards(tree, start, at) ==
    LET up[s \in DOMAIN tree.parent] ==
            IF Covers(s, at) THEN {s} ELSE UNION {up[p] : p \in tree.parent[s]}
    IN  up[start]

RefineInnermost(tree, start, at) ==
    LET down[s \in DOMAIN tree.parent] ==
            LET inner == {c \in DOMAIN tree.parent : s \in tree.parent[c] /\ Covers(c, at)}
            IN  IF inner = {} THEN {s} ELSE UNION {down[c] : c \in inner}
    IN  down[start]

ScopeAt(tree, candidate, at) ==
    UNION {RefineInnermost(tree, s, at) : s \in Outwards(tree, candidate, at)}

----------------------------------------------------------------------------
(* What the three mean, without an order or a stack. *)

Laminar(scopes) ==
    \A a, b \in scopes :
        a # b => \/ StrictlyContains(a, b)
                 \/ StrictlyContains(b, a)
                 \/ ~RangesOverlap(a, b) /\ ~SameRange(a, b)

Innermost(scopes) == {s \in scopes : \A t \in scopes : ~StrictlyContains(s, t)}

(* The tree is built exactly for the families of scopes that nest, each    *)
(* scope hangs under the smallest one around it, and a position is given   *)
(* the innermost scope that covers it whichever candidate the search       *)
(* starts from (build_scope_tree and PositionIndex.scope_at).              *)
ScopesExactFor(scopes, positions) ==
    LET tree == BuildScopeTree(scopes)
    IN  /\ tree.ok <=> Laminar(scopes)
        /\ tree.ok =>
             /\ \A s \in scopes :
                    tree.parent[s] = Innermost({t \in scopes : StrictlyContains(t, s)})
             /\ \A at \in positions : \A candidate \in Candidates(tree, at) :
                    ScopeAt(tree, candidate, at)
                      = Innermost({s \in scopes : Covers(s, at)})

=============================================================================
