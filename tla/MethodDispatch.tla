--------------------------- MODULE MethodDispatch ---------------------------
(***************************************************************************)
(* Which class's method a call reaches through inheritance                 *)
(* (scope_resolution/method_dispatch_index.py).                            *)
(*                                                                         *)
(* parents[c] is the list of c's bases in source order, as far as they are *)
(* classes of the batch; defines[c] the names of c's own methods.  A       *)
(* method is represented by the class that defines it.                     *)
(***************************************************************************)
EXTENDS Integers, SequencesExt

(* dict.update *)
Update(methods, newer) ==
    [name \in DOMAIN methods \cup DOMAIN newer |->
        IF name \in DOMAIN newer THEN newer[name] ELSE methods[name]]

Own(defines, c) == [name \in defines[c] |-> c]

(***************************************************************************)
(* _compute_merged: walk[visited][c] is what it returns for c and what it  *)
(* leaves in the set of visited classes.  Bases come in reverse order, so  *)
(* that the first one's methods are written last, then the class's own.    *)
(***************************************************************************)
BasesInTurn(parents, c) == Reverse(parents[c])

(* Mutant: every base is walked with the visited set its siblings found. *)
VisitAfresh(walk, so_far, base) ==
    LET found == walk[so_far.visited][base]
    IN  [methods |-> Update(so_far.methods, found.methods), visited |-> so_far.visited]

Visit(walk, so_far, base) ==
    LET found == walk[so_far.visited][base]
    IN  [methods |-> Update(so_far.methods, found.methods), visited |-> found.visited]

Inherit(walk, parents, c, visited) ==
    FoldLeft(LAMBDA so_far, base : Visit(walk, so_far, base),
             [methods |-> <<>>, visited |-> visited \cup {c}], BasesInTurn(parents, c))

ComputeMerged(parents, defines) ==
    LET walk[visited \in SUBSET DOMAIN parents] ==
            [c \in DOMAIN parents |->
                IF c \in visited THEN [methods |-> <<>>, visited |-> visited]
                ELSE LET inherited == Inherit(walk, parents, c, visited)
                     IN  [methods |-> Update(inherited.methods, Own(defines, c)),
                          visited |-> inherited.visited]]
    IN  walk

MethodsFor(parents, defines, c) == ComputeMerged(parents, defines)[{}][c].methods

(* MethodDispatchIndex.resolve, .parent_of: sets of at most one class. *)
Dispatch(parents, defines, c, name) ==
    LET methods == MethodsFor(parents, defines, c)
    IN  IF name \in DOMAIN methods THEN {methods[name]} ELSE {}

ParentOf(parents, c) == IF parents[c] = <<>> THEN {} ELSE {Head(parents[c])}

----------------------------------------------------------------------------
(* Reference definitions. *)

UpwardClosed(parents, classes) == \A a \in classes : ToSet(parents[a]) \subseteq classes

AncestorsOrSelf(parents, c) ==
    {a \in DOMAIN parents :
        \A classes \in SUBSET DOMAIN parents : c \in classes /\ UpwardClosed(parents, classes) => a \in classes}

Acyclic(parents) ==
    \A c \in DOMAIN parents : \A p \in ToSet(parents[c]) : c \notin AncestorsOrSelf(parents, p)

(* Going up from a class, base after base in source order, d comes before  *)
(* a: a is above d, or above a later base of some class than d is.  Where  *)
(* no class is inherited twice this is the order of Python.                *)
Precedes(parents, tree, d, a) ==
    \/ a \in AncestorsOrSelf(parents, d)
    \/ \E heir \in tree : \E i, j \in DOMAIN parents[heir] :
           i < j /\ d \in AncestorsOrSelf(parents, parents[heir][i])
                 /\ a \in AncestorsOrSelf(parents, parents[heir][j])

(* A method is found exactly when some ancestor defines it, even where the *)
(* extracted bases form a cycle; of several that define it, the one found  *)
(* precedes all others; and without a cycle none of them inherits from the *)
(* class whose method is found, so none overrides it (_compute_merged's    *)
(* order of updates and its visited set).                                  *)
OverridesRespectedFor(parents, defines, names) ==
    \A c \in DOMAIN parents, name \in names :
        LET tree  == AncestorsOrSelf(parents, c)
            found == Dispatch(parents, defines, c, name)
        IN  /\ found = {} <=> \A a \in tree : name \notin defines[a]
            /\ \A d \in found :
                 /\ d \in tree /\ name \in defines[d]
                 /\ \A a \in tree \ {d} :
                      name \in defines[a] =>
                        /\ Precedes(parents, tree, d, a)
                        /\ Acyclic(parents) => d \notin AncestorsOrSelf(parents, a)

=============================================================================
