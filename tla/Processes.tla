------------------------------ MODULE Processes ------------------------------
(***************************************************************************)
(* Communities get a label, and chains of calls across communities become  *)
(* processes (phases/community_detect.py, phases/process_extract.py).      *)
(*                                                                         *)
(* A function is a number; numbers order as the qualified names do.        *)
(* tokens[f] is the sequence of words in f's name, short[f] its last part. *)
(* calls is the set of calls of the scan, resolved ones and others; the    *)
(* clustering itself is a library's: communities is any sequence of        *)
(* disjoint sets, in the order of their least members.                     *)
(***************************************************************************)
EXTENDS Integers, FiniteSets, SequencesExt

CONSTANTS MaxDepth, MaxProcesses

ASSUME MaxDepthAssumption == MaxDepth \in Nat \ {0, 1}
ASSUME MaxProcessesAssumption == MaxProcesses \in Nat

(* The members of S, the first by op first. *)
InOrder(S, op(_, _)) ==
    [i \in 1..Cardinality(S) |-> CHOOSE x \in S : Cardinality({y \in S : op(y, x)}) = i - 1]

----------------------------------------------------------------------------
(* _label_for: the community's most frequent word, the first seen among    *)
(* equals; with a second word if that is taken; with its number if all are.*)
Words(tokens, members) ==
    FoldLeft(LAMBDA words, f : words \o tokens[f], <<>>, InOrder(members, <))

MostCommon(words) ==
    LET count(w) == Cardinality({i \in DOMAIN words : words[i] = w})
        first(w) == SelectInSeq(words, LAMBDA x : x = w)
    IN  InOrder(ToSet(words), LAMBDA v, w :
            count(v) > count(w) \/ (count(v) = count(w) /\ first(v) < first(w)))

(* Words have letters only, so no label made of words is a numbered one.   *)
Worded(words) == [words |-> words, number |-> {}]
Numbered(index) == [words |-> <<"cluster">>, number |-> {index}]

Tried(ranked) ==
    [i \in DOMAIN ranked |-> Worded(IF i = 1 THEN <<ranked[1]>> ELSE <<ranked[1], ranked[i]>>)]

(* Mutant: the second word is appended without looking whether that is new.*)
LabelOnce(ranked, used, index) ==
    LET tried == Tried(ranked)
    IN  IF tried = <<>> THEN Numbered(index)
        ELSE IF tried[1] \notin used THEN tried[1]
        ELSE IF Len(tried) > 1 THEN tried[2] ELSE Numbered(index)

LabelFrom(ranked, used, index) ==
    LET free == SelectInSeq(Tried(ranked), LAMBDA label : label \notin used)
    IN  IF free = 0 THEN Numbered(index) ELSE Tried(ranked)[free]

Labels(tokens, communities) ==
    FoldLeftDomain(LAMBDA labels, i :
        Append(labels, LabelFrom(MostCommon(Words(tokens, communities[i])), ToSet(labels), i - 1)),
        <<>>, communities)

(* _community_lookup: the label of a function's community, {} for none. *)
LabelOf(communities, labels, f) ==
    {labels[i] : i \in {j \in DOMAIN communities : f \in communities[j]}}

----------------------------------------------------------------------------
(* _build_call_graph: between functions of the scan, no call of itself. *)
CallGraph(functions, calls) ==
    {c \in calls : c[1] \in functions /\ c[2] \in functions /\ c[1] # c[2]}

Callers(graph, f) == {c[1] : c \in {d \in graph : d[2] = f}}
Callees(graph, f) == {c[2] : c \in {d \in graph : d[1] = f}}

(* _entry_points *)
EntryPoints(functions, graph) ==
    LET calling  == {f \in functions : Callees(graph, f) # {}}
        uncalled == {f \in calling : Callers(graph, f) = {}}
    IN  IF uncalled # {} THEN uncalled
        ELSE {f \in calling : \A g \in calling :
                Cardinality(Callers(graph, f)) <= Cardinality(Callers(graph, g))}

(* _enumerate_chains: every path of two to MaxDepth functions from an      *)
(* entry point that comes by no function twice.                            *)
Extensions(graph, chain) ==
    {Append(chain, f) : f \in Callees(graph, Last(chain)) \ ToSet(chain)}

Chains(graph, entries) ==
    LET of[n \in 1..MaxDepth] ==
            IF n = 1 THEN {<<f>> : f \in entries}
            ELSE UNION {Extensions(graph, chain) : chain \in of[n - 1]}
    IN  UNION {of[n] : n \in 2..MaxDepth}

(* _score_chain *)
Crossings(chain, label) ==
    LET labels == UNION {label[f] : f \in ToSet(chain)}
    IN  IF labels = {} THEN 0 ELSE Cardinality(labels) - 1

Score(chain, label) == Len(chain) * Crossings(chain, label)

(* Mutant: the score is the number of communities alone. *)
ByCrossings(label, a, b) ==
    \/ Crossings(a, label) > Crossings(b, label)
    \/ /\ Crossings(a, label) = Crossings(b, label)
       /\ \E i \in 1..Len(b) : (i > Len(a) \/ a[i] < b[i]) /\ \A j \in 1..(i - 1) : a[j] = b[j]

(* The best first: by score, then by the names along the chain. *)
RanksHigher(label, a, b) ==
    \/ Score(a, label) > Score(b, label)
    \/ /\ Score(a, label) = Score(b, label)
       /\ \E i \in 1..Len(b) : (i > Len(a) \/ a[i] < b[i]) /\ \A j \in 1..(i - 1) : a[j] = b[j]

Ranked(chains, label) ==
    InOrder({c \in chains : Score(c, label) > 0}, LAMBDA a, b : RanksHigher(label, a, b))

(* A process is named for its ends, and numbered where that name is taken. *)
Name(short, chain) == <<short[chain[1]], short[Last(chain)]>>

Processes(short, chains, label) ==
    LET ranked == Ranked(chains, label)
        top    == SubSeq(ranked, 1, IF Len(ranked) < MaxProcesses THEN Len(ranked) ELSE MaxProcesses)
    IN  [i \in DOMAIN top |->
            [name  |-> Append(Name(short, top[i]),
                              Cardinality({j \in 1..i : Name(short, top[j]) = Name(short, top[i])})),
             steps |-> top[i]]]

----------------------------------------------------------------------------
(* No two communities share a label, so that the labels along a chain      *)
(* count its communities, and a label is made of its members' own words    *)
(* unless they are used up (_label_for, and _score_chain which relies on   *)
(* it).                                                                    *)
LabelsTellApartFor(tokens, communities) ==
    LET labels == Labels(tokens, communities)
    IN  /\ Len(labels) = Len(communities) /\ IsInjective(labels)
        /\ \A i \in DOMAIN communities :
             labels[i].number = {} =>
               ToSet(labels[i].words) \subseteq ToSet(Words(tokens, communities[i]))

(* Every process is a chain of calls from an entry point through two       *)
(* communities or more, and has a name of its own; a chain is left out     *)
(* only for better ones, so while there is room every crossing is in a     *)
(* process; and what continues a kept chain is kept as well: a chain       *)
(* never ranks below its own beginning (ProcessExtractPhase.run).          *)
ProcessesBestFor(functions, calls, short, communities, labels) ==
    LET label   == [f \in functions |-> LabelOf(communities, labels, f)]
        graph   == CallGraph(functions, calls)
        entries == EntryPoints(functions, graph)
        found   == Processes(short, Chains(graph, entries), label)
        kept    == {found[i].steps : i \in DOMAIN found}
        visits(chain) == {i \in DOMAIN communities : communities[i] \cap ToSet(chain) # {}}
    IN  /\ Len(found) <= MaxProcesses
        /\ \A i, j \in DOMAIN found : i # j => found[i].name # found[j].name
        /\ \A chain \in kept :
             /\ chain[1] \in entries /\ IsInjective(chain) /\ Cardinality(visits(chain)) >= 2
             /\ \A i \in 1..(Len(chain) - 1) : <<chain[i], chain[i + 1]>> \in calls
             /\ Len(chain) < MaxDepth => Extensions(graph, chain) \subseteq kept
        /\ Len(found) < MaxProcesses =>
             \A call \in graph :
                 call[1] \in entries /\ Cardinality(visits(call)) = 2 => call \in kept
=============================================================================
