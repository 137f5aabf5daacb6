------------------------------- MODULE MCNames -------------------------------
(***************************************************************************)
(* Small packages, of three kinds.                                         *)
(***************************************************************************)
EXTENDS PythonNames

A == <<"a">>
B == <<"b">>
C == <<"c">>

Import(m)        == [form |-> "import", module |-> m]
ImportAs(m, n)   == [form |-> "import as", module |-> m, alias |-> n]
From(m, n)       == [form |-> "from", module |-> m, name |-> n, alias |-> n]
FromAs(m, n, as) == [form |-> "from", module |-> m, name |-> n, alias |-> as]
FromStar(m)      == [form |-> "from star", module |-> m]

Untyped     == [wrappers |-> <<>>, args |-> <<>>]
Type(t)     == [wrappers |-> <<>>, args |-> <<t>>]
Optional(t) == [wrappers |-> <<"Optional">>, args |-> <<t>>]

Bound(var, callee) == [var |-> var, callee |-> callee]

Function(name, returns, calls) ==
    [is |-> "function", name |-> name, params |-> <<>>, returns |-> returns, calls |-> calls,
     assigns |-> <<>>, fields |-> <<>>]

Class(name, bases, methods) == [is |-> "class", name |-> name, bases |-> bases, methods |-> methods]

----------------------------------------------------------------------------
(* c defines f and the class K, b the class J, with or without K as its    *)
(* base, and g; a calls them in every way the resolver knows.              *)
FileC(imports) ==
    [path |-> "c.py", module |-> C, imports |-> imports,
     body |-> <<Function("f", Untyped, <<>>),
                Class("K", <<>>, <<Function("m", Untyped, <<>>)>>)>>]

FileB(imports, bases) ==
    [path |-> "b.py", module |-> B, imports |-> imports,
     body |-> <<Class("J", bases, <<[Function("n", Type("K"), <<<<"self", "y", "m">>>>)
                                       EXCEPT !.fields = <<Bound("y", <<"K">>)>>]>>),
                Function("g", Untyped, <<>>)>>]

FileA(imports, bases) ==
    [path |-> "a.py", module |-> A, imports |-> imports,
     body |-> <<Function("mk", Optional("J"), <<>>),
                Class("L", bases,
                      <<[Function("w", Untyped, <<<<"self", "n">>, <<"super", "n">>, <<"self", "m">>,
                                                  <<"self", "x", "n">>, <<"self", "x", "y", "m">>>>)
                           EXCEPT !.fields = <<Bound("x", <<"J">>)>>],
                        Function("n", Untyped, <<>>)>>),
                [is |-> "assign", var |-> "t", callee |-> <<"J">>],
                [is |-> "assign", var |-> "u", callee |-> <<"L">>],
                [Function("main", Untyped,
                    <<<<"f">>, <<"g">>, <<"h">>, <<"mk">>, <<"b", "f">>, <<"b", "g">>, <<"d", "g">>,
                      <<"b", "J", "n">>, <<"J", "n">>, <<"p", "n">>, <<"p", "m">>, <<"r", "n">>, <<"r", "m">>,
                      <<"s", "m">>, <<"t", "n">>, <<"u", "n">>, <<"u", "y", "m">>>>)
                   EXCEPT !.params  = [p |-> Optional("J")],
                          !.assigns = <<Bound("r", <<"mk">>), Bound("s", <<"r", "n">>),
                                        Bound("u", <<"L">>), Bound("u", <<"J">>)>>]>>]

ImportsOfA == <<From(B, "f"), From(B, "g"), FromAs(B, "f", "g"), FromAs(B, "g", "h"), From(B, "J"),
                Import(B), ImportAs(B, "d"), FromStar(B), From(C, "f"), FromStar(C),
                From(<<"ext">>, "f")>>

(* b's imports and J's base. *)
ShapesOfB == {<< <<>>, <<>> >>,
              << <<From(C, "K")>>, << <<"K">> >> >>,
              << <<FromStar(C)>>, << <<"K">> >> >>,
              << <<Import(C), From(C, "f")>>, << <<"c", "K">> >> >>,
              << <<From(C, "f"), From(C, "K")>>, << <<"K">> >> >>,
              << <<From(<<"ext">>, "K")>>, << <<"K">> >> >>}

ImportsOfC == {<<>>, <<From(B, "g")>>, <<ImportAs(B, "q")>>}

(* One or two import statements. *)
FilesA == UNION {{FileA(IF i = j THEN <<ImportsOfA[i]>> ELSE <<ImportsOfA[i], ImportsOfA[j]>>, base) :
                     i \in 1..j, base \in {<< <<"J">> >>, << <<"b", "J">> >>}} :
                 j \in DOMAIN ImportsOfA}

Package(a, b, imports) == <<a, FileB(b[1], b[2]), FileC(imports)>>

----------------------------------------------------------------------------
(* a takes from b what b has from c or from outside, which may import b in *)
(* turn: of one name, or of two names under each other's.                  *)
Plain(m, imports, names) ==
    [path |-> m[1], module |-> m, imports |-> imports,
     body |-> [i \in DOMAIN names |-> Function(names[i], Untyped, <<>>)]]

CallingA(imports) ==
    [path |-> "a.py", module |-> A, imports |-> imports,
     body |-> <<Function("main", Untyped,
                  <<<<"f">>, <<"k">>, <<"_p">>, <<"b", "f">>, <<"b", "k">>, <<"b", "_p">>>>)>>]

ImportsOfCaller ==
    {From(B, "f"), FromAs(B, "f", "k"), FromAs(B, "k", "f"), FromStar(B), Import(B), From(B, "_p")}

ImportsBetween ==
    {Import(C), From(C, "f"), FromAs(C, "f", "k"), FromStar(C), From(C, "_p"), From(<<"ext">>, "f"),
     FromAs(<<"ext">>, "f", "k")}

CyclicPackages ==
    {<<CallingA(<<a>>), Plain(B, <<b1, b2>>, own), Plain(C, c, names)>> :
        a \in ImportsOfCaller, b1 \in ImportsBetween, b2 \in ImportsBetween, own \in {<<>>, <<"f">>},
        c \in {<<>>, <<Import(B)>>, <<From(B, "k")>>, <<FromStar(B)>>},
        names \in {<<"f", "_p">>, <<"f", "k">>}}

----------------------------------------------------------------------------
(* A file that defines a function, a class with a method of the function's *)
(* name, and a class with its base, in any order around their caller; a    *)
(* package's module defines the function and the base as well, the package *)
(* has the function's name from outside, and module c has a function named *)
(* as the method of the caller's variable c; the two modules called c may  *)
(* import each other.                                                      *)
PC == <<"pk", "c">>

Base == Class("N", <<>>, <<Function("n", Untyped, <<>>)>>)

Part(name) ==
    CASE name = "function" -> <<Function("f", Untyped, <<>>)>>
      [] name = "method"   -> <<Class("X", <<>>, <<Function("f", Untyped, <<>>)>>)>>
      [] name = "class"    -> <<Class("P", << <<"N">> >>, <<>>)>>
      [] name = "family"   -> <<Base, Class("P", << <<"N">> >>, <<>>)>>
      [] name = "caller"   ->
           <<[Function("main", Untyped,
                 <<<<"f">>, <<"x", "n">>, <<"c", "n">>, <<"pk", "f">>, <<"pk", "c", "f">>,
                   <<"pk", "c", "n">>, <<"m", "f">>>>)
                EXCEPT !.assigns = <<Bound("x", <<"P">>), Bound("c", <<"P">>)>>]>>

Bodies ==
    {FlattenSeq([i \in DOMAIN order |-> Part(order[i])]) :
        order \in UNION {SetToSeqs({"caller"} \cup parts) :
                           parts \in {p \in SUBSET {"function", "method", "class", "family"} :
                                        ~({"class", "family"} \subseteq p)}}}

WrittenPackages ==
    {<<[path |-> "a.py", module |-> A, imports |-> imports, body |-> body],
       Plain(<<"pk">>, <<From(<<"ext">>, "f")>>, <<>>),
       [path |-> "pk/c.py", module |-> PC, imports |-> cycle[1],
        body |-> <<Function("f", Untyped, <<>>), Base>>],
       Plain(C, cycle[2], <<"n">>)>> :
        body \in Bodies, cycle \in {<< <<>>, <<>> >>, << <<From(C, "n")>>, <<Import(PC)>> >>},
        imports \in {<<>>, <<From(PC, "f")>>, <<From(PC, "N")>>, <<From(PC, "N"), Import(PC)>>,
                    <<FromAs(<<"pk">>, "c", "m")>>, <<From(PC, "N"), ImportAs(C, "x")>>}}

ModulesInOrder == <<A, B, C, <<"pk">>, PC>>

=============================================================================
