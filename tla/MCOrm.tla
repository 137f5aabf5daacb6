-------------------------------- MODULE MCOrm --------------------------------
(***************************************************************************)
(* Packages whose modules b and c both define the Django model U and the   *)
(* declarative class V; a's main uses them in the ways SQLAlchemy and      *)
(* Django offer, each alone and next to another on its line.               *)
(***************************************************************************)
EXTENDS OrmAccess, MCNames

NoArg       == [is |-> "none"]
Arg(text)   == [is |-> "name", text |-> text]
List(first) == [is |-> "list", first |-> first]
CallOf(fn, of) == [is |-> "call", fn |-> <<fn>>, of |-> of]

(* The calls main makes and their first arguments. *)
OrmCalls ==
    << <<<<"s", "query">>, Arg(<<"V">>)>>, <<<<"s", "get">>, Arg(<<"V">>)>>,
       <<<<"U", "objects", "get">>, NoArg>>, <<<<"s", "add">>, Arg(<<"v">>)>>,
       <<<<"r", "query">>, Arg(<<"V">>)>>, <<<<"s", "delete">>, Arg(<<"v">>)>>,
       <<<<"u", "save">>, NoArg>>, <<<<"s", "execute">>, CallOf("select", <<"V">>)>>,
       <<<<"s", "add_all">>, List(<<"v">>)>>, <<<<"U", "objects", "update_or_create">>, NoArg>>,
       <<<<"u", "delete">>, NoArg>>, <<<<"s", "execute">>, CallOf("delete", <<"V">>)>>,
       <<<<"s", "bulk_save_objects">>, List(<<"v">>)>>, <<<<"u", "refresh_from_db">>, NoArg>>,
       <<<<"s", "bulk_insert_mappings">>, Arg(<<"V">>)>>, <<<<"s", "query">>, Arg(<<"V", "id">>)>>,
       <<<<"V", "objects", "filter">>, NoArg>>, <<<<"U", "objects", "create">>, NoArg>>,
       <<<<"self", "s", "query">>, Arg(<<"V">>)>>, <<<<"s", "scalars">>, CallOf("select", <<"V">>)>>,
       <<<<"s", "query">>, Arg(<<"b", "V">>)>>, <<<<"s", "add">>, Arg(<<"q">>)>>,
       <<<<"s", "get">>, Arg(<<"q">>)>> >>

(* Each call on a line of its own, then with its successor on one line. *)
OrmSequence ==
    LET n == Len(OrmCalls)
        together == [k \in 1..(2 * n) |-> OrmCalls[IF k % 2 = 1 THEN (k + 1) \div 2 ELSE ((k \div 2) % n) + 1]]
    IN  OrmCalls \o together

LineOf(k) == LET n == Len(OrmCalls) IN IF k <= n THEN k ELSE n + (k - n + 1) \div 2

Method(name, calls) ==
    Function(name, Untyped, calls)
      @@ [args |-> [i \in DOMAIN calls |-> NoArg], lines |-> [i \in DOMAIN calls |-> i]]

Table(name, bases, table, methods) == Class(name, bases, methods) @@ [table |-> table]

(* Models with and without a save of their own. *)
Methods(overrides) ==
    <<Method("touch", <<<<"self", "save">>>>)>>
      \o (IF overrides THEN <<Method("save", <<<<"super", "save">>, <<"self", "save">>>>)>> ELSE <<>>)

ModelFile(path, module, tables, base, overrides) ==
    [path |-> path, module |-> module, imports |-> <<>>,
     body |-> <<Table("U", <<base>>, tables[1], Methods(overrides)),
                Table("V", <<<<"Base">>>>, tables[2], <<>>),
                Table("R", <<>>, "none", <<Method("query", <<>>)>>)>>]

Main ==
    [Method("main", [k \in DOMAIN OrmSequence |-> OrmSequence[k][1]])
       EXCEPT !.args    = [k \in DOMAIN OrmSequence |-> OrmSequence[k][2]],
              !.lines   = [k \in DOMAIN OrmSequence |-> LineOf(k)],
              !.params  = [r |-> Type("R"), q |-> Type("V")],
              !.assigns = <<Bound("u", <<"U">>), Bound("v", <<"V">>)>>]

OrmImports ==
    <<From(B, "U"), From(C, "U"), From(B, "V"), From(C, "V"), FromAs(C, "V", "U"), FromAs(B, "U", "V"),
      FromStar(B), FromStar(C), Import(B), From(C, "R")>>

OrmFiles ==
    {<<[path |-> "a.py", module |-> A, imports |-> imports, body |-> <<Main>>],
       ModelFile("b.py", B, <<"none", "bv">>, <<"models", "Model">>, overrides),
       ModelFile("c.py", C, <<"cu", "cv">>, <<"AbstractUser">>, ~overrides)>> :
        imports \in {<<OrmImports[i], OrmImports[j], From(k, "R")>> :
                        i \in DOMAIN OrmImports, j \in DOMAIN OrmImports, k \in {B, C}},
        overrides \in BOOLEAN}
=============================================================================
