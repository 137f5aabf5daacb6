------------------------------ MODULE MCScripts ------------------------------
(***************************************************************************)
(* Packages of TypeScript files: src/a.ts calls what src/lib/index.ts and  *)
(* src/lib/c.tsx define; src/c.ts, also called c, defines an f of its own. *)
(***************************************************************************)
EXTENDS TypeScriptNames, MCNames

PathOf(dir, stem, ext) == [dir |-> dir, stem |-> stem, ext |-> ext]

File(path, imports, body) ==
    [path |-> path, module |-> ScriptModuleQn(path), imports |-> imports, body |-> body]

At(steps) == [steps |-> steps, ext |-> ""]
AtJs(steps) == [steps |-> steps, ext |-> "js"]

Take(spec, name, alias) == [form |-> "named", spec |-> spec, name |-> name, alias |-> alias]
Default(spec, name)      == [form |-> "default", spec |-> spec, name |-> name, alias |-> name]
SideEffect(spec)         == [form |-> "side effect", spec |-> spec, alias |-> ""]
Namespace(spec, alias)   == [form |-> "namespace", spec |-> spec, alias |-> alias]

Typed(var, type) == [var |-> var, type |-> type, new |-> <<>>]
New(var, class)  == [var |-> var, type |-> Untyped, new |-> <<class>>]

PromiseOf(t) == [wrappers |-> <<"Promise", "[]">>, args |-> <<t>>]

ScriptClass(name, bases, methods, fields) == Class(name, bases, methods) @@ [fields |-> fields]

DeepC(imports) ==
    File(PathOf(<<"src", "lib">>, "c", "tsx"), imports,
         <<Function("f", Untyped, <<>>), Function("m", Untyped, <<>>),
           ScriptClass("K", <<>>, <<Function("m", Untyped, <<>>)>>, <<>>)>>)

NearC == File(PathOf(<<"src">>, "c", "ts"), <<>>, <<Function("f", Untyped, <<>>), Function("m", Untyped, <<>>)>>)

Index(imports, bases) ==
    File(PathOf(<<"src", "lib">>, "index", "ts"), imports,
         <<ScriptClass("J", bases, <<Function("n", Untyped, <<>>)>>, <<Typed("y", PromiseOf("K"))>>),
           Function("g", Untyped, <<<<"f">>>>)>>)

Caller(imports) ==
    File(PathOf(<<"src">>, "a", "ts"), imports,
         <<Function("n", PromiseOf("J"), <<>>),
           ScriptClass("L", <<<<"J">>>>,
               <<[Function("w", Untyped, <<<<"n">>, <<"this", "n">>, <<"v", "n">>, <<"v", "m">>>>)
                    EXCEPT !.assigns = <<Typed("v", PromiseOf("J"))>>, !.fields = <<New("x", "J")>>],
                 Function("h", Untyped, <<>>)>>, <<>>),
           [is |-> "assign"] @@ New("t", "J"),
           [Function("main", Untyped,
               <<<<"f">>, <<"g">>, <<"h">>, <<"n">>, <<"d", "g">>, <<"d", "f">>, <<"p", "m">>,
                 <<"k", "m">>, <<"t", "n">>, <<"u", "n">>, <<"u", "h">>, <<"u", "m">>, <<"u", "x", "n">>,
                 <<"t", "y", "m">>, <<"K", "m">>, <<"z">>>>)
              EXCEPT !.params = [p |-> PromiseOf("K")],
                     !.assigns = <<New("k", "K"), New("u", "L")>>],
           Function("z", Untyped, <<>>)>>)

DeepSpecs == {At(<<".", "lib", "c">>), AtJs(<<".", "lib", "c">>), At(<<"..", "src", "lib", "c">>)}
Lib  == At(<<".", "lib">>)
Near == At(<<".", "c">>)
Up   == At(<<"..", "c">>)

(* The root's index, by its directory and by its name. *)
Root      == At(<<"..">>)
RootIndex == At(<<"..", "index">>)

RootFile == File(PathOf(<<>>, "index", "ts"), <<>>,
                 <<Function("f", Untyped, <<>>), ScriptClass("K", <<>>, <<Function("m", Untyped, <<>>)>>, <<>>)>>)

ScriptImports ==
    {Take(Lib, "f", "f"), Take(Lib, "g", "g"), Take(Lib, "f", "g"), Take(Lib, "g", "h"),
     Namespace(Lib, "d"), Default(Lib, "g"), SideEffect(Lib),
     Take(Near, "f", "f"), Namespace(Near, "d"), SideEffect(Near),
     Take(At(<<"ext">>), "f", "f"), SideEffect(At(<<"ext">>))}
      \cup UNION {{Take(s, "f", "f"), Take(s, "K", "K"), Namespace(s, "d"), Default(s, "K")} : s \in DeepSpecs}

IndexShapes ==
    {<< <<>>, <<>> >>,
     << <<Take(At(<<".", "c">>), "K", "K"), Take(At(<<".", "c">>), "f", "f")>>, <<<<"K">>>> >>,
     << <<Take(Up, "f", "f"), Namespace(At(<<".", "c">>), "d")>>, <<<<"d", "K">>>> >>}

ImportsOfDeepC == {<<>>, <<Take(At(<<".">>), "g", "g")>>}

RootImports ==
    UNION {{Take(s, "f", "f"), Take(s, "f", "h"), Take(s, "K", "K"), Namespace(s, "d"), Default(s, "K"),
            SideEffect(s)} : s \in {Root, RootIndex}}

RootScriptFiles ==
    {<<Caller(<<i, j, Take(Lib, "J", "J")>>), Index(<<>>, <<>>), DeepC(<<>>), RootFile>> :
        i \in RootImports,
        j \in {Take(At(<<"ext">>), "f", "f"), SideEffect(Lib), Take(Lib, "f", "g"),
               Take(At(<<".", "lib", "c">>), "K", "K")}}

ScriptCallers ==
    {Caller(<<i, j, Take(Lib, "J", "J")>>) :
        <<i, j>> \in {p \in ScriptImports \X ScriptImports : p[1] = p[2] \/ p[1].alias # p[2].alias}}

ScriptPackage(caller, shape, imports) ==
    <<caller, Index(shape[1], shape[2]), DeepC(imports), NearC>>

ScriptsInOrder == <<<<"src", "a">>, <<"src", "lib">>, <<"src", "lib", "c">>, <<"src", "c">>>>
=============================================================================
