------------------------------ MODULE Finalize ------------------------------
(***************************************************************************)
(* Which definition each recorded call and base class means                *)
(* (scope_resolution/finalize.py with its indexes).                        *)
(*                                                                         *)
(* A lookup returns a set: empty for None, else the one qualified name     *)
(* found.  Scopes nest as their line ranges do: a method in its class, a   *)
(* class or a function in its module.  order lists the modules in the      *)
(* order in which this process's sets of strings iterate, which decides    *)
(* between the members of an import cycle.                                 *)
(***************************************************************************)
EXTENDS PythonExtractor, MethodDispatch

LOCAL INSTANCE Graphs

FirstHit(seq, Lookup(_)) ==
    LET i == SelectInSeq(seq, LAMBDA x : Lookup(x) # {})
    IN  IF i = 0 THEN {} ELSE Lookup(seq[i])

LastWhere(seq, Test(_)) ==
    LET i == SelectLastInSeq(seq, Test) IN IF i = 0 THEN {} ELSE {seq[i]}

found ?? fallback == IF found # {} THEN found ELSE fallback

Each(S, Lookup(_)) == UNION {Lookup(x) : x \in S}

----------------------------------------------------------------------------
(* The indexes. *)

QNs(nodes) == {nodes[i].qn : i \in DOMAIN nodes}

(* to_declarations and the de-duplication: the first of a name counts. *)
KindOf(batch) ==
    LET methods == SelectSeq(batch.functions, LAMBDA f : f.class # <<>>)
        first(kind, nodes) == [qn \in QNs(nodes) |-> kind]
    IN  first("module", batch.modules) @@ first("class", batch.classes)
          @@ first("method", methods) @@ first("function", batch.functions)

IsKind(ix, qn, kinds) == qn \in DOMAIN ix.kind /\ ix.kind[qn] \in kinds
IsFunction(ix, qn)    == IsKind(ix, qn, {"function", "method"})
IsClass(ix, qn)       == IsKind(ix, qn, {"class"})

(* TypeScript's side effect imports have the empty local name. *)
IsWildcard(imp) == imp.local \in {"*", ""} /\ imp.kind = "module" /\ imp.target # <<>>

(* _build_reexport_closure: the strongly connected components of the       *)
(* graph of modules and the modules they import from.                      *)
ImportedModule(imp) ==
    IF imp.kind = "symbol" /\ Len(imp.target) > 1 THEN Front(imp.target) ELSE imp.target

ImportEdges(batch) ==
    UNION {{<<m.qn, ImportedModule(batch.imports[i])>> :
               m \in LastWhere(batch.modules, LAMBDA n : n.path = batch.imports[i].path)} :
           i \in {j \in DOMAIN batch.imports : ImportedModule(batch.imports[j]) # <<>>}}

(* Mutant: weakly connected components. *)
WeakClosure(batch) ==
    LET edges == ImportEdges(batch)
        graph == [node |-> QNs(batch.modules) \cup {e[2] : e \in edges},
                  edge |-> edges \cup {<<e[2], e[1]>> : e \in edges}]
        path  == ConnectionsIn(graph)
    IN  [m \in graph.node |-> {n \in graph.node : path[m, n]}]

ReexportClosure(batch) ==
    LET edges == ImportEdges(batch)
        graph == [node |-> QNs(batch.modules) \cup {e[2] : e \in edges}, edge |-> edges]
        path  == ConnectionsIn(graph)
    IN  [m \in graph.node |-> {m} \cup {n \in graph.node : path[m, n] /\ path[n, m]}]

(* Mutant: only the module itself is searched. *)
MembersAlone(ix, module) == {module}

Members(ix, module) ==
    IF module \in DOMAIN ix.closure THEN ix.closure[module] ELSE {module}

(* ModuleScopeIndex: what a module exports is defined in it and public.    *)
PrivateNames == {"_p"}

Exports(ix, module, name, kind) ==
    Len(name) = 1 /\ name[1] \notin PrivateNames /\ IsKind(ix, module \o name, {kind})

ViaClosure(ix, module, name, kind) ==
    FirstHit(SelectSeq(ix.order, LAMBDA m : m \in Members(ix, module)),
             LAMBDA m : IF Exports(ix, m, name, kind) THEN {m \o name} ELSE {})

ImportOf(ix, path, name) ==
    LastWhere(ix.imports, LAMBDA i : i.path = path /\ i.local = name /\ ~IsWildcard(i))

Wildcards(ix, path) ==
    LET stars == SelectSeq(ix.imports, LAMBDA i : i.path = path /\ IsWildcard(i))
    IN  [n \in DOMAIN stars |-> stars[n].target]

----------------------------------------------------------------------------
(* Names. *)

(* A name imported on its own, or by a wildcard. *)
BareName(ix, path, name, kind) ==
    Each(ImportOf(ix, path, name[1]),
         LAMBDA i : IF i.kind # "symbol" THEN {}
                    ELSE IF IsKind(ix, i.target, IF kind = "class" THEN {kind} ELSE {kind, "method"})
                         THEN {i.target}
                    ELSE ViaClosure(ix, Front(i.target), name, kind))
      ?? FirstHit(Wildcards(ix, path), LAMBDA w : ViaClosure(ix, w, name, kind))

(* What an imported module holds under the rest of a dotted name. *)
ModuleMember(ix, path, dotted, kind) ==
    Each(ImportOf(ix, path, dotted[1]),
         LAMBDA i : IF i.kind # "module" THEN {}
                    ELSE IF IsKind(ix, i.target \o Tail(dotted),
                                   IF kind = "class" THEN {kind} ELSE {kind, "method"})
                         THEN {i.target \o Tail(dotted)}
                    ELSE ViaClosure(ix, i.target, Tail(dotted), kind))

(* _resolve_type_name: the first candidate of an annotation that is known. *)
TypeName(ix, path, types) ==
    FirstHit(types, LAMBDA t :
        (IF IsClass(ix, t) THEN {t} ELSE {})
          ?? Each(LastWhere(ix.modules, LAMBDA m : m.path = path),
                  LAMBDA m : IF IsClass(ix, m.qn \o t) THEN {m.qn \o t} ELSE {})
          ?? (IF Len(t) # 1 THEN {}
              ELSE Each(ImportOf(ix, path, t[1]),
                        LAMBDA i : IF IsClass(ix, i.target) THEN {i.target}
                                   ELSE ViaClosure(ix, i.target, t, "class"))))
      ?? FirstHit(Wildcards(ix, path),
                  LAMBDA w : FirstHit(types, LAMBDA t : ViaClosure(ix, w, t, "class")))

(* _resolve_parent: neither the child's own module nor a closed-over class *)
(* of a dotted wildcard is tried.                                          *)
ResolveParent(ix, child, parent) ==
    IF IsClass(ix, parent) THEN {parent}
    ELSE Each(LastWhere(ix.classes, LAMBDA c : c.qn = child),
              LAMBDA c : IF Len(parent) = 1 THEN BareName(ix, c.path, parent, "class")
                         ELSE ModuleMember(ix, c.path, parent, "class"))

RewrittenBase(ix, edge) ==
    LET parent == ResolveParent(ix, edge.child, edge.parent)
    IN  IF parent = {} THEN edge ELSE [edge EXCEPT !.parent = CHOOSE p \in parent : TRUE]

(* to_parent_relation, after the bases are rewritten. *)
Indexed(batch, order) ==
    LET ix       == [kind |-> KindOf(batch), closure |-> ReexportClosure(batch), order |-> order]
                      @@ batch
        inherits == [i \in DOMAIN batch.inherits |-> RewrittenBase(ix, batch.inherits[i])]
        parents(c) == SelectSeq(inherits, LAMBDA e : e.child = c /\ IsClass(ix, e.parent))
    IN  [inherits |-> inherits,
         parents  |-> [c \in QNs(batch.classes) |->
                         [i \in DOMAIN parents(c) |-> parents(c)[i].parent]],
         defines  |-> [c \in QNs(batch.classes) |->
                         {f.name : f \in {g \in ToSet(batch.functions) : g.class = c}}]] @@ ix

Inherited(ix, class, name) ==
    {Append(c, name) : c \in Dispatch(ix.parents, ix.defines, class, name)}

MethodOf(ix, class, rest) ==
    IF IsFunction(ix, class \o rest) THEN {class \o rest}
    ELSE IF Len(rest) = 1 THEN Inherited(ix, class, rest[1]) ELSE {}

----------------------------------------------------------------------------
(* Variables: LocalVarTypeIndex, where a scope's last binding counts. *)

Chain(ix, scope) ==
    LET outer == LastWhere(ix.modules, LAMBDA m : m.path = scope.path)
        module == SetToSeq({[kind |-> "module", qn |-> m.qn, path |-> m.path] : m \in outer})
        method == scope.kind = "function" /\ IsClass(ix, Front(scope.qn))
    IN  IF scope.kind = "module" THEN <<scope>>
        ELSE <<scope>>
               \o (IF method THEN <<[scope EXCEPT !.kind = "class", !.qn = Front(@)]>> ELSE <<>>)
               \o module

Find(ix, scope, name) ==
    FirstHit(Chain(ix, scope),
             LAMBDA s : LastWhere(ix.bindings, LAMBDA b : b.scope = s /\ b.name = name))

MaxChain == 8

RECURSIVE TypeChain(_, _, _, _)

(* The type of attribute name of class, or of what its method returns. *)
FieldType(ix, class, name, depth) ==
    Each(LastWhere(ix.classes, LAMBDA c : c.qn = class),
         LAMBDA c : Each(Find(ix, [kind |-> "class", qn |-> class, path |-> c.path], name),
                         LAMBDA b : TypeChain(ix, b.raw, b.scope, depth)))

Follow(ix, types, attrs, depth) ==
    FoldLeft(LAMBDA reached, name : Each(reached, LAMBDA c : FieldType(ix, c, name, depth)),
             types, attrs)

BoundType(ix, scope, name, depth) ==
    Each(Find(ix, scope, name), LAMBDA b : TypeChain(ix, b.raw, b.scope, depth))

(* _resolve_type_chain *)
TypeChain(ix, raw, scope, depth) ==
    CASE depth > MaxChain -> {}
      [] depth <= MaxChain /\ Len(raw) # 1 -> TypeName(ix, scope.path, raw)
      [] depth <= MaxChain /\ Len(raw) = 1 /\ Len(raw[1]) = 1 ->
            TypeName(ix, scope.path, raw) ?? BoundType(ix, scope, raw[1][1], depth + 1)
      [] depth <= MaxChain /\ Len(raw) = 1 /\ Len(raw[1]) > 1 ->
            Follow(ix, BoundType(ix, scope, raw[1][1], depth + 1)
                         ?? TypeName(ix, scope.path, <<<<raw[1][1]>>>>),
                   Tail(raw[1]), depth + 1)

----------------------------------------------------------------------------
(* Calls.  caller is the record of the calling function. *)

ResolveCallee(ix, caller, callee) ==
    LET rest == Tail(callee)
    IN  IF IsFunction(ix, callee) THEN {callee}
        ELSE IF Len(callee) = 1 THEN BareName(ix, caller.path, callee, "function")
        ELSE (IF callee[1] \notin DOMAIN caller.params THEN {}
              ELSE Each(TypeName(ix, caller.path, caller.params[callee[1]]),
                        LAMBDA t : MethodOf(ix, t, rest)))
               ?? ModuleMember(ix, caller.path, callee, "function")
               ?? FirstHit(Wildcards(ix, caller.path),
                           LAMBDA w : Each(ViaClosure(ix, w, <<callee[1]>>, "class"),
                                           LAMBDA c : IF IsFunction(ix, c \o rest)
                                                      THEN {c \o rest} ELSE {}))

ResolveSelfOrSuper(ix, caller, callee) ==
    IF caller.class = <<>> \/ Len(callee) # 2 THEN {}
    ELSE CASE callee[1] \in {"self", "this"}  -> Inherited(ix, caller.class, callee[2])
           [] callee[1] \in {"super", "super()"} ->
                 Each(ParentOf(ix.parents, caller.class), LAMBDA p : Inherited(ix, p, callee[2]))
           [] OTHER -> {}

ResolveVarBinding(ix, caller, callee) ==
    IF Len(callee) # 2 THEN {}
    ELSE Each(BoundType(ix, [kind |-> "function", qn |-> caller.qn, path |-> caller.path],
                        callee[1], 0),
              LAMBDA t : MethodOf(ix, t, Tail(callee)))

(* obj.attr.method and obj.attr.attr.method *)
ResolveCompoundReceiver(ix, caller, callee) ==
    LET head == IF callee[1] \in {"self", "this"} THEN {caller.class} \ {<<>>}
                ELSE BoundType(ix, [kind |-> "function", qn |-> caller.qn, path |-> caller.path],
                               callee[1], 0)
    IN  IF Len(callee) \notin 3..4 THEN {}
        ELSE Each(Follow(ix, head, Tail(Front(callee)), 0),
                  LAMBDA t : MethodOf(ix, t, <<Last(callee)>>))

ResolveCall(ix, edge) ==
    Each(LastWhere(ix.functions, LAMBDA f : f.qn = edge.caller),
         LAMBDA caller : ResolveCallee(ix, caller, edge.callee)
                           ?? ResolveSelfOrSuper(ix, caller, edge.callee)
                           ?? ResolveVarBinding(ix, caller, edge.callee)
                           ?? ResolveCompoundReceiver(ix, caller, edge.callee))

(* Symbols are made of the names that stay as they were written. *)
Symbols(ix) ==
    {e.callee : e \in {c \in ToSet(ix.calls) : ResolveCall(ix, c) = {}}}
      \cup {e.parent : e \in {i \in ToSet(ix.inherits) : ~IsClass(ix, i.parent)}}
=============================================================================
