--------------------------- MODULE PythonExtractor ---------------------------
(***************************************************************************)
(* What the indexer records of one Python file                             *)
(* (repo_indexer/extractor_python.py).                                     *)
(*                                                                         *)
(* Names are atoms; dotted text and qualified names are sequences of them. *)
(* A file is [path, module, imports, body]; body is the sequence of its    *)
(* top-level functions, classes and assignments:                           *)
(*   [is |-> "function", name, params, returns, calls, assigns, fields]    *)
(*   [is |-> "class", name, bases, methods]                                *)
(*   [is |-> "assign", var, callee]                                        *)
(* calls are the dotted callees in a function's body, super() written as   *)
(* super, assigns its var = callee(...), fields its self.var = callee(...).  An annotation is *)
(* [wrappers, args]: Optional[list[T]] has wrappers <<"Optional", "list">> *)
(* and args <<"T">>; an absent one has no args.                            *)
(***************************************************************************)
EXTENDS Integers, SequencesExt

(***************************************************************************)
(* _walk_imports: an import binds the name local of the file to target.    *)
(***************************************************************************)
WalkImport(stmt) ==
    CASE stmt.form = "import" ->
           [target |-> stmt.module, local |-> stmt.module[1], kind |-> "module"]
      [] stmt.form = "import as" ->
           [target |-> stmt.module, local |-> stmt.alias, kind |-> "module"]
      [] stmt.form = "from" ->
           [target |-> Append(stmt.module, stmt.name), local |-> stmt.alias, kind |-> "symbol"]
      [] stmt.form = "from star" ->
           [target |-> stmt.module, local |-> "*", kind |-> "module"]

(* Generics around a type, which a return annotation loses.                *)
Unwrapped ==
    {"Optional", "list", "List", "Iterable", "Iterator", "Sequence", "Collection", "AsyncIterable",
     "AsyncIterator", "Awaitable", "Coroutine", "Generator", "AsyncGenerator"}

(* _normalize_return_type: the identifiers left of an annotation. *)
NormalizeReturnType(ann) ==
    LET strip[n \in 0..Len(ann.wrappers)] ==
            IF n = Len(ann.wrappers) THEN ann.args
            ELSE IF ann.wrappers[n + 1] \notin Unwrapped
                 THEN SubSeq(ann.wrappers, n + 1, Len(ann.wrappers)) \o ann.args
            ELSE IF Len(ann.args) > 1 THEN <<Last(ann.args)>>
            ELSE strip[n + 1]
    IN  strip[0]

(* The same text as the resolver reads it in a parameter's annotation. *)
Identifiers(ann) == ann.wrappers \o ann.args

(* One candidate type for each identifier. *)
AsTypes(names) == [i \in DOMAIN names |-> <<names[i]>>]

----------------------------------------------------------------------------
(* Scopes, and what is bound in them. *)

ModuleScope(file)    == [kind |-> "module", qn |-> file.module, path |-> file.path]
ClassScope(file, qn) == [kind |-> "class", qn |-> qn, path |-> file.path]
FunctionScope(file, qn) == [kind |-> "function", qn |-> qn, path |-> file.path]

Binding(scope, name, raw) == [scope |-> scope, name |-> name, raw |-> raw]

EmptyBatch ==
    [modules |-> <<>>, classes |-> <<>>, functions |-> <<>>, inherits |-> <<>>,
     calls |-> <<>>, bindings |-> <<>>, imports |-> <<>>]

(***************************************************************************)
(* _emit_function.  out.local holds the names defined so far, methods'     *)
(* names among them: a bare call of one of those is taken to mean the      *)
(* module's.                                                               *)
(***************************************************************************)
LocalCallee(out, file, dotted) ==
    IF Len(dotted) = 1 /\ dotted[1] \in out.local THEN file.module \o dotted ELSE dotted

FunctionBindings(file, owner, f) ==
    LET qn == Append(owner.qn, f.name)
    IN  (IF f.returns.args = <<>> THEN <<>>
         ELSE <<Binding(owner, f.name, AsTypes(NormalizeReturnType(f.returns)))>>)
        \o [i \in DOMAIN f.assigns |->
              Binding(FunctionScope(file, qn), f.assigns[i].var, <<f.assigns[i].callee>>)]
        \o (IF owner.kind # "class" THEN <<>>
            ELSE LET fields == SelectSeq(f.fields, LAMBDA a : Len(a.callee) = 1)
                 IN  [i \in DOMAIN fields |-> Binding(owner, fields[i].var, <<fields[i].callee>>)])

EmitFunction(out, file, owner, f) ==
    LET qn    == Append(owner.qn, f.name)
        known == [out EXCEPT !.local = @ \cup {f.name}]
    IN  [known EXCEPT
           !.batch.functions = Append(@, [qn |-> qn, path |-> file.path, name |-> f.name,
               class |-> IF owner.kind = "class" THEN owner.qn ELSE <<>>,
               params |-> [p \in DOMAIN f.params |-> AsTypes(Identifiers(f.params[p]))]]),
           !.batch.calls = @ \o [i \in DOMAIN f.calls |->
               [caller |-> qn, callee |-> LocalCallee(known, file, f.calls[i])]],
           !.batch.bindings = @ \o FunctionBindings(file, owner, f)]

(* _emit_class: its bases as they are written, then its methods. *)
EmitClass(out, file, c) ==
    LET qn      == Append(file.module, c.name)
        started == [out EXCEPT
                      !.local = @ \cup {c.name},
                      !.batch.classes = Append(@, [qn |-> qn, path |-> file.path, name |-> c.name]),
                      !.batch.inherits = @ \o [i \in DOMAIN c.bases |->
                          [child |-> qn, parent |-> c.bases[i]]]]
    IN  FoldLeft(LAMBDA so_far, f : EmitFunction(so_far, file, ClassScope(file, qn), f),
                 started, c.methods)

EmitDefinition(out, file, item) ==
    CASE item.is = "function" -> EmitFunction(out, file, ModuleScope(file), item)
      [] item.is = "class"    -> EmitClass(out, file, item)
      [] item.is = "assign"   -> out

(* _walk_module_level_assignments: bare callees only. *)
ModuleAssignments(file) ==
    LET assigns == SelectSeq(file.body, LAMBDA i : i.is = "assign" /\ Len(i.callee) = 1)
    IN  [i \in DOMAIN assigns |->
            Binding(ModuleScope(file), assigns[i].var, <<assigns[i].callee>>)]

(* extract_python_file *)
ExtractPythonFile(file) ==
    LET start == [local |-> {},
                  batch |-> [EmptyBatch EXCEPT
                     !.modules = <<[qn |-> file.module, path |-> file.path]>>]]
        out   == FoldLeft(LAMBDA so_far, item : EmitDefinition(so_far, file, item),
                          start, file.body)
    IN  [out.batch EXCEPT
           !.bindings = @ \o ModuleAssignments(file),
           !.imports  = [i \in DOMAIN file.imports |->
               [path |-> file.path] @@ WalkImport(file.imports[i])]]

(* IndexBatch.extend: the files' records, one after the other. *)
Merge(batch, fragment) == [field \in DOMAIN batch |-> batch[field] \o fragment[field]]

ExtractAll(files) ==
    FoldLeft(LAMBDA batch, file : Merge(batch, ExtractPythonFile(file)), EmptyBatch, files)
=============================================================================
