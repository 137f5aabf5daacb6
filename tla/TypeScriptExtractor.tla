-------------------------- MODULE TypeScriptExtractor --------------------------
(***************************************************************************)
(* What the indexer records of one TypeScript file                         *)
(* (repo_indexer/extractor_typescript.py), in the records of               *)
(* PythonExtractor, which the resolver reads for every language.           *)
(*                                                                         *)
(* A file is [path, module, imports, body]; a path [dir, stem, ext].  An   *)
(* import names a file by its specifier, [steps, ext], in which steps      *)
(* start with "." or "..", or are a package's name alone; one for its side *)
(* effects has the alias "".  Functions and classes are as in              *)
(* PythonExtractor, but for variables and fields, which have a type or are *)
(* made by new: [var, type, new]; a class has fields beside those its      *)
(* methods set through this.                                               *)
(***************************************************************************)
EXTENDS PythonExtractor

SourceExts == <<"ts", "tsx", "js", "jsx">>

(* module_qn_from_path *)
ScriptModuleQn(path) == IF path.stem = "index" THEN path.dir ELSE Append(path.dir, path.stem)

(* Mutant: the importing file's own name counts as a directory. *)
StepsFromFile(path, steps) ==
    FoldLeft(LAMBDA dir, step : CASE step = "."  -> dir
                                  [] step = ".." -> IF dir = <<>> THEN dir ELSE Front(dir)
                                  [] OTHER       -> Append(dir, step),
             Append(path.dir, path.stem), steps)

StepsFrom(path, steps) ==
    FoldLeft(LAMBDA dir, step : CASE step = "."  -> dir
                                  [] step = ".." -> IF dir = <<>> THEN dir ELSE Front(dir)
                                  [] OTHER       -> Append(dir, step),
             path.dir, steps)

(* _resolve_relative_import: the specifier's own extension is dropped, a   *)
(* file is preferred to the index of a directory; the root directory's     *)
(* would be looked for as "/index.ts", which is no file of the repository. *)
ResolveRelativeImport(path, spec, paths) ==
    LET base  == StepsFrom(path, spec.steps)
        each(dir, stem) == [i \in DOMAIN SourceExts |-> [dir |-> dir, stem |-> stem, ext |-> SourceExts[i]]]
        tried == IF base = <<>> THEN <<>> ELSE each(Front(base), Last(base)) \o each(base, "index")
        there == SelectSeq(tried, LAMBDA p : p \in paths)
    IN  IF spec.steps[1] \notin {".", ".."} \/ there = <<>> THEN {} ELSE {there[1]}

(* _walk_imports; an import of a default is recorded as one of its module. *)
WalkScriptImport(path, stmt, paths) ==
    LET file   == ResolveRelativeImport(path, stmt.spec, paths)
        module == IF file = {} THEN stmt.spec.steps ELSE ScriptModuleQn(CHOOSE p \in file : TRUE)
    IN  CASE stmt.form \in {"default", "namespace", "side effect"} ->
               [target |-> module, local |-> stmt.alias, kind |-> "module"]
          [] stmt.form = "named" ->
               [target |-> Append(module, stmt.name), local |-> stmt.alias, kind |-> "symbol"]

ScriptUnwrapped ==
    {"Promise", "Array", "ReadonlyArray", "Iterable", "AsyncIterable", "Awaitable", "Observable",
     "[]", "readonly", "| null", "| undefined"}

(* _normalize_ts_type *)
NormalizeTsType(ann) ==
    LET kept == SelectInSeq(ann.wrappers, LAMBDA w : w \notin ScriptUnwrapped)
    IN  (IF kept = 0 THEN <<>> ELSE SubSeq(ann.wrappers, kept, Len(ann.wrappers))) \o ann.args

(* What is known of the type of a variable or a field: an annotation goes  *)
(* before the class after new.                                             *)
TypeRawName(a) ==
    IF a.type.args # <<>> THEN AsTypes(NormalizeTsType(a.type))
    ELSE IF Len(a.new) = 1 THEN <<a.new>> ELSE <<>>

TypedBindings(scope, assigns) ==
    LET typed == SelectSeq(assigns, LAMBDA a : TypeRawName(a) # <<>>)
    IN  [i \in DOMAIN typed |-> Binding(scope, typed[i].var, TypeRawName(typed[i]))]

(* _walk_ts_this_assignments: only new counts. *)
ThisBindings(owner, f) ==
    IF owner.kind # "class" THEN <<>>
    ELSE TypedBindings(owner, SelectSeq(f.fields, LAMBDA a : a.type.args = <<>>))

(* _walk_calls: this and super are no identifiers, their calls are lost. *)
RecordedCalls(f) == SelectSeq(f.calls, LAMBDA c : c[1] \notin {"this", "super"})

(* _emit_function: methods' names are not among the local names. *)
EmitScriptFunction(out, file, owner, f) ==
    LET qn    == Append(owner.qn, f.name)
        known == [out EXCEPT !.local = IF owner.kind = "class" THEN @ ELSE @ \cup {f.name}]
        calls == RecordedCalls(f)
    IN  [known EXCEPT
           !.batch.functions = Append(@, [qn |-> qn, path |-> file.path, name |-> f.name,
               class |-> IF owner.kind = "class" THEN owner.qn ELSE <<>>,
               params |-> [p \in DOMAIN f.params |-> AsTypes(Identifiers(f.params[p]))]]),
           !.batch.calls = @ \o [i \in DOMAIN calls |->
               [caller |-> qn, callee |-> LocalCallee(known, file, calls[i])]],
           !.batch.bindings = @
               \o TypedBindings(FunctionScope(file, qn), f.assigns)
               \o ThisBindings(owner, f)
               \o (IF f.returns.args = <<>> THEN <<>>
                   ELSE <<Binding(owner, f.name, AsTypes(NormalizeTsType(f.returns)))>>)]

(* _emit_class *)
EmitScriptClass(out, file, c) ==
    LET qn      == Append(file.module, c.name)
        scope   == ClassScope(file, qn)
        started == [out EXCEPT
                      !.local = @ \cup {c.name},
                      !.batch.classes = Append(@, [qn |-> qn, path |-> file.path, name |-> c.name]),
                      !.batch.inherits = @ \o [i \in DOMAIN c.bases |->
                          [child |-> qn, parent |-> c.bases[i]]],
                      !.batch.bindings = @ \o TypedBindings(scope, c.fields)]
    IN  FoldLeft(LAMBDA so_far, f : EmitScriptFunction(so_far, file, scope, f), started, c.methods)

(* extract_typescript_file; a module's variables are typed as a function's, *)
(* and the root's index has no module.                                      *)
ExtractTypeScriptFile(file, paths) ==
    LET start == [local |-> {},
                  batch |-> [EmptyBatch EXCEPT
                     !.modules = IF file.module = <<>> THEN <<>>
                                 ELSE <<[qn |-> file.module, path |-> file.path]>>]]
        emit(so_far, item) ==
            CASE item.is = "function" -> EmitScriptFunction(so_far, file, ModuleScope(file), item)
              [] item.is = "class"    -> EmitScriptClass(so_far, file, item)
              [] item.is = "assign"   -> so_far
        out == FoldLeft(emit, start, file.body)
        variables == SelectSeq(file.body, LAMBDA i : i.is = "assign")
    IN  [out.batch EXCEPT
           !.bindings = @ \o TypedBindings(ModuleScope(file), variables),
           !.imports  = [i \in DOMAIN file.imports |->
               [path |-> file.path] @@ WalkScriptImport(file.path, file.imports[i], paths)]]

ExtractAllScripts(files) ==
    LET paths == {files[i].path : i \in DOMAIN files}
    IN  FoldLeft(LAMBDA batch, file : Merge(batch, ExtractTypeScriptFile(file, paths)),
                 EmptyBatch, files)
=============================================================================
