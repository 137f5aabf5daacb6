---------------------------- MODULE TypeScriptNames ----------------------------
(***************************************************************************)
(* What the calls of a few TypeScript files mean, against which the        *)
(* extractor and the resolver together are checked.  Scopes, inheritance   *)
(* and objects are Python's in all these files use, so the files are read  *)
(* as Python's once each specifier is replaced by the module it names and  *)
(* each variable by one that holds an object of its type.  What a file     *)
(* imports it exports as well.                                             *)
(***************************************************************************)
EXTENDS PythonNames, TypeScriptExtractor

(* Where a specifier leads: from the importing file's directory, one step  *)
(* up for each "..", to a file or a directory's index; else a package.     *)
FilesNamed(files, path, spec) ==
    LET ups  == Cardinality({i \in DOMAIN spec.steps : spec.steps[i] = ".."})
        down == SelectSeq(spec.steps, LAMBDA s : s \notin {".", ".."})
        place == SubSeq(path.dir, 1, Len(path.dir) - ups) \o down
    IN  IF spec.steps[1] \notin {".", ".."} THEN {}
        ELSE {file \in ToSet(files) : \/ Append(file.path.dir, file.path.stem) = place
                                      \/ file.path.dir = place /\ file.path.stem = "index"}

ModuleNamed(files, path, spec) ==
    LET named == FilesNamed(files, path, spec)
    IN  IF named = {} THEN spec.steps ELSE (CHOOSE file \in named : TRUE).module

ReadImport(files, path, stmt) ==
    LET module == ModuleNamed(files, path, stmt.spec)
    IN  CASE stmt.form = "namespace"   -> [form |-> "import as", module |-> module, alias |-> stmt.alias]
          [] stmt.form = "side effect" -> [form |-> "side effect", module |-> module]
          [] stmt.form = "default"     ->
               [form |-> "default", module |-> module, name |-> stmt.name, alias |-> stmt.alias]
          [] stmt.form = "named"       ->
               [form |-> "from", module |-> module, name |-> stmt.name, alias |-> stmt.alias]

Holds(a) == [var |-> a.var, callee |-> IF a.type.args # <<>> THEN a.type.args ELSE a.new]

HoldsEach(assigns) == [i \in DOMAIN assigns |-> Holds(assigns[i])]

ReadFunction(f, fields) ==
    [f EXCEPT !.calls = RecordedCalls(f), !.assigns = HoldsEach(@),
              !.fields = HoldsEach(@ \o fields)]

ReadItem(item) ==
    CASE item.is = "function" -> ReadFunction(item, <<>>)
      [] item.is = "class"    ->
           [item EXCEPT !.methods = [i \in DOMAIN @ |-> ReadFunction(@[i], item.fields)]]
      [] item.is = "assign"   -> [is |-> "assign"] @@ Holds(item)

AsNames(files) ==
    [i \in DOMAIN files |->
        [files[i] EXCEPT
           !.imports = [n \in DOMAIN @ |-> ReadImport(files, files[i].path, @[n])],
           !.body    = [n \in DOMAIN @ |-> ReadItem(@[n])]]]

(* A call that has a meaning, or of a bare name the file gives none, is    *)
(* never resolved to a function TypeScript would not call but where the    *)
(* name is searched for in an import cycle, under an alias, below a        *)
(* default import or in a module imported for its side effects, or the     *)
(* function is the root index's; and a findable one is resolved, of a      *)
(* function of the root's index, or of a method where there is one, apart, *)
(* if no variable hides a name of its file (extract_typescript_file and    *)
(* finalize_batch together).                                               *)
CallExact(names, f, call, found) ==
    LET all   == CallDenotes(names, f, call)
        means == InternalCalls(names, f, call)
    IN  /\ all # {} \/ Len(call) = 1 => found \subseteq all \cup Mistakable(names, f, call)
        /\ /\ OneMeaning(names, NamesOf(names))
           /\ Findable(names, f, call, means)
           /\ \A d \in means : Front(d) # <<>> /\ (Front(d) \in Classes(names) => <<>> \notin Modules(names))
           => found = means

AllExact(names, ix) ==
    NothingHidden(names) => \A f \in Functions(names) : \A i \in DOMAIN f.item.calls :
        CallExact(names, f, f.item.calls[i], ResolveCall(ix, EdgesOf(ix, f)[i]))

ScriptCallsExactFor(files, order) ==
    AllExact(AsNames(files), Indexed(ExtractAllScripts(files), order))
=============================================================================
