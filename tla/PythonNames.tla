----------------------------- MODULE PythonNames -----------------------------
(***************************************************************************)
(* What the calls of a few Python files mean to Python, against which the  *)
(* extractor and the resolver together are checked.  A function calls what *)
(* its calls name after its assignments are made.                          *)
(*                                                                         *)
(* A value is an object of a class, its super(), or a module, class or     *)
(* function by its qualified name.  A function is looked at as [module, class, item].      *)
(***************************************************************************)
EXTENDS Finalize

Modules(files) == {files[i].module : i \in DOMAIN files}

FileOf(files, m) == CHOOSE file \in ToSet(files) : file.module = m

Items(file, kind) == {i \in ToSet(file.body) : i.is = kind}

Named(items) == {i.name : i \in items}

Classes(files) ==
    UNION {{file.module \o <<c.name>> : c \in Items(file, "class")} : file \in ToSet(files)}

ClassItem(files, qn) ==
    CHOOSE c \in Items(FileOf(files, Front(qn)), "class") : c.name = Last(qn)

MaxSteps == 6

RECURSIVE Global(_, _, _, _)

(* What a module binds at its top level, once every file is loaded; a      *)
(* package's modules are bound in it.                                      *)
Global(files, m, name, steps) ==
    IF m \notin Modules(files) THEN {Append(m, name)}
    ELSE LET file == FileOf(files, m)
             from(stmt, of) == IF steps = 0 THEN {} ELSE Global(files, stmt.module, of, steps - 1)
             imported(stmt) ==
                 CASE stmt.form = "import"    -> IF name = stmt.module[1] THEN {<<name>>} ELSE {}
                   [] stmt.form = "import as" -> IF name = stmt.alias THEN {stmt.module} ELSE {}
                   [] stmt.form \in {"from", "default"} ->
                        IF name = stmt.alias THEN from(stmt, stmt.name) ELSE {}
                   [] stmt.form = "from star" -> IF name \in PrivateNames THEN {} ELSE from(stmt, name)
                   [] stmt.form = "side effect" -> {}
         IN  UNION {imported(stmt) : stmt \in ToSet(file.imports)}
               \cup (IF name \in Named(Items(file, "function") \cup Items(file, "class"))
                     THEN {Append(m, name)} ELSE {})
               \cup ({Append(m, name)} \cap Modules(files))

Means(files, m, name) == Global(files, m, name, MaxSteps)

(* The repo's classes a base's dotted name means. *)
BaseClasses(files, m, dotted) ==
    (IF Len(dotted) = 1 THEN Means(files, m, dotted[1])
     ELSE UNION {Means(files, n, dotted[2]) : n \in Means(files, m, dotted[1])}) \cap Classes(files)

RECURSIVE ClassAttribute(_, _, _, _)

(* The function of that name in the first base that has it: super()'s.     *)
SuperAttribute(files, class, name, steps) ==
    IF steps = 0 THEN {}
    ELSE FirstHit(ClassItem(files, class).bases,
                  LAMBDA b : UNION {ClassAttribute(files, c, name, steps - 1) :
                                       c \in BaseClasses(files, Front(class), b)})

(* The same, when the class has none of its own. *)
ClassAttribute(files, class, name, steps) ==
    IF name \in {f.name : f \in ToSet(ClassItem(files, class).methods)} THEN {Append(class, name)}
    ELSE SuperAttribute(files, class, name, steps)

Object(class) == [is |-> "object", qn |-> class]
Super(class)  == [is |-> "super", qn |-> class]
Thing(qn)     == [is |-> "name", qn |-> qn]

FunctionAt(files, qn) ==
    IF Front(qn) \in Classes(files)
    THEN {[module |-> Front(Front(qn)), class |-> Front(qn), item |-> f] :
             f \in {m \in ToSet(ClassItem(files, Front(qn)).methods) : m.name = Last(qn)}}
    ELSE IF Front(qn) \notin Modules(files) THEN {}
    ELSE {[module |-> Front(qn), class |-> <<>>, item |-> f] :
             f \in {i \in Items(FileOf(files, Front(qn)), "function") : i.name = Last(qn)}}

RECURSIVE Value(_, _, _, _)

(* The object a call of a value gives. *)
Result(files, v) ==
    IF v.qn \in Classes(files) THEN {Object(v.qn)}
    ELSE UNION {{Object(c) : c \in UNION {Means(files, f.module, n) : n \in ToSet(f.item.returns.args)}
                                    \cap Classes(files)} :
                f \in FunctionAt(files, v.qn)}

Called(files, f, dotted, steps) ==
    UNION {Result(files, v) : v \in {w \in Value(files, f, dotted, steps) : w.is = "name"}}

(* The fields a class's own methods give its objects. *)
Field(files, class, name, steps) ==
    UNION {UNION {Called(files, [module |-> Front(class), class |-> class, item |-> m],
                         m.fields[i].callee, steps) :
                     i \in {j \in DOMAIN m.fields : m.fields[j].var = name}} :
           m \in ToSet(ClassItem(files, class).methods)}

Attribute(files, v, name, steps) ==
    CASE v.is = "object" ->
           {Thing(qn) : qn \in ClassAttribute(files, v.qn, name, MaxSteps)}
             \cup Field(files, v.qn, name, steps)
      [] v.is = "name" /\ v.qn \in Modules(files) -> {Thing(qn) : qn \in Means(files, v.qn, name)}
      [] v.is = "name" /\ v.qn \in Classes(files) ->
           {Thing(qn) : qn \in ClassAttribute(files, v.qn, name, MaxSteps)}
      [] v.is = "super" ->
           {Thing(qn) : qn \in SuperAttribute(files, v.qn, name, MaxSteps)}
      [] OTHER -> {}

(* What a name is where f runs: self, a parameter, a variable, a variable  *)
(* of the module, or one of the module's names.                            *)
Local(files, f, name, steps) ==
    LET params  == {p \in DOMAIN f.item.params : p = name}
        assigns == SelectSeq(f.item.assigns, LAMBDA a : a.var = name)
        globals == SelectSeq(FileOf(files, f.module).body, LAMBDA i : i.is = "assign" /\ i.var = name)
    IN  CASE name = "self" /\ f.class # <<>> -> {Object(f.class)}
          [] name = "super" /\ f.class # <<>> -> {Super(f.class)}
          [] params # {} -> {Object(c) : c \in UNION {Means(files, f.module, n) :
                                               n \in ToSet(f.item.params[name].args)} \cap Classes(files)}
          [] params = {} /\ assigns # <<>> -> Called(files, f, Last(assigns).callee, steps - 1)
          [] params = {} /\ assigns = <<>> /\ globals # <<>> ->
               Called(files, f, Last(globals).callee, steps - 1)
          [] OTHER -> {Thing(qn) : qn \in Means(files, f.module, name)}

Value(files, f, dotted, steps) ==
    IF steps = 0 THEN {}
    ELSE FoldLeft(LAMBDA vs, name : UNION {Attribute(files, v, name, steps - 1) : v \in vs},
                  Local(files, f, dotted[1], steps), Tail(dotted))

(* The functions and methods a call may reach, and outside names. *)
CallDenotes(files, f, dotted) ==
    {v.qn : v \in {w \in Value(files, f, dotted, MaxSteps) : w.is = "name"}}

----------------------------------------------------------------------------
Functions(files) ==
    UNION {FunctionAt(files, qn) : qn \in
             UNION {{file.module \o <<f.name>> : f \in Items(file, "function")}
                      \cup UNION {{file.module \o <<c.name, m.name>> : m \in ToSet(c.methods)} :
                                  c \in Items(file, "class")} : file \in ToSet(files)}}

QNOf(f) == (IF f.class = <<>> THEN f.module ELSE f.class) \o <<f.item.name>>

InternalCalls(files, f, dotted) == CallDenotes(files, f, dotted) \cap {QNOf(g) : g \in Functions(files)}

(* Edge i of a function stands for its call i. *)
EdgesOf(ix, f) == SelectSeq(ix.calls, LAMBDA e : e.caller = QNOf(f))

(* No name has two meanings. *)
OneMeaning(files, names) ==
    \A m \in Modules(files), name \in names : Cardinality(Means(files, m, name)) <= 1

RECURSIVE ImportsFrom(_, _, _)

(* The repository's root index has no name of its own to be in a cycle by. *)
ImportsFrom(files, m, steps) ==
    IF m \notin Modules(files) \ {<<>>} \/ steps = 0 THEN {m}
    ELSE {m} \cup UNION {ImportsFrom(files, stmt.module, steps - 1) :
                            stmt \in ToSet(FileOf(files, m).imports)}

SameCycle(files, m, n) ==
    \/ m = n
    \/ /\ n \in ImportsFrom(files, m, MaxSteps)
       /\ m \in ImportsFrom(files, n, MaxSteps)

Statements(files) == UNION {ToSet(file.imports) : file \in ToSet(files)}

NamesOf(files) ==
    UNION {Named(Items(file, "function") \cup Items(file, "class")) : file \in ToSet(files)}
      \cup {stmt.alias : stmt \in {s \in Statements(files) : "alias" \in DOMAIN s}}

(* What modules define, and whether of an import cycle only x's module     *)
(* defines x's name.                                                       *)
Definitions(files) == Classes(files) \cup {QNOf(f) : f \in {g \in Functions(files) : g.class = <<>>}}

OneOfItsCycle(files, m, x) ==
    \A y \in Definitions(files) : Last(y) = Last(x) /\ SameCycle(files, Front(y), m) => y = x

(* A statement takes function d from the module that defines it, or under  *)
(* d's own public name from one in an import cycle with it; and what else  *)
(* it names, or, for a method, the classes it brings in, from where they   *)
(* are defined.  Where the cycle is searched, for what is defined          *)
(* elsewhere or under a wildcard, nobody else in it defines the name.      *)
TakenFromDefiner(files, stmt, d) ==
    LET near(n) == n = Last(d) /\ n \notin PrivateNames /\ SameCycle(files, Front(d), stmt.module)
        classes == IF Front(d) \in Classes(files) THEN Classes(files) ELSE {}
        direct(n, matter) ==
            \A x \in Means(files, stmt.module, n) \cap matter :
                /\ Front(x) = stmt.module \/ (x = d /\ near(n))
                /\ Front(x) # stmt.module \/ stmt.form = "from star" =>
                       OneOfItsCycle(files, stmt.module, x)
    IN  CASE stmt.form = "from" ->
               /\ direct(stmt.name, Means(files, stmt.module, stmt.name))
               /\ Means(files, stmt.module, stmt.name) = {d} =>
                      Front(d) = stmt.module \/ stmt.alias = stmt.name
          [] stmt.form = "import" /\ Len(stmt.module) > 1 ->
               \A n \in NamesOf(files) :
                   Means(files, stmt.module, n) \cap ({d} \cup classes) \subseteq {Append(stmt.module, n)}
          [] stmt.form \in {"import as", "from star"} \/ (stmt.form = "import" /\ Len(stmt.module) = 1) ->
               \A n \in NamesOf(files) : direct(n, {d} \cup classes)
          [] stmt.form = "default"     -> FALSE
          [] stmt.form = "side effect" -> TRUE

(* What a file defines under a bare name it defines above the call. *)
WrittenAbove(files, f, name) ==
    LET body  == FileOf(files, f.module).body
        holds == IF f.class = <<>> THEN f.item.name ELSE Last(f.class)
        index(n) == SelectInSeq(body, LAMBDA i : i.is # "assign" /\ i.name = n)
    IN  index(name) <= index(holds)

NoMethodNamed(files, f, name) ==
    \A c \in Items(FileOf(files, f.module), "class") : name \notin Named(ToSet(c.methods))

(* If a dotted name starts with a module, a module is imported by it. *)
ModulesImported(files, m, dotted) ==
    Len(dotted) > 1 =>
        \A n \in Means(files, m, dotted[1]) \cap Modules(files) :
            \E stmt \in ToSet(FileOf(files, m).imports) :
                \/ stmt.form = "import" /\ IsPrefix(stmt.module, dotted)
                \/ stmt.form = "import as" /\ stmt.module = n

(* Every class's bases are defined in other files. *)
BasesElsewhere(files) ==
    \A file \in ToSet(files) : \A c \in Items(file, "class") : \A base \in ToSet(c.bases) :
        /\ ModulesImported(files, file.module, base)
        /\ \A b \in BaseClasses(files, file.module, base) : Front(b) # file.module

(* No parameter or variable hides what its file defines or imports. *)
NothingHidden(files) ==
    /\ \A f \in Functions(files) :
           \A name \in DOMAIN f.item.params \cup {a.var : a \in ToSet(f.item.assigns)} :
               Means(files, f.module, name) = {}
    /\ \A file \in ToSet(files) : \A i \in Items(file, "assign") : Means(files, file.module, i.var) = {}

(* Variables of modules and fields of classes are set by calls of bare     *)
(* names, a field by one only, and annotations name one class.             *)
BindingsPlain(files) ==
    LET fields(class) ==
            UNION {ToSet(f.item.fields) : f \in {g \in Functions(files) : g.class = class}}
    IN  /\ \A file \in ToSet(files) : \A i \in Items(file, "assign") : Len(i.callee) = 1
        /\ \A class \in Classes(files) : \A a, b \in fields(class) :
               Len(a.callee) = 1 /\ (a.var = b.var => a = b)
        /\ \A f \in Functions(files) : Len(f.item.returns.args) <= 1
               /\ \A p \in DOMAIN f.item.params : Len(f.item.params[p].args) <= 1

(* A call whose function the resolver can find: its file defines the       *)
(* function above the call, imports it, or reaches it through a module it  *)
(* imports as such, or a class defines the method or inherits it from      *)
(* other files and it is called on an object, set and typed plainly; the   *)
(* statements that bring its name in take it from its definer; and no      *)
(* other function is named in full as the callee is.                       *)
Findable(files, f, call, means) ==
    /\ means # {} /\ ModulesImported(files, f.module, call)
    /\ Means(files, f.module, call[1]) \cap Classes(files) = {}
    /\ FunctionAt(files, call) = {} \/ call \in means
    /\ \A d \in means, stmt \in Statements(files) : TakenFromDefiner(files, stmt, d)
    /\ IF Len(call) = 1 THEN WrittenAbove(files, f, call[1])
       ELSE (\E d \in means : Front(d) \in Classes(files)) =>
                BasesElsewhere(files) /\ BindingsPlain(files)

(* Such a call is recorded as one of that function, through typed          *)
(* parameters, variables and fields too, unless it is of a bare name that  *)
(* is also a method's in the file, if no variable hides a name of its file *)
(* (extract_python_file and finalize_batch together).                      *)
CallsReachDefinitionsFor(files, order) ==
    LET ix == Indexed(ExtractAll(files), order)
    IN  OneMeaning(files, NamesOf(files)) /\ NothingHidden(files) =>
          \A f \in Functions(files) : \A i \in DOMAIN f.item.calls :
              LET call  == f.item.calls[i]
                  means == InternalCalls(files, f, call)
              IN  /\ Findable(files, f, call, means)
                  /\ Len(call) = 1 => NoMethodNamed(files, f, call[1])
                  => ResolveCall(ix, EdgesOf(ix, f)[i]) = means

(* The search for what a statement brings in may end at function g, though *)
(* the name means another: the module searched is g's own or one of its    *)
(* cycle, and the name searched for is the one the file uses.              *)
MayEndAt(files, stmt, g) ==
    /\ CASE stmt.form = "from" ->
              /\ stmt.alias = IF g.class = <<>> THEN g.item.name ELSE Last(g.class)
              /\ stmt.name # stmt.alias \/ stmt.module # g.module
         [] stmt.form \in {"import as", "from star"} -> stmt.module # g.module
         [] stmt.form = "import" -> stmt.module # g.module \/ Len(stmt.module) > 1
         [] stmt.form \in {"default", "side effect"} -> TRUE
    /\ SameCycle(files, g.module, stmt.module)

(* The functions a call may be mistaken for: one whose qualified name is   *)
(* the callee as it is written, or the like of it at the repository's      *)
(* root, or one at which the search for an import may end; for a bare call *)
(* an import of the caller's own file, and the function's own name.        *)
Mistakable(files, f, call) ==
    LET statements == IF Len(call) = 1 THEN ToSet(FileOf(files, f.module).imports)
                      ELSE Statements(files)
    IN  {QNOf(g) : g \in {h \in Functions(files) :
            \/ QNOf(h) = call \/ h.module = <<>>
            \/ /\ Len(call) = 1 => QNOf(h) = Append(h.module, call[1])
               /\ \E stmt \in statements : MayEndAt(files, stmt, h)}}

(* However names are imported, a call that has a meaning, or of a bare     *)
(* name the file gives none, is recorded as one of a function that Python  *)
(* would not call only where the name is searched for in an import cycle,  *)
(* under an alias or below a package's first name, or the callee is        *)
(* written as the function's qualified name is (finalize_batch's import    *)
(* chain and closure), if no variable hides a name of its file.            *)
StraysExplainedFor(files, order) ==
    LET ix == Indexed(ExtractAll(files), order)
    IN  NothingHidden(files) =>
          \A f \in Functions(files) : \A i \in DOMAIN f.item.calls :
              LET call  == f.item.calls[i]
                  means == CallDenotes(files, f, call)
              IN  means # {} \/ Len(call) = 1 =>
                      ResolveCall(ix, EdgesOf(ix, f)[i])
                        \subseteq means \cup Mistakable(files, f, call)

=============================================================================
