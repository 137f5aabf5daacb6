------------------------------ MODULE OrmAccess ------------------------------
(***************************************************************************)
(* Which tables the functions of Python files read and write through       *)
(* SQLAlchemy and Django: the tables their classes declare                 *)
(* (domain_extractors/orm_python.py), what is kept of each call's first    *)
(* argument, and the classification of the calls once they are resolved    *)
(* (scope_resolution/orm_classifier.py).                                   *)
(*                                                                         *)
(* Files are those of PythonExtractor with more recorded: a class has the  *)
(* name its body gives its table or "none", a function the first argument  *)
(* and the line of each call:                                              *)
(*   [is |-> "none"], [is |-> "name", text], [is |-> "list", first],       *)
(*   [is |-> "call", fn, of], the last with its own first argument.        *)
(***************************************************************************)
EXTENDS PythonNames

DjangoBases      == {"Model", "AbstractUser", "AbstractBaseUser"}
DeclarativeBases == {"Base", "DeclarativeBase", "ModelBase"}
SessionTypes     == {"Session", "AsyncSession", "scoped_session", "sessionmaker"}

ClassReads   == {"query", "get", "scalars"}
ObjectWrites == {"add", "add_all", "merge", "delete"}
BulkByClass  == {"bulk_insert_mappings", "bulk_update_mappings"}
SessionLeafs == ClassReads \cup ObjectWrites \cup BulkByClass \cup {"execute", "bulk_save_objects"}

DjangoReads ==
    {"all", "filter", "exclude", "get", "first", "last", "count", "exists", "values",
     "values_list", "only", "defer", "order_by", "distinct", "annotate", "aggregate", "in_bulk",
     "iterator", "raw", "none", "reverse", "union", "difference", "intersection",
     "select_related", "prefetch_related"}
DjangoWrites == {"create", "bulk_create", "update", "bulk_update", "raw_update"}
DjangoBoth   == {"get_or_create", "update_or_create"}
ManagerLeafs == DjangoReads \cup DjangoWrites \cup DjangoBoth

InstanceWrites == {"save", "delete"}
InstanceReads  == {"refresh_from_db"}

OrmLeafs == SessionLeafs \cup ManagerLeafs \cup InstanceWrites \cup InstanceReads

(* extract_orm_class_decls: Django's name is the class's unless Meta says  *)
(* otherwise; a declarative class without a name is an abstract base.      *)
DeclaredTable(qn, c) ==
    LET derives(bases) == \E base \in ToSet(c.bases) : Last(base) \in bases
        table(name, django) == <<[name |-> name, model |-> qn, django |-> django]>>
    IN  IF derives(DjangoBases) THEN table(IF c.table = "none" THEN c.name ELSE c.table, TRUE)
        ELSE IF derives(DeclarativeBases) /\ c.table # "none" THEN table(c.table, FALSE)
        ELSE <<>>

DeclaredTables(files) ==
    LET tablesOf(file) ==
            FoldLeft(LAMBDA so_far, i : IF i.is = "class"
                                        THEN so_far \o DeclaredTable(Append(file.module, i.name), i)
                                        ELSE so_far,
                     <<>>, file.body)
    IN  FoldLeft(LAMBDA so_far, file : so_far \o tablesOf(file), <<>>, files)

(* capture_orm_call_hint *)
CaptureOrmCallHint(arg) ==
    CASE arg.is = "name" -> [head |-> arg.text, fn |-> "", of |-> <<>>]
      [] arg.is = "list" -> [head |-> arg.first, fn |-> "", of |-> <<>>]
      [] arg.is = "call" -> [head |-> <<>>, fn |-> Last(arg.fn), of |-> arg.of]
      [] arg.is = "none" -> [head |-> <<>>, fn |-> "", of |-> <<>>]

----------------------------------------------------------------------------
(* classify_orm_calls.  ix is finalize_batch's indexes with the tables; an *)
(* access is [table, op].                                                  *)

BareTable(ix, name) ==
    FirstHit(ix.tables, LAMBDA t : IF Last(t.model) = name THEN {t.name} ELSE {})

(* _table_for_class *)
TableForClass(ix, class, fallback) ==
    Each(class, LAMBDA c : {t.name : t \in LastWhere(ix.tables, LAMBDA t : t.model = c)}
                             ?? BareTable(ix, Last(c)))
      ?? (IF Len(fallback) = 1 THEN BareTable(ix, fallback[1]) ELSE {})

(* _is_django_model_class: the class, or one it derives from, is one of    *)
(* Django's or is called as a model is.                                    *)
IsDjangoModelClass(ix, class) ==
    LET models  == {Last(t.model) : t \in {u \in ToSet(ix.tables) : u.django}}
        parents(cs) == {e.parent : e \in {i \in ToSet(ix.inherits) : i.child \in cs}}
        ancestors[n \in 0..Len(ix.inherits)] ==
            IF n = 0 THEN {class} ELSE ancestors[n - 1] \cup parents(ancestors[n - 1])
    IN  \E c \in ancestors[Len(ix.inherits)] : Last(c) \in DjangoBases \cup models

(* _resolve_var_to_class, _resolve_chain_head_to_class *)
VarClass(ix, caller, name) ==
    BoundType(ix, [kind |-> "function", qn |-> caller.qn, path |-> caller.path], name, 0)

ClassNamed(ix, caller, name) == TypeName(ix, caller.path, <<<<name>>>>)

Accesses(tables, ops) == [table : tables, op : ops]

(* _classify_sa_session_call *)
SessionOp(hint) ==
    CASE hint.leaf \in ClassReads -> {"read"}
      [] hint.leaf = "execute"    -> IF hint.fn = "select" THEN {"read"}
                                     ELSE IF hint.fn \in {"insert", "update", "delete"} THEN {"write"}
                                     ELSE {}
      [] OTHER                    -> {"write"}

SessionTarget(ix, caller, leaf, name) ==
    (IF leaf \in ObjectWrites \cup {"bulk_save_objects"} THEN VarClass(ix, caller, name) ELSE {})
      ?? (IF leaf = "bulk_save_objects" THEN {} ELSE ClassNamed(ix, caller, name))

SessionCall(ix, caller, hint, callee) ==
    LET head == IF hint.leaf = "execute" THEN hint.of ELSE hint.head
    IN  IF head = <<>> \/ (Len(callee) > 2 /\ callee[Len(callee) - 1] \notin SessionTypes) THEN {}
        ELSE Accesses(TableForClass(ix, SessionTarget(ix, caller, hint.leaf, head[1]), hint.head),
                      SessionOp(hint))

(* _classify_django_manager_call *)
ManagerOps(leaf) ==
    (IF leaf \in DjangoReads \cup DjangoBoth THEN {"read"} ELSE {})
      \cup (IF leaf \in DjangoWrites \cup DjangoBoth THEN {"write"} ELSE {})

ManagerCall(ix, caller, hint, callee) ==
    IF Len(callee) < 3 \/ callee[2] # "objects" THEN {}
    ELSE Each(ClassNamed(ix, caller, callee[1]),
              LAMBDA c : IF IsDjangoModelClass(ix, c)
                         THEN Accesses(TableForClass(ix, {c}, <<callee[1]>>), ManagerOps(hint.leaf))
                         ELSE {})

(* _classify_django_instance_call: what a model's own save does is not     *)
(* counted twice.                                                          *)
InstanceCall(ix, caller, hint, callee) ==
    LET receiver == Front(callee)
        target == CASE receiver \in {<<>>}                 -> {}
                    [] receiver \in {<<"self">>, <<"this">>} -> {caller.class} \ {<<>>}
                    [] Len(receiver) > 1 -> IF BareTable(ix, Last(receiver)) = {} THEN {} ELSE {receiver}
                    [] OTHER             -> VarClass(ix, caller, receiver[1])
    IN  Each(target, LAMBDA c :
               IF ~IsDjangoModelClass(ix, c) \/ (c = caller.class /\ Last(caller.qn) = hint.leaf) THEN {}
               ELSE Accesses(TableForClass(ix, {c}, <<Last(receiver)>>),
                             IF hint.leaf \in InstanceWrites THEN {"write"} ELSE {"read"}))

(* SQLAlchemy's and Django's names overlap: .objects. decides. *)
Classify(ix, caller, hint, callee) ==
    LET manager  == \E n \in 2..(Len(callee) - 1) : callee[n] = "objects"
        handler  == IF manager /\ hint.leaf \in ManagerLeafs THEN "manager"
                    ELSE IF hint.leaf \in SessionLeafs THEN "session"
                    ELSE IF hint.leaf \in ManagerLeafs THEN "manager" ELSE "instance"
    IN  CASE handler = "manager"  -> ManagerCall(ix, caller, hint, callee)
          [] handler = "session"  -> SessionCall(ix, caller, hint, callee)
          [] handler = "instance" -> InstanceCall(ix, caller, hint, callee)

(* Mutant: any call of the line is taken for the hint's. *)
SameLine(edge, hint) == edge.line = hint.line

IsFor(edge, hint) == edge.line = hint.line /\ Last(edge.callee) = hint.leaf

RewrittenCallee(callee, resolved) ==
    IF resolved = {} THEN callee ELSE CHOOSE qn \in resolved : TRUE

(* The calls of function f as finalize_batch leaves them, with their lines. *)
RewrittenCalls(ix, f) ==
    LET edges == EdgesOf(ix, f)
    IN  [i \in DOMAIN edges |->
            [line   |-> f.item.lines[i],
             callee |-> RewrittenCallee(edges[i].callee, ResolveCall(ix, edges[i]))]]

HintOf(f, i) ==
    [leaf |-> Last(f.item.calls[i]), line |-> f.item.lines[i]] @@ CaptureOrmCallHint(f.item.args[i])

(* The accesses recorded for call i of f, calls being its rewritten calls. *)
TableAccesses(ix, f, calls, i) ==
    LET hint == HintOf(f, i)
        matched == {calls[j] : j \in {k \in {SelectInSeq(calls, LAMBDA c : IsFor(c, hint))} : k > 0}}
    IN  IF hint.leaf \notin OrmLeafs \/ ix.tables = <<>> THEN {}
        ELSE Each(matched, LAMBDA call :
               Each(LastWhere(ix.functions, LAMBDA g : g.qn = QNOf(f)),
                    LAMBDA caller : Classify(ix, caller, hint, call.callee)))

----------------------------------------------------------------------------
(* What a call does to the tables of the repo.  s is a session. *)

Model(files, class) == DeclaredTable(class, ClassItem(files, class))

ClassesNamed(files, f, dotted) ==
    {v.qn : v \in {w \in Value(files, f, dotted, MaxSteps) : w.is = "name"}} \cap Classes(files)

ClassesHeld(files, f, dotted) ==
    {v.qn : v \in {w \in Value(files, f, dotted, MaxSteps) : w.is = "object"}}

Receiver(call) == Front(call)

OfSession(call) == Receiver(call) \in {<<"s">>, <<"self", "s">>}

OfManager(call) == Len(call) > 2 /\ Last(Receiver(call)) = "objects"

Touched(files, f, call, arg) ==
    CASE OfSession(call) /\ arg.is = "name" ->
            ClassesNamed(files, f, arg.text) \cup ClassesHeld(files, f, arg.text)
              \cup (IF Len(arg.text) = 1 THEN {} ELSE ClassesNamed(files, f, Front(arg.text)))
      [] OfSession(call) /\ arg.is = "list" -> ClassesHeld(files, f, arg.first)
      [] OfSession(call) /\ arg.is = "call" -> ClassesNamed(files, f, arg.of)
      [] OfManager(call) -> ClassesNamed(files, f, Front(Receiver(call)))
      [] Last(call) \in InstanceWrites \cup InstanceReads ->
            IF QNOf(f) \in CallDenotes(files, f, call) THEN {} ELSE ClassesHeld(files, f, Receiver(call))
      [] OTHER -> {}

DoesTo(call, arg) ==
    CASE OfSession(call) /\ arg.is = "call" -> IF arg.fn = <<"select">> THEN {"read"} ELSE {"write"}
      [] OfSession(call) /\ arg.is # "call" -> IF Last(call) \in {"query", "get"} THEN {"read"} ELSE {"write"}
      [] OfManager(call)                    -> ManagerOps(Last(call))
      [] OTHER -> IF Last(call) = "refresh_from_db" THEN {"read"} ELSE {"write"}

Does(files, f, i) ==
    LET call == f.item.calls[i]
        arg  == f.item.args[i]
        tables == {t.name : t \in {u \in UNION {ToSet(Model(files, c)) : c \in Touched(files, f, call, arg)} :
                                     OfSession(call) \/ u.django}}
    IN  [table : tables, op : DoesTo(call, arg)]

(* The shapes of call the classifier is made for: a session or a class of  *)
(* one name, an object from a call of its class in the same function.      *)
Understood(f, i) ==
    LET call == f.item.calls[i]
        arg  == f.item.args[i]
        variables == {f.item.assigns[n].var : n \in {m \in DOMAIN f.item.assigns :
                                                       Len(f.item.assigns[m].callee) = 1}}
        plain(dotted) == dotted[1] \notin DOMAIN f.item.params \cup {"b"}
    IN  \/ /\ OfSession(call) /\ Len(call) = 2 /\ Last(call) # "scalars"
           /\ arg.is = "name" => plain(arg.text) /\ (Last(call) \in ObjectWrites => arg.text[1] \in variables)
           /\ arg.is = "call" => plain(arg.of)
        \/ OfManager(call) /\ Len(call) = 3
        \/ /\ ~OfSession(call) /\ ~OfManager(call) /\ Last(call) # "delete"
           /\ Receiver(call)[1] \in variables \cup {"self"}

(* The classes a call's argument names are the repo's: one of elsewhere is *)
(* taken for a model of the same name.                                     *)
Known(files, f, i) ==
    LET arg == f.item.args[i]
        names == CASE arg.is = "name" -> {arg.text[1]} [] arg.is = "call" -> {arg.of[1]}
                   [] OTHER -> {}
    IN  \A name \in names : \E v \in Local(files, f, name, MaxSteps) :
            v.qn \in Classes(files) \cup Modules(files)

LeafsDiffer(f, i) ==
    \A j \in DOMAIN f.item.calls \ {i} :
        f.item.lines[j] = f.item.lines[i] => Last(f.item.calls[j]) # Last(f.item.calls[i])

Agree(recorded, does, understood) == recorded \subseteq does /\ (understood => recorded = does)

AgreeIn(files, ix, f, calls) ==
    \A i \in {j \in DOMAIN f.item.calls : LeafsDiffer(f, j) /\ Known(files, f, j)} :
        Agree(TableAccesses(ix, f, calls, i), Does(files, f, i), Understood(f, i))

AllAgree(files, ix) == \A f \in Functions(files) : AgreeIn(files, ix, f, RewrittenCalls(ix, f))

(* A table is recorded as read or written for a call only if the call does *)
(* so, and each call of a shape the classifier is made for is recorded,    *)
(* whichever calls of other last names stand on its line, whichever        *)
(* module's model its class is and however that is imported from there     *)
(* (finalize_batch and classify_orm_calls together).  Left out are calls   *)
(* of one last name on a line, which all take the first of them, and       *)
(* arguments of classes from elsewhere, taken for models of their name.    *)
AccessesExactFor(files, order) ==
    OneMeaning(files, NamesOf(files)) =>
        AllAgree(files, Indexed(ExtractAll(files), order) @@ [tables |-> DeclaredTables(files)])
=============================================================================
