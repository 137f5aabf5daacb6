---------------------------- MODULE MCDecisions -----------------------------
(***************************************************************************)
(* What is decided about a file's name, the best candidate, the critic's   *)
(* verdict, the model that answers, the processes of a scan, the labels of *)
(* its communities, the scopes of a file and the methods that classes      *)
(* inherit, each on every small input.                                     *)
(* case is the input being looked at; a larger one is built step by step.  *)
(***************************************************************************)
EXTENDS Integers, FiniteSets, SequencesExt,
        ModuleNames, CandidateSelection, CriticVerdict, LlmRouting, Processes, ScopeTree,
        MethodDispatch

CONSTANTS MaxCandidates, MaxFunctions, MaxLine, MaxScopes, MaxClasses

ASSUME MaxCandidatesAssumption == MaxCandidates \in Nat \ {0}
ASSUME MaxFunctionsAssumption == MaxFunctions \in Nat
ASSUME MaxLineAssumption == MaxLine \in Nat
ASSUME MaxClassesAssumption == MaxClasses \in Nat

VARIABLE case

(* Paths of up to three parts, and pyprojects in two nested directories,   *)
(* one of them with its sources in a directory of their own; the clone may *)
(* itself lie in a directory called like an excluded one.                  *)
Paths == {<<"x">>, <<"a", "x">>, <<"a", "__init__">>, <<"a", "x", "__init__">>, <<"src", "x">>,
          <<"a", "b", "x">>, <<"b", "x">>, <<"a", "src", "x">>, <<"a", "env", "x">>}

Pyprojects == [dir : {<<>>, <<"a">>, <<"a", "b">>, <<"a", "env">>},
               package : BOOLEAN, src : {<<>>, <<"src">>}]

PickPackages ==
    /\ case.of = "start"
    /\ \E pyprojects \in UNION {kSubset(n, Pyprojects) : n \in 0..3}, above \in {"home", "env"} :
           /\ \A p, q \in pyprojects : p.dir = q.dir => p = q
           /\ case' = [of |-> "packages", pyprojects |-> pyprojects, above |-> above]

NamesTellFilesApart ==
    case.of = "packages" =>
        NamesTellFilesApartFor(DetectPackageRoots(<<case.above>>, case.pyprojects), Paths)

(* Candidates with at most two failures of the gate or an exception.       *)
Candidate == 1..MaxCandidates

PickAssessments ==
    /\ case.of = "start"
    /\ \E found \in [Candidate -> [ran : {TRUE}, failures : 0..2] \cup {GateException}] :
           case' = [of |-> "assessed", failures |-> [i \in Candidate |-> Assess(found[i])]]

PickJudgements ==
    /\ case.of = "assessed"
    /\ \E judge \in [{p \in Candidate \X Candidate : p[1] # p[2]} -> {"A", "B", "none"}] :
           case' = [of |-> "judged", failures |-> case.failures, judge |-> judge]

SelectionEarned == case.of = "judged" => SelectionEarnedFor(case.failures, case.judge)

(* Passes of a repo task in which one tool differs from the others, with   *)
(* up to two criteria, from the plan or from the brief.                    *)
PickGate ==
    /\ case.of = "start"
    /\ \E changed \in SUBSET Languages, tool \in Tools, end \in ToolRuns, rest \in {"clean", "absent"} :
           case' = [of |-> "gate", changed |-> changed,
                    run |-> [t \in Tools |-> IF t = tool THEN end ELSE rest]]

Answers ==
    [kind : {"failed", "text", "list"}]
      \cup [kind : {"object"}, status : UNION {[asked -> Statuses] : asked \in SUBSET (1..2)}]

PickVerdict ==
    /\ case.of = "gate"
    /\ \E plan \in [subtasks : BOOLEAN, criteria : 0..2], brief \in 0..2, answer \in Answers :
           /\ IF plan.subtasks THEN brief = 0 ELSE plan.criteria = 0
           /\ ~JudgeRaises(Checklist(plan, brief), answer)
           /\ case' = [of |-> "verdict", changed |-> case.changed, run |-> case.run,
                       plan |-> plan, brief |-> brief, answer |-> answer]

CompleteEarned ==
    case.of = "verdict" =>
        CompleteEarnedFor(case.changed, case.run, case.plan, case.brief, case.answer)

(* Calls of a model for a role; the SDKs' errors, among them overloads,    *)
(* that have only their status, and statuses that have no class.           *)
Replies ==
    {Answer(text) : text \in {"prose", "blank", "missing"}}
      \cup {Error("APITimeoutError", 0), Error("RateLimitError", 429), Error("OverloadedError", 529),
            Error("APIStatusError", 402), Error("AuthenticationError", 401)}

PickReplies ==
    /\ case.of = "start"
    /\ \E role \in DOMAIN RoleDefaults, complexity \in 1..3 :
       LET asked == {Route(role, complexity), "gpt54"}
       IN  \E reply \in [asked -> Replies] :
             case' = [of |-> "replies", role |-> role, complexity |-> complexity, reply |-> reply]

AnswererCharged ==
    case.of = "replies" => AnswererChargedFor(case.role, case.complexity, case.reply)

(* Functions 1, 2, ... of which odd ones share a short name, in two or     *)
(* three communities, some in none.                                        *)
SmallFunctions == 1..MaxFunctions

ShortNames == [f \in SmallFunctions |-> IF f % 2 = 1 THEN 1 ELSE f]

Clusterings ==
    {communities \in {<<{1, 2}, {3, 4}>>, <<{1}, {2, 3}, {4}>>, <<{1, 3}, {2}>>, <<{1, 2, 3, 4}>>} :
        UNION ToSet(communities) \subseteq SmallFunctions}

PickCalls ==
    /\ case.of = "start"
    /\ \E communities \in Clusterings, calls \in SUBSET (SmallFunctions \X SmallFunctions) :
           /\ Len(communities) > 1
           /\ \A c \in calls : c[1] # c[2] \/ c[1] = 1
           /\ case' = [of |-> "calls", communities |-> communities, calls |-> calls]

ProcessesBest ==
    case.of = "calls" =>
        ProcessesBestFor(SmallFunctions, case.calls, ShortNames, case.communities,
                         [i \in DOMAIN case.communities |-> i])

(* Members with up to two words each. *)
PickWords ==
    /\ case.of = "start"
    /\ \E communities \in Clusterings, tokens \in [SmallFunctions -> BoundedSeq({"v", "w"}, 2)] :
           case' = [of |-> "words", communities |-> communities, tokens |-> tokens]

LabelsTellApart == case.of = "words" => LabelsTellApartFor(case.tokens, case.communities)

(* Scopes, from at most MaxScopes of those within lines 0..MaxLine. *)
SmallScopes == {ScopeOfLines(first, last, kind) :
                  first \in 0..MaxLine, last \in 0..MaxLine, kind \in {"class", "function"}}

ValidScopes == {s \in SmallScopes : s.lo < s.hi}

PickScopes ==
    \/ case.of = "start" /\ case' = [of |-> "scopes", scopes |-> {}]
    \/ /\ case.of = "scopes" /\ Cardinality(case.scopes) < MaxScopes
       /\ \E s \in ValidScopes \ case.scopes :
              case' = [of |-> "scopes", scopes |-> case.scopes \cup {s}]

ScopesExact == case.of = "scopes" => ScopesExactFor(case.scopes, 0..MaxLine)

(* Classes with at most two bases each, in every order; those of the first *)
(* are any classes, so that bases may form a cycle, as extracted ones can. *)
SmallClasses == 1..MaxClasses

BaseLists == {bases \in BoundedSeq(SmallClasses, 2) : Len(bases) = 2 => bases[1] # bases[2]}

Hierarchies == {parents \in [SmallClasses -> BaseLists] :
                  \A c \in SmallClasses \ {1} : \A p \in ToSet(parents[c]) : p < c}

PickHierarchy ==
    \/ /\ case.of = "start"
       /\ \E parents \in Hierarchies :
              case' = [of |-> "bases", parents |-> parents]
    \/ /\ case.of = "bases"
       /\ \E definers \in SUBSET SmallClasses :
              case' = [of |-> "classes", parents |-> case.parents, definers |-> definers]

OverridesRespected ==
    case.of = "classes" =>
        OverridesRespectedFor(case.parents,
            [c \in SmallClasses |-> IF c \in case.definers THEN {"m"} ELSE {}], {"m"})

Begin == case = [of |-> "start"]

Decide ==
    \/ PickPackages
    \/ PickAssessments
    \/ PickJudgements
    \/ PickGate
    \/ PickVerdict
    \/ PickReplies
    \/ PickCalls
    \/ PickWords
    \/ PickScopes
    \/ PickHierarchy

Decisions == Begin /\ [][Decide]_case
=============================================================================
