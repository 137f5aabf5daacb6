---------------------------- MODULE MCAlgorithms ----------------------------
(***************************************************************************)
(* The pure algorithms, each checked against its reference definition on   *)
(* every small input: case is the input being looked at, built in two      *)
(* steps, first what is the larger part of it, then the rest.              *)
(***************************************************************************)
EXTENDS Integers, FiniteSets, SequencesExt,
        MCDecisions, MCOrm, MCScripts

(* Packages of a few modules.                                              *)
PickFile ==
    /\ case.of = "start"
    /\ \E a \in FilesA : case' = [of |-> "file", a |-> a]

PickPackage ==
    /\ case.of = "file"
    /\ \E b \in ShapesOfB, imports \in ImportsOfC :
           case' = [of |-> "package", files |-> Package(case.a, b, imports), order |-> ModulesInOrder]

PickSmallPackage ==
    /\ case.of = "start"
    /\ \E files \in CyclicPackages \cup WrittenPackages,
          order \in {ModulesInOrder, Reverse(ModulesInOrder)} :
           case' = [of |-> "package", files |-> files, order |-> order]

CallsReachDefinitions ==
    case.of = "package" => CallsReachDefinitionsFor(case.files, case.order)

StraysExplained ==
    case.of = "package" => StraysExplainedFor(case.files, case.order)

(* Packages with models.                                                   *)
PickModels ==
    /\ case.of = "start"
    /\ \E files \in OrmFiles : case' = [of |-> "models", files |-> files]

AccessesExact == case.of = "models" => AccessesExactFor(case.files, ModulesInOrder)

(* Packages of TypeScript.                                                 *)
PickCaller ==
    /\ case.of = "start"
    /\ \E caller \in ScriptCallers : case' = [of |-> "caller", caller |-> caller]

PickScripts ==
    \/ /\ case.of = "caller"
       /\ \E shape \in IndexShapes, imports \in ImportsOfDeepC :
              case' = [of |-> "scripts", files |-> ScriptPackage(case.caller, shape, imports)]
    \/ /\ case.of = "start"
       /\ \E files \in RootScriptFiles : case' = [of |-> "scripts", files |-> files]

ScriptCallsExact == case.of = "scripts" => ScriptCallsExactFor(case.files, ScriptsInOrder)

Init == Begin

Next ==
    \/ Decide
    \/ PickFile
    \/ PickPackage
    \/ PickSmallPackage
    \/ PickModels
    \/ PickCaller
    \/ PickScripts

Spec == Init /\ [][Next]_case
=============================================================================
