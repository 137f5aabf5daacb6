---------------------------- MODULE CriticVerdict ----------------------------
(***************************************************************************)
(* The critic's verdict on one pass of a repo task                         *)
(* (agents/critic_repo.py): a deterministic gate of linters and compilers, *)
(* a model that grades a checklist, and the handoff for the next pass.     *)
(*                                                                         *)
(* Of a tool the model keeps how its run went:                             *)
(*    "absent"      it is not installed, or the repository is not set up   *)
(*                  for it (no pom.xml, no typecheck script)               *)
(*    "broken"      it timed out, could not be started, or is ruff and     *)
(*                  exited with an error of its own                        *)
(*    "clean"       it found nothing                                       *)
(*    "reports"     it failed with diagnostics that can be read            *)
(*    "unreadable"  it failed with output nothing can be read from: npm,   *)
(*                  for one, with a typecheck script whose compiler is not *)
(*                  installed                                              *)
(* and of the judge, for each criterion, "yes", "no", "partial", another   *)
(* word, or nothing.                                                       *)
(***************************************************************************)
EXTENDS Integers, FiniteSets, Functions

ToolRuns == {"absent", "broken", "clean", "reports", "unreadable"}

(* ruff's failures are what its JSON says; the compilers' are its exit     *)
(* code, with one failure for an output nothing can be read from.          *)
RuffFails(run)       == run = "reports"

CompileallFails(run) == run \in {"reports", "unreadable"}
MvnFails(run)        == run \in {"reports", "unreadable"}
NpmFails(run)        == run \in {"reports", "unreadable"}

(* Which changed files a tool is run for (_group_files_by_language): none  *)
(* for C++ and the rest.                                                   *)
Languages == {"python", "java", "ts", "cpp", "other"}

Checks == [ruff |-> "python", compileall |-> "python", mvn |-> "java", npm |-> "ts"]

Tools == DOMAIN Checks

Fails(tool, run) ==
    CASE tool = "ruff"       -> RuffFails(run)
      [] tool = "compileall" -> CompileallFails(run)
      [] tool = "mvn"        -> MvnFails(run)
      [] tool = "npm"        -> NpmFails(run)

(* run_deterministic_gate: the tools that report failures. *)
GateFailures(changed, run) ==
    {tool \in Tools : Checks[tool] \in changed /\ Fails(tool, run[tool])}

(***************************************************************************)
(* The checklist.  plan is [subtasks, criteria]: whether the architect's   *)
(* plan is an object with subtasks, and how many criteria they list.       *)
(* brief is how many criteria the model draws from the brief, 0 if the     *)
(* brief is empty or the call fails.                                       *)
(***************************************************************************)
Degraded(plan) == ~plan.subtasks

ChecklistLength(plan, brief) == IF Degraded(plan) THEN brief ELSE plan.criteria

Checklist(plan, brief) == 1..ChecklistLength(plan, brief)

(***************************************************************************)
(* run_llm_checklist_judge.  answer.kind is "failed" for a call that       *)
(* fails, "text" for a reply no JSON can be found in, "list" for JSON that *)
(* is no object (parsed.get raises), "object" for answer.status, a         *)
(* function on the criteria the judge mentions.  What was not answered     *)
(* with yes blocks.                                                        *)
(***************************************************************************)
Statuses == {"yes", "no", "partial", "perhaps"}

JudgeRaises(checklist, answer) == checklist # {} /\ answer.kind = "list"

(* Mutant: a criterion the judge does not mention passes. *)
PassedUnlessRefused(checklist, answer) ==
    IF answer.kind # "object" THEN {}
    ELSE {c \in checklist : c \in DOMAIN answer.status => answer.status[c] = "yes"}

Passed(checklist, answer) ==
    IF answer.kind # "object" THEN {}
    ELSE {c \in checklist \cap DOMAIN answer.status : answer.status[c] = "yes"}

Failed(checklist, answer) == checklist \ Passed(checklist, answer)

(* build_continuation_handoff_doc: what is to be kept, what is to be done. *)
Handoff(passed, failed, gate) ==
    [satisfied |-> passed, missing |-> failed, fix |-> gate]

NoHandoff == [satisfied |-> {}, missing |-> {}, fix |-> {}]

(* run_critic_repo, where it answers at all. *)
Verdict(gate, checklist, answer, degraded) ==
    LET passed == Passed(checklist, answer)
        failed == Failed(checklist, answer)
    IN  IF degraded /\ checklist = {}
        THEN [verdict |-> "complete", passed |-> {}, failed |-> {}, handoff |-> NoHandoff]
        ELSE LET incomplete == failed # {} \/ gate # {}
             IN  [verdict |-> IF incomplete THEN "incomplete" ELSE "complete",
                  passed  |-> passed,
                  failed  |-> failed,
                  handoff |-> IF incomplete THEN Handoff(passed, failed, gate) ELSE NoHandoff]

----------------------------------------------------------------------------
(* A pass is called complete only with a clean gate and a yes to every     *)
(* criterion, save when neither the plan nor the brief gives a criterion   *)
(* (run_critic_repo: "errs on the side of triggering a continuation").     *)
CompleteEarnedFor(changed, run, plan, brief, answer) ==
    LET checklist == Checklist(plan, brief)
        gate      == GateFailures(changed, run)
        result    == Verdict(gate, checklist, answer, Degraded(plan))
    IN  result.verdict = "complete" /\ ~(Degraded(plan) /\ checklist = {}) =>
            /\ \A tool \in Tools : run[tool] = "reports" => Checks[tool] \notin changed
            /\ checklist # {} => answer.kind = "object"
            /\ \A c \in checklist : c \in DOMAIN answer.status /\ answer.status[c] = "yes"
=============================================================================
