------------------------------- MODULE RepoTask -------------------------------
(***************************************************************************)
(* RepoTaskWorkflow (app/workflows/repo_task.py): clone, index, plan, one  *)
(* coder or Best-of-N, the critic's continuation loop, the pull request.   *)
(*                                                                         *)
(* All coder passes of a task work in the one clone on the worker's disk;  *)
(* a pass's result is `git diff HEAD` of that clone when the pass ends     *)
(* (coder_repo._capture_diff) with the changed files' contents.  Nothing   *)
(* is awaited meanwhile, so a capture is one step: what a thread writes    *)
(* between two reads it may as well have written before or after both.     *)
(*                                                                         *)
(* The activities are retried without an attempt cap until their           *)
(* schedule_to_close timeout; a repeated attempt finds the disk as the     *)
(* lost one left it, so a lost attempt is no step of its own here.  What   *)
(* is one is an attempt that goes on writing after the server gave it up:  *)
(* its bash command runs in a thread that no cancellation reaches.         *)
(***************************************************************************)
EXTENDS Integers, Sequences, FiniteSets

CONSTANTS
  Files,             \* the files a coder may touch
  BestOfN,           \* BEST_OF_N_DEFAULT, 3 in the code
  MaxContinuations,  \* MAX_CONTINUATIONS, 2 in the code
  MaxGhosts,         \* bound on the passes with an abandoned attempt
  Criteria           \* bound on the acceptance criteria of a plan

\* A coder can always create a file.
ASSUME FilesAssumption == Files # {}
ASSUME BestOfNAssumption == BestOfN \in Nat \ {0}
ASSUME MaxContinuationsAssumption == MaxContinuations \in Nat \ {0}
ASSUME MaxGhostsAssumption == MaxGhosts \in Nat
ASSUME CriteriaAssumption == Criteria \in Nat

\* Coder passes: candidates 1 .. BestOfN (the single coder is candidate 1),
\* then the continuations.
Candidates == 1 .. BestOfN
Continuation(k) == BestOfN + k
Passes == 1 .. (BestOfN + MaxContinuations)

\* Who wrote a file last: 0 nobody, p pass p, -p an abandoned attempt of pass p.
Writers == (-(BestOfN + MaxContinuations)) .. (BestOfN + MaxContinuations)
Trees == [Files -> Writers]
Clean == [f \in Files |-> 0]
NoTree == [f \in Files |-> BestOfN + MaxContinuations + 1]

VARIABLES
  autoPr,         \* RepoTaskInput.auto_pr
  bestOfNOff,     \* RepoTaskInput.disable_best_of_n
  phase,          \* the activity run() waits for, or how it ended
  plan,           \* what run() uses of the architect's plan
  bestOfN,        \* did Best-of-N run?
  disk,           \* the clone
  coding,         \* pass -> "idle", "working" or "returned"
  ghosts,         \* passes with an abandoned attempt that may still write
  result,         \* pass -> the tree its coder captured (Clean once it is forgotten)
  winner,         \* the candidate the reviewer chose, 0: none was asked to
  current,        \* the pass whose result is coder_result, 0: none
  verdicts,       \* critic_results
  judged,         \* the tree the last verdict graded
  gateSaw,        \* the clone the last verdict's deterministic gate ran on
  continuations,  \* continuation_count
  pushed,         \* the tree on the branch of the pull request
  gapsShown       \* does the pull request's text list the known gaps?

inputVars == <<autoPr, bestOfNOff>>
coderVars == <<disk, coding, ghosts, result>>
criticVars == <<verdicts, judged, gateSaw, continuations>>
prVars == <<pushed, gapsShown>>
passVars == <<winner, current>>
vars == <<inputVars, phase, plan, bestOfN, coderVars, passVars, criticVars, prVars>>

Phases == {"clone", "index", "architect", "code", "review", "critic",
           "continue", "document", "push"}

\* A critic_result: its verdict and how many criteria passed.  An incomplete one
\* always has failed criteria or gate failures to list.
Verdicts == [complete : BOOLEAN, passed : 0 .. Criteria]

TypeOK ==
  /\ autoPr \in BOOLEAN /\ bestOfNOff \in BOOLEAN
  /\ phase \in Phases \cup {"done", "failed"}
  /\ plan \in [degraded : BOOLEAN, criteria : 0 .. Criteria]
  /\ bestOfN \in BOOLEAN
  /\ disk \in Trees
  /\ coding \in [Passes -> {"idle", "working", "returned"}]
  /\ ghosts \subseteq Passes
  /\ result \in [Passes -> Trees]
  /\ winner \in 0 .. BestOfN
  /\ current \in 0 .. (BestOfN + MaxContinuations)
  /\ verdicts \in Seq(Verdicts)
  /\ judged \in Trees \cup {NoTree}
  /\ gateSaw \in Trees \cup {NoTree}
  /\ continuations \in 0 .. MaxContinuations
  /\ pushed \in Trees \cup {NoTree}
  /\ gapsShown \in BOOLEAN

Init ==
  /\ autoPr \in BOOLEAN /\ bestOfNOff \in BOOLEAN
  /\ phase = "clone"
  /\ plan = [degraded |-> FALSE, criteria |-> 0]
  /\ bestOfN = FALSE
  /\ disk = Clean
  /\ coding = [p \in Passes |-> "idle"]
  /\ ghosts = {}
  /\ result = [p \in Passes |-> Clean]
  /\ winner = 0 /\ current = 0
  /\ verdicts = <<>>
  /\ judged = NoTree /\ gateSaw = NoTree
  /\ continuations = 0
  /\ pushed = NoTree /\ gapsShown = FALSE

\* run() has chosen pass p's result as coder_result and needs no other.
Choose(p) ==
  /\ current' = p
  /\ result' = [q \in Passes |-> IF q = p THEN result[p] ELSE Clean]

Last == verdicts[Len(verdicts)]
Changed(tree) == {f \in Files : tree[f] # 0}

------------------------------------------------------------------------------
(* Before the coder.                                                       *)

\* clone_repo_activity removes what an earlier attempt left and clones afresh.
Clone ==
  /\ phase = "clone"
  /\ disk' = Clean
  /\ phase' = "index"
  /\ UNCHANGED <<inputVars, plan, bestOfN, coding, ghosts, result, passVars, criticVars, prVars>>

Index ==
  /\ phase = "index"
  /\ phase' = "architect"
  /\ UNCHANGED <<inputVars, plan, bestOfN, coderVars, passVars, criticVars, prVars>>

\* What run_architect_repo answers: a plan, emitted or forced, or a degraded one
\* without subtasks and so without criteria.
Plans == {q \in [degraded : BOOLEAN, criteria : 0 .. Criteria] : q.degraded => q.criteria = 0}

\* The architect answers and run() chooses between one coder and Best-of-N; the
\* brief decides (infer_cross_cutting_from_brief) only when the plan is degraded.
Architect ==
  /\ phase = "architect"
  /\ plan' \in Plans
  /\ \E crossCutting, briefIsCrossCutting \in BOOLEAN :
       bestOfN' = (~bestOfNOff /\ (crossCutting \/ (plan'.degraded /\ briefIsCrossCutting)))
  /\ coding' = [p \in Passes |->
                  IF p = 1 \/ (bestOfN' /\ p \in Candidates) THEN "working" ELSE "idle"]
  /\ phase' = "code"
  /\ UNCHANGED <<inputVars, disk, ghosts, result, passVars, criticVars, prVars>>

------------------------------------------------------------------------------
(* A coder pass.                                                           *)

Write(p, f) ==
  /\ coding[p] = "working" /\ phase \in {"code", "continue"}
  /\ disk' = [disk EXCEPT ![f] = p]
  /\ UNCHANGED <<inputVars, phase, plan, bestOfN, coding, ghosts, result, passVars, criticVars, prVars>>

\* The pass ends: its diff is the diff of the clone, whoever wrote it.
Capture(p) ==
  /\ coding[p] = "working" /\ phase \in {"code", "continue"}
  /\ coding' = [coding EXCEPT ![p] = "returned"]
  /\ result' = [result EXCEPT ![p] = disk]
  /\ UNCHANGED <<inputVars, phase, plan, bestOfN, disk, ghosts, passVars, criticVars, prVars>>

\* The server gives an attempt up and starts another, but the first goes on.
Abandon(p) ==
  /\ coding[p] = "working" /\ phase \in {"code", "continue"}
  /\ Cardinality(ghosts) < MaxGhosts
  /\ ghosts' = ghosts \cup {p}
  /\ UNCHANGED <<inputVars, phase, plan, bestOfN, disk, coding, result, passVars, criticVars, prVars>>

GhostWrites(p, f) ==
  /\ p \in ghosts
  /\ disk' = [disk EXCEPT ![f] = -p]
  /\ UNCHANGED <<inputVars, phase, plan, bestOfN, coding, ghosts, result, passVars, criticVars, prVars>>

\* Mutant: the single coder's task waits for the results of Best-of-N.
CodedWaitsForAll ==
  /\ phase = "code"
  /\ \A p \in Candidates : coding[p] = "returned"
  /\ IF bestOfN
     THEN phase' = "review" /\ UNCHANGED <<current, result>>
     ELSE phase' = "critic" /\ Choose(1)
  /\ UNCHANGED <<inputVars, plan, bestOfN, disk, coding, ghosts, winner, criticVars, prVars>>

\* run() holds the single coder's result, or all the candidates'.
Coded ==
  /\ phase = "code"
  /\ \A p \in Passes : coding[p] # "working"
  /\ IF bestOfN
     THEN phase' = "review" /\ UNCHANGED <<current, result>>
     ELSE phase' = "critic" /\ Choose(1)
  /\ UNCHANGED <<inputVars, plan, bestOfN, disk, coding, ghosts, winner, criticVars, prVars>>

\* Mutant: the range check of winner_index lets an index one past the end through.
ReviewOffByOne ==
  /\ phase = "review"
  /\ winner' \in 1 .. (BestOfN + 1)
  /\ Choose(winner')
  /\ phase' = "critic"
  /\ UNCHANGED <<inputVars, plan, bestOfN, disk, coding, ghosts, criticVars, prVars>>

\* The reviewer names a winner, or none and candidate 0 (here 1) stands in.
Review ==
  /\ phase = "review"
  /\ winner' \in Candidates
  /\ Choose(winner')
  /\ phase' = "critic"
  /\ UNCHANGED <<inputVars, plan, bestOfN, disk, coding, ghosts, criticVars, prVars>>

------------------------------------------------------------------------------
(* The critic and the continuation loop.                                   *)

\* run_critic_repo: without any criteria (a degraded plan and nothing extracted
\* from the brief) the verdict is "complete" whatever the gate says.  In a
\* degraded plan the criteria are extracted anew on every call.
CriticAnswers(gate) ==
  {v \in Verdicts :
     \/ plan.degraded /\ v.complete /\ v.passed = 0
     \/ \E total \in IF plan.degraded THEN 1 .. Criteria ELSE {plan.criteria} :
          v.passed <= total /\ v.complete = (v.passed = total /\ gate)}

\* Mutant: the loop does not look at the progress that was made.
LoopEndsAtCap(v) == v.complete \/ continuations = MaxContinuations

\* The loop ends when the verdict is complete, at the cap, or without progress.
LoopEnds(v) ==
  \/ v.complete
  \/ continuations = MaxContinuations
  \/ continuations > 0 /\ v.passed <= Last.passed

ToPush == autoPr /\ Changed(result[current]) # {}

Critic ==
  /\ phase = "critic"
  /\ judged' = result[current]
  /\ gateSaw' = IF Changed(result[current]) = {} THEN result[current] ELSE disk
  /\ \E gate \in IF Changed(result[current]) = {} THEN {TRUE} ELSE BOOLEAN :
     \E v \in CriticAnswers(gate) :
       /\ verdicts' = Append(verdicts, v)
       /\ IF LoopEnds(v)
          THEN phase' = (IF ToPush THEN "document" ELSE "done") /\ coding' = coding
          ELSE /\ phase' = "continue"
               /\ coding' = [coding EXCEPT ![Continuation(continuations + 1)] = "working"]
  /\ UNCHANGED <<inputVars, plan, bestOfN, disk, ghosts, result, passVars, continuations, prVars>>

\* Mutant: the continuation's result is awaited and not assigned.
ContinuedForgetsResult ==
  /\ phase = "continue"
  /\ coding[Continuation(continuations + 1)] = "returned"
  /\ Choose(current)
  /\ continuations' = continuations + 1
  /\ phase' = "critic"
  /\ UNCHANGED <<inputVars, plan, bestOfN, disk, coding, ghosts, winner, verdicts, judged, gateSaw, prVars>>

\* The continuation's result replaces coder_result, better or worse.
Continued ==
  /\ phase = "continue"
  /\ coding[Continuation(continuations + 1)] = "returned"
  /\ Choose(Continuation(continuations + 1))
  /\ continuations' = continuations + 1
  /\ phase' = "critic"
  /\ UNCHANGED <<inputVars, plan, bestOfN, disk, coding, ghosts, winner, verdicts, judged, gateSaw, prVars>>

------------------------------------------------------------------------------
(* The pull request.                                                       *)

\* The documenter always answers, with a fallback text if it must.
Document ==
  /\ phase = "document"
  /\ phase' = "push"
  /\ UNCHANGED <<inputVars, plan, bestOfN, coderVars, passVars, criticVars, prVars>>

\* Mutant: the footer appears only when the continuation budget is used up.
GapsAtCap == continuations = MaxContinuations /\ ~Last.complete

\* The footer is rendered into the brief and, as the documenter's text is never
\* empty, into the text that replaces it.
Gaps == continuations > 0 /\ ~Last.complete

\* Mutant: the changed files are read from the clone again when they are pushed.
PushClone ==
  /\ phase = "push"
  /\ pushed' = disk
  /\ gapsShown' = Gaps
  /\ phase' \in {"push", "done"}
  /\ UNCHANGED <<inputVars, plan, bestOfN, coderVars, passVars, criticVars>>

\* An attempt that reached GitHub; its answer may be lost, then the same payload
\* is pushed again (the branch is forced).
Push ==
  /\ phase = "push"
  /\ pushed' = result[current]
  /\ gapsShown' = Gaps
  /\ phase' \in {"push", "done"}
  /\ UNCHANGED <<inputVars, plan, bestOfN, coderVars, passVars, criticVars>>

\* No installation sees the repository: push_error, and the task is done.
PushRefused ==
  /\ phase = "push" /\ pushed = NoTree
  /\ phase' = "done"
  /\ UNCHANGED <<inputVars, plan, bestOfN, coderVars, passVars, criticVars, prVars>>

\* An activity's schedule_to_close timeout is over.
Expire ==
  /\ phase \in Phases
  /\ phase' = "failed"
  /\ UNCHANGED <<inputVars, plan, bestOfN, coderVars, passVars, criticVars, prVars>>

Ended ==
  /\ phase \in {"done", "failed"}
  /\ UNCHANGED vars

------------------------------------------------------------------------------
Workflow ==
  \/ Clone \/ Index \/ Architect
  \/ Coded \/ Review \/ Critic \/ Continued
  \/ Document \/ PushRefused

Coder(p) ==
  \/ \E f \in Files : Write(p, f)
  \/ Capture(p)
  \/ Abandon(p)
  \/ \E f \in Files : GhostWrites(p, f)

Next == Workflow \/ Push \/ Expire \/ (\E p \in Passes : Coder(p)) \/ Ended

Spec == Init /\ [][Next]_vars

\* The activities answer; a push that is answered again and again is answered
\* for good.  Nothing here leans on the timeouts (Expire).
Fairness ==
  /\ WF_vars(Workflow)
  /\ \A p \in Passes : WF_vars(Capture(p))
  /\ SF_vars(Push /\ phase' = "done")

FairSpec == Spec /\ Fairness

------------------------------------------------------------------------------
(* Properties.                                                             *)

\* Every continuation was asked for by an incomplete verdict and each but the
\* last one satisfied strictly more criteria than the pass before it: "continuation
\* N+1 must satisfy STRICTLY MORE checklist items than continuation N".
ContinuationsEarned ==
  /\ \A i \in 1 .. Len(verdicts) - 1 : ~verdicts[i].complete
  /\ \A i \in 2 .. Len(verdicts) - 1 : verdicts[i].passed > verdicts[i - 1].passed

\* A pull request whose last verdict is incomplete tells its reader about the gaps,
\* whichever way the loop ended.
GapsDisclosed ==
  pushed # NoTree /\ ~Last.complete => gapsShown

\* What a single coder's task ships is what the last verdict's deterministic gate ran
\* on, as long as no attempt was abandoned: continuations build on the same clone.
GateSawShipped ==
  ~bestOfN /\ ghosts = {} /\ pushed # NoTree => gateSaw = pushed

\* "All non-winner candidates are discarded" (reviewer_repo_task_activity): no file a
\* losing candidate wrote is in the pull request.
LosersDiscarded ==
  winner # 0 /\ pushed # NoTree =>
    \A f \in Files : pushed[f] \in Candidates => pushed[f] = winner

Change == INSTANCE ReviewedChange WITH
  Changes <- Trees,
  NoChange <- NoTree,
  Redrafts <- MaxContinuations,
  draft <- IF current = 0 THEN NoTree ELSE result[current],
  graded <- judged,
  redrafted <- continuations,
  shipped <- pushed

\* Only what was graded last is shipped, and nothing that abandoned attempts or losing
\* candidates do to the clone changes a draft after it was handed in: ReviewedChange.
Implements == Change!ChangeSpec

\* Every task ends although its coder may be repeated and its push unanswered: the
\* continuation loop is bounded.
Terminates == <>(phase \in {"done", "failed"})

==============================================================================
