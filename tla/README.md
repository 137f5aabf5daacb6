# twai-swarm in TLA+

twai-swarm takes a brief from a human and has language-model agents answer it, either as a new
project (eight agents in a pipeline with one human gate) or as a change to an existing repository
(index it, plan, write code, grade it, open a pull request). Temporal runs the workflows, Postgres
keeps the tasks, Neo4j keeps the graph of an indexed repository, and GitHub receives the result.

The agents' answers cannot be specified. What can is everything around them: what is spent before a
human agrees, what an agent gets to read, which change is shipped and whether it is the one that was
graded, whether the graph describes the commit it is stamped with and its edges lead where the language would,
and whether what is pushed arrives. These modules state and check that, under the faults the code meets: attempts repeated by Temporal, attempts that outlive their
timeout, workers that die between two statements, statements that fail, answers of GitHub that are lost, people who push or uninstall meanwhile.

## Contents

1. [The system](#1-the-system)
2. [The modules and the code](#2-the-modules-and-the-code)
3. [The runs](#3-the-runs)
4. [The proofs](#4-the-proofs)
5. [Findings](#5-findings)
6. [Not modelled](#6-not-modelled)
7. [Plan](#7-plan)

## 1. The system

    browser ── api.py ──signals, start──> Temporal ──tasks──> worker.py
                 │                                             │ runs
                 │ reads rows                                  ├─ workflows/project.py    (greenfield)
                 v                                             ├─ workflows/repo_task.py  (repository)
              Postgres <──rows── activities.py <───────────────┤
              Neo4j    <──graph── repo_indexer/ <──────────────┤
              GitHub   <──push── github_app.py <───────────────┘

| Component | State | Operations | Talks to | What is hard | What makes it correct |
|---|---|---|---|---|---|
| Project workflow, `workflows/project.py` | which steps answered, gate, signals | `run`, `approve`, `reject` | activities by Temporal calls, API by signals | signals before, at and after the gate; the timer beside a signal | nothing behind the gate without approval; pipeline order; every project ends |
| Agent activities, `activities.py`, `db.py` | task rows in Postgres | `create_task_record`, `run_agent_activity`, `run_coder_activity` | LLM, Postgres | at-least-once attempts, late writes of attempts given up | an agent reads the completed outputs of all its ancestors |
| Project API, `api.py` | none | status, approve, reject | Postgres, Temporal | rows and workflow are two clocks | a wait is shown; what is approved is what is built |
| Repo task workflow, `workflows/repo_task.py` | coder result, verdicts, continuation count | `run` | repo-task activities | concurrent candidates, a loop that must earn each pass, a push whose answer is lost | only what was graded last is shipped; gaps are told; the task ends |
| The shared clone, `agents/coder_repo.py`, `coder_tools.py`, `coder_sandbox.py` | files on the worker's disk | tool writes, `_capture_diff` | critic's gate reads it | several writers, threads no cancellation reaches | a captured result does not change |
| The greenfield coder, `agents/coder_agentic.py`, `coder_tools.py`, `coder_sandbox.py` | a directory per workflow | staging, tools, snapshot, removal | LLM, shell | attempts inherit or share the directory | a green verdict is about what is delivered |
| Indexer, `repo_indexer/` | graph in Neo4j | `prune_stale`, parse, resolve, `write_batch` | walker, extractors | a statement is its own transaction; unchanged files are skipped | the graph is of the stamped commit, complete |
| Best-of-N selection, `agents/reviewer_repo.py` | scratch copies | gate, pairwise judge, tally | LLM | ties, failed judge calls | the winner is justified by gate and pairs |
| Critic, `agents/critic_repo.py` | none | gate, checklist judge, handoff | linters, LLM | degraded plans, partial answers | complete means every blocking criterion and the gate passed |
| LLM routing, `router.py`, `agents/runner.py`, `providers/` | none | route, fall back | three providers | which errors are transient | the answer is attributed to who gave it |
| GitHub client, `github_app.py`; webhook, `github_webhook.py` | token cache, installations | mint, authed request, push, uninstall | GitHub | revoked tokens, repeated pushes, a branch that moves | one retry with a fresh token; a repeat changes nothing |
| Extractors, package roots, `extractor_*.py`, `domain_extractors/`, `package_roots.py` | none (a file) | one walk per file | tree-sitter | what a file's own text decides, and what is left to the batch | names tell files apart, nothing a later step needs is lost |
| Scope resolution, `repo_indexer/scope_resolution/` | none (a batch) | `finalize_batch` | extractors | order of lookups, circular imports, inheritance | an edge leads to what the language would call |
| Communities, processes, `phases/` | none (a batch) | labelling, ranking | the clustering library | cuts by depth and number | the best flows are kept, under names of their own |
| The rest | | | | | listed in section 6 |

The behaviours a test hardly reaches are the list "hazards" of `PROJECT.json`, each with the line
where it bites and the properties that would show it going wrong.

## 2. The modules and the code

`PROJECT.json` maps every definition to its lines. A definition whose comment begins with "Mutant"
is no part of the model: it is the definition below it with a plausible bug, kept to show that the
property named beside it in `PROJECT.json` would notice.

### Greenfield projects

**PipelineRoles** has the eight agents and their order. `Rank` is the `parent_task_id` chain; the
researcher runs beside the business analyst and is nobody's ancestor.

**ProjectPipeline** is the abstract promise: agents deliver in order, nothing behind the gate before
it is open, one ending.

**ProjectWorkflow** is the code. Its state has three owners:

| Variables | Owner | Survives |
|---|---|---|
| `recorded approved rejected gate step outcome` | `run()`, rebuilt from Temporal's history | everything |
| `tries pc ctx` | attempts of the activities | nothing: `Crash` |
| `status output design` | rows of `tasks` | everything |

`pc[r][a]` is the next statement of attempt `a` of role `r`, one action per statement that talks to
Postgres, the model, or Temporal: `MarkRunning`, `ReadContext`, `AgentReturns`/`AgentRaises`,
`CompleteTask`, `EmbedOutput`, `Return`, and `FailTask`, `Raise` on the other path. The agentic
coder's failure leads to the one-shot coder, as in `run_coder_activity`. `NextAttempt` is
`LLM_RETRY_POLICY`. `Crash`, `Expire`, `TimeOut` and `Cancel` are Temporal's side: `TimeOut` with
`Overlap = TRUE` schedules the next attempt while the old one goes on, which is what a Temporal
server does when heartbeats are late. `signedOff` is a history variable: the attempt whose design
the human saw. Faults are bounded by `MaxFaults`.

### Repository tasks

**ReviewedChange** is the abstract promise: a change is drafted, graded, redrafted a bounded number
of times, and only the draft graded last is shipped.

**RepoTask** is `run()` of `repo_task.py` (`phase` is the activity it waits for) together with what
the coder passes do to the one clone. A tree says for each file who wrote it last, which is all the
properties need: a positive number is a pass, a negative one an attempt of that pass which the
server gave up on while its bash command went on in a thread (`coder_sandbox.py`, `asyncio.to_thread`),
0 nobody. `Capture` is `git diff HEAD` when a pass ends. `CriticAnswers` is the set of verdicts
`run_critic_repo` can give for a plan and a gate's answer; which of the criteria a judge passes is
free. Activities of this workflow have no attempt cap, only `schedule_to_close`, so a repeated attempt
that finds the disk as it was is no step of its own, and `Expire` ends the task.

### The index

**Indexer** is one `index_repo_activity` per scan: `Prune` and `DeleteNodes` (two statements of
`prune_stale`), `Parse` (skip what is unchanged), `Stamp`, then the statements of `write_batch` in
order, chunk by chunk. Each commits on its own, so `Cut` may come between any two, and the next
attempt begins with `prune` again. `files` holds the SHAs by which the next scan skips files, `defs`
and `edges` stand for all the nodes and edges whose rows come after them in `write_batch`.
`Resolved` is the resolver's one promise to a scan: a call leads to its target if the target is in
the batch, otherwise to an external symbol. `Overlapping` says whether a second scan of the same
repository name may run beside the first; nothing in the code prevents it, one worker with
synchronous scans does.

### GitHub

**TokenCache** is `_authed_request` with `get_installation_token`: a token per process, an eviction
and a forced mint on a 401, one repeat. `stage[c]` is how far client `c` is with its request. A mint is two
steps, GitHub making the token and the process caching it; between them other tasks of the
process run.

**GitHubPush** extends it by what is asked: the preflight of the API or of the worker, and
`push_files_as_branch` request by request (`GetRef`, `CreateRef`, `UpdateRef`, `CreatePull`; the
requests that make blobs, tree and commit reach no ref and belong to `GetRef`), and by the installation's row
with its callback and webhook (`HandleDeleted` and `EvictDeleted` are the handler's two statements). A ref is
the sequence of its commits' authors. `asked` is the branch a client names: one of its own, or, as
`github_push` of the API accepts any well-formed name, the default branch, whose 422 then leads to the forced update.
`CreatePull` may fail, which the code logs and reports as success (`pull`). `LoseAnswer` loses any request before or
after its effect. `landed` and `revoked` are history.

### The greenfield coder

**AgenticCoder** is `run_agentic_coder` with its tools. `dir` tells who wrote each file last. Attempts
share it: `Begin` stages the template over whatever an earlier attempt left, and a shell, that of `verify.sh`
too, writes files one by one (`ShellWrites`) and may outlive the attempt or the timeout that ended it
(`LeavesShell`, `threads`). The end of a run has three parts, between any two steps of which others may write:
`ListFiles` lists what the snapshot will read, `ReadFile` reads it file by file, and after a green verify
`RemoveFile` removes the directory file by file. The snapshot passes over `skipped` files (ignored directories,
entries beyond the 2000th) and what is no text (`Binary`). `vouched` and `meanwhile` are history, for the
properties: what the last green verify left, and what others wrote since it began or since a file was read.

### The pure algorithms

These have no state of their own. Each is a module of operators that translate the code, with a
reference definition written independently of it and a property that relates the two.
**MCDecisions** enumerates the inputs of ScopeTree, MethodDispatch, ModuleNames, CandidateSelection, CriticVerdict,
LlmRouting and Processes, **MCAlgorithms** extends it by those of the resolver, the tables and the scripts: `case` is
the input being looked at, and every property says something of one kind of input. DecisionProofs,
ProcessesProofs and ScopeResolutionProofs prove all properties of MCDecisions.

| Module | Code | Reference |
|---|---|---|
| ScopeTree | `scope_tree.py`, `position_index.py`, ranges of `_adapter.py` | a line belongs to the narrowest scope that covers it; a tree exists if no two scopes cross or coincide |
| MethodDispatch | `method_dispatch_index.py` | ancestors are the least set closed under bases; the method found precedes every other one going up base by base, and without a cycle nothing that inherits from its class overrides it |
| ModuleNames | `package_roots.py`, module names of `walker.py` | a name is the path below the deepest package around the file, and files of one package have different names |
| PythonExtractor, Finalize | `extractor_python.py`, `finalize.py` with its indexes | **PythonNames**: what Python binds and calls |
| TypeScriptExtractor, Finalize | `extractor_typescript.py` | **TypeScriptNames**: where a specifier leads, then PythonNames |
| OrmAccess | `orm_python.py` (tables), the argument hints of the extractor, `orm_classifier.py` | which table each understood call reads or writes |
| Processes | `community_detect.py` (labels), `process_extract.py` | what may be left out, and for what, of the chains of calls across communities |
| CandidateSelection | `reviewer_repo.py` | gate first, then a candidate no other beats |
| CriticVerdict | `critic_repo.py` | complete means no tool reported and every criterion was answered yes |
| LlmRouting | `router.py`, `agents/runner.py`, errors and empty answers of `providers/` | an answer or the error of who was asked last, and only who was unavailable is passed over |

The extractor modules take a file as what is in it (functions, classes, calls, imports, assignments),
not as text. `Finalize` is the resolver for every language: lookups are sets, empty for `None`, and `??` is
the code's "if that was `None`, try". `order` is the order in which this process's sets of strings iterate,
which decides between the members of an import cycle; the small packages with cycles are looked at in two orders,
one the reverse of the other. **MCNames**, **MCOrm** and **MCScripts** build the files.

What the resolver promises is stated for packages of every kind, with what it cannot do as premises that can be
read: `CallsReachDefinitions` is about `Findable` calls, and `StraysExplained` allows a wrong function only where it
is `Mistakable`. Section 5 lists what the premises name. The packages of MCNames and MCScripts include
those in which the premises fail and the property would be violated without them.

## 3. The runs

| Run | Module, cfg | Expect | Shows |
|---|---|---|---|
| project_overlap | MCProjectWorkflow, ProjectOverlap | pass | with late writers: types, the inductive invariant, the gate, complete contexts, refinement of ProjectPipeline |
| project_exclusive | ProjectExclusive | pass | without them: agents read results only, rows agree with a completed workflow, a wait is shown, every project ends |
| project_late_write | ProjectLateWrite | violation | a late `fail_task` feeds an error to the next agent |
| project_sign_off | ProjectSignOff | violation | a design replaced after its sign-off |
| repo_task | MCRepoTask, RepoTask | pass | continuations earned, gaps disclosed, the gate saw what is shipped, refinement of ReviewedChange, termination |
| repo_task_discard | RepoTaskDiscard | violation | a losing candidate's file in the pull request |
| indexer_restarts | MCIndexer, IndexerRestarts | pass | stamp sound, forced scans heal, uncut scans exact |
| indexer_rescan | IndexerRescan | violation | a cut scan is completed with rows missing |
| github_push | MCGitHubPush, GitHubPush | pass | no push is refused over a stale token, what is reported pushed is pushed, the default branch loses commits only to a push that targets it |
| github_force | GitHubForce | violation | a forced update of a default branch that had come into being |
| agentic_coder | MCAgenticCoder, AgenticCoder | pass | a green verdict is about the files delivered, nothing the snapshot had to take is removed undelivered |
| algorithms | MCAlgorithms, Algorithms | pass | the pure algorithms against their references |

The properties of `algorithms`, and what each would notice:

| Property | Says |
|---|---|
| ScopesExact | each line is in its innermost definition, and the tree fails exactly for ranges that coincide or cross |
| OverridesRespected | a method is found if and only if an ancestor defines it; it precedes any other, and no ancestor that inherits from its class overrides it |
| NamesTellFilesApart | two files of one package have different names, and a name is the path below the deepest package |
| CallsReachDefinitions | a call whose function the resolver can find is recorded as one of that function |
| StraysExplained | calls go astray only in import cycles, under aliases, below a package's first name, or where the callee reads like a qualified name |
| ScriptCallsExact | the same two for TypeScript, where specifiers, probing, default and side-effect imports are added |
| AccessesExact | each ORM call the classifier understands is one access of the right table and kind, other calls are none; calls alone on their line by their last name, on models of different names |
| ProcessesBest | flows are chains of calls across communities; a beginning is not kept without what continues it, nothing is left out while there is room, names are unique |
| LabelsTellApart | two communities never share a label, and a label is made of its members' own words unless it is a number |
| SelectionEarned | nobody with fewer failures of the gate loses; among those, one the judge prefers to all others wins and one all others are preferred to loses; without preferences the first wins |
| CompleteEarned | nothing failed, unmet or unjudged is called complete, but for a plan without criteria |
| AnswererCharged | the model that answered is charged; no error of the request or the credentials, and no empty answer, is papered over by another provider; an unavailable model fails a role only if its substitute does |

**Bounds, and why they are enough.**

- *Projects.* The eight agents and their order are the program's. `MaxAttempts` is the program's
  three, two in `project_overlap`: two attempts already overlap, and a third adds no writer a second
  does not. `MaxFaults` is the number of errors, crashes and timeouts in one behaviour: two are
  needed for an overlap in which the old attempt fails, three to exhaust the retries.
  `project_overlap` has the one-shot coder and `project_exclusive` the agentic one, so the two
  passing runs have both values of `CODER_MODE`; `AgentRaises` leads the agentic coder to the one-shot
  one in the latter.
- *Repository tasks.* Three candidates and two continuations are the program's own constants. One file
  is enough for what is shipped, graded and captured, because the properties of the passing run compare
  whole trees; a property that tells files apart (LosersDiscarded) has two. Two criteria let progress be
  made once and missed once. One ghost writes as often as it likes.
- *Index.* Two commits, one of which changes a file and removes the other one; the calls go both
  ways. Three scans in a row, any of them forced, of any of the commits, and two cuts: enough for a cut
  attempt, its repeat, a third scan that heals or does not, and for going back to the first commit.
- *GitHub.* Two clients, in one process or in two, which is where they share a cache or do not;
  two installations, so that there is a dead token and a live one; two commits by others, one before and
  one during a push, or the first of an empty repository. Any answer may be lost and any POST of a pull request fail;
  a second client is the repeat of one that was never told.
- *The coder.* Two attempts, in succession or at once, one file beside `verify.sh`, which the snapshot passes over
  or not, and a cap of two messages, so that the cap is met after a round of tools; rounds of one message may hold
  any number of tool calls.
- *Algorithms.* Three of the scopes within five lines: nested, adjacent, crossing, equal. Four classes with
  up to two bases each: a diamond, a cycle through the first class, and a class below either. At most three pyprojects.
  Four functions, all graphs of calls among them, with `MaxDepth` and `MaxProcesses` of three so that both
  cut. Three candidates with up to two failures each. One tool that differs from the rest, two criteria.
  Each routed model and its substitute with every kind of reply: a text, an empty one, none, a timeout, a rate limit, an
  overload known by its status only, a status without a class, and bad credentials.
  Names: three modules in which every form of import, base and call occurs, one or two imports each; the import
  cycle of two in which the same name is imported from a member, from outside and under another name
  (`CyclicPackages`); and files whose definitions stand in every order around their caller, with a method, a variable
  and a package of the names they call (`WrittenPackages`). Scripts: the same import cycle, default and
  side-effect imports, indexes of a directory and of the root.

**Fairness.** `ProjectWorkflow!Fairness`: the workflow's next step and each attempt's next step are
taken if they stay possible (Temporal redelivers, workers poll). Nothing is assumed of the human, the
signals or the faults: `ExpireGate`, the timer, ends the wait. `RepoTask!Fairness`: weak fairness of
the workflow's steps and of every pass's end, as each activity's answer; strong fairness of a push that
is answered, as its answer may be lost any finite number of times before it arrives. The timeouts
(`Expire`) carry no fairness, so termination does not come from giving up; the continuation loop is
shown to end by itself. The other runs state safety only and assume none; they do not check for deadlock
where every client or attempt may have ended, or every input been looked at.

## 4. The proofs

Eight modules hold the theorems. They assume of the constants only what the `ASSUME`s of the
specifications say, each of them named there: counts are natural numbers, the caps (`MaxAttempts`,
`BestOfN`, `MaxContinuations`, `MaxIterations`, `MaxInstalls`) at least one, a process may have two steps
(`MaxDepth >= 2`), a tree has a file
(`Files # {}`), `MCDecisions` builds inputs within natural bounds (`MaxLine`, `MaxClasses`, `MaxFunctions`), the markers for "absent" and "no commit" are no versions and no commits. What a
theorem assumes beyond these it states.

### ProjectWorkflowProofs

For every `MaxAttempts >= 1`, every `MaxFaults`, both values of `Overlap` and `CODER_MODE`:

| Theorem | Says |
|---|---|
| TypeCorrect | `Spec => []TypeOK` |
| InvCorrect | `Spec => []Inv` |
| GateCorrect | `Spec => []GateHolds` |
| ContextCorrect | `Spec => []ContextComplete` |
| ImplementsPipeline | `Spec => Pipeline!PipelineSpec` |

`GateHolds` is not inductive: that a row exists says nothing of the gate until it is known that rows
belong to steps that were begun (`WorkIsStarted`), steps begin when what they wait for has succeeded
and the gate is open (`StepsInOrder`), and the gate is open because somebody opened it
(`GateJustified`). `ContextComplete` needs `OutputKept`: a row with an output keeps one, because late
writers replace outputs and never clear them, and a step succeeds only by an attempt past
`complete_task`. `Inv` is their conjunction, and TLC checks it in `project_overlap`. The refinement maps the
actions that move `Delivered`, `Verdict` or `outcome` to an abstract step and all others to a stutter.

These theorems assume `~Overlap`: no attempt outlives the timeout the server gave it.
`AncestorsCompleted` is false without that, as `project_late_write` shows.

| Theorem | Says |
|---|---|
| RowsAlways | `Spec => []RowsInv`, the inductive invariant |
| AncestorsCorrect | `Spec => []AncestorsCompleted` |
| CompletedCorrect | `Spec => []CompletedRowsDone` |
| WaitCorrect | `Spec => []WaitIsShown` |

`RowsInv` adds to `Inv` that one attempt of a step is alive at most, the latest, and only while the step is
active (`SoleAttempt`): this is where the assumption enters, as a timed-out attempt is then gone before the
next begins. So nobody writes a row behind an attempt that has completed it, and from `complete_task` on the row
is done with a result (`RowsFit`). An agent reads its ancestors' rows after these succeeded
(`StepsInOrder`), hence results; a completed project is one whose steps all succeeded; and the gate waits
when the last row before it is done.

### RepoTaskProofs

For every set of files, number of candidates, continuations, criteria and abandoned attempts:

| Theorem | Says |
|---|---|
| InvAlways | `Spec => []IInv`, the inductive invariant |
| TypeCorrect | `Spec => []TypeOK` |
| EarnedCorrect | `Spec => []ContinuationsEarned` |
| GapsCorrect | `Spec => []GapsDisclosed` |
| GateCorrect | `Spec => []GateSawShipped` |
| ImplementsChange | `Spec => Change!ChangeSpec`: a draft graded last is shipped, whoever wrote to the clone meanwhile |

`ContinuationsEarned` and `GapsDisclosed` speak of the list of verdicts and of the flag that the push carries; both
need to know where the loop stands. `InOrder` ties the length of the list to the phase, `Earned` says that
as long as the loop goes on no verdict was complete and each beats the one before, `GapsTold` that the
loop ends by a complete verdict or after a continuation. The refinement rests on `PushedJudged`: from
the verdict on, what was judged is the captured result at hand, which nothing overwrites, so losers and
abandoned attempts that write to the clone change nothing in `ReviewedChange`'s terms. `GateSawShipped`
needs the converse, that nobody else writes: `CloneIsResult` follows the clone of a single coder from
capture to verdict, and `AtWork` says that only the pass `run()` waits for is at work.
`Files # {}` is needed here: with no file, a tree cannot be told from none.

### GitHubPushProofs

For any clients, processes, installations, commits of other people, lost answers, and branches asked for:

| Theorem | Says |
|---|---|
| InvAlways | `Spec => []IInv`, the inductive invariant |
| TypeCorrect | `Spec => []TypeOK` |
| DeniedCorrect | `Spec => []DeniedOnlyIfRevoked` |
| LandedCorrect | `Spec => []PushLanded` |
| DefaultCorrect | `Spec => DefaultUntouched`, an action property |

One forced mint is enough because of `ForcedIsFresh`: a token minted after a 401 is valid, or the App was
uninstalled since this request began, which `revoked` remembers; dead tokens that other tasks of the process
put into the cache are not used by a request that already holds its own. `PushLanded` needs `RefFirst`: a
client past its ref request has a commit where a ref pointed, also when the answer was lost and the repeat was
told the ref exists, and one that is done has a pull request, saw an empty repository or was told that there will be
none. `DefaultUntouched` allows one exception, the step in which a push whose target is the default branch puts
its own commit there: because the repository was empty when it looked, or because it was asked for that branch by name. It needs
`RepoFirst` beside the types: a repository that is created, with its first commit, had no branch to rewrite.

### AgenticCoderProofs

For any attempts sharing the workspace, any files, any the snapshot passes over and any cap on messages:

| Theorem | Says |
|---|---|
| InvAlways | `Spec => []IInv`, the inductive invariant |
| TypeCorrect | `Spec => []TypeOK` |
| GreenCorrect | `Spec => []GreenVouches` |
| NothingLostCorrect | `Spec => NothingLost`, an action property |

`GreenVouches` speaks of an attempt whose directory is about to go; what it needs of the states before is `Vouched`: as
long as a green exit code stands, every file is as the verify left it unless somebody wrote to it since or while it ran, and
once read it is in the result so. `NothingLost` speaks of one removal; it needs `Taken`: what the snapshot has gone past
it took, or had a reason to leave, or somebody else wrote behind it, and this still holds of whatever is left to remove. Both
are carried through steps of other attempts and of shells that no attempt waits for.

### IndexerProofs

For all files, versions, commits, contents, calls, scans and numbers of cuts; the last three while one
scan runs at a time (`~Overlapping`), the first for scans that overlap too:

| Theorem | Says |
|---|---|
| TypeCorrect | `Spec => []TypeOK` |
| StampCorrect | `Spec => []StampSound` |
| HealsCorrect | `Spec => ForcedScanHeals` |
| ExactCorrect | `Spec => UncutScanExact` |

The argument: an attempt that is past `prune` either has the stamp it will set or an empty graph;
while it writes, everything it has already written of its batch is there and of its commit (`Progress`);
while nothing was torn, what is not in the batch is what an earlier complete scan of the *same* commit
left, and the files of an unchanged graph leave the batch empty. The assumption of one scan at a time is
needed: with `Overlapping = TRUE`, TLC finds `StampSound` violated by a scan that prunes before the other writes.
`TypeOK` alone is not inductive, as an edge is typed only if the file it is written for is in the batch
(`Batches`); the two together are, whoever else scans.

### DecisionProofs

The decisions that one expression makes. Each theorem has two parts: the operator's fact for inputs of every
size, and from it the property of **MCDecisions** that the run `algorithms` checks on small inputs.

| Theorem | For every | Says |
|---|---|---|
| SelectionCorrect | number of candidates, number of failures each, judge | SelectionEarned |
| CompleteCorrect | plan, number of criteria, ends of the tools, answer | CompleteEarned |
| AnswererCorrect | role, complexity, reply of each model: text, nothing, or an error of any class and status | AnswererCharged |
| NamesCorrect | set of paths, set of packages with one `pyproject.toml` a directory | NamesTellFilesApart |

`SelectionCorrect` is the long one: the winner exists because scores are bounded by the number of pairs
(`GreatestExists`, from the well-foundedness of the naturals); a candidate preferred in both positions to
every other has a score nobody else reaches, which counts pairs by a bijection (`PairsCounted`). `AnswererCorrect` follows
the walk of a fallback chain, which has at most one entry, and classifies errors as `_is_transient` does, by the name of the
class and the status. `NamesCorrect` cuts a path behind its package's
prefix (`PrefixCut`) and uses that two packages around a file with equally long directories are the same one.

### ProcessesProofs

| Theorem | For every | Says |
|---|---|---|
| LabelsCorrect | sequence of finite communities, words in their members' names | LabelsTellApart |
| ProcessesCorrect | finite set of functions, calls, sequence of communities with different labels, `MaxDepth >= 2`, `MaxProcesses` | ProcessesBest |

What makes the second hard is that three definitions have to fit: the enumeration of chains, the order by which they
are ranked, and the cut. The ranking, score first and names along the chain second, is a strict order on
the chains (`RankingOrders`, `AlphabetOrders`), so counting predecessors puts a finite set in order without leaving
any out (`RanksCount`, `SortedIs`). The chains of `n` functions are a recursive function of `n`:
`ChainsGrow` shows that the recursion has a solution, and `ChainsAre` follows it by the least `n` that would be a
counterexample. A chain that goes on gets longer and never leaves a community it has entered, so its score grows
(`ScoresAre`): it ranks before its beginning and is kept if that is. Scores count labels where the property
counts communities; `CrossingsCount` needs for that that labels differ (`LabelsFit`). The theorem takes this as a
premise and, in its second part, discharges it for the labels that `_label_for` gives.

That those differ is `LabelsCorrect`. `Labels` is a fold over the communities. The library has no facts on folds
that these provers can use, so `FoldExists` shows once that the equation of a fold over `1 .. n` has a solution, and
`FoldSteps` that any solution is a sequence of results, each a step from the one before; all later proofs
about folds are invariants of such a sequence. Here the invariant is `LabelsSoFar`: labels differ, those
made of words have their members' words, and numbers are below the number of the community that comes next, so a
number is always free. `MostCommonAre` shows that the words tried are the members' own.

### ScopeResolutionProofs

| Theorem | For every | Says |
|---|---|---|
| ScopesCorrect | finite set of scopes that are not empty, set of lines | ScopesExact |
| OverridesCorrect | finite set of classes, lists of bases (cycles and repetitions too), own methods | OverridesRespected |

`ScopesCorrect`: the stack of `build_scope_tree` is followed scope by scope. `Shape` says that the open scopes
contain one another, that all of what was placed nests, and that each placed scope hangs under the smallest
around it; `Closed` that what is no longer open ends before the next scope begins. Sorting outer scopes
first makes both inductive (`PlaceStep`, `TreeBuilt`): what would be around the next scope is still open, and what
overlaps it without being around it is met on the stack. The two searches of `scope_at`, outward by parents and
inward by children, are recursive functions on scopes; `OutwardsFinds` and `RefineFinds` follow them by the least
scope, by depth and by width, for which they would go wrong.

`OverridesCorrect`: `_compute_merged` is a recursion over pairs of a class and the set of classes visited, which its
siblings share. `WalkExists` shows that the recursion has a solution, by the number of classes not yet visited
(`LeftToVisit`), as every call visits one more; `InheritAscends` follows the bases of one class by `FoldSteps`.
`Finds` is what a call establishes of the classes it newly visits, `new`: they are ancestors; their
bases are visited; each method they define is found; and the one found precedes the others that define it
and is above none of them (`Chosen`). `FindsInBases` is the same of the bases walked so far, and `NextBase` its
step. The last part, that an earlier base's method never hides an override that a later base has already
contributed, needs that bases form no cycle, and `OnTheWay`: a class that was visited but whose bases were not yet is
one the walk is still in, hence a descendant of the class at hand. So the way from a class of a later base up to the
one whose method would replace its own must pass a base not visited, which only such a descendant has, and that
would close a cycle. Starting from nothing visited, `new` is the set of all ancestors (`MethodsFound`).

### Only model-checked

- *Liveness* (`Terminates` of both workflows): the proof system has neither fairness under `ENABLED` nor leads-to chains.
- *The resolver.* CallsReachDefinitions, StraysExplained, ScriptCallsExact, AccessesExact: `Finalize` and `PythonNames` are
  RECURSIVE operators, out of the prover's reach. MCDecisions is a module of its own so that its theorems do not depend on them.
- The violations of section 5 are counterexamples and need no proof.

## 5. Findings

Each is a run with `expect: violation`, and quotes the sentence of the repository that it contradicts in
`PROJECT.json`.

1. **A late attempt overwrites its successor's row** (`project_late_write`). `fail_task` and
   `complete_task` update by id alone. An attempt given up by the server can fail after its successor has
   completed; the row then holds `{"error": ...}`, which `get_ancestor_outputs` hands to the next agent as
   a completed output. Comparing the status, or the attempt number, in the `UPDATE` would close it.
2. **The sign-off is read from the row, not from the workflow** (`project_sign_off`). The prompt appears
   when the row is done, one crash before the workflow knows; the repeat writes a new design, and the
   approval already given applies to it.
3. **Losing candidates are not discarded** (`repo_task_discard`). All Best-of-N coders work in one clone
   and each reports the whole clone's diff.
4. **A cut scan is not repeated in full** (`indexer_rescan`). `write_batch` commits the SHAs by which
   later scans skip a file before the rows the file defines; the repeat skips them and succeeds.
   `ForcedScanHeals` shows that `force_reindex` is the way out.
5. **The default branch can be forced** (`github_force`). A push that saw an empty repository targets its
   default branch; when somebody else's first commit gets there before it, the 422 leads to the forced update,
   which the comment there says cannot happen to an empty repository. The property leaves out clients that name the
   default branch themselves.

What the models also had to take as it is, and the premises of their properties name:

- *Resolver, names.* The search for an imported name looks at all members of the module's import cycle, whatever they bind to
  it, and ends at the first function of that name: `from b import f` may lead to the `f` of a module in b's cycle though b's own
  `f` is another's (`Mistakable`, `MayEndAt`). An aliased import of a name its module only re-exports resolves to a
  function of the alias's name if that module or its cycle defines one. `import package.module` searches the module for names that
  are looked up in the package. Under a wildcard, not even the
  module's own definition comes first (`OneOfItsCycle`): which member of a cycle answers depends on the order of a set.
- *Resolver, what stays an external symbol* (the premises of `CallsReachDefinitions`). Functions and own-file base classes
  that the file defines below their use, although `extractor_python.py:8-9` says these resolve (`WrittenAbove`,
  `BasesElsewhere`); a callee whose head is a module taken by `from package import module` (`ModulesImported`);
  re-exports without a cycle and relative Python imports (`TakenFromDefiner`); types through re-exports, return types of
  imported functions, inherited fields, `parameter.attribute.method` (`BindingsPlain`); `Class.method` of a from-import, and
  constructor calls.
- *Resolver, what is too generous.* An annotation of a container credits the class of its elements (`BindingsPlain`);
  class-level bindings are visible to bare names of the methods, and an attribute's lookup climbs to the module. A
  bare call of a name that some method of the file has is taken to mean the module's function, or is lost (`NoMethodNamed`).
  A variable named like a module is taken for the module, and one that hides an import for the import (`NothingHidden`).
  A callee that is written as a function's qualified name is that function, whatever was imported.
  `_is_wildcard` (`finalize.py:741-747`) says that no extractor emits wildcards; the Python one emits `*`, the TypeScript one `""`.
- *Scopes.* Two definitions on one line fail the whole scan (`ScopesExact` says exactly when).
- *Package roots.* Excluded directories are looked for in the absolute path, so a clone below a directory
  of such a name has no packages.
- *Table accesses.* Outside `Understood`, where only the absence of wrong accesses is checked:
  `x.delete()` of a Django instance is never recorded although `orm_classifier.py:24-25` lists it; nor
  `session.scalars(select(X))`, `self.session.query(X)`, `execute(select(X).where(...))`, `add(X())`, objects held by
  typed parameters, and classes named through their module. A class of elsewhere with the bare name of a model is
  credited to the model (`Known`); of two calls of one last name on a line, one's hint is used for both (`LeafsDiffer`). Classes of
  Flask-SQLAlchemy's `db.Model` count as Django's. Only direct subclasses of the known bases declare tables.
- *TypeScript.* Calls on `this` and `super` are never extracted, although `finalize.py:571-573` and the
  docstring of `_walk_ts_this_assignments` say that `this.x.m()` resolves. A function imported by default is not
  found. `import "./x"` has an empty local name, which `_is_wildcard` counts as a wildcard, so a bare call may lead into a module
  imported for its side effects. The index of the repository's root is never found through its directory, as `/index.ts` is
  probed for it, only as `./index`, and has no module of its own. `export ... from` is not recorded: the model has
  every import exported. A `..` above the repository's root stays there; `lib.ts` and `lib/index.ts` share one name.
- *Critic.* A task without subtasks whose brief yields no criteria is complete whatever the gate found:
  `CompleteEarned` excepts it. One with subtasks and without criteria is complete when the gate is. Where a tool is not
  installed the gate passes, says `critic_repo.py:31-34`; but npm's hands over "npm run typecheck returned 127" as work when
  the compiler of the script is missing (`critic_repo.py:389-393`), here `"unreadable"`.
- *Routing.* The docstring of `_is_transient` (`runner.py:148-150`) names timeouts, connections, rate limits and 5xx; by the
  name `APIStatusError` it also takes a 402, 405 or 413 for transient, and asks another provider. An empty text is an error
  of every provider but xAI's chat API, of which it is the answer; `AnswererCharged` names both.
- *The coder.* A comment says that the directory is destroyed only after a successful snapshot, to retain it when one fails;
  the snapshot does not fail, it passes over what it cannot read, ignored directories and entries beyond its cap, and a green run's
  directory goes with them.
- *Pushing.* A pull request that cannot be opened is only logged and the push reported as done (`PushLanded` says so).

## 6. Not modelled

- Extractors for Java and C++, routes and tools of `domain_extractors/`, columns of tables: walks of a syntax
  tree with no state, of the same form as the two that are modelled.
- Embeddings and kNN neighbours: by similarity, no exact property. Graph queries and MCP server: read-only.
  Template matcher: one pure choice. Observability: never changes a decision. Auth, tenants,
  configuration: settings. Worker process, bootstrap, deployment: wiring; a worker's death is `Crash`, `Cut` and `Abandon`.
- Projects: heartbeats (an attempt may be given up at any time), tokens and costs, kNN neighbours in the
  context; the orphan rows of a repeated `create_task_record`, which the dashboard alone reads, and the row that
  stays `running` when the last attempt dies, of which the code promises nothing.
- Repository tasks: deletions and binary files in a clone, the words by which a brief is found cross-cutting,
  the tool loops of architect and coder as texts. That the critic's `mvn` blocks the event loop for minutes
  is an attempt that may expire at any time; that criteria taken from the brief differ between
  passes is a free choice of verdict; a repo task's row, inserted after its workflow was started, is read by nobody else.
- Index: communities, processes, routes and tables in `write_batch` (further statements after the ones
  modelled), CLI scans without a commit (they prune nothing and skip nothing by commit), tsconfig aliases.
- GitHub: contents of commits (a change that reverts what others merged meanwhile is shown to
  its reviewer), blobs and trees one by one, signatures of the webhook, several tenants or repositories.
- The coder: contents of files beyond their last writer, and the stage of a verify: a green lint counts as
  green, as in the code.
- Algorithms: texts of prompts, parsing of a judge's text (three outcomes instead), the clustering
  (any partition), what providers translate.

## 7. Plan

Done: PipelineRoles, ProjectPipeline, ProjectWorkflow; ReviewedChange, RepoTask; Indexer; TokenCache, GitHubPush;
AgenticCoder, each with its proofs; the algorithms and their references, with proofs of the decisions, the labels, the
processes, the tree of scopes and the walk through base classes. Next, in this order:

| Module | Proves or models | Along which argument |
|---|---|---|
| IndexerProofs | what overlapping scans keep beyond types: every edge begins at a file of some scan's batch | the statements of a scan touch its own batch only |
| an abstract index | Indexer without cuts implements "a completed scan replaces the graph of one commit by that of another" | the stamp and the last statement are the abstract step |
| Finalize | as recursive functions or folds, so that its lookups can be proved about | the import closure is a least closed set, as the ancestors of MethodDispatch are |
| Indexer | the statements for communities and processes after a partial rescan | stale memberships beside new ones |
