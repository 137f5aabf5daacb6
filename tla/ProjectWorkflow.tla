--------------------------- MODULE ProjectWorkflow ---------------------------
(***************************************************************************)
(* The greenfield ProjectWorkflow (app/workflows/project.py), the          *)
(* activities it runs (app/activities.py) and the rows they write in the   *)
(* tasks table (app/db.py).                                                *)
(*                                                                         *)
(* Temporal runs an activity at least once: an attempt that raises, that   *)
(* dies with its worker or whose answer comes too late is followed by      *)
(* another one, up to LLM_RETRY_POLICY's cap.  With Overlap = TRUE an      *)
(* attempt the server has given up on goes on until its worker notices     *)
(* (the cancellation is delivered at an await, after the event loop is     *)
(* free again), so two attempts of one task may write its row.             *)
(***************************************************************************)
EXTENDS PipelineRoles

CONSTANTS
  MaxAttempts,   \* LLM_RETRY_POLICY.maximum_attempts (3 in the code)
  MaxFaults,     \* bound on errors, crashes and timeouts in one behaviour
  Overlap,       \* may an attempt outlive the timeout the server gave it?
  CoderMode      \* config.CODER_MODE

ASSUME MaxAttemptsAssumption == MaxAttempts \in Nat \ {0}
ASSUME MaxFaultsAssumption == MaxFaults \in Nat
ASSUME OverlapAssumption == Overlap \in BOOLEAN
ASSUME CoderModeAssumption == CoderMode \in {"agentic", "oneshot"}

Attempts == 1 .. MaxAttempts

VARIABLES
  \* --- the workflow, rebuilt by Temporal from its history
  autoApprove,  \* ProjectInput.auto_approve
  recorded,     \* create_project_record has answered
  approved,     \* self._approved
  rejected,     \* self._rejected
  gate,         \* "ahead", "waiting" (in wait_condition), "open" or "shut"
  step,         \* role -> what the workflow knows of run_step(role)
  outcome,      \* "open" while the workflow runs, else how it ended
  \* --- the attempts of run_agent_activity / run_coder_activity
  tries,        \* role -> attempts scheduled so far
  pc,           \* role -> attempt -> its next step
  ctx,          \* role -> attempt -> the context its agent was given
  \* --- Postgres
  status,       \* role -> tasks.status ("absent": no row)
  output,       \* role -> tasks.output: "none" (NULL), "result" or "error"
  design,       \* the attempt whose design is the architect's output, 0: none
  signedOff,    \* the design the human was shown when approving, 0: none
  \* --- the bound
  faults        \* errors, crashes and timeouts so far

workflowVars == <<autoApprove, recorded, approved, rejected, gate, step, outcome>>
attemptVars == <<tries, pc, ctx>>
dbVars == <<status, output, design>>
vars == <<workflowVars, attemptVars, dbVars, signedOff, faults>>

\* Where an attempt stands, by the statement it executes next.
\*   start     db.update_task_running          complete  db.complete_task
\*   context   db.get_ancestor_outputs         embed     _embed_task_output
\*   agent     the agent's LLM run             return    the answer to Temporal
\*   oneshot   the coder's fallback run        fail      db.fail_task
\*                                             raise     the error to Temporal
\* The Fatal variants carry an error whose type is not retried.
LivePCs == {"start", "context", "agent", "oneshot", "complete", "embed",
            "return", "fail", "failFatal", "raise", "raiseFatal"}
PCs == LivePCs \cup {"none", "gone"}

\* The statements that talk to Postgres and let its errors through.
DbPCs == {"start", "context", "complete", "fail", "failFatal"}

\* role -> attempt -> the (ancestor, kind of output) pairs its agent was given
Contexts == [Roles -> [Attempts -> SUBSET (Roles \X {"result", "error"})]]

TypeOK ==
  /\ autoApprove \in BOOLEAN
  /\ recorded \in BOOLEAN
  /\ approved \in BOOLEAN
  /\ rejected \in BOOLEAN
  /\ gate \in {"ahead", "waiting", "open", "shut"}
  /\ step \in [Roles -> {"idle", "creating", "active", "succeeded", "failed"}]
  /\ outcome \in {"open", "completed", "rejected", "expired", "failed"}
  /\ tries \in [Roles -> 0 .. MaxAttempts]
  /\ pc \in [Roles -> [Attempts -> PCs]]
  /\ ctx \in Contexts
  /\ status \in [Roles -> {"absent", "pending", "running", "done", "failed"}]
  /\ output \in [Roles -> {"none", "result", "error"}]
  /\ design \in 0 .. MaxAttempts
  /\ signedOff \in 0 .. MaxAttempts
  /\ faults \in Nat

Init ==
  /\ autoApprove \in BOOLEAN
  /\ recorded = FALSE
  /\ approved = FALSE
  /\ rejected = FALSE
  /\ gate = "ahead"
  /\ step = [r \in Roles |-> "idle"]
  /\ outcome = "open"
  /\ tries = [r \in Roles |-> 0]
  /\ pc = [r \in Roles |-> [a \in Attempts |-> "none"]]
  /\ ctx = [r \in Roles |-> [a \in Attempts |-> {}]]
  /\ status = [r \in Roles |-> "absent"]
  /\ output = [r \in Roles |-> "none"]
  /\ design = 0
  /\ signedOff = 0
  /\ faults = 0

Delivered == {r \in Roles : step[r] = "succeeded"}

Verdict == CASE gate = "open" -> "go"
             [] gate = "shut" -> "stop"
             [] OTHER -> "undecided"

------------------------------------------------------------------------------
(* What GET /projects/{id} tells the human.                                *)

\* _approval_awaiting(status, tasks, approval_state) over one consistent read.
Awaiting ==
  /\ outcome = "open"
  /\ status["architect"] = "done"
  /\ status["se"] = "absent"
  /\ ~approved /\ ~rejected

------------------------------------------------------------------------------
(* The workflow.                                                           *)

CreateProject ==
  /\ outcome = "open" /\ ~recorded
  /\ recorded' = TRUE
  /\ UNCHANGED <<autoApprove, approved, rejected, gate, step, outcome, attemptVars, dbVars, signedOff, faults>>

\* The signals; a closed workflow takes none.
Approve ==
  /\ outcome = "open" /\ ~approved
  /\ approved' = TRUE
  /\ signedOff' = IF Awaiting THEN design ELSE 0
  /\ UNCHANGED <<autoApprove, recorded, rejected, gate, step, outcome, attemptVars, dbVars, faults>>

Reject ==
  /\ outcome = "open" /\ ~rejected
  /\ rejected' = TRUE
  /\ UNCHANGED <<autoApprove, recorded, approved, gate, step, outcome, attemptVars, dbVars, signedOff, faults>>

\* Mutant of Decide: the rejection is not looked at.
DecideApproved == gate' = "open" /\ outcome' = outcome

\* The code after the gate's wait: a rejection wins over an approval.
Decide ==
  /\ gate' = IF rejected THEN "shut" ELSE "open"
  /\ outcome' = IF rejected THEN "rejected" ELSE outcome

\* The architect's answer reaches the workflow: the gate is skipped
\* (auto_approve), passed in the same activation (the human was early), or waited at.
ReachGate ==
  /\ outcome = "open" /\ gate = "ahead"
  /\ Prereqs("se") \subseteq Delivered
  /\ \/ /\ autoApprove
        /\ gate' = "open" /\ outcome' = outcome
     \/ /\ ~autoApprove /\ (approved \/ rejected)
        /\ Decide
     \/ /\ ~autoApprove /\ ~approved /\ ~rejected
        /\ gate' = "waiting" /\ outcome' = outcome
  /\ UNCHANGED <<autoApprove, recorded, approved, rejected, step, attemptVars, dbVars, signedOff, faults>>

\* wait_condition returns.  A second signal may have come in the same activation.
PassGate ==
  /\ outcome = "open" /\ gate = "waiting"
  /\ approved \/ rejected
  /\ Decide
  /\ UNCHANGED <<autoApprove, recorded, approved, rejected, step, attemptVars, dbVars, signedOff, faults>>

\* Mutant of ExpireGate: wait_condition without its timeout.
ExpireGateNever == FALSE /\ UNCHANGED vars

\* The 24 hours are over; the timer may fire in the activation that also
\* carries a signal, and then it is the TimeoutError that is raised.
ExpireGate ==
  /\ outcome = "open" /\ gate = "waiting"
  /\ gate' = "shut" /\ outcome' = "expired"
  /\ UNCHANGED <<autoApprove, recorded, approved, rejected, step, attemptVars, dbVars, signedOff, faults>>

\* Mutant of StartStep: a step waits for its parent task only.
StartStepAfterParent(r) ==
  /\ outcome = "open" /\ recorded
  /\ step[r] = "idle"
  /\ \A q \in Prereqs(r) : Rank[q] = Rank[r] - 1 => q \in Delivered
  /\ r \in PostGate => gate = "open"
  /\ step' = [step EXCEPT ![r] = "creating"]
  /\ UNCHANGED <<autoApprove, recorded, approved, rejected, gate, outcome, attemptVars, dbVars, signedOff, faults>>

\* run_step(r) begins: create_task_record is scheduled.
StartStep(r) ==
  /\ outcome = "open" /\ recorded
  /\ step[r] = "idle"
  /\ Prereqs(r) \subseteq Delivered
  /\ r \in PostGate => gate = "open"
  /\ step' = [step EXCEPT ![r] = "creating"]
  /\ UNCHANGED <<autoApprove, recorded, approved, rejected, gate, outcome, attemptVars, dbVars, signedOff, faults>>

\* The row is inserted and the first attempt of the agent activity scheduled.
\* create_task_record is retried without a cap; the rows its repeats may
\* leave behind are read by nobody and not kept here.
CreateTask(r) ==
  /\ outcome = "open" /\ step[r] = "creating"
  /\ step' = [step EXCEPT ![r] = "active"]
  /\ status' = [status EXCEPT ![r] = "pending"]
  /\ tries' = [tries EXCEPT ![r] = 1]
  /\ pc' = [pc EXCEPT ![r][1] = "start"]
  /\ UNCHANGED <<autoApprove, recorded, approved, rejected, gate, outcome, ctx, output, design, signedOff, faults>>

\* An activity error leaves run() and fails the workflow.
FailWorkflow ==
  /\ outcome = "open"
  /\ \E r \in Roles : step[r] = "failed"
  /\ outcome' = "failed"
  /\ UNCHANGED <<autoApprove, recorded, approved, rejected, gate, step, attemptVars, dbVars, signedOff, faults>>

CompleteWorkflow ==
  /\ outcome = "open" /\ Delivered = Roles
  /\ outcome' = "completed"
  /\ UNCHANGED <<autoApprove, recorded, approved, rejected, gate, step, attemptVars, dbVars, signedOff, faults>>

------------------------------------------------------------------------------
(* One attempt of the agent activity.                                      *)

Fault == faults < MaxFaults /\ faults' = faults + 1

\* The server still waits for attempt a of r.
Listening(r, a) == outcome = "open" /\ step[r] = "active" /\ tries[r] = a

MoveTo(r, a, where) == pc' = [pc EXCEPT ![r][a] = where]

\* The contexts once attempt a of r has no more use for its own.
Dropped(r, a) == [ctx EXCEPT ![r][a] = {}]

MarkRunning(r, a) ==
  /\ pc[r][a] = "start"
  /\ status' = [status EXCEPT ![r] = "running"]
  /\ MoveTo(r, a, "context")
  /\ UNCHANGED <<workflowVars, tries, ctx, output, design, signedOff, faults>>

\* get_ancestor_outputs: every ancestor whose output is not NULL.
AncestorOutputs(r) == {<<q, output[q]>> : q \in {p \in Ancestors(r) : output[p] # "none"}}

FirstRun(r) == IF r = "coder" /\ CoderMode = "oneshot" THEN "oneshot" ELSE "agent"

\* The kNN neighbours that get_context_for_task appends for some roles are
\* advice of the embedding model; only the ancestors are kept.
ReadContext(r, a) ==
  /\ pc[r][a] = "context"
  /\ ctx' = [ctx EXCEPT ![r][a] = AncestorOutputs(r)]
  /\ MoveTo(r, a, FirstRun(r))
  /\ UNCHANGED <<workflowVars, tries, dbVars, signedOff, faults>>

AgentReturns(r, a) ==
  /\ pc[r][a] \in {"agent", "oneshot"}
  /\ MoveTo(r, a, "complete")
  /\ ctx' = Dropped(r, a)
  /\ UNCHANGED <<workflowVars, tries, dbVars, signedOff, faults>>

\* The agentic coder's errors lead to the one-shot coder, every other agent's to fail_task.
AgentRaises(r, a) ==
  /\ Fault
  /\ \/ /\ pc[r][a] = "agent" /\ r = "coder"
        /\ MoveTo(r, a, "oneshot")
        /\ UNCHANGED ctx
     \/ /\ pc[r][a] = IF r = "coder" THEN "oneshot" ELSE "agent"
        /\ \E failing \in {"fail", "failFatal"} : MoveTo(r, a, failing)
        /\ ctx' = Dropped(r, a)
  /\ UNCHANGED <<workflowVars, tries, dbVars, signedOff>>

\* Mutant of CompleteTask: the UPDATE leaves the status alone.
CompleteTaskOutputOnly(r, a) ==
  /\ pc[r][a] = "complete"
  /\ output' = [output EXCEPT ![r] = "result"]
  /\ design' = IF r = "architect" THEN a ELSE design
  /\ MoveTo(r, a, "embed")
  /\ UNCHANGED <<workflowVars, tries, ctx, status, signedOff, faults>>

\* complete_task and fail_task update the row whatever its status is.
CompleteTask(r, a) ==
  /\ pc[r][a] = "complete"
  /\ status' = [status EXCEPT ![r] = "done"]
  /\ output' = [output EXCEPT ![r] = "result"]
  /\ design' = IF r = "architect" THEN a ELSE design
  /\ MoveTo(r, a, "embed")
  /\ UNCHANGED <<workflowVars, tries, ctx, signedOff, faults>>

\* Mutant of FailTask: the failed row's output is set to NULL.
FailTaskClears(r, a) ==
  /\ pc[r][a] \in {"fail", "failFatal"}
  /\ status' = [status EXCEPT ![r] = "failed"]
  /\ output' = [output EXCEPT ![r] = "none"]
  /\ design' = IF r = "architect" THEN 0 ELSE design
  /\ MoveTo(r, a, IF pc[r][a] = "fail" THEN "raise" ELSE "raiseFatal")
  /\ UNCHANGED <<workflowVars, tries, ctx, signedOff, faults>>

\* Mutant of FailTask: the except block does not re-raise.
FailTaskSwallows(r, a) ==
  /\ pc[r][a] \in {"fail", "failFatal"}
  /\ status' = [status EXCEPT ![r] = "failed"]
  /\ output' = [output EXCEPT ![r] = "error"]
  /\ design' = IF r = "architect" THEN 0 ELSE design
  /\ MoveTo(r, a, "return")
  /\ UNCHANGED <<workflowVars, tries, ctx, signedOff, faults>>

FailTask(r, a) ==
  /\ pc[r][a] \in {"fail", "failFatal"}
  /\ status' = [status EXCEPT ![r] = "failed"]
  /\ output' = [output EXCEPT ![r] = "error"]
  /\ design' = IF r = "architect" THEN 0 ELSE design
  /\ MoveTo(r, a, IF pc[r][a] = "fail" THEN "raise" ELSE "raiseFatal")
  /\ UNCHANGED <<workflowVars, tries, ctx, signedOff, faults>>

\* Best effort: its failures are swallowed, and the row is complete already.
EmbedOutput(r, a) ==
  /\ pc[r][a] = "embed"
  /\ MoveTo(r, a, "return")
  /\ UNCHANGED <<workflowVars, tries, ctx, dbVars, signedOff, faults>>

\* Mutant of Return: the answer of an attempt the server gave up on counts.
ReturnUnasked(r, a) ==
  /\ pc[r][a] = "return"
  /\ MoveTo(r, a, "gone")
  /\ step' = [step EXCEPT ![r] = "succeeded"]
  /\ UNCHANGED <<autoApprove, recorded, approved, rejected, gate, outcome, tries, ctx, dbVars, signedOff, faults>>

Return(r, a) ==
  /\ pc[r][a] = "return"
  /\ MoveTo(r, a, "gone")
  /\ step' = IF Listening(r, a) THEN [step EXCEPT ![r] = "succeeded"] ELSE step
  /\ UNCHANGED <<autoApprove, recorded, approved, rejected, gate, outcome, tries, ctx, dbVars, signedOff, faults>>

\* Mutant of NextAttempt: a policy without maximum_attempts.
NextAttemptUncapped(r, a, retryable, left) ==
  IF retryable
  THEN /\ tries' = [tries EXCEPT ![r] = a + 1]
       /\ pc' = [pc EXCEPT ![r][a] = left, ![r][a + 1] = "start"]
       /\ UNCHANGED step
  ELSE /\ step' = [step EXCEPT ![r] = "failed"]
       /\ MoveTo(r, a, left)
       /\ UNCHANGED tries

\* Temporal's answer to a failed attempt: the next one, or the activity fails.
NextAttempt(r, a, retryable, left) ==
  IF retryable /\ a < MaxAttempts
  THEN /\ tries' = [tries EXCEPT ![r] = a + 1]
       /\ pc' = [pc EXCEPT ![r][a] = left, ![r][a + 1] = "start"]
       /\ UNCHANGED step
  ELSE /\ step' = [step EXCEPT ![r] = "failed"]
       /\ MoveTo(r, a, left)
       /\ UNCHANGED tries

Raise(r, a) ==
  /\ pc[r][a] \in {"raise", "raiseFatal"}
  /\ IF Listening(r, a)
     THEN NextAttempt(r, a, pc[r][a] = "raise", "gone")
     ELSE MoveTo(r, a, "gone") /\ UNCHANGED <<tries, step>>
  /\ UNCHANGED <<autoApprove, recorded, approved, rejected, gate, outcome, ctx, dbVars, signedOff, faults>>

------------------------------------------------------------------------------
(* What goes wrong around an attempt.                                      *)

\* Mutant of DbError: complete_task's error is swallowed like the embedding's.
DbErrorSwallowed(r, a) ==
  /\ Fault
  /\ pc[r][a] \in DbPCs
  /\ MoveTo(r, a, IF pc[r][a] = "complete" THEN "return" ELSE "raise")
  /\ ctx' = Dropped(r, a)
  /\ UNCHANGED <<workflowVars, tries, dbVars, signedOff>>

\* The Postgres statement raises; its error is not one of the types never retried.
DbError(r, a) ==
  /\ Fault
  /\ pc[r][a] \in DbPCs
  /\ MoveTo(r, a, "raise")
  /\ ctx' = Dropped(r, a)
  /\ UNCHANGED <<workflowVars, tries, dbVars, signedOff>>

\* The worker dies, before or after its last write, without telling anybody.
Crash(r, a) ==
  /\ Fault
  /\ pc[r][a] \in LivePCs
  /\ MoveTo(r, a, "gone")
  /\ ctx' = Dropped(r, a)
  /\ UNCHANGED <<workflowVars, tries, dbVars, signedOff>>

\* The heartbeats of a dead attempt stay away.
Expire(r, a) ==
  /\ Listening(r, a) /\ pc[r][a] = "gone"
  /\ NextAttempt(r, a, TRUE, "gone")
  /\ UNCHANGED <<autoApprove, recorded, approved, rejected, gate, outcome, ctx, dbVars, signedOff, faults>>

\* A live attempt is too slow for start_to_close or too busy to heartbeat.
TimeOut(r, a) ==
  /\ Fault
  /\ Listening(r, a) /\ pc[r][a] \in LivePCs
  /\ \/ Overlap /\ NextAttempt(r, a, TRUE, pc[r][a]) /\ UNCHANGED ctx
     \/ NextAttempt(r, a, TRUE, "gone") /\ ctx' = Dropped(r, a)
  /\ UNCHANGED <<autoApprove, recorded, approved, rejected, gate, outcome, dbVars, signedOff>>

\* The cancellation of an attempt nobody waits for is delivered.
Cancel(r, a) ==
  /\ ~Listening(r, a) /\ pc[r][a] \in LivePCs
  /\ MoveTo(r, a, "gone")
  /\ ctx' = Dropped(r, a)
  /\ UNCHANGED <<workflowVars, tries, dbVars, signedOff, faults>>

------------------------------------------------------------------------------
Signal == Approve \/ Reject

Workflow ==
  \/ CreateProject
  \/ ReachGate
  \/ PassGate
  \/ ExpireGate
  \/ \E r \in Roles : StartStep(r)
  \/ \E r \in Roles : CreateTask(r)
  \/ FailWorkflow
  \/ CompleteWorkflow

\* What a healthy attempt, and the server that watches it, does next.
Activity(r, a) ==
  \/ MarkRunning(r, a)
  \/ ReadContext(r, a)
  \/ AgentReturns(r, a)
  \/ CompleteTask(r, a)
  \/ FailTask(r, a)
  \/ EmbedOutput(r, a)
  \/ Return(r, a)
  \/ Raise(r, a)
  \/ Expire(r, a)

Trouble(r, a) ==
  \/ AgentRaises(r, a)
  \/ DbError(r, a)
  \/ Crash(r, a)
  \/ TimeOut(r, a)
  \/ Cancel(r, a)

\* The workflow has ended and its attempts are over.
Ended ==
  /\ outcome # "open"
  /\ \A r \in Roles, a \in Attempts : pc[r][a] \notin LivePCs
  /\ UNCHANGED vars

Next ==
  \/ Signal
  \/ Workflow
  \/ \E r \in Roles, a \in Attempts : Activity(r, a) \/ Trouble(r, a)
  \/ Ended

Spec == Init /\ [][Next]_vars

\* Temporal and the workers keep going; the human and the faults need not come.
Fairness ==
  /\ WF_vars(Workflow)
  /\ \A r \in Roles, a \in Attempts : WF_vars(Activity(r, a))

FairSpec == Spec /\ Fairness

------------------------------------------------------------------------------
(* Properties.                                                             *)

\* No row of a step behind the gate exists unless the gate was opened by the
\* caller's auto_approve or by a human's approval: rejected, expired or still
\* undecided projects never spend on planning, review or code (project.py's gate).
GateHolds ==
  \A r \in PostGate :
    status[r] # "absent" => gate = "open" /\ (autoApprove \/ approved)

\* An agent at work was given the output of every ancestor: whatever late
\* attempts do to the ancestors' rows, get_ancestor_outputs never skips one.
ContextComplete ==
  \A r \in Roles, a \in Attempts :
    pc[r][a] \in {"agent", "oneshot"} =>
      \A q \in Ancestors(r) : \E c \in ctx[r][a] : c[1] = q

\* ... and none of these outputs is the {"error": ...} of a failed attempt: what
\* get_ancestor_outputs hands over are "completed ancestor outputs" (db.py).
AncestorsCompleted ==
  \A r \in Roles, a \in Attempts :
    \A c \in ctx[r][a] : c[1] \in Ancestors(r) => c[2] = "result"

\* When the workflow reports the project approved and complete, the dashboard's
\* eight rows say so too (ProjectOutput against tasks.status and tasks.output).
CompletedRowsDone ==
  outcome = "completed" =>
    \A r \in Roles : status[r] = "done" /\ output[r] = "result"

\* A workflow that waits for its human shows the approval prompt: nobody else
\* can end the wait before the 24 hours are over.
WaitIsShown ==
  outcome = "open" /\ gate = "waiting" /\ ~approved /\ ~rejected => Awaiting

\* "Human signed off -- continue from the gate": what is built is the design the
\* human was shown when GET /projects/{id} said the project was "paused at the
\* approval gate" and the approval was given.
SignedOffIsBuilt ==
  gate = "open" /\ ~autoApprove /\ signedOff # 0 => design = signedOff

------------------------------------------------------------------------------
(* The inductive invariant behind GateHolds, ContextComplete and Implements. *)

\* The gate is open because somebody opened it, and the architect's design was there.
GateJustified ==
  /\ gate = "open" => autoApprove \/ approved
  /\ gate # "ahead" => \A q \in Prereqs("se") : step[q] = "succeeded"

\* A step has begun only after all it waits for.
StepsInOrder ==
  \A r \in Roles : step[r] # "idle" =>
    /\ \A q \in Prereqs(r) : step[q] = "succeeded"
    /\ r \in PostGate => gate = "open"

\* Rows and attempts belong to steps whose task has been created.
WorkIsStarted ==
  \A r \in Roles :
    /\ status[r] # "absent" => step[r] \notin {"idle", "creating"}
    /\ \A a \in Attempts : pc[r][a] # "none" => step[r] \notin {"idle", "creating"}

\* An attempt that is past complete_task, and a step that has succeeded, left an output.
OutputKept ==
  \A r \in Roles :
    /\ step[r] = "succeeded" => output[r] # "none"
    /\ \A a \in Attempts : pc[r][a] \in {"embed", "return"} => output[r] # "none"

\* Everything the safety of the pipeline rests on: ordered steps, a justified gate,
\* rows and attempts only for begun steps, outputs that are never lost.
Inv == TypeOK /\ GateJustified /\ StepsInOrder /\ WorkIsStarted /\ OutputKept /\ ContextComplete

------------------------------------------------------------------------------
\* The eight agents deliver in the pipeline's order, nothing behind the gate before
\* it is open, one ending per project: the promise of ProjectPipeline.
Pipeline == INSTANCE ProjectPipeline WITH
  delivered <- Delivered,
  verdict <- Verdict,
  ending <- outcome

Implements == Pipeline!PipelineSpec

\* Every project ends: capped retries, heartbeats and the gate's timer leave no
\* error, crash or absent human that could hold a workflow open for ever.
Terminates == <>(outcome # "open")

==============================================================================
