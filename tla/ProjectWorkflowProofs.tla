------------------------ MODULE ProjectWorkflowProofs ------------------------
(***************************************************************************)
(* Proofs about ProjectWorkflow: type correctness, the approval gate, the  *)
(* context of every agent, and the refinement of ProjectPipeline, for any  *)
(* retry cap, any number of faults, and attempts that overlap or do not;   *)
(* then what the rows of the tasks table say when they do not.             *)
(***************************************************************************)
EXTENDS ProjectWorkflow, TLAPS

\* Ranks are integers, and the agents named in the proofs are roles.
LEMMA RankFacts ==
  /\ \A r \in Roles : Rank[r] \in Int
  /\ "se" \in Roles /\ "architect" \in Roles
BY DEF Roles, Rank

\* Every ancestor of an agent is one of the steps awaited before it starts.
LEMMA AncestorsArePrereqs ==
  ASSUME NEW r \in Roles
  PROVE  Ancestors(r) \subseteq Prereqs(r)
BY RankFacts DEF Ancestors, Prereqs

------------------------------------------------------------------------------
\* Whatever the server does about a failed attempt, the attempts keep their types.
LEMMA NextAttemptType ==
  ASSUME TypeOK, NEW r \in Roles, NEW a \in Attempts, NEW left \in PCs, NEW retryable \in BOOLEAN,
         NextAttempt(r, a, retryable, left)
  PROVE  /\ tries' \in [Roles -> 0 .. MaxAttempts]
         /\ pc' \in [Roles -> [Attempts -> PCs]]
         /\ step' \in [Roles -> {"idle", "creating", "active", "succeeded", "failed"}]
<1> USE MaxAttemptsAssumption DEF Attempts
<1>1. CASE retryable /\ a < MaxAttempts
  <2>1. /\ tries' = [tries EXCEPT ![r] = a + 1]
        /\ pc' = [pc EXCEPT ![r][a] = left, ![r][a + 1] = "start"]
        /\ UNCHANGED step
    BY <1>1 DEF NextAttempt
  <2>2. a + 1 \in 1 .. MaxAttempts /\ a + 1 \in 0 .. MaxAttempts /\ "start" \in PCs
    BY <1>1 DEF PCs, LivePCs
  <2> QED BY <2>1, <2>2 DEF TypeOK
<1>2. CASE ~(retryable /\ a < MaxAttempts)
  <2>1. /\ tries' = tries
        /\ pc' = [pc EXCEPT ![r][a] = left]
        /\ step' = [step EXCEPT ![r] = "failed"]
    BY <1>2 DEF NextAttempt, MoveTo
  <2> QED BY <2>1 DEF TypeOK
<1> QED BY <1>1, <1>2

\* Forgetting an attempt's context keeps the contexts' type.
LEMMA DroppedContextType ==
  ASSUME TypeOK, NEW r \in Roles, NEW a \in Attempts
  PROVE  Dropped(r, a) \in Contexts
BY DEF TypeOK, Contexts, Dropped

\* The initial state is well typed.
LEMMA TypeInit == Init => TypeOK
<1> SUFFICES ASSUME Init PROVE TypeOK
  OBVIOUS
<1>1. pc \in [Roles -> [Attempts -> PCs]]
  BY DEF Init, PCs
<1>2. ctx \in Contexts
  BY DEF Init, Contexts
<1>3. 0 \in 0 .. MaxAttempts
  BY MaxAttemptsAssumption
<1> QED BY <1>1, <1>2, <1>3 DEF Init, TypeOK

\* Every step of the workflow, its attempts and its faults keeps the types.
LEMMA TypeStep == TypeOK /\ [Next]_vars => TypeOK'
<1> SUFFICES ASSUME TypeOK, [Next]_vars PROVE TypeOK'
  OBVIOUS
<1> USE MaxAttemptsAssumption, MaxFaultsAssumption DEF TypeOK
<1>1. CASE Signal
  <2>1. CASE Approve
    <3>1. signedOff' = design \/ signedOff' = 0
      BY <2>1 DEF Approve
    <3> QED BY <2>1, <3>1 DEF Approve, attemptVars, dbVars
  <2>2. CASE Reject
    BY <2>2 DEF Reject, attemptVars, dbVars
  <2> QED BY <1>1, <2>1, <2>2 DEF Signal
<1>2. CASE Workflow
  <2>1. CASE CreateProject
    BY <2>1 DEF CreateProject, attemptVars, dbVars
  <2>2. CASE ReachGate
    BY <2>2 DEF ReachGate, Decide, attemptVars, dbVars
  <2>3. CASE PassGate
    BY <2>3 DEF PassGate, Decide, attemptVars, dbVars
  <2>4. CASE ExpireGate
    BY <2>4 DEF ExpireGate, attemptVars, dbVars
  <2>5. ASSUME NEW r \in Roles, StartStep(r) PROVE TypeOK'
    BY <2>5 DEF StartStep, attemptVars, dbVars
  <2>6. ASSUME NEW r \in Roles, CreateTask(r) PROVE TypeOK'
    BY <2>6 DEF CreateTask, PCs, LivePCs, Attempts
  <2>7. CASE FailWorkflow
    BY <2>7 DEF FailWorkflow, attemptVars, dbVars
  <2>8. CASE CompleteWorkflow
    BY <2>8 DEF CompleteWorkflow, attemptVars, dbVars
  <2> QED BY <1>2, <2>1, <2>2, <2>3, <2>4, <2>5, <2>6, <2>7, <2>8 DEF Workflow
<1>3. ASSUME NEW r \in Roles, NEW a \in Attempts, Activity(r, a) PROVE TypeOK'
  <2>1. CASE MarkRunning(r, a)
    BY <2>1 DEF MarkRunning, MoveTo, workflowVars, PCs, LivePCs
  <2>2. CASE ReadContext(r, a)
    <3>1. AncestorOutputs(r) \in SUBSET (Roles \X {"result", "error"})
      BY DEF AncestorOutputs, Ancestors
    <3>2. FirstRun(r) \in PCs
      BY DEF FirstRun, PCs, LivePCs
    <3>3. ctx' \in Contexts
      BY <2>2, <3>1 DEF ReadContext, Contexts
    <3> QED BY <2>2, <3>2, <3>3 DEF ReadContext, MoveTo, workflowVars, dbVars
  <2>3. CASE AgentReturns(r, a)
    BY <2>3, DroppedContextType DEF AgentReturns, MoveTo, workflowVars, dbVars, PCs, LivePCs
  <2>4. CASE CompleteTask(r, a)
    BY <2>4 DEF CompleteTask, MoveTo, workflowVars, PCs, LivePCs, Attempts
  <2>5. CASE FailTask(r, a)
    BY <2>5 DEF FailTask, MoveTo, workflowVars, PCs, LivePCs
  <2>6. CASE EmbedOutput(r, a)
    BY <2>6 DEF EmbedOutput, MoveTo, workflowVars, dbVars, PCs, LivePCs
  <2>7. CASE Return(r, a)
    BY <2>7 DEF Return, MoveTo, dbVars, PCs, LivePCs
  <2>8. CASE Raise(r, a)
    <3>1. CASE Listening(r, a)
      <4>1. NextAttempt(r, a, pc[r][a] = "raise", "gone") /\ "gone" \in PCs
        BY <2>8, <3>1 DEF Raise, PCs
      <4> QED BY <2>8, <4>1, NextAttemptType DEF Raise, dbVars
    <3>2. CASE ~Listening(r, a)
      <4>1. pc' = [pc EXCEPT ![r][a] = "gone"] /\ UNCHANGED <<tries, step>>
        BY <2>8, <3>2 DEF Raise, MoveTo
      <4> QED BY <2>8, <4>1 DEF Raise, dbVars, PCs
    <3> QED BY <3>1, <3>2
  <2>9. CASE Expire(r, a)
    <3>1. NextAttempt(r, a, TRUE, "gone") /\ "gone" \in PCs
      BY <2>9 DEF Expire, PCs
    <3> QED BY <2>9, <3>1, NextAttemptType DEF Expire, dbVars
  <2> QED BY <1>3, <2>1, <2>2, <2>3, <2>4, <2>5, <2>6, <2>7, <2>8, <2>9 DEF Activity
<1>4. ASSUME NEW r \in Roles, NEW a \in Attempts, Trouble(r, a) PROVE TypeOK'
  <2>1. CASE AgentRaises(r, a)
    <3>1. \E where \in PCs : pc' = [pc EXCEPT ![r][a] = where]
      BY <2>1 DEF AgentRaises, MoveTo, PCs, LivePCs
    <3>2. ctx' = ctx \/ ctx' = Dropped(r, a)
      BY <2>1 DEF AgentRaises
    <3>3. /\ pc' \in [Roles -> [Attempts -> PCs]]
          /\ ctx' \in Contexts
      BY <3>1, <3>2, DroppedContextType
    <3> QED BY <2>1, <3>3 DEF AgentRaises, Fault, workflowVars, dbVars
  <2>2. CASE DbError(r, a)
    BY <2>2, DroppedContextType DEF DbError, Fault, MoveTo, workflowVars, dbVars, PCs, LivePCs
  <2>3. CASE Crash(r, a)
    BY <2>3, DroppedContextType DEF Crash, Fault, MoveTo, workflowVars, dbVars, PCs, LivePCs
  <2>4. CASE TimeOut(r, a)
    <3>1. pc[r][a] \in PCs /\ "gone" \in PCs
      BY DEF PCs
    <3>2. NextAttempt(r, a, TRUE, pc[r][a]) \/ NextAttempt(r, a, TRUE, "gone")
      BY <2>4 DEF TimeOut
    <3>3. /\ tries' \in [Roles -> 0 .. MaxAttempts]
          /\ pc' \in [Roles -> [Attempts -> PCs]]
          /\ step' \in [Roles -> {"idle", "creating", "active", "succeeded", "failed"}]
      BY <3>1, <3>2, NextAttemptType
    <3>4. ctx' = ctx \/ ctx' = Dropped(r, a)
      BY <2>4 DEF TimeOut
    <3>5. ctx' \in Contexts
      BY <3>4, DroppedContextType
    <3>6. /\ UNCHANGED <<autoApprove, recorded, approved, rejected, gate, outcome, signedOff>>
          /\ UNCHANGED <<status, output, design>>
          /\ faults' \in Nat
      BY <2>4 DEF TimeOut, Fault, dbVars
    <3> QED BY <3>3, <3>5, <3>6
  <2>5. CASE Cancel(r, a)
    BY <2>5, DroppedContextType DEF Cancel, MoveTo, workflowVars, dbVars, PCs, LivePCs
  <2> QED BY <1>4, <2>1, <2>2, <2>3, <2>4, <2>5 DEF Trouble
<1>5. CASE Ended
  BY <1>5 DEF Ended, vars, workflowVars, attemptVars, dbVars
<1>6. CASE UNCHANGED vars
  BY <1>6 DEF vars, workflowVars, attemptVars, dbVars
<1> QED BY <1>1, <1>2, <1>3, <1>4, <1>5, <1>6 DEF Next

\* Every variable keeps its type for ever: the retry cap, the gate, the rows.
THEOREM TypeCorrect == Spec => []TypeOK
BY TypeInit, TypeStep, PTL DEF Spec

------------------------------------------------------------------------------
(* The inductive invariant.                                                *)

\* What a step of attempt a of r may change, whichever step it is: the workflow
\* learns at most that the active r succeeded or failed, an output is never lost,
\* and only r's row and r's attempts are touched.
LEMMA AttemptEffect ==
  ASSUME TypeOK, NEW r \in Roles, NEW a \in Attempts, Activity(r, a) \/ Trouble(r, a)
  PROVE  /\ UNCHANGED <<autoApprove, recorded, approved, rejected, gate, outcome>>
         /\ pc[r][a] # "none"
         /\ \A q \in Roles : \/ step'[q] = step[q]
                             \/ q = r /\ step[q] = "active" /\ step'[q] = "failed"
                             \/ /\ q = r /\ step[q] = "active" /\ step'[q] = "succeeded"
                                /\ outcome = "open" /\ pc[r][a] = "return"
         /\ \A q \in Roles : (step'[q] # "idle" /\ step'[q] # "creating") \/ step'[q] = step[q]
         /\ \A q \in Roles : q # r => status'[q] = status[q]
         /\ \A q \in Roles : output'[q] = output[q] \/ output'[q] # "none"
         /\ \A q \in Roles, b \in Attempts : q # r => pc'[q][b] = pc[q][b]
         /\ \A q \in Roles, b \in Attempts :
              pc'[q][b] \in {"embed", "return"} =>
                pc[q][b] \in {"embed", "return"} \/ output'[q] # "none"
         /\ \A q \in Roles, b \in Attempts :
              pc'[q][b] \in {"agent", "oneshot"} =>
                \/ pc[q][b] \in {"agent", "oneshot"} /\ ctx'[q][b] = ctx[q][b]
                \/ q = r /\ b = a /\ ctx'[q][b] = AncestorOutputs(q)
<1> USE DEF TypeOK
<1>1. CASE MarkRunning(r, a)
  BY <1>1 DEF MarkRunning, MoveTo, workflowVars
<1>2. CASE ReadContext(r, a)
  <2>1. \A q \in Roles, b \in Attempts :
          /\ pc'[q][b] = IF q = r /\ b = a THEN FirstRun(r) ELSE pc[q][b]
          /\ ctx'[q][b] = IF q = r /\ b = a THEN AncestorOutputs(r) ELSE ctx[q][b]
    BY <1>2 DEF ReadContext, MoveTo, Contexts
  <2>2. FirstRun(r) \in {"agent", "oneshot"}
    BY DEF FirstRun
  <2>3. /\ UNCHANGED <<autoApprove, recorded, approved, rejected, gate, outcome, step, status, output>>
        /\ pc[r][a] # "none"
    BY <1>2 DEF ReadContext, workflowVars, dbVars
  <2> QED BY <2>1, <2>2, <2>3
<1>3. CASE AgentReturns(r, a)
  BY <1>3 DEF AgentReturns, MoveTo, workflowVars, dbVars, Contexts, Dropped
<1>4. CASE CompleteTask(r, a)
  BY <1>4 DEF CompleteTask, MoveTo, workflowVars
<1>5. CASE FailTask(r, a)
  BY <1>5 DEF FailTask, MoveTo, workflowVars
<1>6. CASE EmbedOutput(r, a)
  BY <1>6 DEF EmbedOutput, MoveTo, workflowVars, dbVars
<1>7. CASE Return(r, a)
  BY <1>7 DEF Return, MoveTo, dbVars, Listening
<1>8. CASE Raise(r, a)
  BY <1>8 DEF Raise, NextAttempt, MoveTo, dbVars, Listening
<1>9. CASE Expire(r, a)
  BY <1>9 DEF Expire, NextAttempt, MoveTo, dbVars, Listening
<1>10. CASE AgentRaises(r, a)
  <2>1. CASE r = "coder" /\ pc[r][a] = "agent"
    <3>1. pc' = [pc EXCEPT ![r][a] = "oneshot"] /\ ctx' = ctx
      BY <1>10, <2>1 DEF AgentRaises, MoveTo
    <3> QED BY <1>10, <2>1, <3>1 DEF AgentRaises, workflowVars, dbVars
  <2>2. CASE ~(r = "coder" /\ pc[r][a] = "agent")
    <3>1. PICK failing \in {"fail", "failFatal"} : pc' = [pc EXCEPT ![r][a] = failing]
      BY <1>10, <2>2 DEF AgentRaises, MoveTo
    <3>2. ctx' = Dropped(r, a) /\ pc[r][a] # "none"
      BY <1>10, <2>2 DEF AgentRaises
    <3>3. \A q \in Roles, b \in Attempts :
            /\ pc'[q][b] = IF q = r /\ b = a THEN failing ELSE pc[q][b]
            /\ ~(q = r /\ b = a) => ctx'[q][b] = ctx[q][b]
      BY <3>1, <3>2 DEF Dropped, Contexts
    <3> QED BY <1>10, <3>2, <3>3 DEF AgentRaises, workflowVars, dbVars
  <2> QED BY <2>1, <2>2
<1>11. CASE DbError(r, a)
  BY <1>11 DEF DbError, DbPCs, MoveTo, workflowVars, dbVars, Contexts, Dropped
<1>12. CASE Crash(r, a)
  BY <1>12 DEF Crash, LivePCs, MoveTo, workflowVars, dbVars, Contexts, Dropped
<1>13. CASE TimeOut(r, a)
  <2>1. /\ UNCHANGED <<autoApprove, recorded, approved, rejected, gate, outcome, status, output>>
        /\ step[r] = "active" /\ pc[r][a] # "none"
        /\ pc[r][a] \in PCs /\ "gone" \in PCs
    BY <1>13 DEF TimeOut, LivePCs, PCs, Listening, dbVars
  <2>2. CASE NextAttempt(r, a, TRUE, pc[r][a]) /\ ctx' = ctx
    <3>1. /\ \A q \in Roles : step'[q] = step[q] \/ (q = r /\ step'[q] = "failed")
          /\ \A q \in Roles, b \in Attempts :
               pc'[q][b] = pc[q][b] \/ (q = r /\ pc'[q][b] = "start")
      BY <2>2 DEF NextAttempt, MoveTo
    <3>2. \A q \in Roles, b \in Attempts : ctx'[q][b] = ctx[q][b]
      BY <2>2
    <3> HIDE DEF TypeOK
    <3>3. \A q \in Roles, b \in Attempts :
            pc'[q][b] \in {"embed", "return", "agent", "oneshot"} => pc'[q][b] = pc[q][b]
      BY <3>1
    <3>4. \A q \in Roles, b \in Attempts : q # r => pc'[q][b] = pc[q][b]
      BY <3>1
    <3>5. \A q \in Roles : step'[q] = step[q] \/ (q = r /\ step[q] = "active" /\ step'[q] = "failed")
      BY <2>1, <3>1
    <3>6. \A q \in Roles, b \in Attempts :
            /\ pc'[q][b] \in {"embed", "return"} => pc[q][b] \in {"embed", "return"}
            /\ pc'[q][b] \in {"agent", "oneshot"} => pc[q][b] \in {"agent", "oneshot"} /\ ctx'[q][b] = ctx[q][b]
      BY <3>2, <3>3
    <3>7. \A q \in Roles : status'[q] = status[q] /\ output'[q] = output[q]
      BY <2>1
    <3> QED BY <2>1, <3>4, <3>5, <3>6, <3>7
  <2>3. CASE NextAttempt(r, a, TRUE, "gone") /\ ctx' = Dropped(r, a)
    <3>1. /\ \A q \in Roles : step'[q] = step[q] \/ (q = r /\ step'[q] = "failed")
          /\ \A q \in Roles, b \in Attempts :
               IF q = r /\ b = a THEN pc'[q][b] = "gone"
               ELSE pc'[q][b] = pc[q][b] \/ (q = r /\ pc'[q][b] = "start")
      BY <2>3 DEF NextAttempt, MoveTo
    <3>2. \A q \in Roles, b \in Attempts : ~(q = r /\ b = a) => ctx'[q][b] = ctx[q][b]
      BY <2>3 DEF Dropped, Contexts
    <3> QED BY <2>1, <3>1, <3>2
  <2> QED BY <1>13, <2>2, <2>3 DEF TimeOut
<1>14. CASE Cancel(r, a)
  BY <1>14 DEF Cancel, LivePCs, MoveTo, workflowVars, dbVars, Contexts, Dropped
<1> QED
  BY <1>1, <1>2, <1>3, <1>4, <1>5, <1>6, <1>7, <1>8, <1>9, <1>10, <1>11, <1>12, <1>13, <1>14
  DEF Activity, Trouble

\* Nothing has begun: the invariant holds.
LEMMA InvInit == Init => Inv
<1> SUFFICES ASSUME Init PROVE Inv
  OBVIOUS
<1>1. TypeOK
  BY TypeInit
<1>2. \A r \in Roles, a \in Attempts : pc[r][a] = "none" /\ step[r] = "idle" /\ status[r] = "absent"
  BY DEF Init
<1>3. gate = "ahead"
  BY DEF Init
<1> QED
  BY <1>1, <1>2, <1>3 DEF Inv, GateJustified, StepsInOrder, WorkIsStarted, OutputKept, ContextComplete, Init

\* The signals and the workflow's own steps keep the invariant.
LEMMA WorkflowKeepsInv ==
  ASSUME Inv, TypeOK', Signal \/ Workflow
  PROVE  Inv'
<1> USE DEF Inv, TypeOK
<1>1. CASE Signal
  BY <1>1 DEF Signal, Approve, Reject, attemptVars, dbVars,
    GateJustified, StepsInOrder, WorkIsStarted, OutputKept, ContextComplete
<1>2. CASE CreateProject \/ FailWorkflow \/ CompleteWorkflow
  BY <1>2 DEF CreateProject, FailWorkflow, CompleteWorkflow, attemptVars, dbVars,
    GateJustified, StepsInOrder, WorkIsStarted, OutputKept, ContextComplete
<1>3. CASE ReachGate \/ PassGate \/ ExpireGate
  <2>1. /\ UNCHANGED <<autoApprove, approved, step, status, output, pc, ctx>>
        /\ gate # "open" /\ gate' # "ahead"
        /\ gate' = "open" => autoApprove \/ approved
    BY <1>3 DEF ReachGate, PassGate, ExpireGate, Decide, attemptVars, dbVars
  <2>2. \A q \in Prereqs("se") : step[q] = "succeeded"
    BY <1>3 DEF ReachGate, PassGate, ExpireGate, Delivered, GateJustified, Prereqs
  <2> QED
    BY <2>1, <2>2 DEF GateJustified, StepsInOrder, WorkIsStarted, OutputKept, ContextComplete
<1>4. ASSUME NEW r \in Roles, StartStep(r) PROVE Inv'
  <2>1. /\ UNCHANGED <<autoApprove, approved, gate, status, output, pc, ctx>>
        /\ step[r] = "idle" /\ step'[r] = "creating"
        /\ \A q \in Roles : q # r => step'[q] = step[q]
        /\ r \in PostGate => gate = "open"
    BY <1>4 DEF StartStep, attemptVars, dbVars
  <2>2. \A q \in Prereqs(r) : step[q] = "succeeded"
    BY <1>4 DEF StartStep, Delivered
  <2>3. \A q \in Roles : step[q] = "succeeded" => step'[q] = "succeeded"
    BY <2>1
  <2>4. \A q \in Roles : Prereqs(q) \subseteq Roles
    BY DEF Prereqs
  <2>5. GateJustified' /\ StepsInOrder'
    BY <2>1, <2>2, <2>3, <2>4, RankFacts DEF GateJustified, StepsInOrder
  <2>6. WorkIsStarted' /\ OutputKept' /\ ContextComplete'
    BY <2>1 DEF WorkIsStarted, OutputKept, ContextComplete
  <2> QED BY <2>5, <2>6
<1>5. ASSUME NEW r \in Roles, CreateTask(r) PROVE Inv'
  <2> USE MaxAttemptsAssumption DEF Attempts
  <2>1. /\ UNCHANGED <<autoApprove, approved, gate, output, ctx>>
        /\ step[r] = "creating" /\ step'[r] = "active"
        /\ \A q \in Roles : q # r => step'[q] = step[q] /\ status'[q] = status[q]
        /\ \A q \in Roles, b \in Attempts : pc'[q][b] = pc[q][b] \/ (q = r /\ pc'[q][b] = "start")
    BY <1>5 DEF CreateTask
  <2>2. \A q \in Roles : step[q] = "succeeded" => step'[q] = "succeeded"
    BY <2>1
  <2>3. \A q \in Roles : Prereqs(q) \subseteq Roles
    BY DEF Prereqs
  <2>4. GateJustified' /\ StepsInOrder'
    BY <2>1, <2>2, <2>3, RankFacts DEF GateJustified, StepsInOrder
  <2>5. WorkIsStarted'
    <3> SUFFICES ASSUME NEW q \in Roles
                 PROVE  /\ status'[q] # "absent" => step'[q] \notin {"idle", "creating"}
                        /\ \A b \in Attempts : pc'[q][b] # "none" => step'[q] \notin {"idle", "creating"}
      BY DEF WorkIsStarted
    <3>1. CASE q = r
      BY <2>1, <3>1
    <3>2. CASE q # r
      BY <2>1, <3>2 DEF WorkIsStarted
    <3> QED BY <3>1, <3>2
  <2>6. \A q \in Roles, b \in Attempts :
          pc'[q][b] \in {"embed", "return", "agent", "oneshot"} => pc'[q][b] = pc[q][b]
    BY <2>1
  <2>7. \A q \in Roles : step'[q] = "succeeded" => step[q] = "succeeded"
    BY <2>1
  <2>8. OutputKept'
    BY <2>1, <2>6, <2>7 DEF OutputKept
  <2>9. ContextComplete'
    <3> HIDE DEF TypeOK
    <3>1. ctx' = ctx
      BY <2>1
    <3> QED BY <2>6, <3>1 DEF ContextComplete
  <2> QED BY <2>4, <2>5, <2>8, <2>9
<1> QED BY <1>1, <1>2, <1>3, <1>4, <1>5 DEF Workflow

\* What an attempt does, and what happens to it, keeps the invariant.
LEMMA AttemptKeepsInv ==
  ASSUME Inv, TypeOK', NEW r \in Roles, NEW a \in Attempts, Activity(r, a) \/ Trouble(r, a)
  PROVE  Inv'
<1> DEFINE effect ==
  /\ UNCHANGED <<autoApprove, recorded, approved, rejected, gate, outcome>>
  /\ pc[r][a] # "none"
  /\ \A q \in Roles : \/ step'[q] = step[q]
                      \/ q = r /\ step[q] = "active" /\ step'[q] = "failed"
                      \/ /\ q = r /\ step[q] = "active" /\ step'[q] = "succeeded"
                         /\ outcome = "open" /\ pc[r][a] = "return"
  /\ \A q \in Roles : (step'[q] # "idle" /\ step'[q] # "creating") \/ step'[q] = step[q]
  /\ \A q \in Roles : q # r => status'[q] = status[q]
  /\ \A q \in Roles : output'[q] = output[q] \/ output'[q] # "none"
  /\ \A q \in Roles, b \in Attempts : q # r => pc'[q][b] = pc[q][b]
  /\ \A q \in Roles, b \in Attempts :
       pc'[q][b] \in {"embed", "return"} =>
         pc[q][b] \in {"embed", "return"} \/ output'[q] # "none"
  /\ \A q \in Roles, b \in Attempts :
       pc'[q][b] \in {"agent", "oneshot"} =>
         \/ pc[q][b] \in {"agent", "oneshot"} /\ ctx'[q][b] = ctx[q][b]
         \/ q = r /\ b = a /\ ctx'[q][b] = AncestorOutputs(q)
<1>1. effect
  BY AttemptEffect DEF Inv
<1>2. step[r] \notin {"idle", "creating"}
  BY <1>1 DEF Inv, WorkIsStarted
<1>3. \A q \in Roles : step[q] = "succeeded" => step'[q] = "succeeded"
  BY <1>1
<1>4. \A q \in Roles : Prereqs(q) \subseteq Roles
  BY DEF Prereqs
<1>5. GateJustified'
  BY <1>1, <1>3, <1>4, RankFacts DEF Inv, GateJustified
<1>6. StepsInOrder'
  BY <1>1, <1>2, <1>3, <1>4 DEF Inv, StepsInOrder
<1>7. WorkIsStarted'
  BY <1>1, <1>2 DEF Inv, WorkIsStarted
<1>8. OutputKept'
  BY <1>1 DEF Inv, OutputKept
<1>9. ContextComplete'
  <2>1. \A q \in Ancestors(r) : \E c \in AncestorOutputs(r) : c[1] = q
    <3> SUFFICES ASSUME NEW q \in Ancestors(r)
                 PROVE  <<q, output[q]>> \in AncestorOutputs(r)
      OBVIOUS
    <3>1. q \in Prereqs(r) /\ q \in Roles
      BY AncestorsArePrereqs DEF Ancestors
    <3>2. step[q] = "succeeded"
      BY <1>2, <3>1 DEF Inv, StepsInOrder
    <3>3. output[q] # "none"
      BY <3>1, <3>2 DEF Inv, OutputKept
    <3> QED BY <3>3, <3>1 DEF AncestorOutputs
  <2> SUFFICES ASSUME NEW p \in Roles, NEW b \in Attempts,
                      pc'[p][b] \in {"agent", "oneshot"}, NEW q \in Ancestors(p)
               PROVE  \E c \in ctx'[p][b] : c[1] = q
    BY DEF ContextComplete
  <2>2. CASE pc[p][b] \in {"agent", "oneshot"} /\ ctx'[p][b] = ctx[p][b]
    BY <2>2 DEF Inv, ContextComplete
  <2>3. CASE p = r /\ b = a /\ ctx'[p][b] = AncestorOutputs(p)
    BY <2>1, <2>3
  <2> QED BY <1>1, <2>2, <2>3
<1> QED BY <1>5, <1>6, <1>7, <1>8, <1>9 DEF Inv

\* The invariant is inductive.
LEMMA InvStep == Inv /\ [Next]_vars => Inv'
<1> SUFFICES ASSUME Inv, [Next]_vars PROVE Inv'
  OBVIOUS
<1>1. TypeOK'
  BY TypeStep DEF Inv
<1>2. CASE Signal \/ Workflow
  BY <1>1, <1>2, WorkflowKeepsInv
<1>3. ASSUME NEW r \in Roles, NEW a \in Attempts, Activity(r, a) \/ Trouble(r, a) PROVE Inv'
  BY <1>1, <1>3, AttemptKeepsInv
<1>4. CASE Ended \/ UNCHANGED vars
  BY <1>4 DEF Ended, vars, workflowVars, attemptVars, dbVars,
    Inv, TypeOK, GateJustified, StepsInOrder, WorkIsStarted, OutputKept, ContextComplete
<1> QED BY <1>2, <1>3, <1>4 DEF Next

\* Steps run in order behind a justified gate and no output is ever lost.
THEOREM InvCorrect == Spec => []Inv
BY InvInit, InvStep, PTL DEF Spec

\* No planning, review or code is paid for before somebody has approved it.
THEOREM GateCorrect == Spec => []GateHolds
<1>1. Inv => GateHolds
  BY DEF Inv, TypeOK, GateHolds, GateJustified, StepsInOrder, WorkIsStarted, PostGate
<1> QED BY <1>1, InvCorrect, PTL

\* Every agent at work was given an output of each of its ancestors, however
\* many late attempts rewrite the ancestors' rows.
THEOREM ContextCorrect == Spec => []ContextComplete
<1>1. Inv => ContextComplete
  BY DEF Inv
<1> QED BY <1>1, InvCorrect, PTL

------------------------------------------------------------------------------
(* The refinement of ProjectPipeline.                                      *)

\* The abstract pipeline has the same agents in the same order.
LEMMA SamePipeline ==
  /\ Pipeline!Roles = Roles
  /\ Pipeline!PostGate = PostGate
  /\ \A r \in Roles : Pipeline!Prereqs(r) = Prereqs(r)
BY DEF Pipeline!Roles, Roles, Pipeline!Rank, Rank, Pipeline!PostGate, PostGate, Pipeline!Prereqs, Prereqs

\* Nothing delivered, nothing decided.
LEMMA MapInit == Init => Pipeline!PipelineInit
BY DEF Init, Pipeline!PipelineInit, Delivered, Verdict

\* The workflow's own steps are pipeline steps: a gate that opens or shuts, an
\* ending; a gate that starts to wait, and every step that begins, change nothing.
LEMMA WorkflowMaps ==
  ASSUME Inv, Signal \/ Workflow
  PROVE  [Pipeline!PipelineNext]_(Pipeline!pipelineVars)
<1> USE DEF Pipeline!pipelineVars
<1>1. CASE Signal \/ CreateProject
  BY <1>1 DEF Signal, Approve, Reject, CreateProject, Delivered, Verdict
<1>2. ASSUME NEW r \in Roles, StartStep(r) \/ CreateTask(r)
      PROVE  UNCHANGED Pipeline!pipelineVars
  <2>1. /\ UNCHANGED <<gate, outcome>>
        /\ \A q \in Roles : step'[q] = "succeeded" <=> step[q] = "succeeded"
    BY <1>2 DEF StartStep, CreateTask, Inv, TypeOK
  <2> QED BY <2>1 DEF Delivered, Verdict
<1>3. CASE ReachGate \/ PassGate
  <2>1. /\ outcome = "open" /\ gate \in {"ahead", "waiting"}
        /\ UNCHANGED step
        /\ \/ gate' = "open" /\ outcome' = "open"
           \/ gate' = "waiting" /\ outcome' = "open"
           \/ gate' = "shut" /\ outcome' = "rejected"
    BY <1>3 DEF ReachGate, PassGate, Decide
  <2>2. Prereqs("se") \subseteq Delivered
    BY <1>3 DEF ReachGate, PassGate, Inv, GateJustified, Delivered, Prereqs
  <2>3. Delivered' = Delivered /\ Verdict = "undecided"
    BY <2>1 DEF Delivered, Verdict
  <2>4. CASE gate' = "open" /\ outcome' = "open"
    BY <2>1, <2>2, <2>3, <2>4, SamePipeline, RankFacts DEF Verdict, Pipeline!Go, Pipeline!PipelineNext
  <2>5. CASE gate' = "waiting" /\ outcome' = "open"
    BY <2>1, <2>3, <2>5 DEF Verdict
  <2>6. CASE gate' = "shut" /\ outcome' = "rejected"
    <3>1. Pipeline!Stop("rejected")
      BY <2>1, <2>2, <2>3, <2>6, SamePipeline, RankFacts DEF Verdict, Pipeline!Stop
    <3> QED BY <3>1 DEF Pipeline!PipelineNext
  <2> QED BY <2>1, <2>4, <2>5, <2>6
<1>4. CASE ExpireGate
  <2>1. Prereqs("se") \subseteq Delivered
    BY <1>4 DEF ExpireGate, Inv, GateJustified, Delivered, Prereqs
  <2>2. Pipeline!Stop("expired")
    BY <1>4, <2>1, SamePipeline, RankFacts DEF ExpireGate, Verdict, Delivered, Pipeline!Stop
  <2> QED BY <2>2 DEF Pipeline!PipelineNext
<1>5. CASE FailWorkflow
  <2>1. Delivered # Roles
    BY <1>5 DEF FailWorkflow, Delivered
  <2>2. Pipeline!Fail
    BY <1>5, <2>1, SamePipeline DEF FailWorkflow, Delivered, Verdict, Pipeline!Fail
  <2> QED BY <2>2 DEF Pipeline!PipelineNext
<1>6. CASE CompleteWorkflow
  <2>1. Pipeline!Complete
    BY <1>6, SamePipeline DEF CompleteWorkflow, Delivered, Verdict, Pipeline!Complete
  <2> QED BY <2>1 DEF Pipeline!PipelineNext
<1> QED BY <1>1, <1>2, <1>3, <1>4, <1>5, <1>6 DEF Workflow

\* An attempt either delivers its agent's result, in order and behind an open
\* gate, or leaves the pipeline as it is.
LEMMA AttemptMaps ==
  ASSUME Inv, NEW r \in Roles, NEW a \in Attempts, Activity(r, a) \/ Trouble(r, a)
  PROVE  [Pipeline!PipelineNext]_(Pipeline!pipelineVars)
<1>1. /\ UNCHANGED <<gate, outcome>>
      /\ \A q \in Roles : \/ step'[q] = step[q]
                          \/ q = r /\ step[q] = "active" /\ step'[q] = "failed"
                          \/ /\ q = r /\ step[q] = "active" /\ step'[q] = "succeeded"
                             /\ outcome = "open" /\ pc[r][a] = "return"
  BY AttemptEffect DEF Inv
<1>2. Verdict' = Verdict /\ outcome' = outcome
  BY <1>1 DEF Verdict
<1>3. CASE step[r] = "active" /\ step'[r] = "succeeded"
  <2>1. outcome = "open" /\ r \notin Delivered /\ Delivered' = Delivered \cup {r}
    BY <1>1, <1>3 DEF Delivered
  <2>2. Prereqs(r) \subseteq Delivered /\ (r \in PostGate => gate = "open")
    BY <1>3 DEF Inv, StepsInOrder, Delivered, Prereqs
  <2>3. Pipeline!Deliver(r)
    BY <1>2, <2>1, <2>2, SamePipeline DEF Pipeline!Deliver, Verdict
  <2> QED BY <2>3, SamePipeline DEF Pipeline!PipelineNext
<1>4. CASE ~(step[r] = "active" /\ step'[r] = "succeeded")
  <2>1. Delivered' = Delivered
    BY <1>1, <1>4 DEF Delivered
  <2> QED BY <1>2, <2>1 DEF Pipeline!pipelineVars
<1> QED BY <1>3, <1>4

\* However often attempts fail, overlap, crash or are repeated, the project is an
\* eight-step pipeline with one gate and one ending.
THEOREM ImplementsPipeline == Spec => Implements
<1>1. Inv /\ [Next]_vars => [Pipeline!PipelineNext]_(Pipeline!pipelineVars)
  <2> SUFFICES ASSUME Inv, [Next]_vars
               PROVE  [Pipeline!PipelineNext]_(Pipeline!pipelineVars)
    OBVIOUS
  <2>1. CASE Signal \/ Workflow
    BY <2>1, WorkflowMaps
  <2>2. ASSUME NEW r \in Roles, NEW a \in Attempts, Activity(r, a) \/ Trouble(r, a)
        PROVE  [Pipeline!PipelineNext]_(Pipeline!pipelineVars)
    BY <2>2, AttemptMaps
  <2>3. CASE Ended \/ UNCHANGED vars
    BY <2>3 DEF Ended, vars, workflowVars, Pipeline!pipelineVars, Delivered, Verdict
  <2> QED BY <2>1, <2>2, <2>3 DEF Next
<1> QED
  BY <1>1, MapInit, InvCorrect, PTL DEF Spec, Implements, Pipeline!PipelineSpec

----------------------------------------------------------------------------
(* When no attempt outlives the timeout the server gave it (~Overlap), the *)
(* rows agree with what the workflow knows, no agent reads a failed        *)
(* attempt's error, and the human who is waited for is asked.              *)

\* At most one attempt of a step is alive: the latest, and only while the step is.
SoleAttempt ==
  \A r \in Roles, a \in Attempts :
    pc[r][a] \in LivePCs => tries[r] = a /\ step[r] = "active"

RowDone(r) == status[r] = "done" /\ output[r] = "result"

\* A step's row is done from complete_task on.
RowsFit ==
  \A r \in Roles :
    /\ step[r] = "succeeded" => RowDone(r)
    /\ \A a \in Attempts : pc[r][a] \in {"embed", "return"} => RowDone(r)

\* The inductive invariant of a workflow whose attempts do not overlap.
RowsInv ==
  /\ Inv
  /\ SoleAttempt
  /\ RowsFit
  /\ outcome = "completed" => Delivered = Roles
  /\ AncestorsCompleted

------------------------------------------------------------------------------
\* The server's answer to the failed attempt it listened to leaves at most one alive.
LEMMA NextAttemptSole ==
  ASSUME TypeOK, SoleAttempt, NEW r \in Roles, NEW a \in Attempts, NEW retryable \in BOOLEAN,
         Listening(r, a), NextAttempt(r, a, retryable, "gone")
  PROVE  SoleAttempt'
<1> USE MaxAttemptsAssumption DEF Attempts, SoleAttempt, TypeOK, Listening
<1>1. "gone" \notin LivePCs
  BY DEF LivePCs
<1>2. CASE retryable /\ a < MaxAttempts
  <2>1. /\ tries' = [tries EXCEPT ![r] = a + 1] /\ step' = step
        /\ pc' = [pc EXCEPT ![r][a] = "gone", ![r][a + 1] = "start"]
    BY <1>2 DEF NextAttempt
  <2>2. \A q \in Roles, b \in Attempts : q # r => pc'[q][b] = pc[q][b] /\ tries'[q] = tries[q]
    BY <2>1
  <2>3. \A b \in Attempts :
          pc'[r][b] = IF b = a + 1 THEN "start" ELSE IF b = a THEN "gone" ELSE pc[r][b]
    BY <1>2, <2>1
  <2>4. \A b \in Attempts : pc'[r][b] \in LivePCs => b = a + 1
    BY <1>1, <2>3
  <2> QED BY <2>1, <2>2, <2>4
<1>3. CASE ~(retryable /\ a < MaxAttempts)
  <2>1. /\ tries' = tries /\ step' = [step EXCEPT ![r] = "failed"]
        /\ pc' = [pc EXCEPT ![r][a] = "gone"]
    BY <1>3 DEF NextAttempt, MoveTo
  <2>2. \A b \in Attempts : pc'[r][b] \notin LivePCs
    BY <1>1, <2>1
  <2> QED BY <2>1, <2>2
<1> QED BY <1>2, <1>3

\* A live attempt that only moves on, or ends, is still alone.
LEMMA MoveSole ==
  ASSUME TypeOK, SoleAttempt, NEW r \in Roles, NEW a \in Attempts, NEW where,
         MoveTo(r, a, where), pc[r][a] \in LivePCs \/ where = "gone", UNCHANGED <<tries, step>>
  PROVE  SoleAttempt'
<1>1. \A q \in Roles, b \in Attempts :
        pc'[q][b] = IF q = r /\ b = a THEN where ELSE pc[q][b]
  BY DEF MoveTo, TypeOK
<1>2. "gone" \notin LivePCs
  BY DEF LivePCs
<1> QED BY <1>1, <1>2 DEF SoleAttempt

\* No step lets two attempts of one task live, unless attempts overlap.
LEMMA SoleStep == ~Overlap /\ RowsInv /\ [Next]_vars => SoleAttempt'
<1> SUFFICES ASSUME ~Overlap, RowsInv, [Next]_vars PROVE SoleAttempt'
  OBVIOUS
<1>1. TypeOK /\ SoleAttempt
  BY DEF RowsInv, Inv
<1> USE DEF LivePCs
<1>2. ASSUME NEW r \in Roles, CreateTask(r) PROVE SoleAttempt'
  <2>1. /\ step[r] = "creating" /\ step' = [step EXCEPT ![r] = "active"]
        /\ tries' = [tries EXCEPT ![r] = 1] /\ pc' = [pc EXCEPT ![r][1] = "start"]
    BY <1>2 DEF CreateTask
  <2>2. \A b \in Attempts : pc[r][b] = "none"
    BY <2>1 DEF RowsInv, Inv, WorkIsStarted
  <2>3. 1 \in Attempts
    BY MaxAttemptsAssumption DEF Attempts
  <2>4. \A q \in Roles, b \in Attempts :
          pc'[q][b] = IF q = r /\ b = 1 THEN "start" ELSE pc[q][b]
    BY <1>1, <2>1, <2>3 DEF TypeOK
  <2> QED BY <1>1, <2>1, <2>2, <2>4 DEF SoleAttempt, TypeOK
<1>3. ASSUME NEW r \in Roles, StartStep(r) PROVE SoleAttempt'
  BY <1>1, <1>3 DEF StartStep, attemptVars, SoleAttempt, TypeOK
<1>4. CASE Signal \/ CreateProject \/ ReachGate \/ PassGate \/ ExpireGate
           \/ FailWorkflow \/ CompleteWorkflow \/ Ended \/ UNCHANGED vars
  <2>1. UNCHANGED <<step, tries, pc>>
    BY <1>4 DEF Signal, Approve, Reject, CreateProject, ReachGate, PassGate, ExpireGate,
       FailWorkflow, CompleteWorkflow, Ended, vars, workflowVars, attemptVars
  <2> QED BY <1>1, <2>1 DEF SoleAttempt
<1>5. ASSUME NEW r \in Roles, NEW a \in Attempts, Activity(r, a) PROVE SoleAttempt'
  <2>1. CASE MarkRunning(r, a) \/ ReadContext(r, a) \/ AgentReturns(r, a) \/ CompleteTask(r, a)
             \/ FailTask(r, a) \/ EmbedOutput(r, a)
    <3>1. /\ pc[r][a] \in LivePCs /\ UNCHANGED <<tries, step>>
          /\ \E where : MoveTo(r, a, where)
      BY <2>1 DEF MarkRunning, ReadContext, AgentReturns, CompleteTask, FailTask, EmbedOutput, workflowVars
    <3> QED BY <1>1, <3>1, MoveSole
  <2>2. CASE Return(r, a)
    <3>1. \A b \in Attempts : pc'[r][b] \notin LivePCs
      BY <1>1, <2>2 DEF Return, MoveTo, SoleAttempt, TypeOK
    <3>2. \A q \in Roles : q # r => pc'[q] = pc[q] /\ step'[q] = step[q]
      BY <1>1, <2>2 DEF Return, MoveTo, TypeOK
    <3> QED BY <1>1, <2>2, <3>1, <3>2 DEF SoleAttempt, Return
  <2>3. CASE Raise(r, a)
    <3>1. CASE Listening(r, a)
      BY <1>1, <2>3, <3>1, NextAttemptSole DEF Raise
    <3>2. CASE ~Listening(r, a)
      BY <1>1, <2>3, <3>2, MoveSole DEF Raise
    <3> QED BY <3>1, <3>2
  <2>4. CASE Expire(r, a)
    BY <1>1, <2>4, NextAttemptSole DEF Expire
  <2> QED BY <1>5, <2>1, <2>2, <2>3, <2>4 DEF Activity
<1>6. ASSUME NEW r \in Roles, NEW a \in Attempts, Trouble(r, a) PROVE SoleAttempt'
  <2>1. CASE AgentRaises(r, a) \/ DbError(r, a) \/ Crash(r, a) \/ Cancel(r, a)
    <3>1. /\ pc[r][a] \in LivePCs /\ UNCHANGED <<tries, step>>
          /\ \E where : MoveTo(r, a, where)
      BY <2>1 DEF AgentRaises, DbError, DbPCs, Crash, Cancel, workflowVars
    <3> QED BY <1>1, <3>1, MoveSole
  <2>2. CASE TimeOut(r, a)
    BY <1>1, <2>2, NextAttemptSole DEF TimeOut
  <2> QED BY <1>6, <2>1, <2>2 DEF Trouble
<1> QED BY <1>2, <1>3, <1>4, <1>5, <1>6 DEF Next, Workflow

------------------------------------------------------------------------------
\* What a step of the attempt that is alone does to its own row.
LEMMA OwnRowEffect ==
  ASSUME ~Overlap, RowsInv, NEW r \in Roles, NEW a \in Attempts, Activity(r, a) \/ Trouble(r, a)
  PROVE  /\ \A q \in Roles : q # r => output'[q] = output[q]
         /\ \/ UNCHANGED <<status, output>>
            \/ pc[r][a] = "complete" /\ RowDone(r)' /\ step' = step
            \/ /\ pc[r][a] \in {"start", "fail", "failFatal"} /\ step' = step
               /\ pc'[r][a] \in {"context", "raise", "raiseFatal"}
               /\ \A b \in Attempts : b # a => pc'[r][b] = pc[r][b]
         /\ \A b \in Attempts : pc'[r][b] \in {"embed", "return"} =>
              pc[r][b] \in {"embed", "return"} \/ (b = a /\ RowDone(r)')
         /\ step'[r] = "succeeded" /\ step[r] # "succeeded" =>
              pc[r][a] = "return" /\ UNCHANGED <<status, output>>
<1> USE DEF RowDone
<1>1. TypeOK
  BY DEF RowsInv, Inv
<1>2. CASE MarkRunning(r, a) \/ FailTask(r, a)
  BY <1>1, <1>2 DEF MarkRunning, FailTask, MoveTo, workflowVars, TypeOK
<1>3. CASE CompleteTask(r, a)
  BY <1>1, <1>3 DEF CompleteTask, MoveTo, workflowVars, TypeOK
<1>4. CASE ReadContext(r, a) \/ AgentReturns(r, a) \/ EmbedOutput(r, a)
  <2>1. FirstRun(r) \in {"agent", "oneshot"}
    BY DEF FirstRun
  <2> QED BY <1>1, <1>4, <2>1 DEF ReadContext, AgentReturns, EmbedOutput, MoveTo, workflowVars, dbVars, TypeOK
<1>5. CASE Return(r, a)
  BY <1>1, <1>5 DEF Return, MoveTo, dbVars, TypeOK
<1>6. CASE Raise(r, a)
  BY <1>1, <1>6 DEF Raise, NextAttempt, MoveTo, dbVars, TypeOK
<1>7. CASE Expire(r, a)
  BY <1>1, <1>7 DEF Expire, NextAttempt, MoveTo, dbVars, TypeOK
<1>8. CASE AgentRaises(r, a) \/ DbError(r, a) \/ Crash(r, a) \/ Cancel(r, a)
  <2>1. UNCHANGED <<step, status, output>>
    BY <1>8 DEF AgentRaises, DbError, Crash, Cancel, workflowVars, dbVars
  <2>2. \E where \in {"oneshot", "fail", "failFatal", "raise", "gone"} : MoveTo(r, a, where)
    BY <1>8 DEF AgentRaises, DbError, Crash, Cancel
  <2> QED BY <1>1, <2>1, <2>2 DEF MoveTo, TypeOK
<1>9. CASE TimeOut(r, a)
  BY <1>1, <1>9 DEF TimeOut, NextAttempt, MoveTo, dbVars, TypeOK
<1> QED BY <1>2, <1>3, <1>4, <1>5, <1>6, <1>7, <1>8, <1>9 DEF Activity, Trouble

\* The rows go on agreeing with the workflow.
LEMMA RowsFitStep == ~Overlap /\ RowsInv /\ [Next]_vars => RowsFit'
<1> SUFFICES ASSUME ~Overlap, RowsInv, [Next]_vars PROVE RowsFit'
  OBVIOUS
<1>1. TypeOK /\ SoleAttempt /\ RowsFit
  BY DEF RowsInv, Inv
<1> USE DEF RowsFit, RowDone
<1>2. ASSUME NEW r \in Roles, CreateTask(r) PROVE RowsFit'
  <2>1. /\ step[r] = "creating" /\ step' = [step EXCEPT ![r] = "active"]
        /\ status' = [status EXCEPT ![r] = "pending"] /\ output' = output
        /\ pc' = [pc EXCEPT ![r][1] = "start"]
    BY <1>2 DEF CreateTask
  <2>2. \A b \in Attempts : pc[r][b] = "none"
    BY <2>1 DEF RowsInv, Inv, WorkIsStarted
  <2>3. \A q \in Roles, b \in Attempts : pc'[q][b] \in {"embed", "return"} => pc'[q][b] = pc[q][b] /\ q # r
    BY <1>1, <2>1, <2>2 DEF TypeOK
  <2> QED BY <1>1, <2>1, <2>3 DEF TypeOK
<1>3. ASSUME NEW r \in Roles, StartStep(r) PROVE RowsFit'
  BY <1>1, <1>3 DEF StartStep, attemptVars, dbVars, TypeOK
<1>4. CASE Signal \/ CreateProject \/ ReachGate \/ PassGate \/ ExpireGate
           \/ FailWorkflow \/ CompleteWorkflow \/ Ended \/ UNCHANGED vars
  <2>1. UNCHANGED <<step, pc, status, output>>
    BY <1>4 DEF Signal, Approve, Reject, CreateProject, ReachGate, PassGate, ExpireGate,
       FailWorkflow, CompleteWorkflow, Ended, vars, workflowVars, attemptVars, dbVars
  <2> QED BY <1>1, <2>1
<1>5. ASSUME NEW r \in Roles, NEW a \in Attempts, Activity(r, a) \/ Trouble(r, a) PROVE RowsFit'
  <2>1. \A q \in Roles : q # r =>
          /\ step'[q] = step[q] /\ status'[q] = status[q] /\ output'[q] = output[q]
          /\ \A b \in Attempts : pc'[q][b] = pc[q][b]
    BY <1>1, <1>5, AttemptEffect, OwnRowEffect
  <2>2. CASE UNCHANGED <<status, output>>
    <3>1. step'[r] = "succeeded" => RowDone(r)'
      BY <1>1, <1>5, <2>2, OwnRowEffect
    <3>2. \A b \in Attempts : pc'[r][b] \in {"embed", "return"} => RowDone(r)'
      BY <1>1, <1>5, <2>2, OwnRowEffect
    <3> QED BY <1>1, <2>1, <3>1, <3>2
  <2>3. CASE RowDone(r)'
    BY <1>1, <2>1, <2>3
  <2>4. CASE /\ pc[r][a] \in {"start", "fail", "failFatal"} /\ step' = step
             /\ pc'[r][a] \in {"context", "raise", "raiseFatal"}
             /\ \A b \in Attempts : b # a => pc'[r][b] = pc[r][b]
    <3>1. step'[r] = "active" /\ \A b \in Attempts : b # a => pc[r][b] \notin LivePCs
      BY <1>1, <2>4 DEF SoleAttempt, LivePCs
    <3>2. \A b \in Attempts : pc'[r][b] \notin {"embed", "return"}
      BY <2>4, <3>1 DEF LivePCs
    <3> QED BY <1>1, <2>1, <3>1, <3>2
  <2> QED BY <1>5, <2>2, <2>3, <2>4, OwnRowEffect
<1> QED BY <1>2, <1>3, <1>4, <1>5 DEF Next, Workflow

\* A completed workflow has all its steps, and a closed one starts no other.
LEMMA CompletedStep ==
  RowsInv /\ [Next]_vars => (outcome' = "completed" => Delivered' = Roles)
<1> SUFFICES ASSUME RowsInv, [Next]_vars, outcome' = "completed" PROVE Delivered' = Roles
  OBVIOUS
<1>1. TypeOK
  BY DEF RowsInv, Inv
<1>2. CASE CompleteWorkflow
  BY <1>2 DEF CompleteWorkflow, Delivered
<1>3. CASE Signal \/ CreateProject \/ ReachGate \/ PassGate \/ ExpireGate \/ FailWorkflow
           \/ (\E r \in Roles : StartStep(r) \/ CreateTask(r))
  BY <1>3 DEF Signal, Approve, Reject, CreateProject, ReachGate, PassGate, Decide, ExpireGate,
     FailWorkflow, StartStep, CreateTask
<1>4. ASSUME NEW r \in Roles, NEW a \in Attempts, Activity(r, a) \/ Trouble(r, a)
      PROVE  Delivered' = Roles
  <2>1. outcome' = outcome /\ \A q \in Roles : step[q] = "succeeded" => step'[q] = "succeeded"
    BY <1>1, <1>4, AttemptEffect
  <2> QED BY <2>1 DEF RowsInv, Delivered
<1>5. CASE Ended \/ UNCHANGED vars
  BY <1>5 DEF Ended, vars, workflowVars, RowsInv, Delivered
<1> QED BY <1>2, <1>3, <1>4, <1>5 DEF Next, Workflow

\* What an agent is given of its ancestors are their results.
LEMMA AncestorsStep == ~Overlap /\ RowsInv /\ [Next]_vars => AncestorsCompleted'
<1> SUFFICES ASSUME ~Overlap, RowsInv, [Next]_vars PROVE AncestorsCompleted'
  OBVIOUS
<1>1. TypeOK /\ RowsFit /\ AncestorsCompleted
  BY DEF RowsInv, Inv
<1>2. ASSUME NEW r \in Roles, NEW a \in Attempts, ReadContext(r, a) PROVE AncestorsCompleted'
  <2>1. step[r] # "idle"
    BY <1>2 DEF ReadContext, RowsInv, Inv, WorkIsStarted
  <2>2. \A q \in Ancestors(r) : output[q] = "result"
    BY <1>1, <2>1, AncestorsArePrereqs DEF RowsInv, Inv, StepsInOrder, RowsFit, RowDone, Ancestors
  <2>3. \A c \in AncestorOutputs(r) : c[2] = "result"
    BY <2>2 DEF AncestorOutputs
  <2>4. \A q \in Roles, b \in Attempts :
          ctx'[q][b] = IF q = r /\ b = a THEN AncestorOutputs(r) ELSE ctx[q][b]
    BY <1>1, <1>2 DEF ReadContext, TypeOK, Contexts
  <2> QED BY <1>1, <2>3, <2>4 DEF AncestorsCompleted
<1>3. ASSUME \/ ctx' = ctx
             \/ \E r \in Roles, a \in Attempts : ctx' = Dropped(r, a)
      PROVE  AncestorsCompleted'
  <2>1. \A q \in Roles, b \in Attempts : ctx'[q][b] = ctx[q][b] \/ ctx'[q][b] = {}
    BY <1>1, <1>3 DEF Dropped, TypeOK, Contexts
  <2> QED BY <1>1, <2>1 DEF AncestorsCompleted
<1>4. CASE Signal \/ Workflow
  BY <1>3, <1>4 DEF Signal, Approve, Reject, Workflow, CreateProject, ReachGate, PassGate, ExpireGate,
     FailWorkflow, CompleteWorkflow, StartStep, CreateTask, attemptVars
<1>5. ASSUME NEW r \in Roles, NEW a \in Attempts, Activity(r, a), ~ReadContext(r, a)
      PROVE  AncestorsCompleted'
  BY <1>3, <1>5 DEF Activity, MarkRunning, AgentReturns, CompleteTask, FailTask, EmbedOutput, Return,
     Raise, Expire
<1>6. ASSUME NEW r \in Roles, NEW a \in Attempts, Trouble(r, a) PROVE AncestorsCompleted'
  BY <1>3, <1>6 DEF Trouble, AgentRaises, DbError, Crash, TimeOut, Cancel
<1>7. CASE Ended \/ UNCHANGED vars
  BY <1>3, <1>7 DEF Ended, vars, attemptVars
<1> QED BY <1>2, <1>4, <1>5, <1>6, <1>7 DEF Next

------------------------------------------------------------------------------
\* Nothing has begun: the invariant holds.
LEMMA RowsInit == Init => RowsInv
<1> SUFFICES ASSUME Init PROVE RowsInv
  OBVIOUS
<1>1. \A r \in Roles :
        step[r] = "idle" /\ \A a \in Attempts : pc[r][a] = "none" /\ ctx[r][a] = {}
  BY DEF Init
<1>2. outcome = "open"
  BY DEF Init
<1>3. SoleAttempt /\ RowsFit
  <2>1. "none" \notin LivePCs
    BY DEF LivePCs
  <2>2. SoleAttempt
    BY <1>1, <2>1 DEF SoleAttempt
  <2>3. \A r \in Roles : step[r] # "succeeded" /\ \A a \in Attempts : pc[r][a] \notin {"embed", "return"}
    BY <1>1
  <2> QED BY <2>2, <2>3 DEF RowsFit
<1>4. AncestorsCompleted
  BY <1>1 DEF AncestorsCompleted
<1> QED BY <1>2, <1>3, <1>4, InvInit DEF RowsInv

\* The invariant is inductive.
LEMMA RowsStep == ~Overlap /\ RowsInv /\ [Next]_vars => RowsInv'
BY InvStep, SoleStep, RowsFitStep, CompletedStep, AncestorsStep DEF RowsInv

\* Without overlapping attempts the rows always agree with the workflow.
THEOREM RowsAlways == ASSUME ~Overlap PROVE Spec => []RowsInv
<1>1. RowsInv /\ [Next]_vars => RowsInv'
  BY RowsStep
<1> QED BY <1>1, RowsInit, PTL DEF Spec

\* Without overlapping attempts no agent is given the error of a failed attempt.
THEOREM AncestorsCorrect == ASSUME ~Overlap PROVE Spec => []AncestorsCompleted
<1>1. RowsInv => AncestorsCompleted
  BY DEF RowsInv
<1> QED BY <1>1, RowsAlways, PTL

\* Without overlapping attempts a project reported complete has eight rows that are
\* done and hold a result.
THEOREM CompletedCorrect == ASSUME ~Overlap PROVE Spec => []CompletedRowsDone
<1>1. RowsInv => CompletedRowsDone
  BY DEF RowsInv, CompletedRowsDone, RowsFit, RowDone, Delivered
<1> QED BY <1>1, RowsAlways, PTL

\* Without overlapping attempts a workflow that waits for its human shows the prompt:
\* the architect's row is done, and nothing behind the gate has a row.
THEOREM WaitCorrect == ASSUME ~Overlap PROVE Spec => []WaitIsShown
<1>1. RowsInv => WaitIsShown
  <2> SUFFICES ASSUME RowsInv, outcome = "open", gate = "waiting", ~approved, ~rejected
               PROVE  Awaiting
    BY DEF WaitIsShown
  <2>1. "architect" \in Prereqs("se") /\ "se" \in PostGate
    BY RankFacts DEF Prereqs, PostGate, Rank, Roles
  <2>2. step["architect"] = "succeeded"
    BY <2>1 DEF RowsInv, Inv, GateJustified
  <2>3. status["architect"] = "done"
    BY <2>2, RankFacts DEF RowsInv, RowsFit, RowDone
  <2>4. status["se"] = "absent"
    BY <2>1, RankFacts DEF RowsInv, Inv, TypeOK, WorkIsStarted, StepsInOrder, PostGate
  <2> QED BY <2>3, <2>4 DEF Awaiting
<1> QED BY <1>1, RowsAlways, PTL

==============================================================================
