---------------------------- MODULE PipelineRoles ----------------------------
(***************************************************************************)
(* The shape of ProjectWorkflow.run: which agents there are, in which      *)
(* order run() awaits them and whose task is whose parent.                 *)
(***************************************************************************)
EXTENDS Integers

\* Position of each agent in the pipeline.  "ba" and "researcher" run side by
\* side; from "architect" on each step waits for all the earlier ones.  The
\* parent_task_id chain is ba <- architect <- se <- ... <- coder: the
\* researcher, at 0, is nobody's ancestor.
Rank == [researcher |-> 0, ba |-> 1, architect |-> 2, se |-> 3, estimator |-> 4,
         reviewer |-> 5, documenter |-> 6, coder |-> 7]

Roles == DOMAIN Rank

\* The steps whose results the workflow has awaited before it starts r.
Prereqs(r) == IF Rank[r] <= 1 THEN {} ELSE {q \in Roles : Rank[q] < Rank[r]}

\* The tasks reached from r's task by following parent_task_id.
Ancestors(r) == {q \in Roles : 0 < Rank[q] /\ Rank[q] < Rank[r]}

\* The steps that only an approved project pays for.
PostGate == {r \in Roles : Rank[r] > Rank["architect"]}

==============================================================================
