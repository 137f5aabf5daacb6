--------------------------- MODULE ProjectPipeline ---------------------------
(***************************************************************************)
(* What a greenfield project promises to the human who started it, with    *)
(* no tables, attempts, workers or signals: eight agents deliver in the    *)
(* order of the pipeline, nothing behind the approval gate is delivered    *)
(* before the gate is open, and a project ends exactly once.               *)
(*                                                                         *)
(* ProjectWorkflow implements this specification.                          *)
(***************************************************************************)
EXTENDS PipelineRoles

VARIABLES
  delivered,  \* the agents whose result the workflow holds
  verdict,    \* the gate: "undecided", "go" or "stop"
  ending      \* "open", "completed", "rejected", "expired" or "failed"

pipelineVars == <<delivered, verdict, ending>>

PipelineTypeOK ==
  /\ delivered \in SUBSET Roles
  /\ verdict \in {"undecided", "go", "stop"}
  /\ ending \in {"open", "completed", "rejected", "expired", "failed"}

PipelineInit ==
  /\ delivered = {}
  /\ verdict = "undecided"
  /\ ending = "open"

Deliver(r) ==
  /\ ending = "open"
  /\ r \notin delivered
  /\ Prereqs(r) \subseteq delivered
  /\ r \in PostGate => verdict = "go"
  /\ delivered' = delivered \cup {r}
  /\ UNCHANGED <<verdict, ending>>

Go ==
  /\ ending = "open"
  /\ verdict = "undecided"
  /\ Prereqs("se") \subseteq delivered
  /\ verdict' = "go"
  /\ UNCHANGED <<delivered, ending>>

Stop(why) ==
  /\ ending = "open"
  /\ verdict = "undecided"
  /\ Prereqs("se") \subseteq delivered
  /\ verdict' = "stop"
  /\ ending' = why
  /\ UNCHANGED delivered

Complete ==
  /\ ending = "open"
  /\ delivered = Roles
  /\ ending' = "completed"
  /\ UNCHANGED <<delivered, verdict>>

Fail ==
  /\ ending = "open"
  /\ delivered # Roles
  /\ ending' = "failed"
  /\ UNCHANGED <<delivered, verdict>>

PipelineNext ==
  \/ \E r \in Roles : Deliver(r)
  \/ Go
  \/ \E why \in {"rejected", "expired"} : Stop(why)
  \/ Complete
  \/ Fail

PipelineSpec == PipelineInit /\ [][PipelineNext]_pipelineVars

==============================================================================
