---------------------------- MODULE ReviewedChange ----------------------------
(***************************************************************************)
(* What a repo task promises about the change it proposes: it is drafted,  *)
(* graded, perhaps drafted again a bounded number of times, and the only   *)
(* thing that is ever shipped is the draft that was graded last.           *)
(*                                                                         *)
(* RepoTask implements this specification.                                 *)
(***************************************************************************)
EXTENDS Integers

CONSTANTS
  Changes,     \* the changes a coder may propose
  NoChange,    \* there is none yet
  Redrafts     \* how often a graded draft may be replaced

VARIABLES
  draft,       \* the change at hand
  graded,      \* the change that was graded last
  redrafted,   \* how often the draft was replaced
  shipped      \* the change proposed to the repository's owners

changeVars == <<draft, graded, redrafted, shipped>>

ChangeInit ==
  /\ draft = NoChange
  /\ graded = NoChange
  /\ redrafted = 0
  /\ shipped = NoChange

FirstDraft ==
  /\ draft = NoChange
  /\ draft' \in Changes
  /\ UNCHANGED <<graded, redrafted, shipped>>

Grade ==
  /\ draft # NoChange
  /\ graded' = draft
  /\ UNCHANGED <<draft, redrafted, shipped>>

Redraft ==
  /\ graded # NoChange /\ graded = draft
  /\ shipped = NoChange
  /\ redrafted < Redrafts
  /\ draft' \in Changes
  /\ redrafted' = redrafted + 1
  /\ UNCHANGED <<graded, shipped>>

Ship ==
  /\ graded # NoChange /\ graded = draft
  /\ shipped' = graded
  /\ UNCHANGED <<draft, graded, redrafted>>

ChangeNext == FirstDraft \/ Grade \/ Redraft \/ Ship

ChangeSpec == ChangeInit /\ [][ChangeNext]_changeVars

==============================================================================
