-------------------------- MODULE MCProjectWorkflow --------------------------
(***************************************************************************)
(* ProjectWorkflow for TLC.  The pipeline, its eight agents and the retry  *)
(* cap of three are the program's own; what is small is the number of      *)
(* faults in one behaviour.                                                *)
(***************************************************************************)
EXTENDS ProjectWorkflow

==============================================================================
