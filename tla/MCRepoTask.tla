------------------------------ MODULE MCRepoTask ------------------------------
(***************************************************************************)
(* RepoTask for TLC.  The passing run has the program's own numbers, three *)
(* candidates and two continuations, on one file and at most two criteria; *)
(* the violation run has two candidates on two files, one for each.        *)
(***************************************************************************)
EXTENDS RepoTask

==============================================================================
