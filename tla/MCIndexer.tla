------------------------------ MODULE MCIndexer ------------------------------
(***************************************************************************)
(* Indexer for TLC: two commits of a repository whose files call each      *)
(* other.  The second commit changes app and removes lib.                  *)
(***************************************************************************)
EXTENDS Indexer, TLC

CONSTANTS c1, c2, app, lib, old, new

MCContent ==
  (c1 :> (app :> old @@ lib :> old)) @@ (c2 :> (app :> new @@ lib :> Absent))

MCCalls == {<<app, lib>>, <<lib, app>>}

==============================================================================
