------------------------------- MODULE Indexer -------------------------------
(***************************************************************************)
(* Indexing one repository into the Neo4j graph (app/repo_indexer): prune, *)
(* parse what changed, resolve, write.                                     *)
(*                                                                         *)
(* A scan is the index_repo_activity of one task (or the CLI's scan with a *)
(* commit).  Every statement it sends to Neo4j commits on its own, so any  *)
(* of them may be the last one of an attempt; the next attempt begins      *)
(* again.  Nothing in the scan awaits: the one worker of the default       *)
(* deployment runs one scan at a time, a second worker or the CLI runs     *)
(* another beside it (Overlapping).                                        *)
(***************************************************************************)
EXTENDS Integers, FiniteSets

CONSTANTS
  Scans,        \* the scans of the repository, each of one commit
  Commits,
  NoCommit,     \* Repo.commit_sha before the first scan
  Files,        \* paths
  Versions,     \* what a file may hold; its SHA tells versions apart
  Absent,       \* the file is not there
  External,     \* the Symbol a call leads to when its target is unresolved
  Content,      \* commit -> path -> version
  Calls,        \* pairs of paths: code of the first calls code of the second
  Overlapping,  \* may two scans run at once?
  MaxCuts       \* bound on the attempts that are cut short

ASSUME NoCommitAssumption == NoCommit \notin Commits
ASSUME AbsentAssumption == Absent \notin Versions
ASSUME ExternalAssumption == External \notin Versions
ASSUME ContentAssumption == Content \in [Commits -> [Files -> Versions \cup {Absent}]]
ASSUME CallsAssumption == Calls \subseteq Files \X Files
ASSUME OverlappingAssumption == Overlapping \in BOOLEAN
ASSUME MaxCutsAssumption == MaxCuts \in Nat

VARIABLES
  stamp,    \* Repo.commit_sha
  files,    \* path -> the version whose SHA its File node has
  defs,     \* the definitions (Function, Class and Module nodes) that only one version
            \* of a path has; one that a change leaves alone is merged into itself
  edges,    \* CALLS: a definition and the definition or Symbol it leads to
  pc,       \* scan -> the statement it is at
  commit,   \* scan -> commit_sha
  forced,   \* scan -> force_reindex
  batch,    \* scan -> the paths it parsed
  rows,     \* scan -> the paths whose rows the current statement has yet to write
  cuts,     \* how many attempts were cut short
  torn      \* was one cut short while it wrote into the present graph?

graph == <<stamp, files, defs, edges>>
inputs == <<commit, forced>>
vars == <<graph, pc, inputs, batch, rows, cuts, torn>>

Writing == {"files", "defs", "calls"}
Running == {"prune", "delete", "parse", "stamp"} \cup Writing
Definitions == Files \X Versions
Targets == Files \X (Versions \cup {External})

TypeOK ==
  /\ stamp \in Commits \cup {NoCommit}
  /\ files \in [Files -> Versions \cup {Absent}]
  /\ defs \subseteq Definitions
  /\ edges \subseteq Definitions \X Targets
  /\ pc \in [Scans -> Running \cup {"asked", "done", "failed"}]
  /\ commit \in [Scans -> Commits]
  /\ forced \in [Scans -> BOOLEAN]
  /\ batch \in [Scans -> SUBSET Files]
  /\ rows \in [Scans -> SUBSET Files]
  /\ cuts \in 0 .. MaxCuts
  /\ torn \in BOOLEAN

Init ==
  /\ stamp = NoCommit
  /\ files = [f \in Files |-> Absent]
  /\ defs = {} /\ edges = {}
  /\ pc = [s \in Scans |-> "asked"]
  /\ commit \in [Scans -> Commits]
  /\ forced \in [Scans -> BOOLEAN]
  /\ batch = [s \in Scans |-> {}]
  /\ rows = [s \in Scans |-> {}]
  /\ cuts = 0 /\ torn = FALSE

Source(s) == Content[commit[s]]
Present(c) == {f \in Files : Content[c][f] # Absent}

Goto(s, stage) == pc' = [pc EXCEPT ![s] = stage]

------------------------------------------------------------------------------
Start(s) ==
  /\ pc[s] = "asked"
  /\ Overlapping \/ \A t \in Scans : pc[t] \notin Running
  /\ Goto(s, "prune")
  /\ UNCHANGED <<graph, inputs, batch, rows, cuts, torn>>

\* Mutant: prune_stale runs once the Repo node has the new commit.
PruneTooLate(s) ==
  /\ pc[s] = "prune"
  /\ Goto(s, "parse")
  /\ UNCHANGED <<graph, inputs, batch, rows, cuts, torn>>

\* prune_stale reads the Repo node's commit ...
Prune(s) ==
  /\ pc[s] = "prune"
  /\ Goto(s, IF stamp \in {NoCommit, commit[s]} THEN "parse" ELSE "delete")
  /\ UNCHANGED <<graph, inputs, batch, rows, cuts, torn>>

\* ... and deletes every node of another one's, but not the Repo node.
DeleteNodes(s) ==
  /\ pc[s] = "delete"
  /\ files' = [f \in Files |-> Absent]
  /\ defs' = {} /\ edges' = {}
  /\ torn' = FALSE
  /\ Goto(s, "parse")
  /\ UNCHANGED <<stamp, inputs, batch, rows, cuts>>

\* Mutant: a forced scan parses every path that was ever known.
ParseDeleted(s) ==
  /\ pc[s] = "parse"
  /\ batch' = [batch EXCEPT ![s] = {f \in Files : forced[s] \/ files[f] # Source(s)[f]}]
  /\ Goto(s, "stamp")
  /\ UNCHANGED <<graph, inputs, rows, cuts, torn>>

\* Mutant: the SHAs of the last scan are read whatever force_reindex says.
ParseUnforced(s) ==
  /\ pc[s] = "parse"
  /\ batch' = [batch EXCEPT ![s] = {f \in Present(commit[s]) : files[f] # Source(s)[f]}]
  /\ Goto(s, "stamp")
  /\ UNCHANGED <<graph, inputs, rows, cuts, torn>>

\* fetch_file_shas, then the walk that skips the files whose SHA is unchanged.
Parse(s) ==
  /\ pc[s] = "parse"
  /\ batch' = [batch EXCEPT ![s] =
       {f \in Present(commit[s]) : forced[s] \/ files[f] # Source(s)[f]}]
  /\ Goto(s, "stamp")
  /\ UNCHANGED <<graph, inputs, rows, cuts, torn>>

\* write_batch: the Repo node first.
Stamp(s) ==
  /\ pc[s] = "stamp"
  /\ stamp' = commit[s]
  /\ rows' = [rows EXCEPT ![s] = batch[s]]
  /\ Goto(s, "files")
  /\ UNCHANGED <<files, defs, edges, inputs, batch, cuts, torn>>

\* The rows go out in chunks (_chunked_write); a chunk here is one file's.
Chunk(s, stage, f) ==
  /\ pc[s] = stage
  /\ f \in rows[s]
  /\ rows' = [rows EXCEPT ![s] = @ \ {f}]
  /\ UNCHANGED <<stamp, pc, inputs, batch, cuts, torn>>

WriteFile(s, f) ==
  /\ Chunk(s, "files", f)
  /\ files' = [files EXCEPT ![f] = Source(s)[f]]
  /\ UNCHANGED <<defs, edges>>

WriteDefinitions(s, f) ==
  /\ Chunk(s, "defs", f)
  /\ defs' = defs \cup {<<f, Source(s)[f]>>}
  /\ UNCHANGED <<files, edges>>

\* finalize_batch: a call's target, which it looks for in the batch only; what it does
\* not find becomes a Symbol of the name the code calls it by.
Resolved(s, g) == <<g, IF g \in batch[s] THEN Source(s)[g] ELSE External>>

\* A row whose caller, or whose resolved callee, is not in the graph matches nothing.
WriteCalls(s, f) ==
  /\ Chunk(s, "calls", f)
  /\ edges' = edges \cup
       {<<<<f, Source(s)[f]>>, Resolved(s, g)>> :
          g \in {h \in Files : /\ <<f, h>> \in Calls
                               /\ <<f, Source(s)[f]>> \in defs
                               /\ Resolved(s, h) \in defs \/ h \notin batch[s]}}
  /\ UNCHANGED <<files, defs>>

\* Mutant: write_batch links the calls before it has merged the definitions.
NextStageLinksFirst(s) ==
  /\ pc[s] \in Writing /\ rows[s] = {}
  /\ rows' = [rows EXCEPT ![s] = batch[s]]
  /\ Goto(s, CASE pc[s] = "files" -> "calls" [] pc[s] = "calls" -> "defs" [] OTHER -> "done")
  /\ UNCHANGED <<graph, inputs, batch, cuts, torn>>

NextStage(s) ==
  /\ pc[s] \in Writing /\ rows[s] = {}
  /\ rows' = [rows EXCEPT ![s] = batch[s]]
  /\ Goto(s, CASE pc[s] = "files" -> "defs" [] pc[s] = "defs" -> "calls" [] OTHER -> "done")
  /\ UNCHANGED <<graph, inputs, batch, cuts, torn>>

\* The attempt is cut short, by an error of Neo4j or the death of its process, and
\* is repeated; or schedule_to_close is over and the task fails.
Cut(s) ==
  /\ pc[s] \in Running /\ cuts < MaxCuts
  /\ cuts' = cuts + 1
  /\ torn' = (torn \/ pc[s] \in Writing)
  /\ \E stage \in {"prune", "failed"} : Goto(s, stage)
  /\ UNCHANGED <<graph, inputs, batch, rows>>

------------------------------------------------------------------------------
Scan(s) ==
  \/ Start(s) \/ Prune(s) \/ DeleteNodes(s) \/ Parse(s) \/ Stamp(s)
  \/ \E f \in Files : WriteFile(s, f) \/ WriteDefinitions(s, f) \/ WriteCalls(s, f)
  \/ NextStage(s)
  \/ Cut(s)

Ended ==
  /\ \A s \in Scans : pc[s] \in {"done", "failed"}
  /\ UNCHANGED vars

Next == (\E s \in Scans : Scan(s)) \/ Ended

Spec == Init /\ [][Next]_vars

------------------------------------------------------------------------------
(* Properties.                                                             *)

DefsOf(c) == {<<f, Content[c][f]>> : f \in Present(c)}

EdgesOf(c) ==
  {<<<<e[1], Content[c][e[1]]>>, <<e[2], IF e[2] \in Present(c) THEN Content[c][e[2]] ELSE External>>>> :
     e \in {d \in Calls : d[1] \in Present(c)}}

Completes(s) == pc[s] # "done" /\ pc'[s] = "done"

\* What the graph holds is of the commit on its Repo node, at every moment and wherever
\* an attempt was cut: prune_stale relies on it when it compares that commit only.
StampSound ==
  /\ \A f \in Files : files[f] # Absent => stamp # NoCommit /\ files[f] = Content[stamp][f]
  /\ \A d \in defs : stamp # NoCommit /\ d[2] = Content[stamp][d[1]]

\* force_reindex repairs: after a forced scan nothing of the commit is missing, wherever
\* earlier attempts were cut.
ForcedScanHeals ==
  [][\A s \in Scans : forced[s] /\ Completes(s) =>
       /\ files' = Source(s)
       /\ DefsOf(commit[s]) \subseteq defs'
       /\ EdgesOf(commit[s]) \subseteq edges']_vars

\* Unless an attempt was cut while it wrote, a completed scan leaves the graph of its
\* commit, neither more nor less, whatever was indexed before.
UncutScanExact ==
  [][\A s \in Scans : ~torn /\ Completes(s) =>
       /\ files' = Source(s)
       /\ defs' = DefsOf(commit[s])
       /\ edges' = EdgesOf(commit[s])]_vars

\* "Idempotent: re-scanning the same commit produces identical state."
Idempotent ==
  [][\A s \in Scans : Completes(s) =>
       defs' = DefsOf(commit[s]) /\ edges' = EdgesOf(commit[s])]_vars

==============================================================================
