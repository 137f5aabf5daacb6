---------------------------- MODULE IndexerProofs ----------------------------
(***************************************************************************)
(* Theorems about Indexer while one scan runs at a time.                   *)
(*                                                                         *)
(* The inductive invariant IInv follows the running scan through its       *)
(* statements: what the rows written so far have put into the graph, which *)
(* commit the graph is of, and what a graph that no cut has torn may lack. *)
(***************************************************************************)
EXTENDS Indexer, TLAPS

Batched == {"stamp"} \cup Writing

Empty ==
  /\ files = [f \in Files |-> Absent]
  /\ defs = {}
  /\ edges = {}

Complete(c) ==
  /\ files = Content[c]
  /\ DefsOf(c) \subseteq defs
  /\ EdgesOf(c) \subseteq edges

OneRuns == \A s, t \in Scans : pc[s] \in Running /\ pc[t] \in Running => s = t

GraphSound ==
  /\ StampSound
  /\ \A e \in edges : e[1] \in defs

Stamped ==
  \A s \in Scans :
    /\ pc[s] \in {"parse", "stamp"} => stamp = commit[s] \/ Empty
    /\ pc[s] \in Writing => stamp = commit[s]

Batches ==
  \A s \in Scans :
    /\ pc[s] \in Batched => batch[s] \subseteq Present(commit[s])
    /\ pc[s] \in Writing => rows[s] \subseteq batch[s]
    /\ pc[s] \in Batched /\ forced[s] => batch[s] = Present(commit[s])

Progress ==
  \A s \in Scans :
    /\ pc[s] = "files" =>
         \A f \in batch[s] \ rows[s] : files[f] = Source(s)[f]
    /\ pc[s] \in {"defs", "calls"} =>
         \A f \in batch[s] : files[f] = Source(s)[f]
    /\ pc[s] = "defs" =>
         \A f \in batch[s] \ rows[s] : <<f, Source(s)[f]>> \in defs
    /\ pc[s] = "calls" =>
         \A f \in batch[s] : <<f, Source(s)[f]>> \in defs
    /\ pc[s] = "calls" =>
         \A f \in batch[s] \ rows[s], g \in Files :
           <<f, g>> \in Calls => <<<<f, Source(s)[f]>>, Resolved(s, g)>> \in edges

Exact ==
  /\ ~torn => \A e \in edges : stamp # NoCommit /\ e \in EdgesOf(stamp)
  /\ ~torn /\ (\A s \in Scans : pc[s] \notin Writing) =>
       Empty \/ (stamp # NoCommit /\ Complete(stamp))
  /\ \A s \in Scans : ~torn /\ pc[s] \in Batched =>
       \/ batch[s] = Present(commit[s])
       \/ batch[s] = {} /\ Complete(commit[s])

IInv == TypeOK /\ OneRuns /\ GraphSound /\ Stamped /\ Batches /\ Progress /\ Exact

LEMMA InitInvariant == Init => IInv
<1> SUFFICES ASSUME Init
             PROVE  IInv
  OBVIOUS
<1>1. TypeOK
  <2>1. cuts \in 0 .. MaxCuts
    BY MaxCutsAssumption DEF Init
  <2>2. edges \subseteq Definitions \X Targets /\ defs \subseteq Definitions
    BY DEF Init
  <2>3. /\ stamp \in Commits \cup {NoCommit}
        /\ files \in [Files -> Versions \cup {Absent}]
        /\ pc \in [Scans -> Running \cup {"asked", "done", "failed"}]
        /\ commit \in [Scans -> Commits]
        /\ forced \in [Scans -> BOOLEAN]
    BY DEF Init
  <2>4. /\ batch \in [Scans -> SUBSET Files]
        /\ rows \in [Scans -> SUBSET Files]
        /\ torn \in BOOLEAN
    BY DEF Init
  <2>5. QED
    BY <2>1, <2>2, <2>3, <2>4 DEF TypeOK
<1>2. OneRuns /\ Stamped /\ Batches /\ Progress
  BY DEF Init, OneRuns, Stamped, Batches, Progress, Running, Batched, Writing
<1>3. GraphSound
  BY DEF Init, GraphSound, StampSound
<1>4. Exact
  BY DEF Init, Exact, Empty, Batched, Writing
<1>5. QED
  BY <1>1, <1>2, <1>3, <1>4 DEF IInv

\* A scan that has written all rows of every present file has completed the graph.
LEMMA BatchWritten ==
  ASSUME TypeOK, GraphSound, Progress,
         NEW s \in Scans, pc[s] = "calls", rows[s] = {}, stamp = commit[s],
         batch[s] = Present(commit[s])
  PROVE  Complete(commit[s])
<1> USE ContentAssumption
<1>1. files = Content[commit[s]]
  <2>1. ASSUME NEW f \in Files
        PROVE  files[f] = Content[commit[s]][f]
    <3>1. CASE f \in batch[s]
      BY <3>1 DEF Progress, Source
    <3>2. CASE f \notin batch[s]
      BY <3>2 DEF Present, GraphSound, StampSound
    <3>3. QED
      BY <3>1, <3>2
  <2>2. commit[s] \in Commits
    BY DEF TypeOK
  <2>3. QED
    BY <2>1, <2>2 DEF TypeOK
<1>2. DefsOf(commit[s]) \subseteq defs
  BY DEF DefsOf, Progress, Source
<1>3. ASSUME NEW e \in EdgesOf(commit[s])
      PROVE  e \in edges
  <2>1. PICK d \in Calls :
          /\ d[1] \in Present(commit[s])
          /\ e = <<<<d[1], Content[commit[s]][d[1]]>>,
                  <<d[2], IF d[2] \in Present(commit[s]) THEN Content[commit[s]][d[2]] ELSE External>>>>
    BY <1>3 DEF EdgesOf
  <2>2. d[1] \in Files /\ d[2] \in Files /\ d = <<d[1], d[2]>>
    BY CallsAssumption
  <2>3. e = <<<<d[1], Source(s)[d[1]]>>, Resolved(s, d[2])>>
    BY <2>1 DEF Source, Resolved
  <2>4. QED
    BY <2>1, <2>2, <2>3 DEF Progress
<1>4. QED
  BY <1>1, <1>2, <1>3 DEF Complete

\* What each scan has parsed is there in its commit, and what it has yet to write is of
\* that: the types hold with it, however many scans run.
LEMMA TypesKept ==
  ASSUME TypeOK, Batches, [Next]_vars
  PROVE  TypeOK' /\ Batches'
<1> USE NoCommitAssumption, AbsentAssumption, ExternalAssumption, ContentAssumption, CallsAssumption
<1>0. TypeOK /\ Batches
  OBVIOUS
<1>1. ASSUME NEW s \in Scans, Start(s)
      PROVE  TypeOK' /\ Batches'
  <2>1. TypeOK'
    BY <1>0, <1>1 DEF Start, Goto, graph, inputs, TypeOK, Definitions, Targets, Running, Writing
  <2>2. Batches'
    BY <1>0, <1>1 DEF Start, Goto, graph, inputs, Batches, Batched, Writing, Running, TypeOK, Present, Source
  <2>3. QED
    BY <2>1, <2>2
<1>2. ASSUME NEW s \in Scans, Prune(s)
      PROVE  TypeOK' /\ Batches'
  <2>1. TypeOK'
    BY <1>0, <1>2 DEF Prune, Goto, graph, inputs, TypeOK, Definitions, Targets, Running, Writing
  <2>2. Batches'
    BY <1>0, <1>2 DEF Prune, Goto, graph, inputs, Batches, Batched, Writing, Running, TypeOK, Present, Source
  <2>3. QED
    BY <2>1, <2>2
<1>3. ASSUME NEW s \in Scans, DeleteNodes(s)
      PROVE  TypeOK' /\ Batches'
  <2>1. TypeOK'
    BY <1>0, <1>3 DEF DeleteNodes, Goto, inputs, TypeOK, Definitions, Targets, Running, Writing
  <2>2. Batches'
    BY <1>0, <1>3 DEF DeleteNodes, Goto, inputs, Batches, Batched, Writing, Running, TypeOK, Present, Source
  <2>3. QED
    BY <2>1, <2>2
<1>4. ASSUME NEW s \in Scans, Parse(s)
      PROVE  TypeOK' /\ Batches'
  <2>1. TypeOK'
    <3>1. batch' \in [Scans -> SUBSET Files]
      BY <1>0, <1>4 DEF Parse, TypeOK, Present
    <3>2. QED
      BY <1>0, <1>4, <3>1 DEF Parse, Goto, graph, inputs, TypeOK, Running, Writing
  <2>2. Batches'
    BY <1>0, <1>4 DEF Parse, Goto, graph, inputs, Batches, Batched, Writing, Running, TypeOK, Present, Source
  <2>3. QED
    BY <2>1, <2>2
<1>5. ASSUME NEW s \in Scans, Stamp(s)
      PROVE  TypeOK' /\ Batches'
  <2>1. TypeOK'
    BY <1>0, <1>5 DEF Stamp, Goto, inputs, TypeOK, Definitions, Targets, Running, Writing
  <2>2. Batches'
    BY <1>0, <1>5 DEF Stamp, Goto, inputs, Batches, Batched, Writing, Running, TypeOK, Present, Source
  <2>3. QED
    BY <2>1, <2>2
<1>6. ASSUME NEW s \in Scans, NEW f \in Files, WriteFile(s, f)
      PROVE  TypeOK' /\ Batches'
  <2>1. TypeOK'
    <3>1. Source(s)[f] \in Versions
      BY <1>0, <1>6 DEF WriteFile, Chunk, TypeOK, Batches, Batched, Writing, Present, Source
    <3>2. files' \in [Files -> Versions \cup {Absent}] /\ rows' \in [Scans -> SUBSET Files]
      BY <1>0, <1>6, <3>1 DEF WriteFile, Chunk, TypeOK, Definitions
    <3>3. QED
      BY <1>0, <1>6, <3>2 DEF WriteFile, Chunk, inputs, TypeOK
  <2>2. Batches'
    BY <1>0, <1>6 DEF WriteFile, Chunk, inputs, Batches, Batched, Writing, Running, TypeOK, Present, Source
  <2>3. QED
    BY <2>1, <2>2
<1>7. ASSUME NEW s \in Scans, NEW f \in Files, WriteDefinitions(s, f)
      PROVE  TypeOK' /\ Batches'
  <2>1. TypeOK'
    <3>1. Source(s)[f] \in Versions
      BY <1>0, <1>7 DEF WriteDefinitions, Chunk, TypeOK, Batches, Batched, Writing, Present, Source
    <3>2. defs' \subseteq Definitions /\ rows' \in [Scans -> SUBSET Files]
      BY <1>0, <1>7, <3>1 DEF WriteDefinitions, Chunk, TypeOK, Definitions
    <3>3. QED
      BY <1>0, <1>7, <3>2 DEF WriteDefinitions, Chunk, inputs, TypeOK
  <2>2. Batches'
    BY <1>0, <1>7 DEF WriteDefinitions, Chunk, inputs, Batches, Batched, Writing, Running, TypeOK, Present, Source
  <2>3. QED
    BY <2>1, <2>2
<1>8. ASSUME NEW s \in Scans, NEW f \in Files, WriteCalls(s, f)
      PROVE  TypeOK' /\ Batches'
  <2> DEFINE caller == <<f, Source(s)[f]>>
             callees == {h \in Files : /\ <<f, h>> \in Calls
                                       /\ caller \in defs
                                       /\ Resolved(s, h) \in defs \/ h \notin batch[s]}
             new == {<<caller, Resolved(s, g)>> : g \in callees}
  <2>a. f \in batch[s] /\ batch[s] \subseteq Present(commit[s])
    BY <1>0, <1>8 DEF WriteCalls, Chunk, Batches, Batched, Writing
  <2>b. /\ edges' = edges \cup new
        /\ UNCHANGED <<stamp, files, defs, pc, commit, forced, batch, cuts, torn>>
        /\ rows' = [rows EXCEPT ![s] = @ \ {f}]
    BY <1>8 DEF WriteCalls, Chunk, inputs
  <2>c. \A g \in batch[s] : Source(s)[g] \in Versions
    BY <1>0, <2>a DEF Source, Present, TypeOK
  <2>d. \A g \in Files : Resolved(s, g) \in Targets
    BY <2>c DEF Resolved, Targets
  <2>1. TypeOK'
    <3>1. new \subseteq Definitions \X Targets
      <4>1. caller \in Definitions
        BY <2>a, <2>c DEF Definitions
      <4>2. \A g \in callees : <<caller, Resolved(s, g)>> \in Definitions \X Targets
        BY <4>1, <2>d
      <4>3. QED
        BY <4>2
    <3>2. edges' \subseteq Definitions \X Targets
      BY <1>0, <2>b, <3>1 DEF TypeOK
    <3>3. rows' \in [Scans -> SUBSET Files]
      BY <1>0, <2>b DEF TypeOK
    <3>4. QED
      BY <1>0, <2>b, <3>2, <3>3 DEF TypeOK
  <2>2. Batches'
    BY <1>0, <2>b DEF Batches, Present, TypeOK
  <2>3. QED
    BY <2>1, <2>2
<1>9. ASSUME NEW s \in Scans, NextStage(s)
      PROVE  TypeOK' /\ Batches'
  <2>1. TypeOK'
    BY <1>0, <1>9 DEF NextStage, Goto, graph, inputs, TypeOK, Definitions, Targets, Running, Writing
  <2>2. Batches'
    BY <1>0, <1>9 DEF NextStage, Goto, graph, inputs, Batches, Batched, Writing, Running, TypeOK, Present, Source
  <2>3. QED
    BY <2>1, <2>2
<1>10. ASSUME NEW s \in Scans, Cut(s)
      PROVE  TypeOK' /\ Batches'
  <2>1. TypeOK'
    <3>1. cuts' \in 0 .. MaxCuts
      BY <1>0, <1>10, MaxCutsAssumption DEF Cut, TypeOK
    <3>2. torn' \in BOOLEAN
      BY <1>10 DEF Cut
    <3>3. pc' \in [Scans -> Running \cup {"asked", "done", "failed"}]
      BY <1>0, <1>10 DEF Cut, Goto, TypeOK, Running
    <3>4. QED
      BY <1>0, <1>10, <3>1, <3>2, <3>3 DEF Cut, graph, inputs, TypeOK
  <2>2. Batches'
    BY <1>0, <1>10 DEF Cut, Goto, graph, inputs, Batches, Batched, Writing, Running, TypeOK, Present, Source
  <2>3. QED
    BY <2>1, <2>2
<1>20. CASE UNCHANGED vars
  BY <1>20 DEF TypeOK, Batches, vars, graph, inputs
<1>21. QED
  BY <1>1, <1>2, <1>3, <1>4, <1>5, <1>6, <1>7, <1>8, <1>9, <1>10, <1>20 DEF Next, Scan, Ended

LEMMA TypeInvariance == Spec => [](TypeOK /\ Batches)
<1>1. Init => TypeOK /\ Batches
  BY InitInvariant DEF IInv
<1>2. TypeOK /\ Batches /\ [Next]_vars => TypeOK' /\ Batches'
  BY TypesKept
<1>3. QED
  BY <1>1, <1>2, PTL DEF Spec

\* The graph and the scans have their types however many scans run at once: a scan that
\* another one overlaps still writes only files its own commit has.
THEOREM TypeCorrect == Spec => []TypeOK
  BY TypeInvariance, PTL

LEMMA NextInvariant ==
  ASSUME ~Overlapping, IInv, [Next]_vars
  PROVE  IInv'
<1> USE NoCommitAssumption, AbsentAssumption, ExternalAssumption, ContentAssumption, CallsAssumption
<1>0. /\ TypeOK /\ OneRuns /\ GraphSound
      /\ Stamped /\ Batches /\ Progress /\ Exact
  BY DEF IInv
<1>a. TypeOK' /\ Batches'
  BY <1>0, TypesKept
<1>1. ASSUME NEW s \in Scans, Start(s)
      PROVE  IInv'
  <2>2. OneRuns'
    BY <1>0, <1>1 DEF Start, Goto, graph, inputs, OneRuns, TypeOK, Running, Writing
  <2>3. GraphSound'
    BY <1>0, <1>1 DEF Start, Goto, graph, inputs, GraphSound, StampSound, Stamped, Empty, TypeOK, Source, Writing, Running, Batches, Progress, Batched
  <2>4. Stamped'
    BY <1>0, <1>1 DEF Start, Goto, graph, inputs, Stamped, Empty, OneRuns, Running, Writing, TypeOK
  <2>6. Progress'
    BY <1>0, <1>1 DEF Start, Goto, graph, inputs, Progress, Writing, Batched, Batches, Source, Resolved, TypeOK, OneRuns, Running
  <2>7. Exact'
    BY <1>0, <1>1 DEF Start, Goto, graph, inputs, Exact, Writing, Batched, Empty, Complete, TypeOK, OneRuns, Running, Stamped, Present, Source
  <2>8. QED
    BY <1>a, <2>2, <2>3, <2>4, <2>6, <2>7 DEF IInv
<1>2. ASSUME NEW s \in Scans, Prune(s)
      PROVE  IInv'
  <2>2. OneRuns'
    BY <1>0, <1>2 DEF Prune, Goto, graph, inputs, OneRuns, TypeOK, Running, Writing
  <2>3. GraphSound'
    BY <1>0, <1>2 DEF Prune, Goto, graph, inputs, GraphSound, StampSound, Stamped, Empty, TypeOK, Source, Writing, Running, Batches, Progress, Batched
  <2>4. Stamped'
    <3>1. stamp = NoCommit => files = [f \in Files |-> Absent] /\ defs = {}
      BY <1>0 DEF GraphSound, StampSound, TypeOK
    <3>2. stamp = NoCommit => Empty
      BY <1>0, <3>1 DEF GraphSound, Empty
    <3>3. QED
      BY <1>0, <1>2, <3>2 DEF Prune, Goto, graph, inputs, Stamped, Empty, Writing, TypeOK
  <2>6. Progress'
    BY <1>0, <1>2 DEF Prune, Goto, graph, inputs, Progress, Writing, Batched, Batches, Source, Resolved, TypeOK, OneRuns, Running
  <2>7. Exact'
    BY <1>0, <1>2 DEF Prune, Goto, graph, inputs, Exact, Writing, Batched, Empty, Complete, TypeOK, OneRuns, Running, Stamped, Present, Source
  <2>8. QED
    BY <1>a, <2>2, <2>3, <2>4, <2>6, <2>7 DEF IInv
<1>3. ASSUME NEW s \in Scans, DeleteNodes(s)
      PROVE  IInv'
  <2>2. OneRuns'
    BY <1>0, <1>3 DEF DeleteNodes, Goto, inputs, OneRuns, TypeOK, Running, Writing
  <2>3. GraphSound'
    BY <1>0, <1>3 DEF DeleteNodes, Goto, inputs, GraphSound, StampSound, Stamped, Empty, TypeOK, Source, Writing, Running, Batches, Progress, Batched
  <2>4. Stamped'
    BY <1>0, <1>3 DEF DeleteNodes, Goto, inputs, Stamped, Empty, OneRuns, Running, Writing, TypeOK
  <2>6. Progress'
    BY <1>0, <1>3 DEF DeleteNodes, Goto, inputs, Progress, Writing, Batched, Batches, Source, Resolved, TypeOK, OneRuns, Running
  <2>7. Exact'
    BY <1>0, <1>3 DEF DeleteNodes, Goto, inputs, Exact, Writing, Batched, Empty, Complete, TypeOK, OneRuns, Running, Stamped, Present, Source
  <2>8. QED
    BY <1>a, <2>2, <2>3, <2>4, <2>6, <2>7 DEF IInv
<1>4. ASSUME NEW s \in Scans, Parse(s)
      PROVE  IInv'
  <2>2. OneRuns'
    BY <1>0, <1>4 DEF Parse, Goto, graph, inputs, OneRuns, TypeOK, Running, Writing
  <2>3. GraphSound'
    BY <1>0, <1>4 DEF Parse, Goto, graph, inputs, GraphSound, StampSound, Stamped, Empty, TypeOK, Source, Writing, Running, Batches, Progress, Batched
  <2>4. Stamped'
    BY <1>0, <1>4 DEF Parse, Goto, graph, inputs, Stamped, Empty, OneRuns, Running, Writing, TypeOK
  <2>6. Progress'
    BY <1>0, <1>4 DEF Parse, Goto, graph, inputs, Progress, Writing, Batched, Batches, Source, Resolved, TypeOK, OneRuns, Running
  <2>7. Exact'
    BY <1>0, <1>4 DEF Parse, Goto, graph, inputs, Exact, Writing, Batched, Empty, Complete, TypeOK, OneRuns, Running, Stamped, Present, Source
  <2>8. QED
    BY <1>a, <2>2, <2>3, <2>4, <2>6, <2>7 DEF IInv
<1>5. ASSUME NEW s \in Scans, Stamp(s)
      PROVE  IInv'
  <2>2. OneRuns'
    BY <1>0, <1>5 DEF Stamp, Goto, inputs, OneRuns, TypeOK, Running, Writing
  <2>3. GraphSound'
    BY <1>0, <1>5 DEF Stamp, Goto, inputs, GraphSound, StampSound, Stamped, Empty, TypeOK, Source, Writing, Running, Batches, Progress, Batched
  <2>4. Stamped'
    BY <1>0, <1>5 DEF Stamp, Goto, inputs, Stamped, Empty, OneRuns, Running, Writing, TypeOK
  <2>6. Progress'
    BY <1>0, <1>5 DEF Stamp, Goto, inputs, Progress, Writing, Batched, Batches, Source, Resolved, TypeOK, OneRuns, Running
  <2>7. Exact'
    BY <1>0, <1>5 DEF Stamp, Goto, inputs, Exact, Writing, Batched, Empty, Complete, TypeOK, OneRuns, Running, Stamped, Present, Source
  <2>8. QED
    BY <1>a, <2>2, <2>3, <2>4, <2>6, <2>7 DEF IInv
<1>6. ASSUME NEW s \in Scans, NEW f \in Files, WriteFile(s, f)
      PROVE  IInv'
  <2>2. OneRuns'
    BY <1>0, <1>6 DEF WriteFile, Chunk, inputs, OneRuns, TypeOK, Running, Writing
  <2>3. GraphSound'
    BY <1>0, <1>6 DEF WriteFile, Chunk, inputs, GraphSound, StampSound, Stamped, Empty, TypeOK, Source, Writing, Running, Batches, Progress, Batched
  <2>4. Stamped'
    BY <1>0, <1>6 DEF WriteFile, Chunk, inputs, Stamped, Empty, OneRuns, Running, Writing, TypeOK
  <2>6. Progress'
    BY <1>0, <1>6 DEF WriteFile, Chunk, inputs, Progress, Writing, Batched, Batches, Source, Resolved, TypeOK, OneRuns, Running
  <2>7. Exact'
    BY <1>0, <1>6 DEF WriteFile, Chunk, inputs, Exact, Writing, Batched, Empty, Complete, TypeOK, OneRuns, Running, Stamped, Present, Source
  <2>8. QED
    BY <1>a, <2>2, <2>3, <2>4, <2>6, <2>7 DEF IInv
<1>7. ASSUME NEW s \in Scans, NEW f \in Files, WriteDefinitions(s, f)
      PROVE  IInv'
  <2>2. OneRuns'
    BY <1>0, <1>7 DEF WriteDefinitions, Chunk, inputs, OneRuns, TypeOK, Running, Writing
  <2>3. GraphSound'
    BY <1>0, <1>7 DEF WriteDefinitions, Chunk, inputs, GraphSound, StampSound, Stamped, Empty, TypeOK, Source, Writing, Running, Batches, Progress, Batched
  <2>4. Stamped'
    BY <1>0, <1>7 DEF WriteDefinitions, Chunk, inputs, Stamped, Empty, OneRuns, Running, Writing, TypeOK
  <2>6. Progress'
    BY <1>0, <1>7 DEF WriteDefinitions, Chunk, inputs, Progress, Writing, Batched, Batches, Source, Resolved, TypeOK, OneRuns, Running
  <2>7. Exact'
    BY <1>0, <1>7 DEF WriteDefinitions, Chunk, inputs, Exact, Writing, Batched, Empty, Complete, TypeOK, OneRuns, Running, Stamped, Present, Source
  <2>8. QED
    BY <1>a, <2>2, <2>3, <2>4, <2>6, <2>7 DEF IInv
<1>8. ASSUME NEW s \in Scans, NEW f \in Files, WriteCalls(s, f)
      PROVE  IInv'
  <2> DEFINE caller == <<f, Source(s)[f]>>
             callees == {h \in Files : /\ <<f, h>> \in Calls
                                       /\ caller \in defs
                                       /\ Resolved(s, h) \in defs \/ h \notin batch[s]}
             new == {<<caller, Resolved(s, g)>> : g \in callees}
  <2>a. /\ pc[s] = "calls" /\ f \in rows[s] /\ rows[s] \subseteq batch[s]
        /\ batch[s] \subseteq Present(commit[s])
        /\ stamp = commit[s]
    BY <1>0, <1>8 DEF WriteCalls, Chunk, Batches, Batched, Writing, Stamped
  <2>b. /\ edges' = edges \cup new
        /\ UNCHANGED <<stamp, files, defs, pc, commit, forced, batch, cuts, torn>>
        /\ rows' = [rows EXCEPT ![s] = @ \ {f}]
    BY <1>8 DEF WriteCalls, Chunk, inputs
  <2>c. \A g \in batch[s] : g \in Files /\ Source(s)[g] \in Versions /\ Source(s)[g] = Content[commit[s]][g]
    BY <1>0, <2>a DEF Source, Present, TypeOK
  <2>e. \A g \in batch[s] : <<g, Source(s)[g]>> \in defs
    BY <1>0, <2>a DEF Progress
  <2>2. OneRuns'
    BY <1>0, <2>b DEF OneRuns
  <2>3. GraphSound'
    <3>1. \A e \in new : e[1] \in defs
      <4>1. \A g \in callees : <<caller, Resolved(s, g)>>[1] \in defs
        OBVIOUS
      <4>2. QED
        BY <4>1
    <3>2. \A e \in edges' : e[1] \in defs'
      BY <1>0, <2>b, <3>1 DEF GraphSound
    <3>3. StampSound'
      BY <1>0, <2>b DEF GraphSound, StampSound
    <3>4. QED
      BY <3>2, <3>3 DEF GraphSound
  <2>4. Stamped'
    BY <1>0, <2>a, <2>b DEF Stamped, OneRuns, Running, Writing
  <2>6. Progress'
    <3> DEFINE Linked(e) == e \in edges
    <3>1. \A g \in Files : <<f, g>> \in Calls => <<caller, Resolved(s, g)>> \in edges'
      BY <2>a, <2>b, <2>e DEF Resolved
    <3>2. ASSUME NEW h \in batch[s] \ rows'[s], NEW g \in Files, <<h, g>> \in Calls
          PROVE  <<<<h, Source(s)[h]>>, Resolved(s, g)>> \in edges'
      <4>1. CASE h = f
        BY <3>1, <3>2, <4>1
      <4>2. CASE h # f
        BY <1>0, <2>a, <2>b, <3>2, <4>2 DEF Progress, TypeOK
      <4>3. QED
        BY <4>1, <4>2
    <3>3. \A t \in Scans : pc[t] \in Writing => t = s
      BY <1>0, <2>a DEF OneRuns, Running, Writing
    <3>4. \A t \in Scans : Source(t)' = Source(t) /\ (\A g \in Files : Resolved(t, g)' = Resolved(t, g))
      BY <2>b DEF Source, Resolved
    <3>5. ASSUME NEW t \in Scans, pc'[t] \in Writing
          PROVE  t = s /\ pc'[t] = "calls"
      BY <2>a, <2>b, <3>3, <3>5
    <3>6. \A h \in batch[s] : files'[h] = Source(s)[h] /\ <<h, Source(s)[h]>> \in defs'
      BY <1>0, <2>a, <2>b DEF Progress
    <3>7. ASSUME NEW t \in Scans, pc'[t] \in Writing
          PROVE  /\ pc'[t] = "calls"
                 /\ \A h \in batch'[t] :
                      files'[h] = Source(t)'[h] /\ <<h, Source(t)'[h]>> \in defs'
                 /\ \A h \in batch'[t] \ rows'[t], g \in Files :
                      <<h, g>> \in Calls => <<<<h, Source(t)'[h]>>, Resolved(t, g)'>> \in edges'
      <4>1. t = s /\ pc'[t] = "calls"
        BY <3>5, <3>7
      <4>2. batch'[t] = batch[s] /\ Source(t)' = Source(s) /\ (\A g \in Files : Resolved(t, g)' = Resolved(s, g))
        BY <2>b, <3>4, <4>1
      <4>3. QED
        BY <3>2, <3>6, <4>1, <4>2
    <3>8. QED
      BY <3>7 DEF Progress, Writing
  <2>7. Exact'
    <3>1. ~torn => \A e \in new : e \in EdgesOf(stamp)
      <4> SUFFICES ASSUME ~torn, NEW g \in callees
                   PROVE  <<caller, Resolved(s, g)>> \in EdgesOf(stamp)
        OBVIOUS
      <4>1. batch[s] = Present(commit[s])
        BY <1>0, <2>a DEF Exact, Batched, Writing
      <4>2. Resolved(s, g) = <<g, IF g \in Present(stamp) THEN Content[stamp][g] ELSE External>>
        BY <2>a, <2>c, <4>1 DEF Resolved
      <4>3. caller = <<f, Content[stamp][f]>> /\ f \in Present(stamp) /\ <<f, g>> \in Calls
        BY <2>a, <2>c
      <4>4. <<f, g>>[1] = f /\ <<f, g>>[2] = g
        OBVIOUS
      <4>5. QED
        BY <4>2, <4>3, <4>4 DEF EdgesOf
    <3>2. stamp # NoCommit
      BY <1>0, <2>a, NoCommitAssumption DEF TypeOK
    <3>3. \A t \in Scans : Complete(commit[t]) => Complete(commit[t])'
      BY <2>b DEF Complete, DefsOf, EdgesOf, Present
    <3>4. ~torn' => \A e \in edges' : stamp' # NoCommit /\ e \in EdgesOf(stamp)'
      <4>1. EdgesOf(stamp)' = EdgesOf(stamp)
        BY <2>b DEF EdgesOf, Present
      <4>2. QED
        BY <1>0, <2>b, <3>1, <3>2, <4>1 DEF Exact
    <3>5. pc'[s] \in Writing
      BY <2>a, <2>b DEF Writing
    <3>6. \A t \in Scans : ~torn' /\ pc'[t] \in Batched =>
            \/ batch'[t] = Present(commit[t])'
            \/ batch'[t] = {} /\ Complete(commit[t])'
      <4>1. \A t \in Scans : Present(commit[t])' = Present(commit[t])
        BY <2>b DEF Present
      <4>2. QED
        BY <1>0, <2>b, <3>3, <4>1 DEF Exact
    <3>7. QED
      BY <2>b, <3>4, <3>5, <3>6 DEF Exact
  <2>8. QED
    BY <1>a, <2>2, <2>3, <2>4, <2>6, <2>7 DEF IInv
<1>9. ASSUME NEW s \in Scans, NextStage(s)
      PROVE  IInv'
  <2>2. OneRuns'
    BY <1>0, <1>9 DEF NextStage, Goto, graph, inputs, OneRuns, TypeOK, Running, Writing
  <2>3. GraphSound'
    BY <1>0, <1>9 DEF NextStage, Goto, graph, inputs, GraphSound, StampSound, Stamped, Empty, TypeOK, Source, Writing, Running, Batches, Progress, Batched
  <2>4. Stamped'
    BY <1>0, <1>9 DEF NextStage, Goto, graph, inputs, Stamped, Empty, OneRuns, Running, Writing, TypeOK
  <2>6. Progress'
    BY <1>0, <1>9 DEF NextStage, Goto, graph, inputs, Progress, Writing, Batched, Batches, Source, Resolved, TypeOK, OneRuns, Running
  <2>7. Exact'
    <3>1. UNCHANGED <<stamp, files, defs, edges, commit, forced, batch, torn>>
      BY <1>9 DEF NextStage, graph, inputs
    <3>2. stamp = commit[s] /\ stamp # NoCommit
      BY <1>0, <1>9 DEF NextStage, Stamped, TypeOK
    <3>3. ASSUME pc'[s] = "done", ~torn
          PROVE  Complete(commit[s])
      <4>1. pc[s] = "calls" /\ rows[s] = {}
        BY <1>0, <1>9, <3>3 DEF NextStage, Goto, TypeOK, Writing
      <4>2. CASE batch[s] = {} /\ Complete(commit[s])
        BY <4>2
      <4>3. CASE batch[s] = Present(commit[s])
        BY <1>0, <3>2, <4>1, <4>3, BatchWritten
      <4>4. QED
        BY <1>0, <3>3, <4>1, <4>2, <4>3 DEF Exact, Batched, Writing
    <3>4. \A t \in Scans : pc[t] \in Running => t = s
      BY <1>0, <1>9 DEF NextStage, OneRuns, Running, Writing
    <3>5. pc'[s] \in Writing \/ pc'[s] = "done"
      BY <1>0, <1>9 DEF NextStage, Goto, TypeOK, Writing
    <3>6. ~torn' /\ (\A t \in Scans : pc'[t] \notin Writing) =>
            Complete(stamp)
      BY <3>1, <3>2, <3>3, <3>5
    <3>7. \A t \in Scans : pc'[t] \in Batched => pc[t] \in Batched
      BY <1>0, <1>9 DEF NextStage, Goto, TypeOK, Batched, Writing
    <3>8. \A t \in Scans : ~torn' /\ pc'[t] \in Batched =>
            \/ batch[t] = Present(commit[t])
            \/ batch[t] = {} /\ Complete(commit[t])
      BY <1>0, <3>1, <3>7 DEF Exact
    <3>9. QED
      BY <1>0, <3>1, <3>2, <3>6, <3>8 DEF Exact, Complete, EdgesOf, DefsOf, Present
  <2>8. QED
    BY <1>a, <2>2, <2>3, <2>4, <2>6, <2>7 DEF IInv
<1>10. ASSUME NEW s \in Scans, Cut(s)
      PROVE  IInv'
  <2>2. OneRuns'
    BY <1>0, <1>10 DEF Cut, Goto, graph, inputs, OneRuns, TypeOK, Running, Writing
  <2>3. GraphSound'
    BY <1>0, <1>10 DEF Cut, Goto, graph, inputs, GraphSound, StampSound, Stamped, Empty, TypeOK, Source, Writing, Running, Batches, Progress, Batched
  <2>4. Stamped'
    BY <1>0, <1>10 DEF Cut, Goto, graph, inputs, Stamped, Empty, OneRuns, Running, Writing, TypeOK
  <2>6. Progress'
    BY <1>0, <1>10 DEF Cut, Goto, graph, inputs, Progress, Writing, Batched, Batches, Source, Resolved, TypeOK, OneRuns, Running
  <2>7. Exact'
    BY <1>0, <1>10 DEF Cut, Goto, graph, inputs, Exact, Writing, Batched, Empty, Complete, TypeOK, OneRuns, Running, Stamped, Present, Source
  <2>8. QED
    BY <1>a, <2>2, <2>3, <2>4, <2>6, <2>7 DEF IInv
<1>20. CASE UNCHANGED vars
  BY <1>20 DEF IInv, TypeOK, OneRuns, GraphSound, StampSound, Stamped, Batches, Progress, Exact, Empty, Complete, Source, Resolved, vars, graph, inputs
<1>21. QED
  BY <1>1, <1>2, <1>3, <1>4, <1>5, <1>6, <1>7, <1>8, <1>9, <1>10, <1>20 DEF Next, Scan, Ended

\* Only the last statement's end completes a scan, and it leaves the graph alone.
LEMMA Completion ==
  ASSUME TypeOK, [Next]_vars, NEW s \in Scans, Completes(s)
  PROVE  /\ pc[s] = "calls" /\ rows[s] = {}
         /\ UNCHANGED graph
<1>1. pc'[s] # pc[s]
  BY DEF Completes
<1>2. PICK t \in Scans : Scan(t)
  BY <1>1 DEF Next, Ended, vars
<1>3. CASE NextStage(t)
  <2>1. t = s
    BY <1>1, <1>3 DEF NextStage, Goto, TypeOK
  <2>2. QED
    BY <1>3, <2>1 DEF NextStage, Goto, Completes, TypeOK, Writing
<1>4. CASE \/ Start(t) \/ Prune(t) \/ DeleteNodes(t) \/ Parse(t) \/ Stamp(t) \/ Cut(t)
           \/ \E f \in Files : WriteFile(t, f) \/ WriteDefinitions(t, f) \/ WriteCalls(t, f)
  BY <1>1, <1>4 DEF Start, Prune, DeleteNodes, Parse, Stamp, Cut, Goto, WriteFile,
    WriteDefinitions, WriteCalls, Chunk, Completes, TypeOK
<1>5. QED
  BY <1>2, <1>3, <1>4 DEF Scan

LEMMA Invariance ==
  ASSUME ~Overlapping
  PROVE  Spec => []IInv
<1>1. Init => IInv
  BY InitInvariant
<1>2. IInv /\ [Next]_vars => IInv'
  BY NextInvariant
<1>3. QED
  BY <1>1, <1>2, PTL DEF Spec

\* One scan at a time keeps the graph of the commit on its Repo node, whatever is cut
\* and whatever the files and commits are.
THEOREM StampCorrect ==
  ASSUME ~Overlapping
  PROVE  Spec => []StampSound
<1>1. IInv => StampSound
  BY DEF IInv, GraphSound
<1>2. QED
  BY <1>1, Invariance, PTL

\* A completed scan with force_reindex has repaired every earlier attempt's damage.
THEOREM HealsCorrect ==
  ASSUME ~Overlapping
  PROVE  Spec => ForcedScanHeals
<1>1. ASSUME IInv, [Next]_vars, NEW s \in Scans, forced[s], Completes(s)
      PROVE  /\ files' = Source(s)
             /\ DefsOf(commit[s]) \subseteq defs'
             /\ EdgesOf(commit[s]) \subseteq edges'
  <2>1. pc[s] = "calls" /\ rows[s] = {} /\ UNCHANGED graph
    BY <1>1, Completion DEF IInv
  <2>2. stamp = commit[s] /\ batch[s] = Present(commit[s])
    BY <1>1, <2>1 DEF IInv, Stamped, Batches, Batched, Writing
  <2>3. Complete(commit[s])
    BY <1>1, <2>1, <2>2, BatchWritten DEF IInv
  <2>4. QED
    BY <2>1, <2>3 DEF Complete, graph, Source
<1>2. IInv /\ [Next]_vars =>
        [\A s \in Scans : forced[s] /\ Completes(s) =>
           /\ files' = Source(s)
           /\ DefsOf(commit[s]) \subseteq defs'
           /\ EdgesOf(commit[s]) \subseteq edges']_vars
  BY <1>1
<1>3. QED
  BY <1>2, Invariance, PTL DEF Spec, ForcedScanHeals

\* A completed scan leaves exactly its commit's graph unless an attempt was cut while it
\* wrote: the incremental scan and the full one agree.
THEOREM ExactCorrect ==
  ASSUME ~Overlapping
  PROVE  Spec => UncutScanExact
<1>1. ASSUME IInv, [Next]_vars, NEW s \in Scans, ~torn, Completes(s)
      PROVE  /\ files' = Source(s)
             /\ defs' = DefsOf(commit[s])
             /\ edges' = EdgesOf(commit[s])
  <2>1. pc[s] = "calls" /\ rows[s] = {} /\ UNCHANGED graph
    BY <1>1, Completion DEF IInv
  <2>2. stamp = commit[s]
    BY <1>1, <2>1 DEF IInv, Stamped, Writing
  <2>3. Complete(commit[s])
    <3>1. CASE batch[s] = Present(commit[s])
      BY <1>1, <2>1, <2>2, <3>1, BatchWritten DEF IInv
    <3>2. CASE Complete(commit[s])
      BY <3>2
    <3>3. QED
      BY <1>1, <2>1, <3>1, <3>2 DEF IInv, Exact, Batched, Writing
  <2>4. defs \subseteq DefsOf(commit[s])
    <3>1. ASSUME NEW d \in defs
          PROVE  d \in DefsOf(commit[s])
      <4>1. d \in Definitions /\ d[2] = Content[commit[s]][d[1]]
        BY <1>1, <2>2, <3>1 DEF IInv, TypeOK, GraphSound, StampSound
      <4>2. d = <<d[1], d[2]>> /\ d[1] \in Files /\ d[2] # Absent
        BY <4>1, AbsentAssumption DEF Definitions
      <4>3. QED
        BY <4>1, <4>2 DEF DefsOf, Present
    <3>2. QED
      BY <3>1
  <2>5. edges \subseteq EdgesOf(commit[s])
    BY <1>1, <2>2 DEF IInv, Exact
  <2>6. QED
    BY <2>1, <2>3, <2>4, <2>5 DEF Complete, graph, Source
<1>2. IInv /\ [Next]_vars =>
        [\A s \in Scans : ~torn /\ Completes(s) =>
           /\ files' = Source(s)
           /\ defs' = DefsOf(commit[s])
           /\ edges' = EdgesOf(commit[s])]_vars
  BY <1>1
<1>3. QED
  BY <1>2, Invariance, PTL DEF Spec, UncutScanExact

==============================================================================
