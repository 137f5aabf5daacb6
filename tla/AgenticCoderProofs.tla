------------------------- MODULE AgenticCoderProofs -------------------------
(***************************************************************************)
(* Proofs about AgenticCoder: its types, what a green verdict vouches for  *)
(* and that the removal loses nothing, for any attempts that share the     *)
(* workspace, any files, any that the listing passes over and any cap on   *)
(* the model's messages.                                                   *)
(***************************************************************************)
EXTENDS AgenticCoder, TLAPS

\* An attempt counts no message and has no verdict before it begins, and takes
\* nothing before it lists the workspace.
Fresh(a) ==
  /\ pc[a] = "waiting" => iter[a] = 0 /\ ~green[a]
  /\ pc[a] \notin {"reading", "removing"} => taken[a] = Nothing

\* What a's result has of f is what was vouched for.
Covers(a, f) ==
  vouched[a][f] \in {taken[a][f], Free} \/ (vouched[a][f] = Binary /\ taken[a][f] = None)

\* What a green verdict vouches for is there until it is read, and then in the result.
Vouched(a) ==
  /\ green[a] /\ pc[a] \in {"asking", "tools"} \cup Shells =>
       \A f \in Files : vouched[a][f] \in {dir[f], Free}
  /\ green[a] /\ pc[a] = "reading" =>
       \A f \in Files : IF f \in todo[a] THEN vouched[a][f] \in {dir[f], Free}
                        ELSE f \in skipped \/ Covers(a, f)
  /\ pc[a] = "removing" => \A f \in Files \ skipped : Covers(a, f)

\* f is not lost if a removes it now.
Kept(a, f) == dir[f] = Binary \/ f \in skipped \/ f \in meanwhile[a] \/ taken[a][f] = dir[f]

\* What has been read is kept, and so is all that is still to be removed.
Taken(a) ==
  /\ pc[a] = "reading" => \A f \in Files \ todo[a] : Kept(a, f)
  /\ pc[a] = "removing" => \A f \in todo[a] : Kept(a, f)

\* The inductive invariant, of each attempt.
Inv(a) == Fresh(a) /\ Vouched(a) /\ Taken(a)
IInv == TypeOK /\ \A a \in Attempts : Inv(a)

------------------------------------------------------------------------------
\* Writing to the workspace keeps the types.
LEMMA ChangeTyped ==
  ASSUME TypeOK, NEW own, NEW fs \in SUBSET Files,
         NEW new \in Attempts \cup {"template", Binary, None}, Change(own, fs, new)
  PROVE  /\ dir' \in Contents
         /\ vouched' \in [Attempts -> [Files -> Attempts \cup {"template", Binary, None, Free}]]
         /\ meanwhile' \in [Attempts -> SUBSET Files]
BY DEF TypeOK, Change, Contents

\* What an attempt writes to a file.
LEMMA TextTyped ==
  ASSUME NEW a \in Attempts, NEW f
  PROVE  Text(a, f) \in Attempts \cup {"template", Binary, None}
BY DEF Text

\* The type of an empty directory.
LEMMA NothingTyped == Nothing \in Contents
BY DEF Nothing, Contents

\* An attempt that has ended remembers nothing; the others notice nothing.
LEMMA ForgetTyped ==
  ASSUME TypeOK, NEW a \in Attempts, Forget(a)
  PROVE  /\ iter' \in [Attempts -> 0 .. MaxIterations] /\ green' \in [Attempts -> BOOLEAN]
         /\ todo' \in [Attempts -> SUBSET Files] /\ taken' \in [Attempts -> Contents]
         /\ vouched' \in [Attempts -> [Files -> Attempts \cup {"template", Binary, None, Free}]]
         /\ meanwhile' \in [Attempts -> SUBSET Files]
         /\ taken'[a] = Nothing
         /\ \A b \in Attempts \ {a} :
              /\ iter'[b] = iter[b] /\ green'[b] = green[b] /\ todo'[b] = todo[b]
              /\ taken'[b] = taken[b] /\ vouched'[b] = vouched[b] /\ meanwhile'[b] = meanwhile[b]
<1>1. 0 \in 0 .. MaxIterations
  BY MaxIterationsAssumption
<1>2. Nothing \in [Files -> Attempts \cup {"template", Binary, None, Free}]
  BY DEF Nothing
<1> QED BY <1>1, <1>2, NothingTyped DEF TypeOK, Forget

\* A verdict keeps the types.
LEMMA RecordTyped ==
  ASSUME TypeOK, NEW a \in Attempts, NEW ok \in BOOLEAN, Record(a, ok)
  PROVE  /\ green' \in [Attempts -> BOOLEAN]
         /\ vouched' \in [Attempts -> [Files -> Attempts \cup {"template", Binary, None, Free}]]
<1>1. Nothing \in [Files -> Attempts \cup {"template", Binary, None, Free}]
  BY DEF Nothing
<1>2. [f \in Files |-> IF f \in meanwhile[a] THEN Free ELSE dir[f]]
        \in [Files -> Attempts \cup {"template", Binary, None, Free}]
  BY DEF TypeOK, Contents
<1> QED BY <1>1, <1>2 DEF TypeOK, Record

\* The initial state satisfies the inductive invariant.
LEMMA InitIInv == Init => IInv
<1> SUFFICES ASSUME Init PROVE IInv
  OBVIOUS
<1>1. TypeOK
  <2>1. 0 \in 0 .. MaxIterations
    BY MaxIterationsAssumption
  <2>2. Nothing \in [Files -> Attempts \cup {"template", Binary, None, Free}]
    BY DEF Nothing
  <2>3. template \subseteq Files /\ skipped \subseteq Paths
    BY DEF Init
  <2> QED BY <2>1, <2>2, <2>3, NothingTyped DEF Init, TypeOK, Running, Shells
<1>2. ASSUME NEW a \in Attempts PROVE Inv(a)
  BY DEF Init, Inv, Fresh, Vouched, Taken, Shells
<1> QED BY <1>1, <1>2 DEF IInv

\* Every step keeps the types; a fresh attempt starts below the cap.
LEMMA TypeStep == IInv /\ [Next]_vars => TypeOK'
<1> SUFFICES ASSUME IInv, [Next]_vars PROVE TypeOK'
  OBVIOUS
<1> TypeOK /\ \A a \in Attempts : Fresh(a)
  BY DEF IInv, Inv
<1> USE MaxIterationsAssumption DEF inputs, endVars, ghosts
<1>1. ASSUME NEW a \in Attempts, Begin(a) PROVE TypeOK'
  <2>1. /\ dir' \in Contents
        /\ vouched' \in [Attempts -> [Files -> Attempts \cup {"template", Binary, None, Free}]]
        /\ meanwhile' \in [Attempts -> SUBSET Files]
    BY <1>1, ChangeTyped DEF Begin, TypeOK
  <2>2. \A b \in Attempts : pc'[b] \in Running => iter'[b] < MaxIterations
    BY <1>1 DEF Begin, Fresh, TypeOK
  <2>3. pc' \in [Attempts -> {"waiting", "done", "failed"} \cup Running]
    BY <1>1 DEF Begin, TypeOK, Running
  <2> QED BY <1>1, <2>1, <2>2, <2>3 DEF Begin, TypeOK
<1>2. ASSUME NEW a \in Attempts, Answer(a) PROVE TypeOK'
  <2>1. pc' \in [Attempts -> {"waiting", "done", "failed"} \cup Running]
    BY <1>2 DEF Answer, ListFiles, CallTools, TypeOK, Running
  <2>2. CASE ListFiles(a)
    <3>1. todo' \in [Attempts -> SUBSET Files] /\ meanwhile' \in [Attempts -> SUBSET Files]
      BY <2>2 DEF ListFiles, TypeOK
    <3>2. \A b \in Attempts : pc'[b] \in Running => iter'[b] < MaxIterations
      BY <1>2, <2>2 DEF Answer, ListFiles, TypeOK, Running
    <3> QED BY <1>2, <2>1, <2>2, <3>1, <3>2 DEF Answer, ListFiles, TypeOK
  <2>3. CASE iter[a] + 1 < MaxIterations /\ CallTools(a)
    <3>1. iter' \in [Attempts -> 0 .. MaxIterations]
      BY <2>3 DEF CallTools, TypeOK
    <3>2. \A b \in Attempts : pc'[b] \in Running => iter'[b] < MaxIterations
      BY <2>3 DEF CallTools, TypeOK, Running
    <3> QED BY <1>2, <2>1, <2>3, <3>1, <3>2 DEF Answer, CallTools, TypeOK
  <2> QED BY <1>2, <2>2, <2>3 DEF Answer
<1>3. ASSUME NEW a \in Attempts, Forget(a), UNCHANGED <<inputs, dir>>, threads' \subseteq Attempts,
             NEW end \in {"done", "failed"}, pc' = [pc EXCEPT ![a] = end]
      PROVE  TypeOK'
  <2>1. \A b \in Attempts : pc'[b] \in Running => iter'[b] < MaxIterations
    <3>1. end \notin Running
      BY DEF Running, Shells
    <3> QED BY <1>3, <3>1, ForgetTyped DEF TypeOK
  <2> QED BY <1>3, <2>1, ForgetTyped DEF TypeOK
<1>4. ASSUME NEW a \in Attempts, ProviderFails(a) PROVE TypeOK'
  BY <1>3, <1>4 DEF ProviderFails, TypeOK
<1>5. ASSUME NEW a \in Attempts, Ask(a) PROVE TypeOK'
  BY <1>5 DEF Ask, TypeOK, Running
<1>6. ASSUME NEW a \in Attempts, Abandon(a) PROVE TypeOK'
  <2>1. threads' \subseteq Attempts
    BY <1>6 DEF Abandon, LeavesShell, TypeOK
  <2> QED BY <1>3, <1>6, <2>1 DEF Abandon
<1>7. ASSUME NEW a \in Attempts, Judge(a) PROVE TypeOK'
  <2>1. CASE ~green[a] /\ Return(a)
    BY <1>3, <1>7, <2>1 DEF Judge, Return, TypeOK
  <2>2. CASE green[a]
    BY <1>7, <2>2 DEF Judge, TypeOK, Running
  <2> QED BY <1>7, <2>1, <2>2 DEF Judge
<1>8. ASSUME NEW a \in Attempts, Removed(a) PROVE TypeOK'
  BY <1>3, <1>8 DEF Removed, Return, TypeOK
<1>9. ASSUME NEW a \in Attempts, RunVerify(a) PROVE TypeOK'
  <2>1. CASE dir[VerifySh] = None /\ Record(a, FALSE) /\ UNCHANGED pc
    BY <1>9, <2>1, RecordTyped DEF RunVerify, TypeOK
  <2>2. CASE pc' = [pc EXCEPT ![a] = "verify"] /\ UNCHANGED <<green, vouched>>
    BY <1>9, <2>2 DEF RunVerify, TypeOK, Running, Shells
  <2> QED BY <1>9, <2>1, <2>2 DEF RunVerify
<1>10. ASSUME NEW a \in Attempts, Verified(a) PROVE TypeOK'
  <2>1. /\ green' \in [Attempts -> BOOLEAN]
        /\ vouched' \in [Attempts -> [Files -> Attempts \cup {"template", Binary, None, Free}]]
    BY <1>10, RecordTyped DEF Verified
  <2> QED BY <1>10, <2>1 DEF Verified, LeavesShell, TypeOK, Running, Shells
<1>11. ASSUME NEW a \in Attempts, RunBash(a) PROVE TypeOK'
  BY <1>11 DEF RunBash, TypeOK, Running, Shells
<1>12. ASSUME NEW a \in Attempts, ShellEnds(a) PROVE TypeOK'
  BY <1>12 DEF ShellEnds, LeavesShell, TypeOK, Running, Shells
<1>13. ASSUME NEW a \in Attempts, ThreadEnds(a) PROVE TypeOK'
  BY <1>13 DEF ThreadEnds, TypeOK
<1>14. ASSUME NEW a \in Attempts, NEW f \in Files, ReadFile(a, f) PROVE TypeOK'
  <2>1. taken' \in [Attempts -> Contents]
    BY <1>14 DEF ReadFile, TypeOK, Contents
  <2> QED BY <1>14, <2>1 DEF ReadFile, TypeOK
<1>15. ASSUME NEW a \in Attempts, NEW f \in Files, RemoveFile(a, f) PROVE TypeOK'
  <2>1. /\ dir' \in Contents
        /\ vouched' \in [Attempts -> [Files -> Attempts \cup {"template", Binary, None, Free}]]
        /\ meanwhile' \in [Attempts -> SUBSET Files]
    BY <1>15, ChangeTyped DEF RemoveFile, TypeOK
  <2> QED BY <1>15, <2>1 DEF RemoveFile, TypeOK
<1>16. ASSUME NEW a \in Attempts, NEW f \in Files, WriteFile(a, f) PROVE TypeOK'
  <2>1. /\ dir' \in Contents
        /\ vouched' \in [Attempts -> [Files -> Attempts \cup {"template", Binary, None, Free}]]
        /\ meanwhile' \in [Attempts -> SUBSET Files]
    BY <1>16, TextTyped, ChangeTyped DEF WriteFile
  <2> QED BY <1>16, <2>1 DEF WriteFile, TypeOK
<1>17. ASSUME NEW a \in Attempts, NEW f \in Files, ShellWrites(a, f) PROVE TypeOK'
  <2>1. PICK new \in {Text(a, f), None} \cup {Binary : g \in {f} \cap Paths} :
          Change({a}, {f}, new) \/ Change({}, {f}, new)
    BY <1>17 DEF ShellWrites
  <2>2. new \in Attempts \cup {"template", Binary, None}
    BY TextTyped
  <2>3. /\ dir' \in Contents
        /\ vouched' \in [Attempts -> [Files -> Attempts \cup {"template", Binary, None, Free}]]
        /\ meanwhile' \in [Attempts -> SUBSET Files]
    BY <2>1, <2>2, ChangeTyped
  <2> QED BY <1>17, <2>3 DEF ShellWrites, TypeOK
<1>18. CASE UNCHANGED vars
  BY <1>18 DEF vars, TypeOK
<1> QED BY <1>1, <1>2, <1>4, <1>5, <1>6, <1>7, <1>8, <1>9, <1>10, <1>11, <1>12, <1>13,
           <1>14, <1>15, <1>16, <1>17, <1>18 DEF Next

------------------------------------------------------------------------------
\* An attempt of which nothing changes keeps its invariant, and so it does when
\* somebody else writes, or it writes itself while it runs its tools.
LEMMA ChangeInv ==
  ASSUME TypeOK, NEW b \in Attempts, Inv(b),
         pc'[b] = pc[b] \/ (pc[b] = "waiting" /\ pc'[b] = "asking"),
         iter'[b] = iter[b], green'[b] = green[b], todo'[b] = todo[b], taken'[b] = taken[b],
         UNCHANGED skipped,
         NEW own, NEW fs \in SUBSET Files, NEW new,
         \/ Change(own, fs, new) /\ (b \in own => pc[b] \notin {"reading", "removing"})
         \/ UNCHANGED <<dir, vouched, meanwhile>>
  PROVE  Inv(b)'
<1>1. CASE UNCHANGED <<dir, vouched, meanwhile>>
  BY <1>1 DEF Inv, Fresh, Vouched, Taken, Covers, Kept, Shells
<1>2. CASE Change(own, fs, new) /\ (b \in own => pc[b] \notin {"reading", "removing"})
  <2>1. \A f \in Files : /\ f \notin fs => dir'[f] = dir[f] /\ vouched'[b][f] = vouched[b][f]
                         /\ f \in fs /\ green[b] => vouched'[b][f] = Free
                         /\ ~green[b] => vouched'[b][f] = vouched[b][f]
                         /\ f \in meanwhile[b] => f \in meanwhile'[b]
                         /\ f \in fs /\ b \notin own /\ Minds(b, f) => f \in meanwhile'[b]
    BY <1>2 DEF Change
  <2>2. Fresh(b)'
    BY DEF Inv, Fresh
  <2>3. \A f \in Files : Covers(b, f) => Covers(b, f)'
    BY <2>1 DEF Covers
  <2>4. Vouched(b)'
    BY <2>1, <2>3 DEF Inv, Vouched, Fresh, Shells
  <2>5. ASSUME NEW f \in Files, Kept(b, f), pc[b] \in {"reading", "removing"},
               pc[b] = "reading" => f \notin todo[b]
        PROVE  Kept(b, f)'
    <3>1. f \in fs => f \in meanwhile'[b]
      BY <1>2, <2>1, <2>5 DEF Minds
    <3> QED BY <2>1, <2>5, <3>1 DEF Kept
  <2>6. Taken(b)'
    BY <2>5 DEF Inv, Taken, TypeOK
  <2> QED BY <2>2, <2>4, <2>6 DEF Inv
<1> QED BY <1>1, <1>2

\* So it does when another attempt alone does something.
LEMMA OtherInv ==
  ASSUME TypeOK, NEW b \in Attempts, Inv(b),
         pc'[b] = pc[b], iter'[b] = iter[b], green'[b] = green[b], todo'[b] = todo[b],
         taken'[b] = taken[b], vouched'[b] = vouched[b], meanwhile'[b] = meanwhile[b],
         UNCHANGED <<skipped, dir>>
  PROVE  Inv(b)'
BY DEF Inv, Fresh, Vouched, Taken, Covers, Kept, Shells

\* An attempt that ends, and those it leaves alone.
LEMMA ForgetInv ==
  ASSUME IInv, NEW a \in Attempts, Forget(a), NEW end \in {"done", "failed"},
         pc' = [pc EXCEPT ![a] = end], UNCHANGED <<skipped, dir>>
  PROVE  \A b \in Attempts : Inv(b)'
<1>1. ASSUME NEW b \in Attempts \ {a} PROVE Inv(b)'
  BY ForgetTyped, OtherInv DEF IInv, TypeOK
<1>2. Inv(a)'
  BY ForgetTyped DEF IInv, TypeOK, Inv, Fresh, Vouched, Taken, Shells
<1> QED BY <1>1, <1>2

\* Every step keeps the invariant of every attempt.
LEMMA InvStep == IInv /\ [Next]_vars => \A b \in Attempts : Inv(b)'
<1> SUFFICES ASSUME IInv, [Next]_vars PROVE \A b \in Attempts : Inv(b)'
  OBVIOUS
<1> TypeOK /\ \A b \in Attempts : Inv(b)
  BY DEF IInv
<1> USE DEF inputs, endVars, ghosts
<1>1. ASSUME NEW a \in Attempts, Begin(a) PROVE \A b \in Attempts : Inv(b)'
  BY <1>1, ChangeInv DEF Begin, TypeOK
<1>2. ASSUME NEW a \in Attempts, Answer(a) PROVE \A b \in Attempts : Inv(b)'
  <2>1. ASSUME NEW b \in Attempts \ {a} PROVE Inv(b)'
    BY <1>2, OtherInv DEF Answer, ListFiles, CallTools, TypeOK
  <2>2. CASE ListFiles(a)
    <3>1. /\ pc[a] = "asking" /\ pc'[a] = "reading" /\ todo'[a] = {f \in Files \ skipped : dir[f] # None}
          /\ UNCHANGED <<skipped, dir, green, taken, vouched>>
      BY <1>2, <2>2 DEF Answer, ListFiles, TypeOK
    <3>2. taken[a] = Nothing
      BY <3>1 DEF Inv, Fresh
    <3>3. \A f \in Files \ todo'[a] : f \in skipped \/ (dir[f] = None /\ taken[a][f] = None)
      BY <3>1, <3>2 DEF Nothing
    <3>4. Fresh(a)' /\ Taken(a)'
      BY <3>1, <3>3 DEF Fresh, Taken, Kept
    <3>5. green[a] => \A f \in Files : vouched[a][f] \in {dir[f], Free}
      BY <3>1 DEF Inv, Vouched
    <3>6. Vouched(a)'
      BY <3>1, <3>3, <3>5 DEF Vouched, Covers, Shells
    <3> QED BY <2>1, <3>4, <3>6 DEF Inv
  <2>3. CASE iter[a] + 1 < MaxIterations /\ CallTools(a)
    <3>1. Inv(a)'
      BY <1>2, <2>3 DEF Answer, CallTools, TypeOK, Inv, Fresh, Vouched, Taken, Shells
    <3> QED BY <2>1, <3>1
  <2> QED BY <1>2, <2>1, <2>2, <2>3 DEF Answer
<1>3. ASSUME NEW a \in Attempts, ProviderFails(a) PROVE \A b \in Attempts : Inv(b)'
  BY <1>3, ForgetInv DEF ProviderFails
<1>4. ASSUME NEW a \in Attempts, Ask(a) PROVE \A b \in Attempts : Inv(b)'
  <2>1. ASSUME NEW b \in Attempts \ {a} PROVE Inv(b)'
    BY <1>4, OtherInv DEF Ask, TypeOK
  <2>2. Inv(a)'
    BY <1>4 DEF Ask, TypeOK, Inv, Fresh, Vouched, Taken, Shells
  <2> QED BY <2>1, <2>2
<1>5. ASSUME NEW a \in Attempts, Abandon(a) PROVE \A b \in Attempts : Inv(b)'
  BY <1>5, ForgetInv DEF Abandon
<1>6. ASSUME NEW a \in Attempts, Judge(a) PROVE \A b \in Attempts : Inv(b)'
  <2>1. CASE ~green[a] /\ Return(a)
    BY <1>6, <2>1, ForgetInv DEF Judge, Return
  <2>2. CASE green[a]
    <3>1. /\ pc[a] = "reading" /\ todo[a] = {} /\ pc' = [pc EXCEPT ![a] = "removing"]
          /\ todo' = [todo EXCEPT ![a] = Files]
          /\ UNCHANGED <<skipped, dir, iter, green, taken, vouched, meanwhile>>
      BY <1>6, <2>2 DEF Judge
    <3>2. ASSUME NEW b \in Attempts \ {a} PROVE Inv(b)'
      BY <3>1, OtherInv DEF TypeOK
    <3>3. /\ \A f \in Files : Kept(a, f)
          /\ \A f \in Files \ skipped : Covers(a, f)
      BY <2>2, <3>1 DEF Inv, Taken, Vouched
    <3>4. Fresh(a)' /\ Vouched(a)' /\ Taken(a)'
      BY <3>1, <3>3 DEF TypeOK, Fresh, Vouched, Taken, Covers, Kept, Shells
    <3> QED BY <3>2, <3>4 DEF Inv
  <2> QED BY <1>6, <2>1, <2>2 DEF Judge
<1>7. ASSUME NEW a \in Attempts, Removed(a) PROVE \A b \in Attempts : Inv(b)'
  BY <1>7, ForgetInv DEF Removed, Return
<1>8. ASSUME NEW a \in Attempts, RunVerify(a) PROVE \A b \in Attempts : Inv(b)'
  <2>1. ASSUME NEW b \in Attempts \ {a} PROVE Inv(b)'
    BY <1>8, <2>1, OtherInv DEF RunVerify, Record, TypeOK
  <2>2. Inv(a)'
    <3>1. CASE Record(a, FALSE) /\ UNCHANGED pc
      BY <1>8, <3>1 DEF RunVerify, Record, TypeOK, Inv, Fresh, Vouched, Taken
    <3>2. CASE pc' = [pc EXCEPT ![a] = "verify"] /\ UNCHANGED <<green, vouched>>
      BY <1>8, <3>2 DEF RunVerify, TypeOK, Inv, Fresh, Vouched, Taken, Shells
    <3> QED BY <1>8, <3>1, <3>2 DEF RunVerify
  <2> QED BY <2>1, <2>2
<1>9. ASSUME NEW a \in Attempts, Verified(a) PROVE \A b \in Attempts : Inv(b)'
  <2>1. ASSUME NEW b \in Attempts \ {a} PROVE Inv(b)'
    BY <1>9, <2>1, OtherInv DEF Verified, Record, TypeOK
  <2>2. Inv(a)'
    <3>1. PICK ok \in BOOLEAN : Record(a, ok)
      BY <1>9 DEF Verified
    <3>2. green'[a] = ok
      BY <3>1 DEF Record, TypeOK
    <3>3. ok => \A f \in Files : vouched'[a][f] \in {dir[f], Free}
      BY <3>1 DEF Record, TypeOK
    <3> QED BY <1>9, <3>2, <3>3 DEF Verified, TypeOK, Inv, Fresh, Vouched, Taken, Shells
  <2> QED BY <2>1, <2>2
<1>10. ASSUME NEW a \in Attempts, RunBash(a) PROVE \A b \in Attempts : Inv(b)'
  <2>1. ASSUME NEW b \in Attempts \ {a} PROVE Inv(b)'
    BY <1>10, OtherInv DEF RunBash, TypeOK
  <2>2. Inv(a)'
    BY <1>10 DEF RunBash, TypeOK, Inv, Fresh, Vouched, Taken, Shells
  <2> QED BY <2>1, <2>2
<1>11. ASSUME NEW a \in Attempts, ShellEnds(a) PROVE \A b \in Attempts : Inv(b)'
  <2>1. ASSUME NEW b \in Attempts \ {a} PROVE Inv(b)'
    BY <1>11, OtherInv DEF ShellEnds, TypeOK
  <2>2. Inv(a)'
    BY <1>11 DEF ShellEnds, TypeOK, Inv, Fresh, Vouched, Taken, Shells
  <2> QED BY <2>1, <2>2
<1>12. ASSUME NEW a \in Attempts, ThreadEnds(a) PROVE \A b \in Attempts : Inv(b)'
  BY <1>12, OtherInv DEF ThreadEnds
<1>13. ASSUME NEW a \in Attempts, NEW f \in Files, ReadFile(a, f) PROVE \A b \in Attempts : Inv(b)'
  <2>1. ASSUME NEW b \in Attempts \ {a} PROVE Inv(b)'
    BY <1>13, OtherInv DEF ReadFile, TypeOK
  <2>2. /\ pc[a] = "reading" /\ f \in todo[a] /\ todo'[a] = todo[a] \ {f}
        /\ taken'[a][f] = IF dir[f] = Binary THEN None ELSE dir[f]
        /\ \A g \in Files \ {f} : taken'[a][g] = taken[a][g]
        /\ UNCHANGED <<skipped, dir, pc, iter, green, vouched, meanwhile>>
    BY <1>13 DEF ReadFile, TypeOK, Contents
  <2>3. Kept(a, f)' /\ \A g \in Files \ {f} : Kept(a, g) => Kept(a, g)'
    BY <2>2 DEF Kept
  <2>4. Taken(a)'
    BY <2>2, <2>3 DEF Inv, Taken
  <2>5. /\ vouched[a][f] \in {dir[f], Free} => Covers(a, f)'
        /\ \A g \in Files \ {f} : Covers(a, g) => Covers(a, g)'
    BY <2>2 DEF Covers
  <2>6. Vouched(a)'
    BY <2>2, <2>5 DEF Inv, Vouched, Shells
  <2>7. Fresh(a)'
    BY <2>2 DEF Inv, Fresh
  <2> QED BY <2>1, <2>4, <2>6, <2>7 DEF Inv
<1>14. ASSUME NEW a \in Attempts, NEW f \in Files, RemoveFile(a, f) PROVE \A b \in Attempts : Inv(b)'
  <2>1. ASSUME NEW b \in Attempts \ {a} PROVE Inv(b)'
    <3>1. {f} \in SUBSET Files /\ todo'[b] = todo[b]
      BY <1>14 DEF RemoveFile, TypeOK
    <3> QED BY <1>14, <3>1, ChangeInv DEF RemoveFile
  <2>2. /\ pc[a] = "removing" /\ todo'[a] = todo[a] \ {f}
        /\ UNCHANGED <<skipped, pc, taken, iter, green>>
    BY <1>14 DEF RemoveFile, TypeOK
  <2>3. \A g \in Files : /\ g # f => dir'[g] = dir[g]
                         /\ g \in meanwhile[a] => g \in meanwhile'[a]
                         /\ vouched'[a][g] \in {vouched[a][g], Free}
    BY <1>14 DEF RemoveFile, Change
  <2>4. \A g \in Files \ {f} : Kept(a, g) => Kept(a, g)'
    BY <2>2, <2>3 DEF Kept
  <2>5. Taken(a)'
    BY <2>2, <2>4 DEF Inv, Taken, TypeOK
  <2>6. \A g \in Files : Covers(a, g) => Covers(a, g)'
    BY <2>2, <2>3 DEF Covers
  <2>7. Vouched(a)' /\ Fresh(a)'
    BY <2>2, <2>6 DEF Inv, Vouched, Fresh, Shells
  <2> QED BY <2>1, <2>5, <2>7 DEF Inv
<1>15. ASSUME NEW a \in Attempts, NEW f \in Files, WriteFile(a, f) PROVE \A b \in Attempts : Inv(b)'
  BY <1>15, ChangeInv DEF WriteFile
<1>16. ASSUME NEW a \in Attempts, NEW f \in Files, ShellWrites(a, f) PROVE \A b \in Attempts : Inv(b)'
  <2>1. PICK new \in {Text(a, f), None} \cup {Binary : g \in {f} \cap Paths} :
          (pc[a] \in Shells /\ Change({a}, {f}, new)) \/ Change({}, {f}, new)
    BY <1>16 DEF ShellWrites
  <2>2. UNCHANGED <<skipped, pc, iter, green, todo, taken>>
    BY <1>16 DEF ShellWrites
  <2> QED BY <2>1, <2>2, ChangeInv DEF Shells
<1>17. CASE UNCHANGED vars
  BY <1>17, OtherInv DEF vars
<1> QED BY <1>1, <1>2, <1>3, <1>4, <1>5, <1>6, <1>7, <1>8, <1>9, <1>10, <1>11, <1>12, <1>13,
           <1>14, <1>15, <1>16, <1>17 DEF Next

------------------------------------------------------------------------------
\* In every reachable state, what a green verify left is there or in the result but
\* for what has been written since, and what has been read, or is still to be
\* removed, is kept.
THEOREM InvAlways == Spec => []IInv
<1>1. IInv /\ [Next]_vars => IInv'
  BY TypeStep, InvStep DEF IInv
<1> QED BY <1>1, InitIInv, PTL DEF Spec

\* The types, the cap on the messages of the model included.
THEOREM TypeCorrect == Spec => []TypeOK
<1>1. IInv => TypeOK
  BY DEF IInv
<1> QED BY <1>1, InvAlways, PTL

\* Whatever other attempts and shells write, a green verdict is about what is delivered.
THEOREM GreenCorrect == Spec => []GreenVouches
<1>1. IInv => GreenVouches
  BY DEF IInv, Inv, Vouched, Covers, GreenVouches
<1> QED BY <1>1, InvAlways, PTL

\* What a removal loses, one file at a time.
Losing == \A a \in Attempts : \A f \in todo[a] \ todo'[a] :
  pc[a] = "removing" /\ dir'[f] # dir[f] =>
    \/ dir[f] = Binary \/ f \in skipped \/ f \in meanwhile[a]
    \/ taken[a][f] = dir[f]

\* The removal of a workspace takes away what was delivered, and else only what is
\* no text, passed over by the listing or written by somebody else since.
THEOREM NothingLostCorrect == Spec => NothingLost
<1>1. IInv /\ [Next]_vars => [Losing]_vars
  <2> SUFFICES ASSUME IInv, [Next]_vars, NEW a \in Attempts, NEW f \in todo[a] \ todo'[a],
                      pc[a] = "removing", dir'[f] # dir[f]
               PROVE  Kept(a, f)
    BY DEF Losing, Kept
  <2> QED BY DEF IInv, Inv, Taken
<1> QED BY <1>1, InvAlways, PTL DEF Spec, NothingLost, Losing
=============================================================================
