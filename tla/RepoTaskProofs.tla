----------------------------- MODULE RepoTaskProofs -----------------------------
(***************************************************************************)
(* Proofs about RepoTask: its type, what the continuation loop earned,     *)
(* what the pull request discloses, what the gate ran on, and that it      *)
(* implements ReviewedChange, for any files, candidates, continuations,    *)
(* criteria and abandoned attempts.                                        *)
(***************************************************************************)
EXTENDS RepoTask, SequenceTheorems, TLAPS

Drafting == {"clone", "index", "architect", "code", "review"}
Graded == {"continue", "document", "push", "done"}

\* Before the first verdict nothing is chosen, graded or pushed; afterwards the
\* result at hand is a candidate's or the latest continuation's.
InOrder ==
  /\ phase \in Drafting =>
       /\ current = 0 /\ continuations = 0
       /\ verdicts = <<>> /\ judged = NoTree
  /\ phase \in Graded \cup {"critic"} => current # 0
  /\ current <= BestOfN + continuations
  /\ phase = "critic" => Len(verdicts) = continuations
  /\ phase \in Graded => Len(verdicts) = continuations + 1
  /\ phase = "continue" => continuations < MaxContinuations

\* Only the passes run() waits for are at work; without Best-of-N that is one pass.
AtWork ==
  /\ phase = "code" =>
       /\ coding[1] # "idle"
       /\ ~bestOfN => \A p \in Passes : coding[p] = "working" => p = 1
  /\ phase = "continue" =>
       \A p \in Passes : coding[p] = "working" => p = Continuation(continuations + 1)
  /\ phase = "review" => bestOfN
  /\ phase \in {"review", "critic"} => \A p \in Passes : coding[p] # "working"

\* While the loop goes on no verdict was complete and each is better than the one before.
Earned ==
  /\ ContinuationsEarned
  /\ phase \in {"critic", "continue"} =>
       /\ \A i \in 1 .. Len(verdicts) : ~verdicts[i].complete
       /\ \A i \in 2 .. Len(verdicts) : verdicts[i].passed > verdicts[i - 1].passed

\* An incomplete verdict never ends the loop before a continuation was tried.
GapsTold ==
  /\ phase \in {"document", "push", "done"} => Last.complete \/ continuations > 0
  /\ pushed # NoTree => (~Last.complete => gapsShown)

\* What is pushed is the result at hand and what was graded last.
PushedJudged ==
  /\ phase \in Graded => judged = result[current]
  /\ pushed # NoTree => pushed = judged /\ phase \in {"push", "done", "failed"}

\* One coder without an abandoned attempt: between its passes the clone is what the
\* last pass captured, so it is also what the gate runs on.
CloneIsResult ==
  ~bestOfN /\ ghosts = {} =>
    /\ phase = "code" /\ coding[1] = "returned" => disk = result[1]
    /\ phase = "critic" => disk = result[current]
    /\ phase = "continue" /\ coding[Continuation(continuations + 1)] = "returned" =>
         disk = result[Continuation(continuations + 1)]
    /\ phase \in Graded => gateSaw = judged
    /\ pushed # NoTree => gateSaw = pushed

\* The inductive invariant.
IInv == TypeOK /\ InOrder /\ AtWork /\ Earned /\ GapsTold /\ PushedJudged /\ CloneIsResult


------------------------------------------------------------------------------
\* The passes include the single coder, every candidate and every continuation.
LEMMA PassFacts ==
  /\ 1 \in Passes /\ Candidates \subseteq Passes
  /\ 0 \in Writers
  /\ \A p \in Passes : p \in Writers /\ -p \in Writers /\ p \in Nat \ {0}
  /\ \A k \in 1 .. MaxContinuations : Continuation(k) \in Passes
BY BestOfNAssumption, MaxContinuationsAssumption
   DEF Passes, Candidates, Continuation, Writers

\* No tree is the mark for "none": there is a file, and nobody's number is beyond Writers.
LEMMA NoTreeIsNone == NoTree \notin Trees
<1>1. PICK f \in Files : TRUE
  BY FilesAssumption
<1>2. NoTree[f] \notin Writers
  BY BestOfNAssumption, MaxContinuationsAssumption DEF NoTree, Writers
<1> QED BY <1>1, <1>2 DEF Trees

\* A verdict that is added is the last one and leaves the others in their places.
LEMMA VerdictAdded ==
  ASSUME verdicts \in Seq(Verdicts), NEW v \in Verdicts, verdicts' = Append(verdicts, v)
  PROVE  /\ verdicts' \in Seq(Verdicts)
         /\ Len(verdicts) \in Nat /\ Len(verdicts') = Len(verdicts) + 1
         /\ Last' = v
         /\ \A i \in 1 .. Len(verdicts) : verdicts'[i] = verdicts[i]
BY DEF Last

\* The critic answers with one verdict, which ends the loop or starts a continuation.
LEMMA CriticVerdict ==
  ASSUME Critic
  PROVE  \E v \in Verdicts :
           /\ verdicts' = Append(verdicts, v)
           /\ \/ LoopEnds(v) /\ phase' \in {"document", "done"} /\ coding' = coding
              \/ /\ ~LoopEnds(v) /\ phase' = "continue"
                 /\ coding' = [coding EXCEPT ![Continuation(continuations + 1)] = "working"]
BY DEF Critic, CriticAnswers

------------------------------------------------------------------------------
\* The initial state satisfies the inductive invariant.
LEMMA InitIInv == Init => IInv
<1> SUFFICES ASSUME Init PROVE IInv
  OBVIOUS
<1> USE BestOfNAssumption, MaxContinuationsAssumption, CriteriaAssumption
<1>1. Clean \in Trees
  BY PassFacts DEF Clean, Trees
<1>2. TypeOK
  <2>1. verdicts \in Seq(Verdicts)
    BY DEF Init
  <2>2. plan \in [degraded : BOOLEAN, criteria : 0 .. Criteria]
    BY DEF Init
  <2>3. result \in [Passes -> Trees] /\ disk \in Trees
    BY <1>1 DEF Init
  <2>4. coding \in [Passes -> {"idle", "working", "returned"}] /\ ghosts \subseteq Passes
    BY DEF Init
  <2>5. winner \in 0 .. BestOfN /\ current \in 0 .. (BestOfN + MaxContinuations)
    BY DEF Init
  <2>6. /\ judged \in Trees \cup {NoTree} /\ gateSaw \in Trees \cup {NoTree}
        /\ pushed \in Trees \cup {NoTree} /\ continuations \in 0 .. MaxContinuations
    BY DEF Init
  <2>7. /\ phase \in Phases \cup {"done", "failed"} /\ gapsShown \in BOOLEAN
        /\ autoPr \in BOOLEAN /\ bestOfNOff \in BOOLEAN /\ bestOfN \in BOOLEAN
    BY DEF Init, Phases
  <2> QED BY <2>1, <2>2, <2>3, <2>4, <2>5, <2>6, <2>7 DEF TypeOK
<1>3. InOrder /\ AtWork /\ GapsTold /\ PushedJudged /\ CloneIsResult
  BY DEF Init, InOrder, AtWork, GapsTold, PushedJudged, CloneIsResult, Drafting, Graded
<1>4. Earned
  BY DEF Init, Earned, ContinuationsEarned
<1> QED BY <1>2, <1>3, <1>4 DEF IInv

\* Every step keeps the types; that the continuation a verdict asks for exists needs
\* the order of the phases.
LEMMA TypeStep == TypeOK /\ InOrder /\ [Next]_vars => TypeOK'
<1> SUFFICES ASSUME TypeOK, InOrder, [Next]_vars PROVE TypeOK'
  OBVIOUS
<1> USE BestOfNAssumption, MaxContinuationsAssumption, CriteriaAssumption DEF TypeOK
<1>1. Clean \in Trees
  BY PassFacts DEF Clean, Trees
<1>2. ASSUME NEW p \in Passes, Choose(p)
      PROVE  current' \in 0 .. (BestOfN + MaxContinuations) /\ result' \in [Passes -> Trees]
  BY <1>1, <1>2 DEF Choose, Passes
<1>3. CASE Clone
  BY <1>1, <1>3 DEF Clone, inputVars, passVars, criticVars, prVars, Phases
<1>4. CASE Index
  BY <1>4 DEF Index, inputVars, coderVars, passVars, criticVars, prVars, Phases
<1>5. CASE Architect
  <2>1. plan' \in [degraded : BOOLEAN, criteria : 0 .. Criteria] /\ bestOfN' \in BOOLEAN
    BY <1>5 DEF Architect, Plans
  <2>2. coding' \in [Passes -> {"idle", "working", "returned"}]
    BY <1>5 DEF Architect
  <2> QED BY <1>5, <2>1, <2>2 DEF Architect, inputVars, passVars, criticVars, prVars, Phases
<1>6. CASE Coded
  <2>1. current' \in 0 .. (BestOfN + MaxContinuations) /\ result' \in [Passes -> Trees]
    BY <1>2, <1>6, PassFacts DEF Coded
  <2>2. phase' \in Phases
    BY <1>6 DEF Coded, Phases
  <2> QED BY <1>6, <2>1, <2>2 DEF Coded, inputVars, criticVars, prVars
<1>7. CASE Review
  <2>1. winner' \in 0 .. BestOfN /\ winner' \in Passes
    BY <1>7, PassFacts DEF Review, Candidates
  <2>2. current' \in 0 .. (BestOfN + MaxContinuations) /\ result' \in [Passes -> Trees]
    BY <1>2, <1>7, <2>1 DEF Review
  <2> QED BY <1>7, <2>1, <2>2 DEF Review, inputVars, criticVars, prVars, Phases
<1>8. CASE Critic
  <2>1. PICK v \in Verdicts : /\ verdicts' = Append(verdicts, v)
                              /\ phase' \in {"document", "done", "continue"}
    BY <1>8, CriticVerdict
  <2>2. coding' \in [Passes -> {"idle", "working", "returned"}]
    BY <1>8, CriticVerdict
  <2>3. result[current] \in Trees
    BY <1>8, PassFacts DEF Critic, InOrder, Passes
  <2>4. judged' \in Trees \cup {NoTree} /\ gateSaw' \in Trees \cup {NoTree}
    BY <1>8, <2>3 DEF Critic
  <2>5. verdicts' \in Seq(Verdicts)
    BY <2>1
  <2> QED BY <1>8, <2>1, <2>2, <2>4, <2>5 DEF Critic, inputVars, passVars, prVars, Phases
<1>9. CASE Continued
  <2>1. continuations < MaxContinuations
    BY <1>9 DEF Continued, InOrder
  <2>2. continuations' \in 0 .. MaxContinuations
    BY <1>9, <2>1 DEF Continued
  <2>3. current' \in 0 .. (BestOfN + MaxContinuations) /\ result' \in [Passes -> Trees]
    BY <1>2, <1>9, <2>1, PassFacts DEF Continued
  <2> QED BY <1>9, <2>2, <2>3 DEF Continued, inputVars, prVars, Phases
<1>10. CASE Document
  BY <1>10 DEF Document, inputVars, coderVars, passVars, criticVars, prVars, Phases
<1>11. CASE Push
  <2>1. result[current] \in Trees
    BY <1>11, PassFacts DEF Push, InOrder, Passes, Graded
  <2>2. gapsShown' \in BOOLEAN
    BY <1>11 DEF Push, Gaps
  <2> QED BY <1>11, <2>1, <2>2 DEF Push, inputVars, coderVars, passVars, criticVars, Phases
<1>12. CASE PushRefused
  BY <1>12 DEF PushRefused, inputVars, coderVars, passVars, criticVars, prVars
<1>13. CASE Expire
  BY <1>13 DEF Expire, inputVars, coderVars, passVars, criticVars, prVars
<1>14. ASSUME NEW p \in Passes, Coder(p) PROVE TypeOK'
  <2>1. ASSUME NEW f \in Files, Write(p, f) PROVE TypeOK'
    BY <2>1, PassFacts DEF Write, Trees, inputVars, passVars, criticVars, prVars
  <2>2. CASE Capture(p)
    BY <2>2 DEF Capture, inputVars, passVars, criticVars, prVars
  <2>3. CASE Abandon(p)
    BY <2>3 DEF Abandon, inputVars, passVars, criticVars, prVars
  <2>4. ASSUME NEW f \in Files, GhostWrites(p, f) PROVE TypeOK'
    BY <2>4, PassFacts DEF GhostWrites, Trees, inputVars, passVars, criticVars, prVars
  <2> QED BY <1>14, <2>1, <2>2, <2>3, <2>4 DEF Coder
<1>15. CASE UNCHANGED vars
  BY <1>15 DEF vars, inputVars, coderVars, passVars, criticVars, prVars
<1> QED BY <1>3, <1>4, <1>5, <1>6, <1>7, <1>8, <1>9, <1>10, <1>11, <1>12, <1>13, <1>14, <1>15
        DEF Next, Workflow, Ended

\* The phases come in order and the verdicts are counted with the continuations.
LEMMA InOrderStep == TypeOK /\ InOrder /\ [Next]_vars => InOrder'
<1> SUFFICES ASSUME TypeOK, InOrder, [Next]_vars PROVE InOrder'
  OBVIOUS
<1> USE BestOfNAssumption, MaxContinuationsAssumption DEF InOrder, Drafting, Graded
<1>1. CASE Clone \/ Index \/ Architect
  BY <1>1 DEF Clone, Index, Architect, passVars, criticVars
<1>2. CASE Coded
  BY <1>2 DEF Coded, Choose, criticVars, prVars
<1>3. CASE Review
  BY <1>3 DEF Review, Choose, Candidates, criticVars
<1>4. CASE Critic
  <2>1. PICK v \in Verdicts :
          /\ verdicts' = Append(verdicts, v)
          /\ \/ LoopEnds(v) /\ phase' \in {"document", "done"}
             \/ ~LoopEnds(v) /\ phase' = "continue"
    BY <1>4, CriticVerdict
  <2>2. Len(verdicts') = Len(verdicts) + 1
    BY <2>1, VerdictAdded DEF TypeOK
  <2>3. phase' = "continue" => continuations < MaxContinuations
    BY <2>1 DEF LoopEnds, TypeOK
  <2> QED BY <1>4, <2>1, <2>2, <2>3 DEF Critic, passVars
<1>5. CASE Continued
  <2>1. current' = BestOfN + (continuations + 1) /\ continuations' = continuations + 1
    BY <1>5 DEF Continued, Choose, Continuation
  <2>2. phase' = "critic" /\ Len(verdicts') = continuations'
    BY <1>5, <2>1 DEF Continued
  <2> QED BY <2>1, <2>2 DEF TypeOK
<1>6. CASE Document \/ PushRefused
  BY <1>6 DEF Document, PushRefused, passVars, criticVars
<1>7. CASE Push
  BY <1>7 DEF Push, passVars, criticVars
<1>8. CASE Expire
  BY <1>8 DEF Expire, passVars, criticVars
<1>9. ASSUME NEW p \in Passes, Coder(p) PROVE InOrder'
  BY <1>9 DEF Coder, Write, Capture, Abandon, GhostWrites, passVars, criticVars
<1>10. CASE UNCHANGED vars
  BY <1>10 DEF vars, passVars, criticVars
<1> QED BY <1>1, <1>2, <1>3, <1>4, <1>5, <1>6, <1>7, <1>8, <1>9, <1>10
        DEF Next, Workflow, Ended

\* Only the passes run() waits for work.
LEMMA AtWorkStep == TypeOK /\ InOrder /\ AtWork /\ [Next]_vars => AtWork'
<1> SUFFICES ASSUME TypeOK, InOrder, AtWork, [Next]_vars PROVE AtWork'
  OBVIOUS
<1> USE DEF AtWork
<1>1. CASE Clone \/ Index
  BY <1>1 DEF Clone, Index, coderVars
<1>2. CASE Architect
  BY <1>2, PassFacts DEF Architect
<1>3. CASE Coded
  BY <1>3 DEF Coded
<1>4. CASE Review
  BY <1>4 DEF Review
<1>5. CASE Critic
  <2>1. phase = "critic" /\ continuations' = continuations
    BY <1>5 DEF Critic
  <2>2. CASE phase' \in {"document", "done"}
    BY <2>2
  <2>3. CASE /\ phase' = "continue"
             /\ coding' = [coding EXCEPT ![Continuation(continuations + 1)] = "working"]
    BY <2>1, <2>3 DEF TypeOK
  <2> QED BY <1>5, <2>2, <2>3, CriticVerdict
<1>6. CASE Continued
  BY <1>6 DEF Continued
<1>7. CASE Document \/ PushRefused \/ Push \/ Expire
  BY <1>7 DEF Document, PushRefused, Push, Expire
<1>8. ASSUME NEW p \in Passes, Coder(p) PROVE AtWork'
  <2>1. CASE Capture(p)
    BY <2>1, PassFacts DEF Capture, criticVars, TypeOK
  <2>2. CASE ~Capture(p)
    <3>1. UNCHANGED <<phase, bestOfN, coding, continuations>>
      BY <1>8, <2>2 DEF Coder, Write, Abandon, GhostWrites, criticVars
    <3> QED BY <3>1 DEF Continuation
  <2> QED BY <2>1, <2>2
<1>9. CASE UNCHANGED vars
  BY <1>9 DEF vars, coderVars, criticVars, Continuation
<1> QED BY <1>1, <1>2, <1>3, <1>4, <1>5, <1>6, <1>7, <1>8, <1>9 DEF Next, Workflow, Ended

\* A step that adds no verdict keeps what the verdicts earned, unless it starts a loop.
LEMMA EarnedStep == TypeOK /\ InOrder /\ Earned /\ [Next]_vars => Earned'
<1> SUFFICES ASSUME TypeOK, InOrder, Earned, [Next]_vars PROVE Earned'
  OBVIOUS
<1> USE DEF Earned, ContinuationsEarned
<1>1. CASE Critic
  <2>1. PICK v \in Verdicts :
          /\ verdicts' = Append(verdicts, v)
          /\ LoopEnds(v) \/ phase' = "continue"
          /\ ~LoopEnds(v) \/ phase' \in {"document", "done"}
    BY <1>1, CriticVerdict
  <2> DEFINE n == Len(verdicts)
  <2>2. /\ n \in Nat /\ Len(verdicts') = n + 1
        /\ \A i \in 1 .. n : verdicts'[i] = verdicts[i]
        /\ verdicts'[n + 1] = v
    BY <2>1, VerdictAdded DEF TypeOK, Last
  <2>3. /\ \A i \in 1 .. n : ~verdicts'[i].complete
        /\ \A i \in 2 .. n : verdicts'[i].passed > verdicts'[i - 1].passed
    <3>1. phase = "critic"
      BY <1>1 DEF Critic
    <3>2. \A i \in 2 .. n : i - 1 \in 1 .. n /\ i \in 1 .. n
      BY <2>2
    <3> QED BY <2>2, <3>1, <3>2
  <2>4. ContinuationsEarned'
    BY <2>2, <2>3
  <2>5. CASE phase' \in {"document", "done"}
    BY <2>4, <2>5
  <2>6. CASE ~LoopEnds(v)
    <3>1. ~v.complete
      BY <2>6 DEF LoopEnds
    <3>2. n > 0 => v.passed > verdicts'[n].passed
      <4>1. n = continuations
        BY <1>1 DEF Critic, InOrder
      <4>2. ASSUME n > 0 PROVE v.passed > Last.passed /\ Last = verdicts'[n]
        <5>1. Last = verdicts'[n] /\ Last \in Verdicts
          BY <2>2, <4>2 DEF Last, TypeOK
        <5>2. ~(v.passed <= Last.passed)
          BY <2>6, <4>1, <4>2 DEF LoopEnds
        <5> QED BY <5>1, <5>2, CriteriaAssumption DEF Verdicts
      <4> QED BY <4>2
    <3>3. \A i \in 1 .. n + 1 : ~verdicts'[i].complete
      BY <2>2, <2>3, <3>1
    <3>4. \A i \in 2 .. n + 1 : verdicts'[i].passed > verdicts'[i - 1].passed
      BY <2>2, <2>3, <3>2
    <3> QED BY <2>2, <2>4, <3>3, <3>4
  <2> QED BY <2>1, <2>5, <2>6
<1>2. CASE Coded \/ Review
  <2>1. phase \in Drafting /\ verdicts' = verdicts
    BY <1>2 DEF Coded, Review, criticVars, Drafting
  <2> QED BY <2>1 DEF InOrder
<1>3. CASE Continued
  BY <1>3 DEF Continued
<1>4. CASE Clone \/ Index \/ Architect \/ Document \/ PushRefused \/ Push \/ Expire
  BY <1>4 DEF Clone, Index, Architect, Document, PushRefused, Push, Expire, criticVars
<1>5. ASSUME NEW p \in Passes, Coder(p) PROVE Earned'
  BY <1>5 DEF Coder, Write, Capture, Abandon, GhostWrites, criticVars
<1>6. CASE UNCHANGED vars
  BY <1>6 DEF vars, criticVars
<1> QED BY <1>1, <1>2, <1>3, <1>4, <1>5, <1>6 DEF Next, Workflow, Ended

\* However the loop ends, an incomplete last verdict has a continuation before it, and
\* that is when a push lists the gaps.
LEMMA GapsToldStep ==
  TypeOK /\ InOrder /\ GapsTold /\ PushedJudged /\ [Next]_vars => GapsTold'
<1> SUFFICES ASSUME TypeOK, InOrder, GapsTold, PushedJudged, [Next]_vars PROVE GapsTold'
  OBVIOUS
<1> USE DEF GapsTold
<1>1. CASE Critic
  <2>1. PICK v \in Verdicts :
          /\ verdicts' = Append(verdicts, v)
          /\ LoopEnds(v) \/ phase' = "continue"
    BY <1>1, CriticVerdict
  <2>2. Last' = v
    BY <2>1, VerdictAdded DEF TypeOK
  <2>3. LoopEnds(v) => v.complete \/ continuations > 0
    BY MaxContinuationsAssumption DEF LoopEnds, TypeOK
  <2>4. pushed' = NoTree
    BY <1>1 DEF Critic, PushedJudged, prVars
  <2>5. continuations' = continuations
    BY <1>1 DEF Critic
  <2> QED BY <2>1, <2>2, <2>3, <2>4, <2>5
<1>2. CASE Push
  <2>1. /\ phase = "push" /\ gapsShown' = Gaps
        /\ verdicts' = verdicts /\ continuations' = continuations
    BY <1>2 DEF Push, criticVars
  <2> QED BY <2>1 DEF Last, Gaps
<1>3. CASE Clone \/ Index \/ Architect \/ Coded \/ Review
  <2>1. /\ phase' \in Drafting \cup {"critic"} /\ phase \in Drafting
        /\ UNCHANGED <<pushed, gapsShown, verdicts>>
    BY <1>3 DEF Clone, Index, Architect, Coded, Review, criticVars, prVars, Drafting
  <2> QED BY <2>1 DEF PushedJudged, Drafting
<1>4. CASE Continued
  <2>1. pushed' = NoTree /\ phase' = "critic"
    BY <1>4 DEF Continued, PushedJudged, prVars
  <2> QED BY <2>1
<1>5. CASE Document \/ PushRefused \/ Expire
  BY <1>5 DEF Document, PushRefused, Expire, criticVars, prVars, Last
<1>6. ASSUME NEW p \in Passes, Coder(p) PROVE GapsTold'
  BY <1>6 DEF Coder, Write, Capture, Abandon, GhostWrites, criticVars, prVars, Last
<1>7. CASE UNCHANGED vars
  BY <1>7 DEF vars, criticVars, prVars, Last
<1> QED BY <1>1, <1>2, <1>3, <1>4, <1>5, <1>6, <1>7 DEF Next, Workflow, Ended

\* The result at hand is the one that was graded: while a continuation works, only its
\* own result is captured.
LEMMA PushedJudgedStep ==
  TypeOK /\ InOrder /\ AtWork /\ PushedJudged /\ [Next]_vars => PushedJudged'
<1> SUFFICES ASSUME TypeOK, InOrder, AtWork, PushedJudged, [Next]_vars PROVE PushedJudged'
  OBVIOUS
<1> USE DEF PushedJudged, Graded
<1>1. CASE Clone \/ Index \/ Architect \/ Coded \/ Review
  BY <1>1 DEF Clone, Index, Architect, Coded, Review, prVars
<1>2. CASE Critic
  BY <1>2 DEF Critic, passVars, prVars
<1>3. CASE Continued
  BY <1>3 DEF Continued, prVars
<1>4. CASE Document \/ PushRefused \/ Expire
  BY <1>4 DEF Document, PushRefused, Expire, coderVars, passVars, criticVars, prVars
<1>5. CASE Push
  BY <1>5 DEF Push, coderVars, passVars, criticVars
<1>6. ASSUME NEW p \in Passes, Coder(p) PROVE PushedJudged'
  <2>1. CASE Capture(p)
    <3>1. UNCHANGED <<phase, current, judged, pushed>>
      BY <2>1 DEF Capture, passVars, criticVars, prVars
    <3>2. CASE phase = "code"
      BY <3>1, <3>2
    <3>3. CASE phase = "continue"
      <4>1. p = BestOfN + (continuations + 1)
        BY <2>1, <3>3 DEF Capture, AtWork, Continuation
      <4>2. current # p
        BY <4>1, BestOfNAssumption DEF InOrder, TypeOK
      <4>3. result'[current] = result[current]
        BY <2>1, <4>2, BestOfNAssumption, MaxContinuationsAssumption, <3>3
           DEF Capture, TypeOK, InOrder, Passes
      <4> QED BY <3>1, <3>3, <4>3
    <3> QED BY <2>1, <3>2, <3>3 DEF Capture
  <2>2. CASE ~Capture(p)
    BY <1>6, <2>2 DEF Coder, Write, Abandon, GhostWrites, passVars, criticVars, prVars
  <2> QED BY <2>1, <2>2
<1>7. CASE UNCHANGED vars
  BY <1>7 DEF vars, coderVars, passVars, criticVars, prVars
<1> QED BY <1>1, <1>2, <1>3, <1>4, <1>5, <1>6, <1>7 DEF Next, Workflow, Ended

\* One coder at a time and no abandoned attempt: the clone changes only while a pass
\* works, and the pass captures it when it ends.
LEMMA CloneIsResultStep ==
  TypeOK /\ InOrder /\ AtWork /\ PushedJudged /\ CloneIsResult /\ [Next]_vars => CloneIsResult'
<1> SUFFICES ASSUME TypeOK, InOrder, AtWork, PushedJudged, CloneIsResult, [Next]_vars,
                    ~bestOfN', ghosts' = {}
             PROVE  CloneIsResult'
  BY DEF CloneIsResult
<1> USE DEF CloneIsResult, Graded
<1>1. CASE Clone \/ Index
  BY <1>1 DEF Clone, Index, PushedJudged, prVars
<1>2. CASE Architect
  <2>1. phase' = "code" /\ coding'[1] = "working" /\ pushed' = NoTree
    BY <1>2, PassFacts DEF Architect, PushedJudged, prVars
  <2> QED BY <2>1
<1>3. CASE Coded \/ Review
  <2>1. pushed' = NoTree
    BY <1>3 DEF Coded, Review, PushedJudged, prVars
  <2>2. phase' = "review" \/ phase' = "critic"
    BY <1>3 DEF Coded, Review
  <2>3. ASSUME phase' = "critic" PROVE disk' = result'[current']
    <3>1. CASE Coded
      <4>1. /\ coding[1] = "returned" /\ disk' = disk
            /\ current' = 1 /\ result'[1] = result[1]
        BY <2>3, <3>1, PassFacts DEF Coded, Choose, AtWork, TypeOK
      <4>2. disk = result[1]
        BY <3>1, <4>1 DEF Coded
      <4> QED BY <4>1, <4>2
    <3>2. CASE Review
      BY <3>2 DEF Review, AtWork
    <3> QED BY <1>3, <3>1, <3>2
  <2> QED BY <2>1, <2>2, <2>3
<1>4. CASE Critic
  <2>1. ~bestOfN /\ ghosts = {} /\ phase = "critic"
    BY <1>4 DEF Critic
  <2>2. gateSaw' = result[current] /\ judged' = result[current]
    BY <1>4, <2>1 DEF Critic
  <2>3. pushed' = NoTree
    BY <1>4 DEF Critic, PushedJudged, prVars
  <2>4. phase' = "continue" => coding'[Continuation(continuations + 1)] = "working"
    <3>1. phase' = "continue" => continuations + 1 \in 1 .. MaxContinuations
      <4>1. InOrder'
        BY InOrderStep
      <4>2. continuations' = continuations
        BY <1>4 DEF Critic
      <4> QED BY <4>1, <4>2, MaxContinuationsAssumption DEF InOrder, TypeOK
    <3> QED BY <1>4, <3>1, CriticVerdict, PassFacts DEF TypeOK
  <2>5. phase' \in {"continue", "document", "done"} /\ continuations' = continuations
    BY <1>4, CriticVerdict DEF Critic
  <2> QED BY <2>2, <2>3, <2>4, <2>5 DEF Continuation
<1>5. CASE Continued
  <2>1. continuations + 1 \in 1 .. MaxContinuations
    BY <1>5, MaxContinuationsAssumption DEF Continued, InOrder, TypeOK
  <2>2. /\ current' = Continuation(continuations + 1)
        /\ result'[current'] = result[Continuation(continuations + 1)]
    BY <1>5, <2>1, PassFacts DEF Continued, Choose
  <2>3. phase' = "critic" /\ disk' = result'[current']
    BY <1>5, <2>2 DEF Continued
  <2>4. pushed' = NoTree
    BY <1>5 DEF Continued, PushedJudged, prVars
  <2> QED BY <2>3, <2>4
<1>6. CASE Document \/ PushRefused \/ Expire
  BY <1>6 DEF Document, PushRefused, Expire, coderVars, passVars, criticVars, prVars
<1>7. CASE Push
  <2>1. /\ ~bestOfN /\ ghosts = {} /\ phase = "push" /\ phase' \in {"push", "done"}
        /\ pushed' = result[current] /\ gateSaw' = gateSaw /\ judged' = judged
    BY <1>7 DEF Push, coderVars, criticVars
  <2> QED BY <2>1 DEF PushedJudged
<1>8. ASSUME NEW p \in Passes, Coder(p) PROVE CloneIsResult'
  <2>1. UNCHANGED <<phase, bestOfN, current, judged, gateSaw, continuations, pushed>>
    BY <1>8 DEF Coder, Write, Capture, Abandon, GhostWrites, passVars, criticVars, prVars
  <2>2. ghosts = {} /\ ~bestOfN
    BY <1>8, <2>1 DEF Coder, Write, Capture, Abandon, GhostWrites
  <2>3. CASE Capture(p)
    <3>1. phase \in {"code", "continue"} /\ disk' = disk
      BY <2>3 DEF Capture
    <3>2. result'[p] = disk
      BY <2>3 DEF Capture, TypeOK
    <3>3. phase = "code" => p = 1
      BY <2>2, <2>3 DEF Capture, AtWork
    <3>4. phase = "continue" => p = Continuation(continuations + 1)
      BY <2>3 DEF Capture, AtWork
    <3> QED BY <2>1, <2>2, <3>1, <3>2, <3>3, <3>4 DEF Continuation
  <2>4. ASSUME NEW f \in Files, Write(p, f) PROVE CloneIsResult'
    <3>1. phase \in {"code", "continue"} /\ coding' = coding /\ coding[p] = "working"
      BY <2>4 DEF Write
    <3>2. phase = "code" => coding'[1] = "working"
      BY <2>2, <3>1 DEF AtWork
    <3>3. phase = "continue" => coding'[Continuation(continuations + 1)] = "working"
      BY <3>1 DEF AtWork
    <3> QED BY <2>1, <2>2, <3>1, <3>2, <3>3 DEF Continuation
  <2>5. CASE Abandon(p)
    BY <2>5 DEF Abandon
  <2>6. ASSUME NEW f \in Files, GhostWrites(p, f) PROVE CloneIsResult'
    BY <2>2, <2>6 DEF GhostWrites
  <2> QED BY <1>8, <2>3, <2>4, <2>5, <2>6 DEF Coder
<1>9. CASE UNCHANGED vars
  BY <1>9 DEF vars, coderVars, passVars, criticVars, prVars, Continuation
<1> QED BY <1>1, <1>2, <1>3, <1>4, <1>5, <1>6, <1>7, <1>8, <1>9 DEF Next, Workflow, Ended

\* The invariant is inductive.
LEMMA InvStep == IInv /\ [Next]_vars => IInv'
BY TypeStep, InOrderStep, AtWorkStep, EarnedStep, GapsToldStep, PushedJudgedStep,
   CloneIsResultStep DEF IInv

\* The inductive invariant holds throughout.
THEOREM InvAlways == Spec => []IInv
BY InitIInv, InvStep, PTL DEF Spec

\* Every state of the workflow and the clone is well typed.
THEOREM TypeCorrect == Spec => []TypeOK
<1>1. IInv => TypeOK
  BY DEF IInv
<1> QED BY <1>1, InvAlways, PTL

\* However many candidates and continuations there are: a continuation is only ever
\* paid for after an incomplete verdict that made strict progress.
THEOREM EarnedCorrect == Spec => []ContinuationsEarned
<1>1. IInv => ContinuationsEarned
  BY DEF IInv, Earned
<1> QED BY <1>1, InvAlways, PTL

\* No incomplete change is proposed without its gaps, whichever way the loop ended.
THEOREM GapsCorrect == Spec => []GapsDisclosed
<1>1. IInv => GapsDisclosed
  BY DEF IInv, GapsTold, GapsDisclosed
<1> QED BY <1>1, InvAlways, PTL

\* A single coder without an abandoned attempt ships what the last gate ran on.
THEOREM GateCorrect == Spec => []GateSawShipped
<1>1. IInv => GateSawShipped
  BY DEF IInv, CloneIsResult, GateSawShipped
<1> QED BY <1>1, InvAlways, PTL

------------------------------------------------------------------------------
(* The refinement of ReviewedChange.  Drafting for the first time is the   *)
(* step that chooses a result, grading is the critic's, drafting again the *)
(* end of a continuation, shipping a push.                                 *)

Draft == IF current = 0 THEN NoTree ELSE result[current]

\* The result at hand is a tree, never the mark for "none".
LEMMA DraftIsTree ==
  ASSUME TypeOK, current # 0
  PROVE  Draft \in Trees /\ Draft # NoTree /\ Draft = result[current]
<1>1. current \in Passes
  BY BestOfNAssumption, MaxContinuationsAssumption DEF TypeOK, Passes
<1> QED BY <1>1, NoTreeIsNone DEF TypeOK, Draft

\* A step that leaves the draft, the grading, the count and what is shipped alone.
LEMMA Stutters ==
  ASSUME UNCHANGED <<Draft, judged, continuations, pushed>>
  PROVE  UNCHANGED Change!changeVars
BY DEF Change!changeVars, Draft

\* The run starts with nothing drafted.
LEMMA InitMaps == Init => Change!ChangeInit
BY DEF Init, Change!ChangeInit

\* Choosing the single coder's or the winner's result is the first draft.
LEMMA FirstDraftMaps ==
  ASSUME IInv, TypeOK', Coded \/ Review
  PROVE  Change!FirstDraft \/ UNCHANGED Change!changeVars
<1>1. current = 0 /\ UNCHANGED <<judged, continuations, pushed>>
  BY DEF IInv, InOrder, Drafting, Coded, Review, criticVars, prVars
<1>2. CASE current' = 0
  BY <1>1, <1>2, Stutters DEF Draft
<1>3. CASE current' # 0
  <2>1. Draft' \in Trees
    BY <1>3, BestOfNAssumption, MaxContinuationsAssumption DEF TypeOK, Passes, Draft
  <2> QED BY <1>1, <2>1 DEF Change!FirstDraft, Draft
<1> QED BY <1>2, <1>3

\* The critic grades the draft at hand.
LEMMA GradeMaps ==
  ASSUME IInv, Critic
  PROVE  Change!Grade
<1>1. current # 0 /\ judged' = result[current]
  BY DEF IInv, InOrder, Critic
<1>2. UNCHANGED <<current, result, continuations, pushed>>
  BY DEF Critic, passVars, prVars
<1>3. Draft # NoTree
  BY <1>1, DraftIsTree DEF IInv
<1> QED BY <1>1, <1>2, <1>3 DEF Change!Grade, Draft

\* The end of a continuation replaces a draft that was graded, within the budget.
LEMMA RedraftMaps ==
  ASSUME IInv, TypeOK', Continued
  PROVE  Change!Redraft
<1>1. phase = "continue" /\ current # 0 /\ judged = result[current]
  BY DEF IInv, InOrder, PushedJudged, Graded, Continued
<1>2. judged # NoTree
  BY <1>1, DraftIsTree DEF IInv
<1>3. pushed = NoTree /\ continuations < MaxContinuations
  BY <1>1 DEF IInv, InOrder, PushedJudged
<1>4. current' # 0
  BY BestOfNAssumption DEF IInv, TypeOK, Continued, Choose, Continuation
<1>5. Draft' \in Trees
  BY <1>4, BestOfNAssumption, MaxContinuationsAssumption DEF TypeOK, Passes, Draft
<1>6. continuations' = continuations + 1 /\ UNCHANGED <<judged, pushed>>
  BY DEF Continued, prVars
<1> QED BY <1>1, <1>2, <1>3, <1>4, <1>5, <1>6 DEF Change!Redraft, Draft

\* A push, repeated or not, ships the draft that was graded last.
LEMMA ShipMaps ==
  ASSUME IInv, Push
  PROVE  Change!Ship
<1>1. current # 0 /\ judged = result[current] /\ pushed' = result[current]
  BY DEF IInv, InOrder, PushedJudged, Graded, Push
<1>2. judged # NoTree
  BY <1>1, DraftIsTree DEF IInv
<1>3. UNCHANGED <<current, result, judged, continuations>>
  BY DEF Push, coderVars, passVars, criticVars
<1> QED BY <1>1, <1>2, <1>3 DEF Change!Ship

\* What the coders, abandoned attempts among them, do to the clone touches no draft.
LEMMA CodersStutter ==
  ASSUME IInv, NEW p \in Passes, Coder(p)
  PROVE  UNCHANGED Change!changeVars
<1>1. UNCHANGED <<current, judged, continuations, pushed>>
  BY DEF Coder, Write, Capture, Abandon, GhostWrites, passVars, criticVars, prVars
<1>2. CASE Capture(p)
  <2>1. CASE phase = "code"
    <3>1. current = 0
      BY <2>1 DEF IInv, InOrder, Drafting
    <3> QED BY <1>1, <3>1, Stutters DEF Draft
  <2>2. CASE phase = "continue"
    <3>1. p = BestOfN + (continuations + 1) /\ current <= BestOfN + continuations
      BY <1>2, <2>2 DEF IInv, InOrder, AtWork, Capture, Continuation
    <3>2. current # p
      BY <3>1, BestOfNAssumption DEF IInv, TypeOK
    <3>3. result'[current] = result[current] \/ current = 0
      BY <1>2, <3>2, BestOfNAssumption, MaxContinuationsAssumption
         DEF Capture, IInv, TypeOK, Passes
    <3> QED BY <1>1, <3>3, Stutters DEF Draft
  <2> QED BY <1>2, <2>1, <2>2 DEF Capture
<1>3. CASE ~Capture(p)
  <2>1. result' = result
    BY <1>3 DEF Coder, Write, Abandon, GhostWrites
  <2> QED BY <1>1, <2>1, Stutters DEF Draft
<1> QED BY <1>2, <1>3

\* A repo task implements ReviewedChange: every step of it is a step of the abstract
\* specification or leaves its variables alone.
THEOREM ImplementsChange == Spec => Implements
<1>1. IInv /\ IInv' /\ [Next]_vars => [Change!ChangeNext]_(Change!changeVars)
  <2> SUFFICES ASSUME IInv, IInv', [Next]_vars
               PROVE  [Change!ChangeNext]_(Change!changeVars)
    OBVIOUS
  <2> USE DEF Change!ChangeNext
  <2>1. TypeOK'
    BY DEF IInv
  <2>2. CASE Coded \/ Review
    BY <2>1, <2>2, FirstDraftMaps
  <2>3. CASE Critic
    BY <2>3, GradeMaps
  <2>4. CASE Continued
    BY <2>1, <2>4, RedraftMaps
  <2>5. CASE Push
    BY <2>5, ShipMaps
  <2>6. CASE Clone \/ Index \/ Architect
    <3>1. current = 0 /\ UNCHANGED <<current, judged, continuations, pushed>>
      BY <2>6 DEF IInv, InOrder, Drafting, Clone, Index, Architect, passVars, criticVars, prVars
    <3> QED BY <3>1, Stutters DEF Draft
  <2>7. CASE Document \/ PushRefused \/ Expire \/ Ended \/ UNCHANGED vars
    <3>1. UNCHANGED <<current, result, judged, continuations, pushed>>
      BY <2>7 DEF Document, PushRefused, Expire, Ended, vars, coderVars, passVars, criticVars, prVars
    <3> QED BY <3>1, Stutters DEF Draft
  <2>8. ASSUME NEW p \in Passes, Coder(p) PROVE [Change!ChangeNext]_(Change!changeVars)
    BY <2>8, CodersStutter
  <2> QED BY <2>2, <2>3, <2>4, <2>5, <2>6, <2>7, <2>8 DEF Next, Workflow
<1> QED BY <1>1, InitMaps, InvAlways, PTL DEF Spec, Implements, Change!ChangeSpec

==============================================================================
