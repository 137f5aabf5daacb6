--------------------------- MODULE DecisionProofs ---------------------------
(***************************************************************************)
(* Theorems about the decisions a single expression makes, for inputs of   *)
(* every size: any number of criteria, of candidates and failures, and any *)
(* paths and packages.  Each is stated of the operator, then of the states *)
(* in which MCDecisions looks at one input after another.                  *)
(***************************************************************************)
EXTENDS MCDecisions, FiniteSetTheorems, WellFoundedInduction, SequenceTheorems, TLAPS

----------------------------------------------------------------------------
(* Least and greatest numbers. *)

LEMMA LeastIs ==
  ASSUME NEW S, S \subseteq Int, NEW n \in S, \A m \in S : n <= m
  PROVE  Min(S) = n
<1>1. \A m \in S : (\A k \in S : m <= k) => m = n
  OBVIOUS
<1>2. QED
  BY <1>1 DEF Min

LEMMA RouteIsAKey ==
  ASSUME NEW role \in DOMAIN RoleDefaults, NEW complexity
  PROVE  Route(role, complexity) \in Keys
  BY DEF Route, RoleDefaults, Escalation, Keys, ProviderOf

LEMMA LeastExists ==
  ASSUME NEW S, S \subseteq Nat, S # {}
  PROVE  \E m \in S : \A k \in S : m <= k
<1>1. PICK m \in S : \A k \in S : <<k, m>> \notin OpToRel(<, Nat)
  BY NatLessThanWellFounded, WFMin
<1>2. \A k \in S : ~(k < m)
  BY <1>1 DEF OpToRel
<1>3. QED
  BY <1>2

LEMMA LeastOf ==
  ASSUME NEW S, S \subseteq Nat, S # {}
  PROVE  Min(S) \in S /\ \A k \in S : Min(S) <= k
  BY LeastExists DEF Min

\* What numbers bounded by a bound measure has a greatest.
LEMMA GreatestExists ==
  ASSUME NEW T, T # {}, NEW bound \in Nat, NEW measure \in [T -> 0 .. bound]
  PROVE  \E x \in T : \A y \in T : measure[y] <= measure[x]
<1> DEFINE short == {bound - measure[x] : x \in T}
<1>1. short \subseteq Nat /\ short # {}
  OBVIOUS
<1>2. PICK m \in short : \A k \in short : m <= k
  BY <1>1, LeastExists
<1>3. PICK x \in T : m = bound - measure[x]
  BY <1>2
<1>4. \A y \in T : bound - measure[x] <= bound - measure[y]
  BY <1>2, <1>3
<1>5. QED
  BY <1>4

----------------------------------------------------------------------------
(* The critic. *)

\* A pass is never called complete over a tool that reports failures, an answer nobody
\* could read or a criterion without its yes, however many criteria there are.
THEOREM CompleteCorrect ==
  /\ \A changed, run, plan, brief, answer :
       CompleteEarnedFor(changed, run, plan, brief, answer)
  /\ Decisions => []CompleteEarned
<1>1. ASSUME NEW changed, NEW run, NEW plan, NEW brief, NEW answer
      PROVE  CompleteEarnedFor(changed, run, plan, brief, answer)
  <2> DEFINE checklist == Checklist(plan, brief)
             gate      == GateFailures(changed, run)
             result    == Verdict(gate, checklist, answer, Degraded(plan))
  <2> SUFFICES ASSUME result.verdict = "complete", ~(Degraded(plan) /\ checklist = {})
               PROVE  /\ \A tool \in Tools : run[tool] = "reports" => Checks[tool] \notin changed
                      /\ checklist # {} => answer.kind = "object"
                      /\ \A c \in checklist : c \in DOMAIN answer.status /\ answer.status[c] = "yes"
    BY DEF CompleteEarnedFor
  <2> HIDE DEF checklist, gate
  <2>1. Failed(checklist, answer) = {} /\ gate = {}
    BY DEF Verdict
  <2>2. \A tool \in Tools : run[tool] = "reports" => Fails(tool, run[tool])
    BY DEF Tools, Checks, Fails, RuffFails, CompileallFails, MvnFails, NpmFails
  <2>3. \A tool \in Tools : run[tool] = "reports" => Checks[tool] \notin changed
    BY <2>1, <2>2 DEF gate, GateFailures
  <2>4. checklist \subseteq Passed(checklist, answer)
    BY <2>1 DEF Failed
  <2>5. QED
    BY <2>3, <2>4 DEF Passed
<1>2. CompleteEarned
  BY <1>1 DEF CompleteEarned
<1>3. Decisions => []CompleteEarned
  BY <1>2, PTL
<1>4. QED
  BY <1>1, <1>3

----------------------------------------------------------------------------
(* The models. *)

\* What calls come to: errors with any of the names and any status, but for those two
\* classes that the SDKs derive from the status.
AnyReply(names) ==
  [kind : {"answer"}, text : {"prose", "blank", "missing"}]
    \cup {err \in [kind : {"error"}, name : names, status : Nat] :
            /\ err.name = "RateLimitError" => err.status = 429
            /\ err.name = "InternalServerError" => err.status >= 500}

\* The first model that does not fail transiently decides; a chain has one model at most.
LEMMA FallbackDecides ==
  ASSUME NEW role, NEW primary \in Keys, NEW reply
  PROVE  LET result == CompleteWithFallback(role, primary, reply)
             rest   == FallbackChain[ProviderOf[primary]]
             next(key) == TriesNext(Complete(role, reply, key))
         IN  /\ ~next(primary) =>
                  result = [end |-> Complete(role, reply, primary), by |-> primary, asked |-> {primary}]
             /\ next(primary) /\ rest = <<>> =>
                  result = [end |-> reply[primary], by |-> primary, asked |-> {primary}]
             /\ next(primary) /\ rest # <<>> /\ ~next("gpt54") =>
                  result = [end |-> Complete(role, reply, "gpt54"), by |-> "gpt54", asked |-> {primary, "gpt54"}]
             /\ next(primary) /\ rest # <<>> /\ next("gpt54") =>
                  result = [end |-> reply[primary], by |-> primary, asked |-> {primary, "gpt54"}]
<1> DEFINE tries  == Attempts(primary)
           rest   == FallbackChain[ProviderOf[primary]]
           next(key) == TriesNext(Complete(role, reply, key))
           hits   == {i \in 1..Len(tries) : ~next(tries[i])}
           stop   == SelectInSeq(tries, LAMBDA key : ~TriesNext(Complete(role, reply, key)))
           result == CompleteWithFallback(role, primary, reply)
<1>1. rest = <<>> \/ (rest = <<"gpt54">> /\ primary # "gpt54")
  BY DEF FallbackChain, ProviderOf, Keys
<1>2. "gpt54" \in Keys
  BY DEF Keys, ProviderOf
<1>3. stop = IF hits # {} THEN Min(hits) ELSE 0
  BY DEF SelectInSeq
<1>4. result = IF stop = 0
               THEN [end |-> reply[primary], by |-> primary, asked |-> ToSet(tries)]
               ELSE [end   |-> Complete(role, reply, tries[stop]),
                     by    |-> tries[stop],
                     asked |-> {tries[i] : i \in 1..stop}]
  BY DEF CompleteWithFallback
<1>5. tries = <<primary>> \o rest /\ tries[1] = primary /\ Len(tries) \in Nat /\ Len(tries) >= 1
  BY <1>1 DEF Attempts
<1>6. hits \subseteq Int
  OBVIOUS
<1>7. /\ rest = <<>> => Len(tries) = 1
      /\ rest # <<>> => Len(tries) = 2 /\ tries[2] = "gpt54"
  <2>1. <<primary>> \in Seq({primary, "gpt54"}) /\ rest \in Seq({primary, "gpt54"})
    <3>1. \A S : \A e \in S : <<e>> \in Seq(S) /\ <<>> \in Seq(S)
      OBVIOUS
    <3>2. primary \in {primary, "gpt54"} /\ "gpt54" \in {primary, "gpt54"}
      OBVIOUS
    <3>3. QED
      BY <1>1, <3>1, <3>2
  <2>2. /\ Len(tries) = 1 + Len(rest)
        /\ \A i \in 1 .. 1 + Len(rest) : tries[i] = IF i <= 1 THEN primary ELSE rest[i - 1]
    BY <1>5, <2>1, ConcatProperties
  <2>3. QED
    BY <1>1, <2>2
<1> HIDE DEF tries, hits, stop, next
<1>8. CASE ~next(primary)
  <2>1. 1 \in hits /\ \A m \in hits : 1 <= m
    BY <1>2, <1>5, <1>8 DEF hits
  <2>2. stop = 1
    BY <1>3, <1>6, <2>1, LeastIs
  <2>3. {tries[i] : i \in 1..stop} = {primary}
    BY <1>5, <2>2
  <2>4. result = [end |-> Complete(role, reply, primary), by |-> primary, asked |-> {primary}]
    <3>1. stop # 0
      BY <2>2
    <3>2. tries[stop] = primary
      BY <1>5, <2>2
    <3>3. QED
      BY <1>4, <2>3, <3>1, <3>2
  <2>5. QED
    BY <1>8, <2>4 DEF next
<1>9. CASE next(primary) /\ rest = <<>>
  <2>1. stop = 0
    BY <1>2, <1>3, <1>5, <1>7, <1>9 DEF hits
  <2>2. ToSet(tries) = {primary}
    BY <1>5, <1>7, <1>9 DEF ToSet
  <2>3. QED
    BY <1>4, <1>9, <2>1, <2>2 DEF next
<1>10. CASE next(primary) /\ rest # <<>> /\ ~next("gpt54")
  <2>1. 2 \in hits /\ \A m \in hits : 2 <= m
    BY <1>2, <1>5, <1>7, <1>10 DEF hits, Keys, ProviderOf
  <2>2. stop = 2
    BY <1>3, <1>6, <2>1, LeastIs
  <2>3. {tries[i] : i \in 1..stop} = {primary, "gpt54"}
    BY <1>5, <1>7, <1>10, <2>2
  <2>4. result = [end |-> Complete(role, reply, "gpt54"), by |-> "gpt54", asked |-> {primary, "gpt54"}]
    <3>1. stop # 0
      BY <2>2
    <3>2. tries[stop] = "gpt54"
      BY <1>7, <1>10, <2>2
    <3>3. QED
      BY <1>4, <2>3, <3>1, <3>2
  <2>5. QED
    BY <1>10, <2>4 DEF next
<1>11. CASE next(primary) /\ rest # <<>> /\ next("gpt54")
  <2>1. stop = 0
    BY <1>2, <1>3, <1>5, <1>7, <1>11 DEF hits, Keys, ProviderOf
  <2>2. ToSet(tries) = {primary, "gpt54"}
    BY <1>5, <1>7, <1>11 DEF ToSet
  <2>3. QED
    BY <1>4, <1>11, <2>1, <2>2 DEF next
<1>12. QED
  BY <1>8, <1>9, <1>10, <1>11

LEMMA AnswererChosen ==
  ASSUME NEW role \in DOMAIN RoleDefaults, NEW complexity, NEW reply, NEW names,
         reply[Route(role, complexity)] \in AnyReply(names), reply["gpt54"] \in AnyReply(names)
  PROVE  AnswererChargedFor(role, complexity, reply)
<1> DEFINE primary == Route(role, complexity)
           rest    == FallbackChain[ProviderOf[primary]]
           others  == ToSet(rest)
           result  == CompleteWithFallback(role, primary, reply)
           end(key)  == Complete(role, reply, key)
           next(key) == TriesNext(end(key))
           Down(key) == reply[key].kind = "error" /\ Unavailable(reply[key])
<1>1. primary \in Keys
  BY RouteIsAKey
<1>2. reply[primary] \in AnyReply(names)
  OBVIOUS
<1> HIDE DEF primary
<1>3. /\ rest = <<>> => others = {}
      /\ rest # <<>> => others = {"gpt54"} /\ ProviderOf["gpt54"] # ProviderOf[primary]
  BY <1>1 DEF FallbackChain, ProviderOf, Keys, ToSet
<1>4. /\ ~next(primary) => result = [end |-> end(primary), by |-> primary, asked |-> {primary}]
      /\ next(primary) /\ rest = <<>> =>
           result = [end |-> reply[primary], by |-> primary, asked |-> {primary}]
      /\ next(primary) /\ rest # <<>> /\ ~next("gpt54") =>
           result = [end |-> end("gpt54"), by |-> "gpt54", asked |-> {primary, "gpt54"}]
      /\ next(primary) /\ rest # <<>> /\ next("gpt54") =>
           result = [end |-> reply[primary], by |-> primary, asked |-> {primary, "gpt54"}]
  BY <1>1, FallbackDecides
<1>5. ASSUME NEW key, reply[key] \in AnyReply(names)
      PROVE  /\ next(key) => reply[key].kind = "error"
             /\ next(key) => Down(key) \/ reply[key].name = "APIStatusError"
             /\ Down(key) => next(key)
             /\ end(key).kind = "answer" =>
                  /\ end(key) = reply[key]
                  /\ end(key).text = "prose" \/ (end(key).text = "blank" /\ Chats(role, key))
             /\ end(key).kind = "error" => reply[key] # Answer("prose")
  <2>1. CASE reply[key] \in [kind : {"answer"}, text : {"prose", "blank", "missing"}]
    <3>1. reply[key] = Answer(reply[key].text) /\ reply[key].kind = "answer"
          /\ reply[key].text \in {"prose", "blank", "missing"}
      BY <2>1 DEF Answer
    <3>2. CASE reply[key].text = "missing" \/ (reply[key].text = "blank" /\ ~Chats(role, key))
      <4>1. end(key) = Error("RuntimeError", 0)
        BY <3>1, <3>2 DEF Complete
      <4>2. ~next(key) /\ end(key).kind = "error"
        BY <4>1 DEF TriesNext, IsTransient, TransientNames, Error
      <4>3. reply[key] # Answer("prose")
        BY <3>1, <3>2 DEF Answer
      <4> QED BY <3>1, <4>2, <4>3
    <3>3. CASE ~(reply[key].text = "missing" \/ (reply[key].text = "blank" /\ ~Chats(role, key)))
      <4>1. end(key) = reply[key]
        BY <3>1, <3>3 DEF Complete, Answer
      <4> QED BY <3>1, <3>3, <4>1 DEF TriesNext
    <3> QED BY <3>2, <3>3
  <2>2. CASE /\ reply[key] \in [kind : {"error"}, name : names, status : Nat]
             /\ reply[key].name = "RateLimitError" => reply[key].status = 429
             /\ reply[key].name = "InternalServerError" => reply[key].status >= 500
    <3>1. reply[key].kind = "error"
      BY <2>2
    <3>2. \A text : reply[key] # Answer(text)
      BY <3>1 DEF Answer
    <3>3. end(key) = reply[key]
      BY <3>2 DEF Complete
    <3>4. IsTransient(reply[key]) <=> Unavailable(reply[key]) \/ reply[key].name = "APIStatusError"
      BY <2>2 DEF IsTransient, TransientNames, Unavailable
    <3> QED BY <3>1, <3>2, <3>3, <3>4 DEF TriesNext
  <2> QED BY <1>5, <2>1, <2>2 DEF AnyReply
<1>6. \A key \in {primary, "gpt54"} :
        /\ next(key) => reply[key].kind = "error"
        /\ next(key) => Down(key) \/ reply[key].name = "APIStatusError"
        /\ Down(key) => next(key)
        /\ end(key).kind = "answer" =>
             /\ end(key) = reply[key]
             /\ end(key).text = "prose" \/ (end(key).text = "blank" /\ Chats(role, key))
        /\ end(key).kind = "error" => reply[key] # Answer("prose")
  BY <1>2, <1>5
<1> HIDE DEF rest, others, result, end, next, Down
<1>7. /\ result.end.kind = "answer" =>
           /\ result.end = reply[result.by]
           /\ result.end.text = "prose" \/ (result.end.text = "blank" /\ Chats(role, result.by))
      /\ \A key \in result.asked \ {result.by} :
           Down(key) \/ (reply[key].kind = "error" /\ reply[key].name = "APIStatusError")
      /\ Down(primary) /\ result.end.kind = "error" =>
           /\ \A key \in others : reply[key] # Answer("prose")
           /\ (\A key \in others : Down(key)) => result.end = reply[primary]
      /\ \A key \in result.asked \ {primary} : ProviderOf[key] # ProviderOf[primary]
  <2>0. \A text : Answer(text).kind # "error"
    BY DEF Answer
  <2>1. CASE ~next(primary)
    BY <1>4, <1>6, <2>1
  <2>2. CASE next(primary) /\ rest = <<>>
    BY <1>3, <1>4, <1>6, <2>2
  <2>3. CASE next(primary) /\ rest # <<>> /\ ~next("gpt54")
    BY <1>3, <1>4, <1>6, <2>3
  <2>4. CASE next(primary) /\ rest # <<>> /\ next("gpt54")
    BY <1>3, <1>4, <1>6, <2>0, <2>4
  <2> QED BY <2>1, <2>2, <2>3, <2>4
<1> QED BY <1>7 DEF AnswererChargedFor, primary, rest, others, result, Down

----------------------------------------------------------------------------
(* The candidates.  Pairs(S) are those that are judged, PairsWith(S, i)    *)
(* the ones i is in, and Won(results, i) the ones it won.                  *)

Judged(S, judge) == \A i, j \in S : i # j => judge[<<i, j>>] \in {"A", "B", "none"}

Pairs(S) == {p \in S \X S : p[1] < p[2]}

PairsWith(S, i) == {p \in Pairs(S) : i \in {p[1], p[2]}}

PairOf(i, j) == IF i < j THEN <<i, j>> ELSE <<j, i>>

Won(results, i) == {p \in DOMAIN results : results[p].winner = i}

WonTwice(results, i) == {p \in DOMAIN results : results[p].winner = i /\ results[p].consistent}

LEMMA PairsAre ==
  ASSUME NEW S, NEW p \in Pairs(S)
  PROVE  \E a, b \in S : p = <<a, b>> /\ p[1] = a /\ p[2] = b /\ a < b
<1>1. PICK a \in S, b \in S : p = <<a, b>>
  BY DEF Pairs
<1>2. p[1] = a /\ p[2] = b /\ p[1] < p[2]
  BY <1>1 DEF Pairs
<1>3. QED
  BY <1>1, <1>2

LEMMA PairsFinite ==
  ASSUME NEW S, IsFiniteSet(S)
  PROVE  /\ IsFiniteSet(Pairs(S))
         /\ Cardinality(Pairs(S)) \in Nat
         /\ \A Q \in SUBSET Pairs(S) :
              IsFiniteSet(Q) /\ Cardinality(Q) \in 0 .. Cardinality(Pairs(S))
<1>1. IsFiniteSet(S \X S)
  BY FS_Product
<1>2. Pairs(S) \in SUBSET (S \X S)
  BY DEF Pairs
<1>3. IsFiniteSet(Pairs(S))
  BY <1>1, <1>2, FS_Subset
<1>4. ASSUME NEW Q \in SUBSET Pairs(S)
      PROVE  IsFiniteSet(Q) /\ Cardinality(Q) \in 0 .. Cardinality(Pairs(S))
  BY <1>3, FS_Subset, FS_CardinalityType
<1>5. QED
  BY <1>3, <1>4, FS_CardinalityType

\* A candidate is in as many pairs as there are other candidates.
LEMMA PairsCounted ==
  ASSUME NEW S, S \subseteq Nat, IsFiniteSet(S), NEW i \in S
  PROVE  Cardinality(PairsWith(S, i)) = Cardinality(S) - 1
<1> DEFINE f == [j \in S \ {i} |-> PairOf(i, j)]
<1>1. IsFiniteSet(S \ {i}) /\ Cardinality(S \ {i}) = Cardinality(S) - 1
  BY FS_RemoveElement
<1>2. f \in [S \ {i} -> PairsWith(S, i)]
  BY DEF PairOf, PairsWith, Pairs
<1>3. \A j, k \in S \ {i} : f[j] = f[k] => j = k
  BY DEF PairOf
<1>4. \A p \in PairsWith(S, i) : \E j \in S \ {i} : f[j] = p
  <2>1. ASSUME NEW p \in PairsWith(S, i)
        PROVE  \E j \in S \ {i} : f[j] = p
    <3>1. PICK a \in S, b \in S : p = <<a, b>> /\ a < b /\ (a = i \/ b = i)
      BY PairsAre DEF PairsWith
    <3>2. CASE a = i
      BY <3>1, <3>2 DEF PairOf
    <3>3. CASE b = i
      <4>1. a # i /\ ~(i < a)
        BY <3>1, <3>3
      <4>2. QED
        BY <3>1, <3>3, <4>1 DEF PairOf
    <3>4. QED
      BY <3>1, <3>2, <3>3
  <2>2. QED
    BY <2>1
<1> HIDE DEF f
<1>5. f \in Bijection(S \ {i}, PairsWith(S, i))
  BY <1>2, <1>3, <1>4 DEF Bijection, Injection, Surjection, IsInjective
<1>6. QED
  BY <1>1, <1>5, FS_Bijection DEF ExistsBijection

\* What the judge is heard to say of a pair.
LEMMA PairJudged ==
  ASSUME NEW S, S \subseteq Nat, NEW judge, Judged(S, judge), NEW p \in Pairs(S)
  PROVE  LET result == PairResults(judge, S)[p]
         IN  /\ DOMAIN PairResults(judge, S) = Pairs(S)
             /\ result.winner \in {p[1], p[2]}
             /\ Prefers(judge, p[1], p[2]) => result.winner = p[1]
             /\ Prefers(judge, p[2], p[1]) => result.winner = p[2]
             /\ ~Prefers(judge, p[1], p[2]) /\ ~Prefers(judge, p[2], p[1]) => result.winner = p[1]
<1> DEFINE a == p[1]
           b == p[2]
           agreed == Picked(judge, a, b) \cap Picked(judge, b, a)
<1>1. a \in Nat /\ b \in Nat /\ a < b
  BY DEF Pairs
<1>2. DOMAIN PairResults(judge, S) = Pairs(S) /\ PairResults(judge, S)[p] = PairwiseCompare(judge, a, b)
  BY DEF PairResults, Pairs
<1>3. judge[<<a, b>>] \in {"A", "B", "none"} /\ judge[<<b, a>>] \in {"A", "B", "none"}
  BY <1>1 DEF Judged, Pairs
<1>4. /\ Prefers(judge, a, b) => agreed = {a}
      /\ Prefers(judge, b, a) => agreed = {b}
      /\ ~Prefers(judge, a, b) /\ ~Prefers(judge, b, a) => agreed = {}
  BY <1>1, <1>3 DEF Prefers, Picked
<1>5. Min({a, b}) = a
  BY <1>1, LeastIs
<1> HIDE DEF a, b
<1>6. /\ agreed = {a} => PairwiseCompare(judge, a, b).winner = a
      /\ agreed = {b} => PairwiseCompare(judge, a, b).winner = b
      /\ agreed = {} => PairwiseCompare(judge, a, b).winner = a
  BY <1>5 DEF PairwiseCompare
<1>7. QED
  BY <1>2, <1>4, <1>6 DEF a, b

\* There is a candidate that ranks before every other, and the reviewer picks such a one.
LEMMA WinnerRanksFirst ==
  ASSUME NEW S, S \subseteq Nat, S # {}, IsFiniteSet(S), NEW judge, Judged(S, judge)
  PROVE  LET results == PairResults(judge, S)
             winner  == PickWinner(results, S)
         IN  winner \in S /\ \A j \in S \ {winner} : RanksBefore(results, winner, j)
<1> DEFINE results == PairResults(judge, S)
           bound   == Cardinality(Pairs(S))
           wins    == [i \in S |-> Wins(results, i)]
<1>1. DOMAIN results = Pairs(S)
  BY DEF PairResults, Pairs
<1> HIDE DEF results
<1>2. bound \in Nat
  BY PairsFinite
<1>3. \A i \in S : Wins(results, i) \in 0 .. bound /\ ConsistentWins(results, i) \in 0 .. bound
  <2>1. ASSUME NEW i \in S
        PROVE  Wins(results, i) \in 0 .. bound /\ ConsistentWins(results, i) \in 0 .. bound
    <3>1. Won(results, i) \in SUBSET Pairs(S) /\ WonTwice(results, i) \in SUBSET Pairs(S)
      BY <1>1 DEF Won, WonTwice
    <3>2. /\ Wins(results, i) = Cardinality(Won(results, i))
          /\ ConsistentWins(results, i) = Cardinality(WonTwice(results, i))
      BY DEF Wins, ConsistentWins, Quantify, Won, WonTwice
    <3>3. QED
      BY <3>1, <3>2, PairsFinite
  <2>2. QED
    BY <2>1
<1> HIDE DEF bound
<1>4. PICK x \in S : \A y \in S : Wins(results, y) <= Wins(results, x)
  <2>1. wins \in [S -> 0 .. bound]
    BY <1>3
  <2>2. PICK x \in S : \A y \in S : wins[y] <= wins[x]
    BY <1>2, <2>1, GreatestExists
  <2>3. QED
    BY <2>2
<1> DEFINE most  == {i \in S : Wins(results, i) = Wins(results, x)}
           twice == [i \in most |-> ConsistentWins(results, i)]
<1>5. PICK y \in most : \A z \in most : ConsistentWins(results, z) <= ConsistentWins(results, y)
  <2>1. twice \in [most -> 0 .. bound] /\ most # {}
    BY <1>3
  <2>2. PICK y \in most : \A z \in most : twice[z] <= twice[y]
    BY <1>2, <2>1, GreatestExists
  <2>3. QED
    BY <2>2
<1> DEFINE best == {i \in most : ConsistentWins(results, i) = ConsistentWins(results, y)}
<1>6. PICK w \in best : \A z \in best : w <= z
  <2>1. best \subseteq Nat /\ best # {}
    OBVIOUS
  <2>2. QED
    BY <2>1, LeastExists
<1>7. ASSUME NEW j \in S \ {w}
      PROVE  RanksBefore(results, w, j)
  <2>1. CASE j \notin most
    BY <1>3, <1>4, <2>1 DEF RanksBefore
  <2>2. CASE j \in most /\ j \notin best
    BY <1>3, <1>5, <2>2 DEF RanksBefore
  <2>3. CASE j \in best
    BY <1>3, <1>6, <2>3 DEF RanksBefore
  <2>4. QED
    BY <2>1, <2>2, <2>3
<1>8. \E i \in S : \A j \in S \ {i} : RanksBefore(results, i, j)
  BY <1>7
<1>9. QED
  BY <1>8 DEF PickWinner, results

\* A candidate that wins every pair it is in wins; one that wins none does not.
LEMMA WinsDecide ==
  ASSUME NEW S, S \subseteq Nat, IsFiniteSet(S), NEW judge, Judged(S, judge), NEW i \in S
  PROVE  LET results == PairResults(judge, S)
         IN  /\ PairsWith(S, i) \subseteq Won(results, i) => PickWinner(results, S) = i
             /\ Won(results, i) = {} /\ S # {i} => PickWinner(results, S) # i
<1> DEFINE results == PairResults(judge, S)
           winner  == PickWinner(results, S)
<1>1. winner \in S /\ \A j \in S \ {winner} : RanksBefore(results, winner, j)
  BY WinnerRanksFirst
<1>2. /\ DOMAIN results = Pairs(S)
      /\ \A p \in Pairs(S) : results[p].winner \in {p[1], p[2]}
  <2>1. DOMAIN results = Pairs(S)
    BY DEF PairResults, Pairs
  <2>2. QED
    BY <2>1, PairJudged
<1> HIDE DEF results, winner
<1>3. \A j \in S : Won(results, j) \in SUBSET PairsWith(S, j)
  BY <1>2 DEF Won, PairsWith, Pairs
<1>4. \A j \in S : PairsWith(S, j) \in SUBSET Pairs(S)
  BY DEF PairsWith
<1>5. \A j \in S : Wins(results, j) = Cardinality(Won(results, j))
  BY DEF Wins, Quantify, Won
<1>6. \A j \in S : /\ IsFiniteSet(PairsWith(S, j)) /\ Cardinality(PairsWith(S, j)) \in Nat
                   /\ Cardinality(PairsWith(S, j)) = Cardinality(S) - 1
                   /\ IsFiniteSet(Won(results, j)) /\ Cardinality(Won(results, j)) \in Nat
  <2>1. ASSUME NEW j \in S
        PROVE  /\ IsFiniteSet(PairsWith(S, j)) /\ Cardinality(PairsWith(S, j)) \in Nat
               /\ Cardinality(PairsWith(S, j)) = Cardinality(S) - 1
               /\ IsFiniteSet(Won(results, j)) /\ Cardinality(Won(results, j)) \in Nat
    <3>1. PairsWith(S, j) \in SUBSET Pairs(S) /\ Won(results, j) \in SUBSET Pairs(S)
      BY <1>3, <1>4
    <3>2. Cardinality(PairsWith(S, j)) = Cardinality(S) - 1
      BY PairsCounted
    <3>3. QED
      BY <3>1, <3>2, PairsFinite
  <2>2. QED
    BY <2>1
<1>7. \A j \in S \ {i} : PairOf(i, j) \in PairsWith(S, i) /\ PairOf(i, j) \in PairsWith(S, j)
  BY DEF PairOf, PairsWith, Pairs
<1>8. ASSUME PairsWith(S, i) \subseteq Won(results, i), winner # i
      PROVE  FALSE
  <2>1. Won(results, i) = PairsWith(S, i)
    BY <1>3, <1>8
  <2>2. PairOf(i, winner) \notin Won(results, winner)
    BY <1>1, <1>7, <1>8, <2>1 DEF Won
  <2>3. Won(results, winner) # PairsWith(S, winner)
    BY <1>1, <1>7, <1>8, <2>2
  <2>4. Wins(results, winner) < Wins(results, i)
    <3>1. /\ Cardinality(Won(results, winner)) <= Cardinality(PairsWith(S, winner))
          /\ Cardinality(Won(results, winner)) # Cardinality(PairsWith(S, winner))
      BY <1>1, <1>3, <1>6, <2>3, FS_Subset
    <3>2. QED
      BY <1>1, <1>5, <1>6, <2>1, <3>1
  <2>5. RanksBefore(results, winner, i)
    BY <1>1, <1>8
  <2>6. QED
    BY <1>1, <1>5, <1>6, <2>4, <2>5 DEF RanksBefore
<1>9. ASSUME Won(results, i) = {}, S # {i}, winner = i
      PROVE  FALSE
  <2>1. PICK j \in S \ {i} : TRUE
    BY <1>9
  <2>2. PairOf(i, j) \in Won(results, j)
    BY <1>2, <1>7, <1>9 DEF Won, PairsWith, PairOf
  <2>3. Wins(results, j) > 0 /\ Wins(results, i) = 0
    BY <1>5, <1>6, <1>9, <2>2, FS_EmptySet
  <2>4. RanksBefore(results, i, j)
    BY <1>1, <1>9
  <2>5. QED
    BY <1>5, <1>6, <2>3, <2>4 DEF RanksBefore
<1>10. QED
  BY <1>8, <1>9 DEF results, winner

LEMMA SelectionMade ==
  ASSUME NEW n \in Nat \ {0}, NEW failures \in [1 .. n -> Nat], NEW judge, Judged(1 .. n, judge)
  PROVE  SelectionEarnedFor(failures, judge)
<1> DEFINE S       == Survivors(failures)
           winner  == Select(failures, judge)
<1>1. S \in SUBSET (1 .. n) /\ S \subseteq Nat /\ IsFiniteSet(S) /\ \A i \in S : failures[i] = 0
  <2>1. S \in SUBSET (1 .. n) /\ \A i \in S : failures[i] = 0
    BY DEF Survivors
  <2>2. IsFiniteSet(1 .. n)
    BY FS_Interval
  <2>3. IsFiniteSet(S)
    BY <2>1, <2>2, FS_Subset
  <2>4. QED
    BY <2>1, <2>3
<1>2. Judged(S, judge)
  BY <1>1 DEF Judged
<1>3. CASE S = {}
  <2> DEFINE found  == {failures[i] : i \in 1 .. n}
             least  == {i \in 1 .. n : failures[i] = Min(found)}
  <2>1. found \subseteq Nat /\ found # {}
    OBVIOUS
  <2>2. Min(found) \in found /\ \A k \in found : Min(found) <= k
    BY <2>1, LeastOf
  <2>3. least \subseteq Nat /\ least # {}
    <3>1. PICK i \in 1 .. n : failures[i] = Min(found)
      BY <2>2
    <3>2. i \in least
      BY <3>1
    <3>3. least \subseteq Nat
      OBVIOUS
    <3>4. QED
      BY <3>2, <3>3
  <2>4. Min(least) \in least
    BY <2>3, LeastOf
  <2>5. winner = Min(least)
    <3>1. winner = LeastBad(failures)
      BY <1>3 DEF Select
    <3>2. DOMAIN failures = 1 .. n
      OBVIOUS
    <3>3. QED
      BY <3>1, <3>2 DEF LeastBad
  <2>6. \A i \in 1 .. n : failures[winner] <= failures[i]
    BY <2>2, <2>4, <2>5
  <2>7. QED
    BY <1>3, <2>6 DEF SelectionEarnedFor
<1>4. CASE \E i : S = {i}
  <2>1. PICK i : S = {i}
    BY <1>4
  <2>2. Cardinality(S) = 1 /\ S # {} /\ (CHOOSE j \in S : TRUE) = i
    BY <1>1, <2>1, FS_Singleton
  <2>3. winner = i
    BY <2>2 DEF Select
  <2>4. \A j \in 1 .. n : failures[winner] <= failures[j]
    BY <1>1, <2>1, <2>3
  <2>5. Min(S) = i
    BY <1>1, <2>1, LeastOf
  <2>6. QED
    BY <2>1, <2>3, <2>4, <2>5 DEF SelectionEarnedFor
<1>5. CASE S # {} /\ ~\E i : S = {i}
  <2> DEFINE results == PairResults(judge, S)
  <2>1. winner = PickWinner(results, S)
    <3>1. Cardinality(S) # 1
      BY <1>1, <1>5, FS_Singleton
    <3>2. QED
      BY <1>5, <3>1 DEF Select
  <2>2. winner \in S
    BY <1>1, <1>2, <1>5, <2>1, WinnerRanksFirst
  <2>3. \A j \in 1 .. n : failures[winner] <= failures[j]
    BY <1>1, <2>2
  <2>4. \A p \in Pairs(S) :
          /\ results[p].winner \in {p[1], p[2]}
          /\ Prefers(judge, p[1], p[2]) => results[p].winner = p[1]
          /\ Prefers(judge, p[2], p[1]) => results[p].winner = p[2]
          /\ ~Prefers(judge, p[1], p[2]) /\ ~Prefers(judge, p[2], p[1]) => results[p].winner = p[1]
    BY <1>1, <1>2, PairJudged
  <2>5. DOMAIN results = Pairs(S)
    BY DEF PairResults, Pairs
  <2> HIDE DEF results
  <2>6. \A i \in S : /\ PairsWith(S, i) \subseteq Won(results, i) => winner = i
                     /\ Won(results, i) = {} => winner # i
    BY <1>1, <1>2, <1>5, <2>1, WinsDecide DEF results
  <2>7. ASSUME NEW i \in S, \A j \in S \ {i} : Prefers(judge, i, j)
        PROVE  winner = i
    <3>1. \A p \in PairsWith(S, i) : results[p].winner = i
      BY <1>1, <2>4, <2>7 DEF PairsWith, Pairs
    <3>2. QED
      BY <2>5, <2>6, <3>1 DEF Won, PairsWith
  <2>8. ASSUME NEW i \in S, \A j \in S \ {i} : Prefers(judge, j, i)
        PROVE  winner # i
    <3>1. ASSUME NEW p \in Pairs(S)
          PROVE  results[p].winner # i
      <4>1. PICK a, b \in S : p = <<a, b>> /\ p[1] = a /\ p[2] = b /\ a < b
        BY PairsAre
      <4>2. a # b
        BY <1>1, <4>1
      <4>3. CASE a = i
        BY <2>4, <2>8, <4>1, <4>2, <4>3
      <4>4. CASE b = i
        BY <2>4, <2>8, <4>1, <4>2, <4>4
      <4>5. CASE i \notin {a, b}
        BY <2>4, <4>1, <4>5
      <4>6. QED
        BY <4>3, <4>4, <4>5
    <3>2. QED
      BY <2>5, <2>6, <3>1 DEF Won
  <2>9. ASSUME \A i, j \in S : i # j => ~Prefers(judge, i, j)
        PROVE  winner = Min(S)
    <3>1. Min(S) \in S /\ \A k \in S : Min(S) <= k
      BY <1>1, <1>5, LeastOf
    <3>2. ASSUME NEW p \in PairsWith(S, Min(S))
          PROVE  results[p].winner = Min(S)
      <4>1. p \in Pairs(S) /\ (p[1] = Min(S) \/ p[2] = Min(S))
        BY DEF PairsWith
      <4>2. PICK a, b \in S : p = <<a, b>> /\ p[1] = a /\ p[2] = b /\ a < b
        BY <4>1, PairsAre
      <4>3. a # b /\ a = Min(S)
        BY <1>1, <3>1, <4>1, <4>2
      <4>4. results[p].winner = a
        BY <2>4, <2>9, <4>1, <4>2, <4>3
      <4>5. QED
        BY <4>3, <4>4
    <3>3. QED
      BY <2>5, <2>6, <3>1, <3>2 DEF Won, PairsWith
  <2>10. QED
    BY <2>3, <2>7, <2>8, <2>9 DEF SelectionEarnedFor
<1>6. QED
  BY <1>3, <1>4, <1>5
----------------------------------------------------------------------------
(* The names of files. *)

LEMMA PrefixCut ==
  ASSUME NEW T, NEW parts \in Seq(T), NEW prefix \in Seq(T),
         Len(prefix) < Len(parts), IsPrefix(prefix, parts)
  PROVE  prefix \o SubSeq(parts, Len(prefix) + 1, Len(parts)) = parts
<1>1. SubSeq(parts, 1, Len(prefix)) = prefix
  BY SubSeqFull DEF IsPrefix
<1>2. SubSeq(parts, 1, Len(prefix)) \o SubSeq(parts, Len(prefix) + 1, Len(parts))
        = SubSeq(parts, 1, Len(parts))
  <2>1. Len(parts) \in Nat /\ Len(prefix) \in Nat
    OBVIOUS
  <2>2. 1 \in 1 .. Len(parts) + 1 /\ Len(prefix) \in 1 - 1 .. Len(parts)
          /\ Len(parts) \in Len(prefix) .. Len(parts)
    BY <2>1
  <2>3. QED
    BY <2>2, ConcatAdjacentSubSeq
<1>3. QED
  BY <1>1, <1>2, SubSeqFull

LEMMA ShortSeqs ==
  ASSUME NEW T
  PROVE  /\ <<>> \in Seq(T)
         /\ \A a \in T : <<a>> \in Seq(T)
         /\ \A a, b \in T : <<a, b>> \in Seq(T)
         /\ \A a, b, c \in T : <<a, b, c>> \in Seq(T)
  OBVIOUS

LEMMA RestIsSuffix ==
  ASSUME NEW T, NEW parts \in Seq(T), NEW k \in 1 .. Len(parts) + 1
  PROVE  IsSuffix(SubSeq(parts, k, Len(parts)), parts)
<1> DEFINE rest == SubSeq(parts, k, Len(parts))
<1>1. /\ rest \in Seq(T) /\ Len(rest) = Len(parts) - k + 1
      /\ \A i \in 1 .. Len(rest) : rest[i] = parts[k + i - 1]
  BY SubSeqProperties
<1> HIDE DEF rest
<1>2. /\ Reverse(rest) = [i \in 1 .. Len(rest) |-> rest[Len(rest) - i + 1]]
      /\ Reverse(parts) = [i \in 1 .. Len(parts) |-> parts[Len(parts) - i + 1]]
  BY DEF Reverse
<1>3. /\ Reverse(rest) \in Seq(T) /\ Len(Reverse(rest)) = Len(rest)
      /\ Reverse(parts) \in Seq(T) /\ Len(Reverse(parts)) = Len(parts)
  BY <1>1, <1>2
<1>4. \A i \in 1 .. Len(rest) : Reverse(rest)[i] = Reverse(parts)[i]
  BY <1>1, <1>2
<1>5. SubSeq(Reverse(rest), 1, Len(rest)) = SubSeq(Reverse(parts), 1, Len(rest))
  BY <1>1, <1>3, <1>4
<1>6. QED
  BY <1>1, <1>3, <1>5 DEF IsSuffix, IsPrefix, rest

\* Roots as detect_package_roots finds them: one per directory.
RootsFound(T, roots) ==
  /\ \A r \in roots : r.fs_root \in Seq(T) /\ r.src_relative \in Seq(T)
  /\ \A r, s \in roots : r.fs_root = s.fs_root => r = s

LEMMA ModulePartsAre ==
  ASSUME NEW T, NEW path \in Seq(T)
  PROVE  ModuleParts(path) \in Seq(T)
<1>1. path # <<>> => Front(path) \in Seq(T)
  <2>1. Len(path) \in Nat /\ (path # <<>> => Len(path) \in Nat \ {0})
    BY EmptySeq, LenProperties
  <2>2. path # <<>> => 1 \in 1 .. Len(path) + 1 /\ Len(path) - 1 \in 0 .. Len(path)
    BY <2>1
  <2>3. QED
    BY <2>1, <2>2 DEF Front
<1>2. QED
  BY <1>1 DEF ModuleParts

\* A file's name is its path without the prefix of the root it is given.
LEMMA NameBelowRoot ==
  ASSUME NEW T, NEW roots, RootsFound(T, roots), NEW path \in Seq(T),
         MatchingRoot(roots, ModuleParts(path)) # {}
  PROVE  LET parts == ModuleParts(path)
             r     == CHOOSE r \in MatchingRoot(roots, parts) : TRUE
         IN  /\ r \in MatchingRoot(roots, parts)
             /\ RootPrefix(r) \o ModuleQn(roots, path) = parts
             /\ IsSuffix(ModuleQn(roots, path), parts)
<1> DEFINE parts == ModuleParts(path)
           r     == CHOOSE x \in MatchingRoot(roots, parts) : TRUE
<1>1. parts \in Seq(T)
  BY ModulePartsAre
<1>2. r \in MatchingRoot(roots, parts)
  OBVIOUS
<1> HIDE DEF parts
<1>3. r \in roots /\ Matches(r, parts)
  BY <1>2 DEF MatchingRoot
<1>4. RootPrefix(r) \in Seq(T)
  BY <1>3, ConcatProperties DEF RootPrefix, RootsFound
<1>5. ModuleQn(roots, path) = SubSeq(parts, Len(RootPrefix(r)) + 1, Len(parts))
  BY DEF ModuleQn, parts
<1> HIDE DEF r
<1>6. Len(RootPrefix(r)) < Len(parts) /\ IsPrefix(RootPrefix(r), parts)
  BY <1>3 DEF Matches
<1>7. RootPrefix(r) \o ModuleQn(roots, path) = parts
  BY <1>1, <1>4, <1>5, <1>6, PrefixCut
<1>8. Len(RootPrefix(r)) + 1 \in 1 .. Len(parts) + 1
  BY <1>1, <1>4, <1>6
<1>9. IsSuffix(ModuleQn(roots, path), parts)
  BY <1>1, <1>5, <1>8, RestIsSuffix
<1>10. QED
  BY <1>2, <1>7, <1>9 DEF r, parts

LEMMA NamesMade ==
  ASSUME NEW T, NEW roots, RootsFound(T, roots), NEW paths \in SUBSET Seq(T)
  PROVE  NamesTellFilesApartFor(roots, paths)
<1>1. ASSUME NEW path \in paths
      PROVE  IsSuffix(ModuleQn(roots, path), ModuleParts(path))
  <2>1. ModuleParts(path) \in Seq(T)
    BY ModulePartsAre
  <2>2. CASE MatchingRoot(roots, ModuleParts(path)) = {}
    <3>1. ModuleQn(roots, path) = SubSeq(ModuleParts(path), 1, Len(ModuleParts(path)))
      BY <2>1, <2>2, SubSeqFull DEF ModuleQn
    <3>2. 1 \in 1 .. Len(ModuleParts(path)) + 1
      BY <2>1
    <3>3. QED
      BY <2>1, <3>1, <3>2, RestIsSuffix
  <2>3. CASE MatchingRoot(roots, ModuleParts(path)) # {}
    BY <2>3, NameBelowRoot
  <2>4. QED
    BY <2>2, <2>3
<1>2. ASSUME NEW path \in paths, NEW r \in roots, Matches(r, ModuleParts(path)),
             \A s \in roots : Matches(s, ModuleParts(path)) => IsPrefix(s.fs_root, r.fs_root)
      PROVE  RootPrefix(r) \o ModuleQn(roots, path) = ModuleParts(path)
  <2> DEFINE parts == ModuleParts(path)
             given == CHOOSE x \in MatchingRoot(roots, parts) : TRUE
  <2>1. \A s \in roots : Matches(s, parts) => Len(s.fs_root) <= Len(r.fs_root)
    BY <1>2 DEF IsPrefix
  <2>2. r \in MatchingRoot(roots, parts)
    BY <1>2, <2>1 DEF MatchingRoot
  <2>3. /\ given \in MatchingRoot(roots, parts)
        /\ RootPrefix(given) \o ModuleQn(roots, path) = parts
    BY <2>2, NameBelowRoot
  <2> HIDE DEF given
  <2>4. given \in roots /\ Matches(given, parts) /\ Len(r.fs_root) <= Len(given.fs_root)
    BY <1>2, <2>3 DEF MatchingRoot
  <2>5. /\ given.fs_root \in Seq(T) /\ r.fs_root \in Seq(T)
        /\ IsPrefix(given.fs_root, r.fs_root)
    BY <1>2, <2>4 DEF RootsFound
  <2>6. Len(given.fs_root) = Len(r.fs_root)
    BY <2>4, <2>5 DEF IsPrefix
  <2>7. given.fs_root = r.fs_root
    BY <2>5, <2>6, SubSeqFull DEF IsPrefix
  <2>8. QED
    BY <2>3, <2>4, <2>7 DEF RootsFound
<1>3. ASSUME NEW path \in paths, NEW other \in paths,
             ModuleQn(roots, path) = ModuleQn(roots, other), SamePackage(roots, path, other)
      PROVE  ModuleParts(path) = ModuleParts(other)
  <2>1. CASE MatchingRoot(roots, ModuleParts(path)) = {}
    BY <1>3, <2>1 DEF SamePackage, ModuleQn
  <2>2. CASE MatchingRoot(roots, ModuleParts(path)) # {}
    <3> DEFINE matching == MatchingRoot(roots, ModuleParts(path))
               given    == CHOOSE x \in matching : TRUE
    <3>1. MatchingRoot(roots, ModuleParts(other)) = matching
      BY <1>3 DEF SamePackage
    <3>2. RootPrefix(given) \o ModuleQn(roots, path) = ModuleParts(path)
      BY <2>2, NameBelowRoot
    <3>3. RootPrefix(given) \o ModuleQn(roots, other) = ModuleParts(other)
      BY <2>2, <3>1, NameBelowRoot
    <3>4. QED
      BY <1>3, <3>2, <3>3
  <2>3. QED
    BY <2>1, <2>2
<1>4. QED
  BY <1>1, <1>2, <1>3 DEF NamesTellFilesApartFor

LEMMA RootsDetected ==
  ASSUME NEW T, NEW repo_path,
         NEW pyprojects \in SUBSET [dir : Seq(T), package : BOOLEAN, src : Seq(T)],
         \A p, q \in pyprojects : p.dir = q.dir => p = q
  PROVE  RootsFound(T, DetectPackageRoots(repo_path, pyprojects))
<1> DEFINE root(p) == [fs_root |-> p.dir, src_relative |-> p.src]
<1>1. ASSUME NEW r \in DetectPackageRoots(repo_path, pyprojects)
      PROVE  \E p \in pyprojects : r = root(p)
  BY DEF DetectPackageRoots
<1>2. \A p \in pyprojects : /\ root(p).fs_root \in Seq(T) /\ root(p).src_relative \in Seq(T)
                            /\ root(p).fs_root = p.dir
  OBVIOUS
<1>3. \A p, q \in pyprojects : root(p).fs_root = root(q).fs_root => root(p) = root(q)
  OBVIOUS
<1> HIDE DEF root
<1>4. QED
  BY <1>1, <1>2, <1>3 DEF RootsFound

----------------------------------------------------------------------------
(* The inputs MCDecisions looks at are among those the lemmas are about.   *)

SmallNames == {"APITimeoutError", "RateLimitError", "OverloadedError", "APIStatusError",
               "AuthenticationError"}

Looked ==
  /\ case.of = "packages" =>
       /\ case.pyprojects \in SUBSET Pyprojects
       /\ \A p, q \in case.pyprojects : p.dir = q.dir => p = q
  /\ case.of \in {"assessed", "judged"} => case.failures \in [Candidate -> Nat]
  /\ case.of = "judged" => Judged(Candidate, case.judge)
  /\ case.of = "replies" =>
       /\ case.role \in DOMAIN RoleDefaults
       /\ case.reply[Route(case.role, case.complexity)] \in AnyReply(SmallNames)
       /\ case.reply["gpt54"] \in AnyReply(SmallNames)

LEMMA LookedAlways == Decisions => []Looked
<1>1. Begin => Looked
  BY DEF Begin, Looked
<1>2. ASSUME Looked, [Decide]_case
      PROVE  Looked'
  <2>1. CASE PickPackages
    <3>1. PICK pyprojects \in UNION {kSubset(n, Pyprojects) : n \in 0 .. 3},
              above \in {"home", "env"} :
            /\ \A p, q \in pyprojects : p.dir = q.dir => p = q
            /\ case' = [of |-> "packages", pyprojects |-> pyprojects, above |-> above]
      BY <2>1 DEF PickPackages
    <3>2. pyprojects \in SUBSET Pyprojects
      BY DEF kSubset
    <3>3. QED
      BY <3>1, <3>2 DEF Looked
  <2>2. CASE PickAssessments
    <3>1. PICK found \in [Candidate -> [ran : {TRUE}, failures : 0 .. 2] \cup {GateException}] :
            case' = [of |-> "assessed", failures |-> [i \in Candidate |-> Assess(found[i])]]
      BY <2>2 DEF PickAssessments
    <3>2. \A i \in Candidate : Assess(found[i]) \in Nat
      <4>1. ASSUME NEW i \in Candidate
            PROVE  Assess(found[i]) \in Nat
        <5>1. \/ found[i] \in [ran : {TRUE}, failures : 0 .. 2]
              \/ found[i] = GateException
          OBVIOUS
        <5>2. CASE found[i] \in [ran : {TRUE}, failures : 0 .. 2]
          <6>1. found[i].failures \in 0 .. 2
            BY <5>2
          <6>2. QED
            BY <6>1 DEF Assess
        <5>3. CASE found[i] = GateException
          BY <5>3 DEF Assess, GateException
        <5>4. QED
          BY <5>1, <5>2, <5>3
      <4>2. QED
        BY <4>1
    <3>3. QED
      BY <3>1, <3>2 DEF Looked
  <2>3. CASE PickJudgements
    <3>1. PICK judge \in [{p \in Candidate \X Candidate : p[1] # p[2]} -> {"A", "B", "none"}] :
            case' = [of |-> "judged", failures |-> case.failures, judge |-> judge]
      BY <2>3 DEF PickJudgements
    <3>2. Judged(Candidate, judge)
      BY DEF Judged
    <3>3. case.failures \in [Candidate -> Nat]
      BY <1>2, <2>3 DEF Looked, PickJudgements
    <3>4. QED
      BY <3>1, <3>2, <3>3 DEF Looked
  <2>4. CASE PickGate \/ PickVerdict \/ PickCalls \/ PickWords \/ PickScopes \/ PickHierarchy
    BY <2>4 DEF PickGate, PickVerdict, PickCalls, PickWords, PickScopes, PickHierarchy, Looked
  <2>5. CASE PickReplies
    <3>a. PICK role \in DOMAIN RoleDefaults, complexity \in 1 .. 3 :
            \E reply \in [{Route(role, complexity), "gpt54"} -> Replies] :
              case' = [of |-> "replies", role |-> role, complexity |-> complexity, reply |-> reply]
      BY <2>5 DEF PickReplies
    <3>1. PICK reply \in [{Route(role, complexity), "gpt54"} -> Replies] :
            case' = [of |-> "replies", role |-> role, complexity |-> complexity, reply |-> reply]
      BY <3>a
    <3>2. Replies \subseteq AnyReply(SmallNames)
      <4>1. \A text \in {"prose", "blank", "missing"} : Answer(text) \in AnyReply(SmallNames)
        BY DEF AnyReply, Answer
      <4>2. ASSUME NEW name \in SmallNames, NEW status \in Nat, name = "RateLimitError" => status = 429
            PROVE  Error(name, status) \in AnyReply(SmallNames)
        <5>1. /\ Error(name, status) \in [kind : {"error"}, name : SmallNames, status : Nat]
              /\ Error(name, status).name = name /\ Error(name, status).status = status
          BY DEF Error
        <5>2. name # "InternalServerError"
          BY DEF SmallNames
        <5> QED BY <4>2, <5>1, <5>2 DEF AnyReply
      <4>3. /\ Error("APITimeoutError", 0) \in AnyReply(SmallNames)
            /\ Error("RateLimitError", 429) \in AnyReply(SmallNames)
            /\ Error("OverloadedError", 529) \in AnyReply(SmallNames)
            /\ Error("APIStatusError", 402) \in AnyReply(SmallNames)
            /\ Error("AuthenticationError", 401) \in AnyReply(SmallNames)
        BY <4>2 DEF SmallNames
      <4> QED BY <4>1, <4>3 DEF Replies
    <3>3. reply[Route(role, complexity)] \in AnyReply(SmallNames) /\ reply["gpt54"] \in AnyReply(SmallNames)
      BY <3>2
    <3>4. QED
      BY <3>1, <3>3 DEF Looked
  <2>6. CASE UNCHANGED case
    BY <1>2, <2>6 DEF Looked
  <2>7. QED
    BY <1>2, <2>1, <2>2, <2>3, <2>4, <2>5, <2>6 DEF Decide
<1>3. QED
  BY <1>1, <1>2, PTL DEF Decisions

\* The cost of an answer goes to the model that gave it, and another provider is asked
\* only after errors of unavailability or without a class, for every role, complexity,
\* answer and error, whatever its name and status.
THEOREM AnswererCorrect ==
  /\ \A role \in DOMAIN RoleDefaults, complexity \in Int :
       \A names : \A reply \in [Keys -> AnyReply(names)] :
         AnswererChargedFor(role, complexity, reply)
  /\ Decisions => []AnswererCharged
<1>1. ASSUME NEW role \in DOMAIN RoleDefaults, NEW complexity \in Int,
             NEW names, NEW reply \in [Keys -> AnyReply(names)]
      PROVE  AnswererChargedFor(role, complexity, reply)
  <2>1. Route(role, complexity) \in Keys
    BY RouteIsAKey
  <2>2. "gpt54" \in Keys
    BY DEF Keys, ProviderOf
  <2>3. QED
    BY <2>1, <2>2, AnswererChosen
<1>2. Looked => AnswererCharged
  BY AnswererChosen DEF Looked, AnswererCharged
<1>3. Decisions => []AnswererCharged
  BY <1>2, LookedAlways, PTL
<1>4. QED
  BY <1>1, <1>3

\* The best of any number of candidates, whatever failures the gate finds and whatever
\* the judge says of each order of a pair: no other failed the gate less often, the judge's
\* favourite wins, and a judge that goes by the place decides nothing.
THEOREM SelectionCorrect ==
  /\ \A judge : \A n \in Nat \ {0} : \A failures \in [1 .. n -> Nat] :
       Judged(1 .. n, judge) => SelectionEarnedFor(failures, judge)
  /\ Decisions => []SelectionEarned
<1>1. Looked => SelectionEarned
  BY SelectionMade, MaxCandidatesAssumption DEF Looked, SelectionEarned, Candidate
<1>2. Decisions => []SelectionEarned
  BY <1>1, LookedAlways, PTL
<1>3. QED
  BY <1>2, SelectionMade

\* The files of a repository are told apart by their module names, and a file's name is
\* its path below the innermost package, whatever the paths and packages are.
THEOREM NamesCorrect ==
  /\ \A T, repo_path :
       \A pyprojects \in SUBSET [dir : Seq(T), package : BOOLEAN, src : Seq(T)],
          paths \in SUBSET Seq(T) :
         (\A p, q \in pyprojects : p.dir = q.dir => p = q) =>
           NamesTellFilesApartFor(DetectPackageRoots(repo_path, pyprojects), paths)
  /\ Decisions => []NamesTellFilesApart
<1>1. ASSUME NEW T, NEW repo_path,
             NEW pyprojects \in SUBSET [dir : Seq(T), package : BOOLEAN, src : Seq(T)],
             NEW paths \in SUBSET Seq(T),
             \A p, q \in pyprojects : p.dir = q.dir => p = q
      PROVE  NamesTellFilesApartFor(DetectPackageRoots(repo_path, pyprojects), paths)
  BY <1>1, RootsDetected, NamesMade
<1>2. Looked => NamesTellFilesApart
  <2> DEFINE T == {"a", "b", "x", "src", "env", "__init__"}
  <2>1. Paths \in SUBSET Seq(T)
    <3>1. /\ <<"x">> \in Seq(T) /\ <<"a", "x">> \in Seq(T) /\ <<"a", "__init__">> \in Seq(T)
          /\ <<"a", "x", "__init__">> \in Seq(T) /\ <<"src", "x">> \in Seq(T)
          /\ <<"a", "b", "x">> \in Seq(T) /\ <<"b", "x">> \in Seq(T)
          /\ <<"a", "src", "x">> \in Seq(T) /\ <<"a", "env", "x">> \in Seq(T)
      BY ShortSeqs
    <3>2. QED
      BY <3>1, Zenon DEF Paths
  <2>2. Pyprojects \subseteq [dir : Seq(T), package : BOOLEAN, src : Seq(T)]
    <3>1. {<<>>, <<"a">>, <<"a", "b">>, <<"a", "env">>} \subseteq Seq(T)
      BY ShortSeqs
    <3>2. {<<>>, <<"src">>} \subseteq Seq(T)
      BY ShortSeqs
    <3> HIDE DEF T
    <3>3. QED
      BY <3>1, <3>2 DEF Pyprojects
  <2>3. QED
    BY <1>1, <2>1, <2>2 DEF Looked, NamesTellFilesApart
<1>3. Decisions => []NamesTellFilesApart
  BY <1>2, LookedAlways, PTL
<1>4. QED
  BY <1>1, <1>3

=============================================================================
