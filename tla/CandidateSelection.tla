------------------------- MODULE CandidateSelection -------------------------
(***************************************************************************)
(* Best-of-N: which candidate the repo task goes on with                   *)
(* (agents/reviewer_repo.py).                                              *)
(*                                                                         *)
(* Candidates are numbered.  failures[i] is the number of failures the     *)
(* deterministic gate finds on candidate i in a scratch copy of its own; a *)
(* gate that cannot be run is one failure.  judge[<<x, y>>] is what the    *)
(* judge says when x is shown as A and y as B: "A", "B", or "none" for a   *)
(* failed call and for an answer that is not one of the letters.           *)
(***************************************************************************)
EXTENDS Integers, FiniteSetsExt

GateException == [ran |-> FALSE, failures |-> 0]

Assess(found) == IF found.ran THEN found.failures ELSE 1

Survivors(failures) == {i \in DOMAIN failures : failures[i] = 0}

(* Every candidate fails: the fewest failures, then the lowest index. *)
LeastBad(failures) ==
    LET fewest == Min({failures[i] : i \in DOMAIN failures})
    IN  Min({i \in DOMAIN failures : failures[i] = fewest})

(***************************************************************************)
(* _pairwise_compare: the pair is judged twice, with the places swapped;   *)
(* anything but two answers for one candidate goes to the lower index.     *)
(***************************************************************************)
Picked(judge, x, y) ==
    CASE judge[<<x, y>>] = "A" -> {x}
      [] judge[<<x, y>>] = "B" -> {y}
      [] OTHER -> {}

(* Mutant: the first answer decides when the second call fails. *)
CompareOnce(judge, a, b) ==
    LET agreed == IF Picked(judge, b, a) = {} THEN Picked(judge, a, b)
                  ELSE Picked(judge, a, b) \cap Picked(judge, b, a)
    IN  IF agreed # {} THEN [winner |-> CHOOSE w \in agreed : TRUE, consistent |-> TRUE]
        ELSE [winner |-> Min({a, b}), consistent |-> FALSE]

PairwiseCompare(judge, a, b) ==
    LET agreed == Picked(judge, a, b) \cap Picked(judge, b, a)
    IN  IF agreed # {} THEN [winner |-> CHOOSE w \in agreed : TRUE, consistent |-> TRUE]
        ELSE [winner |-> Min({a, b}), consistent |-> FALSE]

PairResults(judge, survivors) ==
    [pair \in {p \in survivors \X survivors : p[1] < p[2]} |->
        PairwiseCompare(judge, pair[1], pair[2])]

(* _pick_winner_from_pairwise: wins, then consistent wins, then the index. *)
Wins(results, i) == Quantify(DOMAIN results, LAMBDA p : results[p].winner = i)

ConsistentWins(results, i) ==
    Quantify(DOMAIN results, LAMBDA p : results[p].winner = i /\ results[p].consistent)

RanksBefore(results, i, j) ==
    \/ Wins(results, i) > Wins(results, j)
    \/ /\ Wins(results, i) = Wins(results, j)
       /\ \/ ConsistentWins(results, i) > ConsistentWins(results, j)
          \/ ConsistentWins(results, i) = ConsistentWins(results, j) /\ i < j

PickWinner(results, survivors) ==
    CHOOSE i \in survivors : \A j \in survivors \ {i} : RanksBefore(results, i, j)

(* run_reviewer_repo, for at least one candidate. *)
Select(failures, judge) ==
    LET survivors == Survivors(failures)
    IN  CASE survivors = {} -> LeastBad(failures)
          [] Cardinality(survivors) = 1 -> CHOOSE i \in survivors : TRUE
          [] OTHER -> PickWinner(PairResults(judge, survivors), survivors)

----------------------------------------------------------------------------
(* The judge prefers i to j whichever of them it sees first. *)
Prefers(judge, i, j) == judge[<<i, j>>] = "A" /\ judge[<<j, i>>] = "B"

(* The winner passed the gate if any candidate did, and no other failed it *)
(* less often.  Among those that passed, one the judge prefers to every    *)
(* other wins, one it likes less than every other does not, and a judge    *)
(* that goes by the place only, or answers nothing, selects the lowest     *)
(* index (the position swap and the tie-breaks of reviewer_repo.py).       *)
SelectionEarnedFor(failures, judge) ==
    LET winner    == Select(failures, judge)
        survivors == Survivors(failures)
    IN  /\ \A i \in DOMAIN failures : failures[winner] <= failures[i]
        /\ \A i \in survivors :
             /\ (\A j \in survivors \ {i} : Prefers(judge, i, j)) => winner = i
             /\ (survivors # {i} /\ \A j \in survivors \ {i} : Prefers(judge, j, i))
                  => winner # i
        /\ (survivors # {} /\ \A i, j \in survivors :
                i # j => ~Prefers(judge, i, j)) => winner = Min(survivors)
=============================================================================
