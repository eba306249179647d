------------------------------- MODULE Detection -------------------------------
(***************************************************************************)
(* What overlap.detect makes of a batch, said at once: Overlap has the loops  *)
(* that compute it, Readiness takes it for one step.                         *)
(***************************************************************************)
EXTENDS Naturals

CONSTANTS
  Item,         \* the places of the batch
  Number,       \* the numbers that pull requests may have
  files, issues, number,   \* of every item
  before        \* its disposition, as detect finds it

(* What two pull requests have in common.                                   *)
Shared(i, j) == IF i = j THEN {} ELSE files[i] \cap files[j]
Chained(i, j) == i # j /\ issues[i] \cap issues[j] # {}
Conflict(i, j) == Shared(i, j) # {} \/ Chained(i, j)

(* Of these items the last.                                                 *)
Last(set) == {j \in set : \A k \in set : k <= j}

(* The paths are kept under the number of the other pull request; of two     *)
(* with one number the later is kept.                                       *)
Overlaps(i) ==
  [n \in Number |->
     UNION {Shared(i, j) : j \in Last({k \in Item : number[k] = n /\ Shared(i, k) # {}})}]

Findings(i) ==
  {f \in {"PATH_OVERLAP", "SAME_ISSUE_CHAIN"} :
     \/ f = "PATH_OVERLAP" /\ \E j \in Item : Shared(i, j) # {}
     \/ f = "SAME_ISSUE_CHAIN" /\ \E j \in Item : Chained(i, j)}

Eligible(i) == before[i] = "REVIEW_READY"

(* The fault: only paths make two pull requests wait for each other.         *)
FaultyWaits(i) == Eligible(i) /\ \E j \in Item : Eligible(j) /\ Shared(i, j) # {}
(* Two that conflict wait for each other, when both were ready.              *)
Waits(i) == Eligible(i) /\ \E j \in Item : Eligible(j) /\ Conflict(i, j)
Disposition(i) == IF Waits(i) THEN "WAIT_REBIND" ELSE before[i]
=============================================================================
