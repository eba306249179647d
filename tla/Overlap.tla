-------------------------------- MODULE Overlap --------------------------------
(***************************************************************************)
(* repository_intelligence/overlap.py: detect compares every pair of a      *)
(* batch of classified pull requests, then every group that shares an       *)
(* Issue, and rewrites the dispositions of the batch in place as it goes.   *)
(***************************************************************************)
EXTENDS Naturals

CONSTANTS
  N,            \* the pull requests of the batch are 1 .. N, in its order
  Number,       \* the numbers they may have, not always different ones
  File,         \* the paths they may change
  Issue,        \* the Issues they may be about
  Given         \* the dispositions they may be classified with

ASSUME BatchAssumption == N \in Nat

Item == 1 .. N
Disposition == Given \cup {"WAIT_REBIND"}

VARIABLES
  number,       \* pr_number of every item
  files,        \* changed_files of every item
  issues,       \* issue_numbers of every item
  before,       \* the dispositions detect was called with (history)
  disposition,
  findings,     \* PATH_OVERLAP and SAME_ISSUE_CHAIN
  overlaps,     \* for every item the paths it shares, by the other's number
  left, right,  \* the pair compared next
  todo,         \* the Issues still to go through
  pc

batch == <<number, files, issues, before>>
vars == <<number, files, issues, before, disposition, findings, overlaps, left, right,
          todo, pc>>

(* What the loops have to arrive at.                                        *)
D == INSTANCE Detection

(* eligible_before is taken once; the fault looks at what the loop wrote.   *)
FaultyEligible(i) == disposition[i] = "REVIEW_READY"
Eligible(i) == before[i] = "REVIEW_READY"

Shared(i, j) == files[i] \cap files[j]

(* Two items wait for each other to be rebound only when both were ready.   *)
Waiting(set) ==
  [i \in Item |-> IF i \in set THEN "WAIT_REBIND" ELSE disposition[i]]
Found(set, finding) ==
  [i \in Item |-> IF i \in set THEN findings[i] \cup {finding} ELSE findings[i]]

-----------------------------------------------------------------------------
(* The fault: the inner loop starts at the outer index.                      *)
FaultyNextPair ==
  IF right < N
  THEN right' = right + 1 /\ UNCHANGED <<left, pc>>
  ELSE IF left + 1 < N
       THEN left' = left + 1 /\ right' = left + 1 /\ UNCHANGED pc
       ELSE pc' = "issues" /\ UNCHANGED <<left, right>>
NextPair ==
  IF right < N
  THEN right' = right + 1 /\ UNCHANGED <<left, pc>>
  ELSE IF left + 1 < N
       THEN left' = left + 1 /\ right' = left + 2 /\ UNCHANGED pc
       ELSE pc' = "issues" /\ UNCHANGED <<left, right>>

SkipPair ==
  /\ pc = "pairs"
  /\ Shared(left, right) = {}
  /\ NextPair
  /\ UNCHANGED <<batch, disposition, findings, overlaps, todo>>

(* The fault: only the first item of the pair hears of it.                   *)
FaultyPathOverlap ==
  /\ pc = "pairs"
  /\ Shared(left, right) # {}
  /\ overlaps' = [overlaps EXCEPT ![left][number[right]] = Shared(left, right)]
  /\ findings' = Found({left, right}, "PATH_OVERLAP")
  /\ disposition' = IF Eligible(left) /\ Eligible(right)
                    THEN Waiting({left, right}) ELSE disposition
  /\ NextPair
  /\ UNCHANGED <<batch, todo>>
PathOverlap ==
  /\ pc = "pairs"
  /\ Shared(left, right) # {}
  /\ overlaps' = [overlaps EXCEPT ![left][number[right]] = Shared(left, right),
                                  ![right][number[left]] = Shared(left, right)]
  /\ findings' = Found({left, right}, "PATH_OVERLAP")
  /\ disposition' = IF Eligible(left) /\ Eligible(right)
                    THEN Waiting({left, right}) ELSE disposition
  /\ NextPair
  /\ UNCHANGED <<batch, todo>>

(* The items of one Issue; at least two make a chain.                       *)
About(n) == {i \in Item : n \in issues[i]}
Several(set) == \E i, j \in set : i # j

IssueChain ==
  /\ pc = "issues"
  /\ \E n \in todo :
       /\ todo' = todo \ {n}
       /\ findings' = IF Several(About(n))
                      THEN Found(About(n), "SAME_ISSUE_CHAIN") ELSE findings
       /\ disposition' = LET ready == {i \in About(n) : Eligible(i)}
                         IN IF Several(ready) THEN Waiting(ready) ELSE disposition
  /\ UNCHANGED <<batch, overlaps, left, right, pc>>

Finish ==
  /\ pc = "issues"
  /\ todo = {}
  /\ pc' = "done"
  /\ UNCHANGED <<batch, disposition, findings, overlaps, left, right, todo>>

Init ==
  /\ number \in [Item -> Number]
  /\ files \in [Item -> SUBSET File]
  /\ issues \in [Item -> SUBSET Issue]
  /\ before \in [Item -> Given]
  /\ disposition = before
  /\ findings = [i \in Item |-> {}]
  /\ overlaps = [i \in Item |-> [n \in Number |-> {}]]
  /\ left = 1
  /\ right = 2
  /\ todo = Issue
  /\ pc = IF N < 2 THEN "issues" ELSE "pairs"

Next == SkipPair \/ PathOverlap \/ IssueChain \/ Finish

Spec == Init /\ [][Next]_vars

-----------------------------------------------------------------------------
(* The values of the variables; a pair is ordered.                          *)
TypeOK ==
  /\ number \in [Item -> Number]
  /\ files \in [Item -> SUBSET File]
  /\ issues \in [Item -> SUBSET Issue]
  /\ before \in [Item -> Given]
  /\ disposition \in [Item -> Disposition]
  /\ findings \in [Item -> SUBSET {"PATH_OVERLAP", "SAME_ISSUE_CHAIN"}]
  /\ overlaps \in [Item -> [Number -> SUBSET File]]
  /\ left \in Nat /\ right \in Nat
  /\ pc = "pairs" => left < right /\ left \in Item /\ right \in Item
  /\ todo \subseteq Issue
  /\ pc \in {"pairs", "issues", "done"}

(* Whatever the order of the batch, an item waits exactly when it and one it *)
(* conflicts with were both ready: a chain of overlaps holds up all its      *)
(* ready members, and an item that is not ready holds up nobody.  Each is     *)
(* told once why.                                                           *)
WaitExactly ==
  pc = "done" =>
    \A i \in Item : disposition[i] = D!Disposition(i) /\ findings[i] = D!Findings(i)

(* Both items of a pair list the paths they share, and each other only; where *)
(* two others have one number, those of the later one.                       *)
OverlapsExactly ==
  pc # "pairs" => \A i \in Item : overlaps[i] = D!Overlaps(i)
=============================================================================
