----------------------------- MODULE OverlapProofs -----------------------------
(***************************************************************************)
(* Proofs about Overlap, for batches of any size: the nested loops, which   *)
(* rewrite the batch while they run, leave what Detection says of it.        *)
(***************************************************************************)
EXTENDS Overlap, TLAPS

(* The pairs the two loops have been through, in either order.              *)
Passed(i, j) == pc # "pairs" \/ i < left \/ (i = left /\ j < right)
Compared(i, j) == (i < j /\ Passed(i, j)) \/ (j < i /\ Passed(j, i))

(* The conflicts seen so far.                                               *)
Overlapped(i, j) == Compared(i, j) /\ Shared(i, j) # {}
Linked(i, j) == i # j /\ \E n \in Issue \ todo : n \in issues[i] /\ n \in issues[j]
Met(i, j) == Overlapped(i, j) \/ Linked(i, j)

Held(i) == Eligible(i) /\ \E j \in Item : Eligible(j) /\ Met(i, j)

Told(i) ==
  {f \in {"PATH_OVERLAP", "SAME_ISSUE_CHAIN"} :
     \/ f = "PATH_OVERLAP" /\ \E j \in Item : Overlapped(i, j)
     \/ f = "SAME_ISSUE_CHAIN" /\ \E j \in Item : Linked(i, j)}

WaitInv ==
  /\ \A i \in Item : disposition[i] = IF Held(i) THEN "WAIT_REBIND" ELSE before[i]
  /\ \A i \in Item : findings[i] = Told(i)
  /\ pc = "pairs" => todo = Issue
  /\ pc = "done" => todo = {}

(* The items that an item has met over paths and that have this number: the     *)
(* paths shared with the last of them are on record.                         *)
Others(i, n) == {j \in Item : Overlapped(i, j) /\ number[j] = n}
Recorded(i, n) == UNION {Shared(i, j) : j \in D!Last(Others(i, n))}

OverlapInv == \A i \in Item, n \in Number : overlaps[i][n] = Recorded(i, n)

-----------------------------------------------------------------------------
(* Every step keeps the variables in their types.                           *)
LEMMA OverlapTypeStep == TypeOK /\ [Next]_vars => TypeOK'
<1> SUFFICES ASSUME TypeOK, [Next]_vars PROVE TypeOK'
  OBVIOUS
<1> USE BatchAssumption DEF Item
<1>1. ASSUME pc = "pairs", NextPair
      PROVE  /\ left' \in Nat /\ right' \in Nat /\ pc' \in {"pairs", "issues"}
             /\ pc' = "pairs" => left' < right' /\ left' \in Item /\ right' \in Item
  BY <1>1 DEF NextPair, TypeOK
<1>2. CASE SkipPair
  BY <1>1, <1>2 DEF SkipPair, TypeOK, batch
<1>3. CASE PathOverlap
  <2>1. left \in Item /\ right \in Item /\ Shared(left, right) \in SUBSET File
    BY <1>3 DEF PathOverlap, Shared, TypeOK
  <2>2. overlaps' \in [Item -> [Number -> SUBSET File]]
    <3>1. /\ overlaps \in [Item -> [Number -> SUBSET File]]
          /\ number[left] \in Number /\ number[right] \in Number
      BY <2>1 DEF TypeOK
    <3> DEFINE o == [overlaps EXCEPT ![left][number[right]] = Shared(left, right)]
    <3>2. o \in [Item -> [Number -> SUBSET File]]
      BY <2>1, <3>1
    <3>3. overlaps' = [o EXCEPT ![right][number[left]] = Shared(left, right)]
      BY <1>3 DEF PathOverlap
    <3> HIDE DEF o
    <3> QED
      BY <2>1, <3>1, <3>2, <3>3
  <2>3. findings' \in [Item -> SUBSET {"PATH_OVERLAP", "SAME_ISSUE_CHAIN"}]
    BY <1>3 DEF PathOverlap, Found, TypeOK
  <2>4. disposition' \in [Item -> Disposition]
    BY <1>3 DEF PathOverlap, Waiting, TypeOK, Disposition
  <2> QED
    BY <1>1, <1>3, <2>2, <2>3, <2>4 DEF PathOverlap, TypeOK, batch
<1>4. CASE IssueChain
  <2>1. findings' \in [Item -> SUBSET {"PATH_OVERLAP", "SAME_ISSUE_CHAIN"}]
    BY <1>4 DEF IssueChain, Found, TypeOK
  <2>2. disposition' \in [Item -> Disposition]
    BY <1>4 DEF IssueChain, Waiting, TypeOK, Disposition
  <2> QED
    BY <1>4, <2>1, <2>2 DEF IssueChain, TypeOK, batch
<1>5. CASE Finish
  BY <1>5 DEF Finish, TypeOK, batch
<1>6. CASE UNCHANGED vars
  BY <1>6 DEF vars, TypeOK, batch
<1> QED
  BY <1>2, <1>3, <1>4, <1>5, <1>6 DEF Next

(* The loops stay in the batch, and the report in its shape.                *)
THEOREM OverlapTypes == Spec => []TypeOK
<1>1. Init => TypeOK
  BY BatchAssumption DEF Init, TypeOK, Item, Disposition
<1> QED
  BY <1>1, OverlapTypeStep, PTL DEF Spec

-----------------------------------------------------------------------------
(* A step of the loops adds exactly the pair it was at.                     *)
LEMMA ComparedStep ==
  ASSUME TypeOK, pc = "pairs", NextPair, NEW i \in Item, NEW j \in Item
  PROVE  Compared(i, j)' <=>
           \/ Compared(i, j)
           \/ (i = left /\ j = right)
           \/ (i = right /\ j = left)
BY BatchAssumption DEF Compared, Passed, NextPair, TypeOK, Item

(* The paths of a new last one replace those on record.                      *)
LEMMA LaterReplaces ==
  ASSUME NEW set, set \subseteq Nat, NEW j \in Nat, \A k \in set : k <= j
  PROVE  D!Last(set \cup {j}) = {j}
<1> DEFINE more == set \cup {j}
<1>1. \A k \in more : k \in Nat /\ k <= j
  OBVIOUS
<1>2. \A k \in more : j <= k => k = j
  BY <1>1
<1>3. D!Last(more) = {l \in more : \A k \in more : k <= l}
  BY DEF D!Last
<1>4. j \in more
  OBVIOUS
<1> HIDE DEF more
<1>5. D!Last(more) = {j}
  BY <1>1, <1>2, <1>3, <1>4
<1> QED
  BY <1>5 DEF more

(* A pair that shares nothing is as good as not compared.                   *)
LEMMA SkipKeeps ==
  ASSUME TypeOK, WaitInv, OverlapInv, SkipPair
  PROVE  WaitInv' /\ OverlapInv'
<1>1. /\ pc = "pairs" /\ Shared(left, right) = {} /\ NextPair
      /\ UNCHANGED <<number, files, issues, before, disposition, findings, overlaps, todo>>
  BY DEF SkipPair, batch
<1>2. pc' \in {"pairs", "issues"}
  BY <1>1 DEF NextPair
<1>3. ASSUME NEW i \in Item, NEW j \in Item
      PROVE  /\ Overlapped(i, j)' <=> Overlapped(i, j)
             /\ Linked(i, j)' <=> Linked(i, j)
             /\ Shared(i, j)' = Shared(i, j)
  <2>1. Compared(i, j)' <=>
          Compared(i, j) \/ (i = left /\ j = right) \/ (i = right /\ j = left)
    BY <1>1, ComparedStep
  <2>2. Shared(right, left) = {} /\ Shared(i, j)' = Shared(i, j)
    BY <1>1 DEF Shared
  <2> QED
    BY <1>1, <2>1, <2>2 DEF Overlapped, Linked
<1>4. ASSUME NEW i \in Item PROVE (Held(i)' <=> Held(i)) /\ Told(i)' = Told(i)
  BY <1>1, <1>3 DEF Held, Met, Eligible, Told
<1>5. ASSUME NEW i \in Item, NEW n \in Number PROVE Recorded(i, n)' = Recorded(i, n)
  <2>1. Others(i, n)' = Others(i, n) /\ \A j \in Others(i, n) : j \in Item
    BY <1>1, <1>3 DEF Others
  <2>2. D!Last(Others(i, n))' = D!Last(Others(i, n)) /\ D!Last(Others(i, n)) \subseteq Item
    BY <2>1 DEF D!Last
  <2> QED
    BY <1>3, <2>2 DEF Recorded
<1> QED
  BY <1>1, <1>2, <1>4, <1>5 DEF WaitInv, OverlapInv

(* A pair that shares paths makes each item meet the other.                 *)
LEMMA OverlapKeeps ==
  ASSUME TypeOK, WaitInv, OverlapInv, PathOverlap
  PROVE  WaitInv' /\ OverlapInv'
<1> DEFINE pair(i, j) == (i = left /\ j = right) \/ (i = right /\ j = left)
<1>1. /\ pc = "pairs" /\ Shared(left, right) # {} /\ NextPair
      /\ UNCHANGED <<number, files, issues, before, todo>>
      /\ left \in Item /\ right \in Item /\ left < right
  BY BatchAssumption DEF PathOverlap, TypeOK, Item, batch
<1>2. pc' \in {"pairs", "issues"}
  BY <1>1 DEF NextPair
<1>3. ASSUME NEW i \in Item, NEW j \in Item
      PROVE  /\ Overlapped(i, j)' <=> Overlapped(i, j) \/ pair(i, j)
             /\ Linked(i, j)' <=> Linked(i, j)
             /\ Shared(i, j)' = Shared(i, j) /\ Shared(i, j) = Shared(j, i)
  <2>1. Compared(i, j)' <=> Compared(i, j) \/ pair(i, j)
    BY <1>1, ComparedStep
  <2>2. Shared(right, left) # {} /\ Shared(i, j)' = Shared(i, j) /\ Shared(i, j) = Shared(j, i)
    BY <1>1 DEF Shared
  <2> QED
    BY <1>1, <2>1, <2>2 DEF Overlapped, Linked
<1>4. ASSUME NEW i \in Item
      PROVE  disposition'[i] = IF Held(i)' THEN "WAIT_REBIND" ELSE before'[i]
  <2>1. Held(i)' <=> Held(i) \/ (Eligible(left) /\ Eligible(right) /\ i \in {left, right})
    BY <1>1, <1>3 DEF Held, Met, Eligible
  <2>2. disposition'[i] = IF Eligible(left) /\ Eligible(right) /\ i \in {left, right}
                          THEN "WAIT_REBIND" ELSE disposition[i]
    BY DEF PathOverlap, Waiting
  <2> QED
    BY <1>1, <2>1, <2>2 DEF WaitInv
<1>5. ASSUME NEW i \in Item PROVE findings'[i] = Told(i)'
  <2>1. findings'[i] = IF i \in {left, right} THEN findings[i] \cup {"PATH_OVERLAP"}
                       ELSE findings[i]
    BY DEF PathOverlap, Found
  <2>2. (\E j \in Item : Overlapped(i, j)') <=>
          (\E j \in Item : Overlapped(i, j)) \/ i \in {left, right}
    BY <1>1, <1>3
  <2>3. (\E j \in Item : Linked(i, j)') <=> \E j \in Item : Linked(i, j)
    BY <1>3
  <2>4. findings[i] = Told(i)
    BY DEF WaitInv
  <2> QED
    BY <2>1, <2>2, <2>3, <2>4 DEF Told
<1>6. ASSUME NEW i \in Item, NEW n \in Number PROVE overlaps'[i][n] = Recorded(i, n)'
  <2>1. overlaps'[i][n] =
          IF (i = left /\ n = number[right]) \/ (i = right /\ n = number[left])
          THEN Shared(left, right) ELSE overlaps[i][n]
    BY <1>1 DEF PathOverlap, TypeOK
  <2>2. overlaps[i][n] = Recorded(i, n)
    BY DEF OverlapInv
  <2>3. Others(i, n)' = Others(i, n) \cup {j \in Item : pair(i, j) /\ number[j] = n}
    BY <1>1, <1>3 DEF Others
  <2>4. Recorded(i, n)' = UNION {Shared(i, j) : j \in D!Last(Others(i, n)')}
    <3>1. D!Last(Others(i, n))' = D!Last(Others(i, n)') /\ D!Last(Others(i, n)') \subseteq Item
      BY DEF D!Last, Others
    <3> QED
      BY <1>3, <3>1 DEF Recorded
  <2>5. ASSUME NEW j \in Item, pair(i, j), number[j] = n
        PROVE  Recorded(i, n)' = Shared(left, right)
    <3>1. Others(i, n)' = Others(i, n) \cup {j}
      BY <1>1, <2>3, <2>5
    <3>2. \A k \in Others(i, n) : k <= j
      BY <1>1, <2>5, BatchAssumption DEF Others, Overlapped, Compared, Passed, Item
    <3>3. D!Last(Others(i, n)') = {j}
      <4>1. Others(i, n) \subseteq Nat /\ j \in Nat
        BY BatchAssumption DEF Others, Item
      <4> QED
        BY <3>1, <3>2, <4>1, LaterReplaces
    <3>4. Shared(i, j) = Shared(left, right)
      BY <1>1, <1>3, <2>5
    <3> QED
      BY <2>4, <3>3, <3>4
  <2>6. ASSUME ~\E j \in Item : pair(i, j) /\ number[j] = n
        PROVE  Recorded(i, n)' = Recorded(i, n)
    <3>1. Others(i, n)' = Others(i, n)
      BY <2>3, <2>6
    <3> QED
      BY <2>4, <3>1 DEF Recorded
  <2> QED
    BY <1>1, <2>1, <2>2, <2>5, <2>6
<1> QED
  BY <1>1, <1>2, <1>4, <1>5, <1>6 DEF WaitInv, OverlapInv

(* An Issue done adds the pairs of the items about it.                      *)
LEMMA IssueKeeps ==
  ASSUME TypeOK, WaitInv, OverlapInv, IssueChain
  PROVE  WaitInv' /\ OverlapInv'
<1>1. PICK n \in todo :
        /\ todo' = todo \ {n}
        /\ findings' = IF Several(About(n))
                       THEN Found(About(n), "SAME_ISSUE_CHAIN") ELSE findings
        /\ disposition' = LET ready == {i \in About(n) : Eligible(i)}
                          IN IF Several(ready) THEN Waiting(ready) ELSE disposition
  BY DEF IssueChain
<1>2. /\ pc = "issues" /\ n \in Issue
      /\ UNCHANGED <<number, files, issues, before, overlaps, left, right, pc>>
  BY <1>1 DEF IssueChain, TypeOK, batch
<1>3. ASSUME NEW i \in Item, NEW j \in Item
      PROVE  /\ Overlapped(i, j)' <=> Overlapped(i, j)
             /\ Linked(i, j)' <=> Linked(i, j) \/ (i # j /\ n \in issues[i] /\ n \in issues[j])
  <2>1. Compared(i, j)' <=> Compared(i, j)
    BY <1>2 DEF Compared, Passed
  <2>2. Issue \ todo' = (Issue \ todo) \cup {n}
    BY <1>1, <1>2 DEF TypeOK
  <2> QED
    BY <1>2, <2>1, <2>2 DEF Overlapped, Linked, Shared
<1>4. ASSUME NEW i \in Item
      PROVE  disposition'[i] = IF Held(i)' THEN "WAIT_REBIND" ELSE before'[i]
  <2> DEFINE ready == {k \in About(n) : Eligible(k)}
  <2>1. Held(i)' <=> Held(i) \/ (i \in ready /\ \E j \in ready : i # j)
    BY <1>2, <1>3 DEF Held, Met, Eligible, About
  <2>2. i \in ready => (Several(ready) <=> \E j \in ready : i # j)
    BY DEF Several
  <2>3. disposition'[i] = IF i \in ready /\ Several(ready)
                          THEN "WAIT_REBIND" ELSE disposition[i]
    BY <1>1 DEF Waiting
  <2> QED
    BY <1>2, <2>1, <2>2, <2>3 DEF WaitInv
<1>5. ASSUME NEW i \in Item PROVE findings'[i] = Told(i)'
  <2>1. findings'[i] = IF i \in About(n) /\ Several(About(n))
                       THEN findings[i] \cup {"SAME_ISSUE_CHAIN"} ELSE findings[i]
    BY <1>1 DEF Found
  <2>2. i \in About(n) => (Several(About(n)) <=> \E j \in About(n) : i # j)
    BY DEF Several
  <2>3. (\E j \in Item : Linked(i, j)') <=>
          (\E j \in Item : Linked(i, j)) \/ (i \in About(n) /\ \E j \in About(n) : i # j)
    BY <1>3 DEF About
  <2>4. (\E j \in Item : Overlapped(i, j)') <=> \E j \in Item : Overlapped(i, j)
    BY <1>3
  <2>5. findings[i] = Told(i)
    BY DEF WaitInv
  <2> QED
    BY <2>1, <2>2, <2>3, <2>4, <2>5 DEF Told
<1>6. ASSUME NEW i \in Item, NEW m \in Number PROVE Recorded(i, m)' = Recorded(i, m)
  <2>1. Others(i, m)' = Others(i, m)
    BY <1>2, <1>3 DEF Others
  <2>2. D!Last(Others(i, m))' = D!Last(Others(i, m))
    BY <2>1 DEF D!Last
  <2> QED
    BY <1>2, <2>2 DEF Recorded, Shared
<1> QED
  BY <1>1, <1>2, <1>4, <1>5, <1>6 DEF WaitInv, OverlapInv

(* The strengthening of the two properties is inductive.                    *)
THEOREM OverlapInvariant == Spec => [](TypeOK /\ WaitInv /\ OverlapInv)
<1>1. Init => WaitInv /\ OverlapInv
  <2> SUFFICES ASSUME Init PROVE WaitInv /\ OverlapInv
    OBVIOUS
  <2>1. ASSUME NEW i \in Item, NEW j \in Item PROVE ~Overlapped(i, j) /\ ~Linked(i, j)
    <3>1. ~Compared(i, j)
      BY BatchAssumption DEF Init, Compared, Passed, Item
    <3> QED
      BY <3>1 DEF Init, Overlapped, Linked
  <2>2. ASSUME NEW i \in Item PROVE ~Held(i) /\ Told(i) = {}
    BY <2>1 DEF Held, Met, Told
  <2>3. ASSUME NEW i \in Item, NEW n \in Number PROVE Recorded(i, n) = {}
    <3>1. Others(i, n) = {}
      BY <2>1 DEF Others
    <3> QED
      BY <3>1 DEF Recorded, D!Last
  <2> QED
    BY <2>2, <2>3 DEF Init, WaitInv, OverlapInv
<1>2. TypeOK /\ WaitInv /\ OverlapInv /\ [Next]_vars => WaitInv' /\ OverlapInv'
  <2> SUFFICES ASSUME TypeOK, WaitInv, OverlapInv, [Next]_vars
               PROVE  WaitInv' /\ OverlapInv'
    OBVIOUS
  <2>1. CASE Finish
    BY <2>1 DEF Finish, WaitInv, OverlapInv, Held, Told, Eligible, Met, Overlapped, Linked,
                Compared, Passed, Shared, Recorded, Others, D!Last, batch
  <2>2. CASE UNCHANGED vars
    BY <2>2 DEF vars, WaitInv, OverlapInv, Held, Told, Eligible, Met, Overlapped, Linked,
                Compared, Passed, Shared, Recorded, Others, D!Last, batch
  <2> QED
    BY <2>1, <2>2, SkipKeeps, OverlapKeeps, IssueKeeps DEF Next
<1> QED
  BY <1>1, <1>2, OverlapTypes, PTL DEF Spec

(* Once all pairs have been compared, what overlaps is what Detection says.    *)
LEMMA AllCompared ==
  ASSUME TypeOK, pc # "pairs", NEW i \in Item, NEW j \in Item
  PROVE  /\ Overlapped(i, j) <=> D!Shared(i, j) # {}
         /\ i # j => Shared(i, j) = D!Shared(i, j)
<1>1. Compared(i, j) <=> i # j
  BY BatchAssumption DEF Compared, Passed, Item
<1> QED
  BY <1>1 DEF Overlapped, Shared, D!Shared

(* The dispositions and findings that detect leaves are those of the relation *)
(* Conflict, over the dispositions it was given, in whatever order the batch   *)
(* came.                                                                    *)
THEOREM OverlapWaitExactly == Spec => []WaitExactly
<1>1. TypeOK /\ WaitInv => WaitExactly
  <2> SUFFICES ASSUME TypeOK, WaitInv, pc = "done", NEW i \in Item
               PROVE  disposition[i] = D!Disposition(i) /\ findings[i] = D!Findings(i)
    BY DEF WaitExactly
  <2>1. ASSUME NEW j \in Item
        PROVE  /\ Overlapped(i, j) <=> D!Shared(i, j) # {}
               /\ Linked(i, j) <=> D!Chained(i, j)
    <3>1. (\E n \in Issue : n \in issues[i] /\ n \in issues[j]) <=> issues[i] \cap issues[j] # {}
      BY DEF TypeOK
    <3>2. todo = {}
      BY DEF WaitInv
    <3> QED
      BY <3>1, <3>2, AllCompared DEF Linked, D!Chained
  <2>2. Held(i) <=> D!Waits(i)
    BY <2>1 DEF Held, Met, Eligible, D!Waits, D!Eligible, D!Conflict
  <2>3. Told(i) = D!Findings(i)
    BY <2>1 DEF Told, D!Findings
  <2> QED
    BY <2>2, <2>3 DEF WaitInv, D!Disposition
<1> QED
  BY <1>1, OverlapInvariant, PTL

(* The paths two items share are listed at both, under the number of the      *)
(* other and of two with one number those of the later, and nowhere else.     *)
THEOREM OverlapPairs == Spec => []OverlapsExactly
<1>1. TypeOK /\ OverlapInv => OverlapsExactly
  <2> SUFFICES ASSUME TypeOK, OverlapInv, pc # "pairs", NEW i \in Item
               PROVE  overlaps[i] = D!Overlaps(i)
    BY DEF OverlapsExactly
  <2> DEFINE others(n) == {k \in Item : number[k] = n /\ D!Shared(i, k) # {}}
  <2>1. ASSUME NEW n \in Number
        PROVE  overlaps[i][n] = UNION {D!Shared(i, j) : j \in D!Last(others(n))}
    <3>1. Others(i, n) = others(n)
      BY AllCompared DEF Others
    <3>2. \A j \in D!Last(others(n)) : Shared(i, j) = D!Shared(i, j)
      <4>1. \A j \in D!Last(others(n)) : j \in Item /\ D!Shared(i, j) # {}
        BY DEF D!Last
      <4>2. \A j \in D!Last(others(n)) : i # j
        BY <4>1 DEF D!Shared
      <4> QED
        BY <4>1, <4>2, AllCompared
    <3> HIDE DEF others
    <3>3. Recorded(i, n) = UNION {D!Shared(i, j) : j \in D!Last(others(n))}
      BY <3>1, <3>2 DEF Recorded
    <3> QED
      BY <3>3 DEF OverlapInv
  <2>2. overlaps[i] = [n \in Number |-> overlaps[i][n]]
    BY DEF TypeOK
  <2>3. D!Overlaps(i) = [n \in Number |-> UNION {D!Shared(i, j) : j \in D!Last(others(n))}]
    BY DEF D!Overlaps
  <2> HIDE DEF others
  <2> QED
    BY <2>1, <2>2, <2>3
<1> QED
  BY <1>1, OverlapInvariant, PTL
=============================================================================
