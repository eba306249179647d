--------------------------- MODULE AcquisitionProofs ---------------------------
(***************************************************************************)
(* Proofs about Acquisition, for every number of retries, pages and pushes. *)
(***************************************************************************)
EXTENDS Acquisition, TLAPS

Evidence == {"files", "check_runs", "statuses"}

(* The reads, one by one.                                                   *)
LEMMA ReadFacts ==
  /\ Len(Reads) = 8
  /\ \A i \in 1 .. 8 : Reads[i] \in Read
  /\ \A r \in Read : \E i \in 1 .. 8 : Reads[i] = r
  /\ Evidence \subseteq Read
  /\ ByHead \subseteq Read
  /\ "pull" \in Read
  /\ \A i, j \in 1 .. 8 : Reads[i] = Reads[j] => i = j
<1>1. Len(Reads) = 8
  BY DEF Reads
<1>2. /\ Reads[1] = "pull" /\ Reads[2] = "repo" /\ Reads[3] = "ref"
      /\ Reads[4] = "files" /\ Reads[5] = "check_runs" /\ Reads[6] = "statuses"
      /\ Reads[7] = "workflow_runs" /\ Reads[8] = "compare"
  BY DEF Reads
<1>3. Read = {Reads[i] : i \in 1 .. 8}
  BY <1>1 DEF Read
<1>4. \A i \in 1 .. 8 : i = 1 \/ i = 2 \/ i = 3 \/ i = 4 \/ i = 5 \/ i = 6 \/ i = 7 \/ i = 8
  OBVIOUS
<1>5. Evidence \subseteq Read /\ ByHead \subseteq Read /\ "pull" \in Read
  BY <1>2, <1>3 DEF Evidence, ByHead
<1>6. \A i, j \in 1 .. 8 : Reads[i] = Reads[j] => i = j
  BY <1>2, <1>4
<1> QED
  BY <1>1, <1>3, <1>5, <1>6

(* While the client reads, the read under way is one of them.               *)
LEMMA NowIsRead ==
  ASSUME TypeOK, Running
  PROVE  pc \in 1 .. 8 /\ Now \in Read
BY ReadFacts DEF TypeOK, Running, Now

-----------------------------------------------------------------------------
(* The heads a response may show are heads the pull request has had.        *)
LEMMA ShownHeadsType ==
  ASSUME TypeOK, Running
  PROVE  \A shown \in ShownHeads : shown \subseteq 0 .. MaxPushes
<1>1. 0 .. head \subseteq 0 .. MaxPushes /\ {head} \subseteq 0 .. MaxPushes
  BY AcquisitionAssumption DEF TypeOK
<1>2. CASE Now \in ByHead
  BY <1>1, <1>2 DEF ShownHeads
<1>3. CASE Now \notin ByHead
  BY <1>1, <1>3 DEF ShownHeads
<1> QED
  BY <1>2, <1>3

(* So are those of the rows that are of the head.                           *)
LEMMA OfHeadType ==
  ASSUME TypeOK
  PROVE  \A r \in ByHead : OfHead(r) \subseteq 0 .. MaxPushes
BY ReadFacts DEF TypeOK, OfHead

(* Every step keeps the variables in their types.                           *)
LEMMA AcquisitionTypeStep == TypeOK /\ [Next]_vars => TypeOK'
<1> SUFFICES ASSUME TypeOK, [Next]_vars PROVE TypeOK'
  OBVIOUS
<1> USE AcquisitionAssumption, ReadFacts
<1>1. CASE Push
  BY <1>1 DEF Push, client, TypeOK
<1>2. CASE SkipCompare
  BY <1>2 DEF SkipCompare, NextRead, Running, TypeOK
<1>3. CASE LastPage
  <2>1. Running
    BY <1>3 DEF LastPage
  <2>2. heads' \in [Read -> SUBSET (0 .. MaxPushes)]
    BY <1>3, <2>1, NowIsRead, ShownHeadsType DEF LastPage, Receive, TypeOK
  <2>3. pages' \in [Read -> SUBSET (1 .. MaxPages)]
    BY <1>3, <2>1, NowIsRead DEF LastPage, Receive, TypeOK
  <2>4. whole' \subseteq Read /\ errors' \subseteq Read
    BY <1>3, <2>1, NowIsRead DEF LastPage, TypeOK
  <2> QED
    BY <1>3, <2>1, <2>2, <2>3, <2>4 DEF LastPage, Receive, NextRead, Running, TypeOK
<1>4. CASE FullPage
  <2>1. Running
    BY <1>4 DEF FullPage
  <2>2. heads' \in [Read -> SUBSET (0 .. MaxPushes)]
    BY <1>4, <2>1, NowIsRead, ShownHeadsType DEF FullPage, Receive, TypeOK
  <2>3. pages' \in [Read -> SUBSET (1 .. MaxPages)]
    BY <1>4, <2>1, NowIsRead DEF FullPage, Receive, TypeOK
  <2> QED
    BY <1>4, <2>2, <2>3 DEF FullPage, Receive, TypeOK
<1>5. CASE Retry
  BY <1>5 DEF Retry, TypeOK
<1>6. CASE Exhausted \/ ReadFails
  <2>1. Running
    BY <1>6 DEF Exhausted, ReadFails
  <2>2. Now \in Read /\ pc \in 1 .. 8
    BY <2>1, NowIsRead
  <2>3. PICK v \in {"unavailable", "error"} : Handle(v)
    BY <1>6 DEF Exhausted, ReadFails
  <2>4. UNCHANGED <<head, kept, whole>> /\ limited' \subseteq Read
    BY <1>6, <2>2 DEF Exhausted, ReadFails, TypeOK
  <2>5. CASE Now \in Recorded \cup Forgotten
    <3>1. /\ errors' \subseteq Read /\ UNCHANGED outcome
          /\ pc' = pc + 1 /\ page' = 1 /\ attempt' = 0
          /\ pages' = [pages EXCEPT ![Now] = {}]
          /\ heads' = [heads EXCEPT ![Now] = {}]
      BY <2>2, <2>3, <2>5 DEF Handle, NextRead, TypeOK
    <3>2. /\ pages' \in [Read -> SUBSET (1 .. MaxPages)]
          /\ heads' \in [Read -> SUBSET (0 .. MaxPushes)]
      BY <2>2, <3>1 DEF TypeOK
    <3> QED
      BY <2>2, <2>4, <3>1, <3>2 DEF TypeOK
  <2>6. CASE Now \notin Recorded \cup Forgotten
    <3>1. outcome' = v /\ UNCHANGED <<pc, page, attempt, heads, pages, errors>>
      BY <2>3, <2>6 DEF Handle
    <3> QED
      BY <2>4, <3>1 DEF TypeOK, Outcome
  <2> QED
    BY <2>5, <2>6
<1>7. CASE Unhandled
  BY <1>7 DEF Unhandled, TypeOK, Outcome
<1>8. CASE Bundle
  <2>1. UNCHANGED <<head, pc, page, attempt, heads, pages, whole, limited>>
    BY <1>8 DEF Bundle
  <2>2. kept' \in [ByHead -> SUBSET (0 .. MaxPushes)]
    BY <1>8, OfHeadType DEF Bundle
  <2>3. errors' \subseteq Read
    BY <1>8 DEF Bundle, RowErrors, Evidence, TypeOK
  <2>4. outcome' \in Outcome
    BY <1>8 DEF Bundle, Outcome
  <2> QED
    BY <2>1, <2>2, <2>3, <2>4 DEF TypeOK
<1>9. CASE UNCHANGED vars
  BY <1>9 DEF vars, client, TypeOK
<1> QED
  BY <1>1, <1>2, <1>3, <1>4, <1>5, <1>6, <1>7, <1>8, <1>9 DEF Next, Client

(* The client stays in its bounds: an attempt is one of Retries + 1, a page *)
(* one of MaxPages.                                                         *)
THEOREM AcquisitionTypes == Spec => []TypeOK
<1>1. Init => TypeOK
  BY AcquisitionAssumption, ReadFacts DEF Init, TypeOK, Outcome
<1> QED
  BY <1>1, AcquisitionTypeStep, PTL DEF Spec

-----------------------------------------------------------------------------
(* The reads the client has gone past, in the order of Reads.  What it went  *)
(* past is whole, or empty and an error; what lies ahead has shown nothing.  *)
EvidenceInv ==
  /\ \A i \in 1 .. 8 :
       Reads[i] \in Evidence /\ i < pc =>
         /\ Reads[i] \in whole \/ pages[Reads[i]] = {}
         /\ Reads[i] \in whole \/ Reads[i] \in errors
  /\ \A i \in 1 .. 8 : i > pc => heads[Reads[i]] = {}
  /\ outcome \in {"ready", "attention"} => pc > 8
  /\ outcome = "ready" => errors = {}
  /\ outcome = "unavailable" => pc <= 4 /\ limited # {}
  /\ EvidenceOfHead

(* A step of the client that leaves the read under way keeps the invariant  *)
(* when what it leaves behind is whole, or empty and an error.              *)
LEMMA EvidenceAdvance ==
  ASSUME TypeOK, EvidenceInv, Running,
         pc' = pc + 1,
         outcome' = outcome,
         whole \subseteq whole', errors \subseteq errors',
         \A r \in Read \ {Now} : pages'[r] = pages[r] /\ heads'[r] = heads[r],
         Now \in Evidence =>
           Now \in whole' \/ (pages'[Now] = {} /\ Now \in errors')
  PROVE  EvidenceInv'
<1>1. pc \in 1 .. 8 /\ outcome = "running"
  BY NowIsRead DEF Running
<1>2. ASSUME NEW i \in 1 .. 8, Reads[i] \in Evidence, i < pc'
      PROVE  /\ Reads[i] \in whole' \/ pages'[Reads[i]] = {}
             /\ Reads[i] \in whole' \/ Reads[i] \in errors'
  <2>1. CASE i = pc
    BY <1>2, <2>1 DEF Now
  <2>2. CASE i < pc
    <3>1. Reads[i] \in Read \ {Now}
      BY <1>1, <2>2, ReadFacts DEF Now
    <3>2. /\ Reads[i] \in whole \/ pages[Reads[i]] = {}
          /\ Reads[i] \in whole \/ Reads[i] \in errors
      BY <1>2, <2>2 DEF EvidenceInv
    <3> QED
      BY <3>1, <3>2
  <2> QED
    BY <1>1, <1>2, <2>1, <2>2
<1>3. ASSUME NEW i \in 1 .. 8, i > pc' PROVE heads'[Reads[i]] = {}
  <2>1. i > pc /\ i # pc
    BY <1>1, <1>3
  <2>2. Reads[i] \in Read \ {Now}
    BY <1>1, <2>1, ReadFacts DEF Now
  <2> QED
    BY <2>1, <2>2 DEF EvidenceInv
<1> QED
  BY <1>1, <1>2, <1>3 DEF EvidenceInv, EvidenceOfHead

(* A ready bundle has no errors, so no row was dropped for its head and no   *)
(* list lost another: what is left of it is what it showed.                 *)
LEMMA BundleOfHead ==
  ASSUME TypeOK, Bundle
  PROVE  EvidenceOfHead'
<1>1. PICK odd \in SUBSET {r \in {"files", "check_runs", "statuses"} : heads[r] # {}} :
        /\ errors' = errors \cup RowErrors \cup odd
        /\ \E lost \in SUBSET (odd \cup {"workflow_runs"}) :
             kept' = [r \in ByHead |-> IF r \in lost THEN {} ELSE OfHead(r)]
  BY DEF Bundle
<1>2. PICK lost \in SUBSET (odd \cup {"workflow_runs"}) :
        kept' = [r \in ByHead |-> IF r \in lost THEN {} ELSE OfHead(r)]
  BY <1>1
<1>3. heads' = heads
  BY DEF Bundle
<1>4. \A r \in ByHead : kept'[r] \subseteq heads'["pull"]
  BY <1>2, <1>3 DEF OfHead
<1>5. ASSUME outcome' = "ready"
      PROVE  /\ heads'["check_runs"] \subseteq kept'["check_runs"]
             /\ heads'["statuses"] # {} => kept'["statuses"] # {}
  <2>1. errors' = {}
    BY <1>5 DEF Bundle
  <2>2. RowErrors = {} /\ odd = {}
    BY <1>1, <2>1
  <2>3. /\ kept'["check_runs"] = OfHead("check_runs")
        /\ kept'["statuses"] = OfHead("statuses")
    BY <1>2, <2>2 DEF ByHead
  <2> QED
    BY <1>3, <2>2, <2>3 DEF RowErrors
<1> QED
  BY <1>4, <1>5 DEF EvidenceOfHead

(* Every step of the client, and a push, keep the evidence invariant.      *)
LEMMA EvidenceStep ==
  ASSUME TypeOK, EvidenceInv, [Next]_vars
  PROVE  EvidenceInv'
<1>1. CASE Push \/ Retry \/ UNCHANGED vars
  <2>1. UNCHANGED <<pc, heads, pages, kept, whole, errors, limited, outcome>>
    BY <1>1 DEF Push, Retry, vars, client
  <2> QED
    BY <2>1 DEF EvidenceInv, EvidenceOfHead
<1>2. CASE SkipCompare
  <2>1. Now \notin Evidence
    BY <1>2 DEF SkipCompare, Evidence
  <2>2. /\ Running /\ pc' = pc + 1
        /\ UNCHANGED <<heads, pages, whole, errors, outcome>>
    BY <1>2 DEF SkipCompare, NextRead
  <2> QED
    BY <2>1, <2>2, EvidenceAdvance
<1>3. CASE LastPage
  <2>1. Running /\ Now \in Read
    BY <1>3, NowIsRead DEF LastPage
  <2>2. /\ \A r \in Read \ {Now} : pages'[r] = pages[r] /\ heads'[r] = heads[r]
        /\ errors \subseteq errors' /\ whole \subseteq whole' /\ Now \in whole'
        /\ pc' = pc + 1 /\ outcome' = outcome
    BY <1>3, <2>1 DEF LastPage, Receive, NextRead, TypeOK
  <2>3. Now \in Evidence =>
           Now \in whole' \/ (pages'[Now] = {} /\ Now \in errors')
    BY <2>2
  <2> QED
    BY <2>1, <2>2, <2>3, EvidenceAdvance
<1>4. CASE FullPage
  <2>1. Running /\ Now \in Read /\ pc \in 1 .. 8 /\ Now = Reads[pc]
    BY <1>4, NowIsRead DEF FullPage, Now
  <2>2. /\ \A r \in Read \ {Now} : pages'[r] = pages[r] /\ heads'[r] = heads[r]
        /\ UNCHANGED <<pc, whole, errors, outcome>>
    BY <1>4, <2>1 DEF FullPage, Receive, TypeOK
  <2>3. \A i \in 1 .. 8 : i # pc => Reads[i] \in Read \ {Now}
    BY <2>1, ReadFacts
  <2>4. outcome = "running"
    BY <2>1 DEF Running
  <2> QED
    BY <2>1, <2>2, <2>3, <2>4 DEF EvidenceInv, EvidenceOfHead
<1>5. CASE Exhausted \/ ReadFails
  <2>1. Running /\ Now \in Read /\ pc \in 1 .. 8 /\ Now = Reads[pc] /\ outcome = "running"
    BY <1>5, NowIsRead DEF Exhausted, ReadFails, Now, Running
  <2>2. whole' = whole
    BY <1>5 DEF Exhausted, ReadFails
  <2>3. CASE Now \in Recorded \cup Forgotten
    <3>1. /\ errors' = IF Now \in Recorded THEN errors \cup {Now} ELSE errors
          /\ pages' = [pages EXCEPT ![Now] = {}]
          /\ heads' = [heads EXCEPT ![Now] = {}]
          /\ pc' = pc + 1
          /\ outcome' = outcome
      BY <1>5, <2>3 DEF Exhausted, ReadFails, Handle, NextRead
    <3>2. \A r \in Read \ {Now} : pages'[r] = pages[r] /\ heads'[r] = heads[r]
      BY <3>1 DEF TypeOK
    <3>3. Now \in Evidence => Now \in Recorded
      BY <2>3 DEF Evidence, Recorded, Forgotten
    <3>4. Now \in Evidence => pages'[Now] = {} /\ Now \in errors'
      BY <2>1, <3>1, <3>3 DEF TypeOK
    <3>5. errors \subseteq errors'
      BY <3>1
    <3> QED
      BY <2>1, <2>2, <3>1, <3>2, <3>4, <3>5, EvidenceAdvance
  <2>4. CASE Now \notin Recorded \cup Forgotten
    <3>1. pc <= 4
      <4>1. pc = 5 \/ pc = 6 \/ pc = 7 \/ pc = 8 => Now \in Recorded \cup Forgotten
        BY <2>1 DEF Reads, Recorded, Forgotten
      <4> QED
        BY <2>1, <2>4, <4>1
    <3>2. UNCHANGED <<pc, heads, pages, errors>>
      BY <1>5, <2>4 DEF Exhausted, ReadFails, Handle
    <3>3. \/ outcome' = "unavailable" /\ limited' # {}
          \/ outcome' = "error"
      BY <1>5, <2>4 DEF Exhausted, ReadFails, Handle
    <3> QED
      BY <2>1, <2>2, <3>1, <3>2, <3>3 DEF EvidenceInv, EvidenceOfHead
  <2> QED
    BY <2>3, <2>4
<1>6. CASE Unhandled
  BY <1>6 DEF Unhandled, EvidenceInv, EvidenceOfHead
<1>7. CASE Bundle
  <2>1. /\ UNCHANGED <<pc, heads, pages, whole, limited>>
        /\ pc > 8
        /\ errors \subseteq errors'
        /\ outcome' \in {"ready", "attention"}
        /\ outcome' = "ready" => errors' = {}
    BY <1>7, ReadFacts DEF Bundle
  <2>2. EvidenceOfHead'
    BY <1>7, BundleOfHead
  <2> QED
    BY <2>1, <2>2 DEF EvidenceInv
<1> QED
  BY <1>1, <1>2, <1>3, <1>4, <1>5, <1>6, <1>7 DEF Next, Client

(* The strengthening of the three properties is inductive.                  *)
THEOREM EvidenceInvariant == Spec => [](TypeOK /\ EvidenceInv)
<1>1. Init => EvidenceInv
  BY ReadFacts DEF Init, EvidenceInv, EvidenceOfHead
<1>2. TypeOK /\ EvidenceInv /\ [Next]_vars => EvidenceInv'
  BY EvidenceStep
<1> QED
  BY <1>1, <1>2, AcquisitionTypes, PTL DEF Spec

(* No bundle holds the first pages of a read that broke off, and a ready one *)
(* holds the files, check runs and statuses to the last page.               *)
THEOREM AcquisitionAllOrNothing == Spec => []AllOrNothing
<1>1. TypeOK /\ EvidenceInv => AllOrNothing
  <2> SUFFICES ASSUME TypeOK, EvidenceInv PROVE AllOrNothing
    OBVIOUS
  <2>1. ASSUME NEW r \in Evidence, outcome \in {"ready", "attention"}
        PROVE  /\ r \in whole \/ pages[r] = {}
               /\ r \in whole \/ r \in errors
    <3>1. PICK i \in 1 .. 8 : Reads[i] = r
      BY ReadFacts
    <3>2. i < pc
      BY <2>1, <3>1 DEF EvidenceInv, TypeOK
    <3> QED
      BY <3>1, <3>2 DEF EvidenceInv
  <2> QED
    BY <2>1 DEF AllOrNothing, EvidenceInv, Evidence
<1> QED
  BY <1>1, EvidenceInvariant, PTL

(* An UNAVAILABLE bundle is only written before any CI evidence was seen.    *)
THEOREM AcquisitionUnavailable == Spec => []UnavailableBeforeCI
<1>1. TypeOK /\ EvidenceInv => UnavailableBeforeCI
  <2>1. Reads[5] = "check_runs" /\ Reads[6] = "statuses"
    BY DEF Reads
  <2> QED
    BY <2>1, ReadFacts DEF UnavailableBeforeCI, EvidenceInv, TypeOK
<1> QED
  BY <1>1, EvidenceInvariant, PTL

(* What a bundle judges is of the head it names, however often the pull       *)
(* request is pushed to and whatever rows the lists show, and a ready one has *)
(* dropped no check run, nor every status, to get there.                    *)
THEOREM AcquisitionEvidenceOfHead == Spec => []EvidenceOfHead
<1>1. EvidenceInv => EvidenceOfHead
  BY DEF EvidenceInv
<1> QED
  BY <1>1, EvidenceInvariant, PTL
=============================================================================
