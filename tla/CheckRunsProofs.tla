---------------------------- MODULE CheckRunsProofs ----------------------------
(***************************************************************************)
(* Proofs about CheckRuns, for any jobs, page size and number of runs that  *)
(* start or end between two pages.                                          *)
(*                                                                         *)
(* A status that is final never changes, so a row that shows one is true    *)
(* for good (FinalRows), and a list that only grows at its front shows      *)
(* every run there was at the start (Covered).  The partition then decides  *)
(* on rows as one would on runs.                                            *)
(***************************************************************************)
EXTENDS CheckRuns, TLAPS, SequenceTheorems, WellFoundedInduction

RowType == [id : 1 .. Len(runs), st : Status]

Fresh ==
  /\ pc \in {"read", "list", "analyze", "poll"} => evidence = NoEvidence /\ decision = "none"
  /\ pc = "plan" => decision = "none"

FinalRows ==
  \A k \in Checks : rows[k].st \in Final => runs[rows[k].id].st = rows[k].st

(* What had failed when the read began is failed, and shown as such.        *)
StartFailed ==
  \A i \in start.failed :
    /\ i <= start.runs
    /\ runs[i].st \in Failure
    /\ \A k \in Checks : rows[k].id = i => rows[k].st \in Failure

Shown(j) == \E k \in Checks : rows[k].id = j
Covered ==
  /\ offset = 0 => rows = <<>> /\ start.runs = 0 /\ start.failed = {}
  /\ pc = "read" /\ ~failed => \A j \in 1 .. start.runs : j + offset > Len(runs) => Shown(j)
  /\ pc # "read" /\ ~failed => \A j \in 1 .. start.runs : Shown(j)

Listing ==
  /\ pc \in {"read", "list"} => listed = 0
  /\ listed \in {0, Len(runs)}

(* What the evidence says, once it is there.                                *)
Judged ==
  pc \in {"plan", "done"} =>
    /\ evidence.failures = Failures
    /\ evidence.ignored = Ignored
    /\ evidence.status # "INSUFFICIENT_EVIDENCE" => ~failed
    /\ evidence.status = "NO_TERMINAL_FAILURE" => Failures = {}

(* The terminal program judges a read without an error in which all it waits *)
(* for had ended.                                                           *)
Awaited ==
  current # {} =>
    /\ own = 0
    /\ pc \in {"plan", "done"} =>
         ~failed /\ \A k \in External : rows[k].st \in Final

Decided ==
  /\ decision = "NO_ACTION" => pc = "done" /\ evidence.status = "NO_TERMINAL_FAILURE"
  /\ decision = "READY" => pc = "done" /\ evidence.status = "UNEXPECTED_FAILURE_OBSERVED"

RunsInv ==
  /\ TypeOK /\ Fresh
  /\ FinalRows /\ StartFailed /\ Covered /\ Listing
  /\ Judged /\ Awaited /\ Decided /\ OwnEvidenceAccepted

-----------------------------------------------------------------------------
(* The newest of some runs is one of them.                                  *)
LEMMA NewestIsOne ==
  ASSUME NEW n \in Nat, NEW ids, ids \subseteq 1 .. n, ids # {}
  PROVE  Newest(ids) \in ids
<1> DEFINE back == {n - i : i \in ids}
<1>1. back \subseteq Nat /\ back # {}
  <2>1. \A i \in ids : n - i \in Nat
    OBVIOUS
  <2>2. PICK i \in ids : TRUE
    OBVIOUS
  <2>3. n - i \in back
    BY <2>2
  <2> QED
    BY <2>1, <2>3
<1>2. PICK b \in back : \A y \in back : ~(<<y, b>> \in OpToRel(<, Nat))
  BY <1>1, WFMin, NatLessThanWellFounded
<1>3. \A y \in back : ~(y < b)
  BY <1>1, <1>2 DEF OpToRel
<1>4. PICK i \in ids : b = n - i
  OBVIOUS
<1>5. \A j \in ids : j <= i
  BY <1>3, <1>4
<1> QED
  BY <1>5 DEF Newest

(* A row is that of a run.                                                  *)
LEMMA RowsTyped ==
  ASSUME TypeOK
  PROVE  /\ rows \in Seq(RowType)
         /\ \A k \in Checks : /\ rows[k] \in RowType
                              /\ rows[k].id \in 1 .. Len(runs)
                              /\ rows[k].st \in Status
<1>1. rows \in Seq(RowType)
  BY DEF TypeOK, RowType
<1>2. ASSUME NEW k \in Checks PROVE rows[k] \in RowType
  BY <1>1, ElementOfSeq DEF Checks
<1>3. ASSUME NEW row \in RowType PROVE row.id \in 1 .. Len(runs) /\ row.st \in Status
  BY DEF RowType
<1> QED
  BY <1>1, <1>2, <1>3

(* A page shows runs as they are, newest first, without a gap.              *)
LEMMA PageShape ==
  ASSUME TypeOK
  PROVE  /\ PageLength \in 0 .. PageSize
         /\ Page \in Seq(RowType)
         /\ Len(Page) = PageLength
         /\ \A j \in 1 .. PageLength :
              /\ Len(runs) - offset - j + 1 \in 1 .. Len(runs)
              /\ Page[j].id = Len(runs) - offset - j + 1
              /\ Page[j].st = runs[Page[j].id].st
         /\ PageLength < PageSize => Len(runs) <= offset + PageLength
<1>1. /\ runs \in Seq(Run) /\ Len(runs) \in Nat /\ offset \in Nat
      /\ PageSize \in Nat \ {0}
  BY PageAssumption DEF TypeOK
<1>2. /\ PageLength \in 0 .. PageSize
      /\ PageLength < PageSize => Len(runs) <= offset + PageLength
      /\ PageLength > 0 => offset + PageLength <= Len(runs)
  BY <1>1 DEF PageLength, Remaining
<1>3. ASSUME NEW j \in 1 .. PageLength
      PROVE  Len(runs) - offset - j + 1 \in 1 .. Len(runs)
  BY <1>1, <1>2
<1>4. ASSUME NEW i \in 1 .. Len(runs) PROVE runs[i].st \in Status
  <2>1. runs[i] \in Run
    BY <1>1
  <2> QED
    BY <2>1 DEF Run
<1>5. ASSUME NEW j \in 1 .. PageLength
      PROVE  /\ Page[j] \in RowType
             /\ Page[j].id = Len(runs) - offset - j + 1
             /\ Page[j].st = runs[Page[j].id].st
  <2> DEFINE i == Len(runs) - offset - j + 1
  <2>1. Page[j] = [id |-> i, st |-> runs[i].st]
    BY DEF Page
  <2>2. i \in 1 .. Len(runs) /\ runs[i].st \in Status
    BY <1>3, <1>4
  <2> HIDE DEF i
  <2>3. Page[j] \in RowType /\ Page[j].id = i /\ Page[j].st = runs[i].st
    BY <2>1, <2>2 DEF RowType
  <2> QED
    BY <2>3 DEF i
<1>6. Page \in [1 .. PageLength -> RowType]
  BY <1>5 DEF Page
<1>7. Page \in Seq(RowType) /\ Len(Page) = PageLength
  BY <1>2, <1>6
<1> QED
  BY <1>2, <1>3, <1>5, <1>7

(* What is read stays read, and what comes in are runs as they are; without  *)
(* an error it is the whole page.                                           *)
LEMMA PageAppended ==
  ASSUME TypeOK, ReadPage
  PROVE  /\ rows' \in Seq(RowType)
         /\ Len(rows') >= Len(rows)
         /\ \A p \in 1 .. Len(rows) : rows'[p] = rows[p]
         /\ \A p \in Len(rows) + 1 .. Len(rows') :
              rows'[p].id \in 1 .. Len(runs) /\ rows'[p].st = runs[rows'[p].id].st
         /\ ~failed' =>
              /\ Len(rows') = Len(rows) + PageLength
              /\ \A j \in 1 .. PageLength :
                   rows'[Len(rows) + j].id = Len(runs) - offset - j + 1
<1>1. rows \in Seq(RowType) /\ Len(rows) \in Nat
  BY DEF TypeOK, RowType
<1>2. ASSUME NEW more \in Seq(RowType), rows' = rows \o more
      PROVE  /\ rows' \in Seq(RowType)
             /\ Len(rows') = Len(rows) + Len(more) /\ Len(more) \in Nat
             /\ \A p \in 1 .. Len(rows) : rows'[p] = rows[p]
             /\ \A p \in Len(rows) + 1 .. Len(rows') :
                  /\ p - Len(rows) \in 1 .. Len(more)
                  /\ rows'[p] = more[p - Len(rows)]
  BY <1>1, <1>2
<1>3. CASE rows' = rows \o Page /\ UNCHANGED failed
  <2>1. /\ Page \in Seq(RowType) /\ Len(Page) = PageLength /\ PageLength \in Nat
        /\ \A j \in 1 .. PageLength :
              /\ Len(runs) - offset - j + 1 \in 1 .. Len(runs)
              /\ Page[j].id = Len(runs) - offset - j + 1
              /\ Page[j].st = runs[Page[j].id].st
    BY PageShape, PageAssumption
  <2>2. \A p \in Len(rows) + 1 .. Len(rows') :
          rows'[p].id \in 1 .. Len(runs) /\ rows'[p].st = runs[rows'[p].id].st
    BY <1>1, <1>2, <1>3, <2>1
  <2>3. ASSUME NEW j \in 1 .. PageLength
        PROVE  rows'[Len(rows) + j].id = Len(runs) - offset - j + 1
    <3>1. rows'[Len(rows) + j] = Page[j]
      BY <1>1, <1>3, <2>1
    <3> QED
      BY <2>1, <3>1
  <2>4. /\ rows' \in Seq(RowType) /\ Len(rows') >= Len(rows)
        /\ Len(rows') = Len(rows) + PageLength
        /\ \A p \in 1 .. Len(rows) : rows'[p] = rows[p]
    <3>1. rows' = rows \o Page
      BY <1>3
    <3>2. Len(rows') = Len(rows) + Len(Page) /\ rows' \in Seq(RowType)
      BY <1>1, <2>1, <3>1
    <3>3. \A p \in 1 .. Len(rows) : rows'[p] = rows[p]
      BY <1>1, <2>1, <3>1
    <3> QED
      BY <1>1, <2>1, <3>2, <3>3
  <2> QED
    BY <2>2, <2>3, <2>4
<1>4. CASE \E bad \in 1 .. PageLength : rows' = rows \o Without(bad) /\ failed' = TRUE
  <2>1. PICK bad \in 1 .. PageLength : rows' = rows \o Without(bad) /\ failed' = TRUE
    BY <1>4
  <2>2. /\ Page \in Seq(RowType) /\ Len(Page) = PageLength /\ PageLength \in Nat
        /\ \A j \in 1 .. PageLength :
              /\ Len(runs) - offset - j + 1 \in 1 .. Len(runs)
              /\ Page[j].id = Len(runs) - offset - j + 1
              /\ Page[j].st = runs[Page[j].id].st
    BY PageShape, PageAssumption
  <2>3. ASSUME NEW j \in 1 .. PageLength - 1
        PROVE  \E k \in 1 .. PageLength : Without(bad)[j] = Page[k]
    <3>1. (IF j < bad THEN j ELSE j + 1) \in 1 .. PageLength
      BY <2>2
    <3> QED
      BY <3>1 DEF Without
  <2>4. \A k \in 1 .. PageLength : Page[k] \in RowType
    BY <2>2
  <2>5. Without(bad) \in [1 .. PageLength - 1 -> RowType] /\ PageLength - 1 \in Nat
    BY <2>2, <2>3, <2>4 DEF Without
  <2>6. Without(bad) \in Seq(RowType) /\ Len(Without(bad)) = PageLength - 1
    BY <2>5
  <2>7. ASSUME NEW p \in Len(rows) + 1 .. Len(rows')
        PROVE  rows'[p].id \in 1 .. Len(runs) /\ rows'[p].st = runs[rows'[p].id].st
    <3>1. p - Len(rows) \in 1 .. PageLength - 1 /\ rows'[p] = Without(bad)[p - Len(rows)]
      BY <1>2, <2>1, <2>6
    <3>2. PICK k \in 1 .. PageLength : rows'[p] = Page[k]
      BY <2>3, <3>1
    <3> QED
      BY <2>2, <3>2
  <2>8. /\ rows' \in Seq(RowType) /\ Len(rows') >= Len(rows)
        /\ \A p \in 1 .. Len(rows) : rows'[p] = rows[p]
    BY <1>1, <1>2, <2>1, <2>6
  <2>9. failed'
    BY <2>1
  <2> QED
    BY <2>7, <2>8, <2>9
<1> QED
  BY <1>3, <1>4 DEF ReadPage

-----------------------------------------------------------------------------
(* The partition yields checks, and a check is superseded by runs there are. *)
LEMMA PartitionTypes ==
  ASSUME TypeOK
  PROVE  /\ Failures \subseteq 1 .. Len(rows)
         /\ \A i \in Ignored : i.check \in 1 .. Len(rows) /\ i.by \in 0 .. Len(runs)
<1>1. ASSUME NEW k \in Checks PROVE rows[k].id \in 1 .. Len(runs)
  BY RowsTyped
<1>2. Failures \subseteq 1 .. Len(rows)
  BY DEF Failures, Effective, Checks
<1>3. Len(runs) \in Nat
  BY DEF TypeOK
<1>4. ASSUME NEW k \in Checks, Newer(k) # {}
      PROVE  Newest({rows[m].id : m \in Newer(k)}) \in {rows[m].id : m \in Newer(k)}
  <2> DEFINE ids == {rows[m].id : m \in Newer(k)}
  <2>1. ids \subseteq 1 .. Len(runs)
    BY <1>1 DEF Newer
  <2>2. ids # {}
    BY <1>4
  <2> HIDE DEF ids
  <2>3. Newest(ids) \in ids
    BY <1>3, <2>1, <2>2, NewestIsOne
  <2> QED
    BY <2>3 DEF ids
<1>5. ASSUME NEW i \in Ignored
      PROVE  i.check \in 1 .. Len(rows) /\ i.by \in 0 .. Len(runs)
  <2>1. CASE \E k \in Checks : i = [check |-> k, reason |-> "SELF_WORKFLOW", by |-> 0]
    BY <1>3, <2>1 DEF Checks
  <2>2. CASE \E k \in Checks :
               /\ IsSuperseded(k)
               /\ i = [check |-> k, reason |-> "SUPERSEDED_CANCELLED",
                       by |-> Newest({rows[m].id : m \in Newer(k)})]
    <3>1. PICK k \in Checks :
               /\ IsSuperseded(k)
               /\ i = [check |-> k, reason |-> "SUPERSEDED_CANCELLED",
                       by |-> Newest({rows[m].id : m \in Newer(k)})]
      BY <2>2
    <3>2. i.by \in {rows[m].id : m \in Newer(k)}
      BY <1>4, <3>1 DEF IsSuperseded
    <3>3. i.by \in 1 .. Len(runs)
      BY <1>1, <3>2 DEF Newer
    <3>4. i.check = k
      BY <3>1
    <3> QED
      BY <1>3, <3>3, <3>4 DEF Checks
  <2> QED
    BY <2>1, <2>2 DEF Ignored
<1> QED
  BY <1>2, <1>5

(* Every step keeps the types; there is no evidence before the rows are all  *)
(* read.                                                                    *)
LEMMA TypeStep ==
  ASSUME TypeOK, Fresh, [Next]_vars
  PROVE  TypeOK' /\ Fresh'
<1>r. /\ runs \in Seq(Run) /\ Len(runs) \in Nat /\ rows \in Seq(RowType)
      /\ Len(rows) \in Nat
  BY DEF TypeOK, RowType
<1>e. /\ NoEvidence.failures = {} /\ NoEvidence.ignored = {}
  BY DEF NoEvidence
<1>1. CASE StartRun
  <2>1. PICK job \in Job : runs' = Append(runs, [job |-> job, st |-> "in_progress"])
    BY <1>1 DEF StartRun
  <2> DEFINE new == [job |-> job, st |-> "in_progress"]
  <2>2. new \in Run
    BY DEF Run, Status
  <2> HIDE DEF new
  <2>a. runs' = Append(runs, new)
    BY <2>1 DEF new
  <2>3. runs' \in Seq(Run) /\ Len(runs') = Len(runs) + 1
    BY <1>r, <2>a, <2>2
  <2>4. rows \in Seq([id : 1 .. Len(runs'), st : Status])
    <3>1. RowType \subseteq [id : 1 .. Len(runs'), st : Status]
      BY <1>r, <2>3 DEF RowType
    <3> QED
      BY <1>r, <3>1, SeqMonotonic
  <2>5. evidence' = NoEvidence /\ decision' = "none" /\ pc' = pc /\ evidence = NoEvidence
    BY <1>1 DEF StartRun, World, Fresh
  <2> QED
    BY <1>1, <1>r, <1>e, <2>3, <2>4, <2>5 DEF StartRun, World, TypeOK, Fresh
<1>2. CASE FinishRun
  <2>1. PICK i \in 1 .. Len(runs), st \in Final :
          runs[i].st = "in_progress" /\ runs' = [runs EXCEPT ![i].st = st]
    BY <1>2 DEF FinishRun
  <2>2. [runs[i] EXCEPT !.st = st] \in Run
    <3>1. runs[i] \in Run /\ st \in Status
      BY <1>r DEF Status
    <3> QED
      BY <3>1 DEF Run
  <2>3. runs' \in Seq(Run) /\ Len(runs') = Len(runs)
    BY <1>r, <2>1, <2>2
  <2>4. pc' = pc /\ pc # "done" /\ evidence' = evidence /\ decision' = decision
    BY <1>2 DEF FinishRun, World
  <2> QED
    BY <1>2, <2>3, <2>4 DEF FinishRun, World, TypeOK, Fresh
<1>3. CASE ReadPage
  <2>1. rows' \in Seq(RowType)
    BY <1>3, PageAppended
  <2>2. failed' \in BOOLEAN
    BY <1>3 DEF ReadPage, TypeOK
  <2>3. start'.runs \in 0 .. Len(runs) /\ start'.failed \subseteq 1 .. Len(runs)
    BY <1>3, <1>r DEF ReadPage, FailedRuns, TypeOK
  <2>4. offset' \in Nat
    BY <1>3, PageAssumption DEF ReadPage, TypeOK
  <2>5. /\ runs' = runs /\ own' = own /\ current' = current /\ listed' = listed
        /\ pc' \in {"read", "list"}
        /\ evidence = NoEvidence /\ decision = "none"
        /\ evidence' = evidence /\ decision' = decision
    BY <1>3 DEF ReadPage, Fresh
  <2> QED
    BY <1>e, <2>1, <2>2, <2>3, <2>4, <2>5 DEF TypeOK, Fresh, RowType
<1>4. CASE ReadFails
  <2>1. /\ runs' = runs /\ own' = own /\ current' = current /\ listed' = listed /\ offset' = offset
        /\ start' = start /\ rows' = <<>> /\ failed' = TRUE
        /\ pc' = "list"
        /\ evidence = NoEvidence /\ decision = "none"
        /\ evidence' = evidence /\ decision' = decision
    BY <1>4 DEF ReadFails, Fresh
  <2> QED
    BY <1>e, <2>1 DEF TypeOK, Fresh
<1>5. CASE ListWorkflowRuns
  BY <1>5, <1>r, <1>e DEF ListWorkflowRuns, TypeOK, Fresh
<1>6. CASE Analyze
  <2>1. evidence'.failures = Failures /\ evidence'.ignored = Ignored
    BY <1>6 DEF Analyze
  <2>2. decision' = "none" /\ pc' = "plan"
    BY <1>6 DEF Analyze, Fresh
  <2> QED
    BY <1>6, <2>1, <2>2, PartitionTypes DEF Analyze, TypeOK, Fresh
<1>7. CASE Plan
  <2>1. decision' \in {"READY", "NO_ACTION", "BLOCKED", "refused"}
    BY <1>7 DEF Plan, Decide
  <2> QED
    BY <1>7, <2>1 DEF Plan, TypeOK, Fresh
<1>8. CASE PollAgain
  BY <1>8, <1>e DEF PollAgain, TypeOK, Fresh
<1>9. CASE UNCHANGED vars
  BY <1>9 DEF vars, TypeOK, Fresh
<1> QED
  BY <1>1, <1>2, <1>3, <1>4, <1>5, <1>6, <1>7, <1>8, <1>9 DEF Next

(* There is nothing at the start but the runs.                              *)
LEMMA TypeInit == Init => TypeOK /\ Fresh
<1> SUFFICES ASSUME Init PROVE TypeOK /\ Fresh
  OBVIOUS
<1>1. runs \in Seq(Run)
  BY PageAssumption DEF Init
<1>2. own \in 0 .. Len(runs) /\ current \subseteq 1 .. Len(runs)
  BY <1>1 DEF Init
<1>3. start.runs = 0 /\ start.failed = {} /\ Len(runs) \in Nat
  BY <1>1 DEF Init
<1>4. evidence.failures = {} /\ evidence.ignored = {}
  BY DEF Init, NoEvidence
<1>5. rows \in Seq([id : 1 .. Len(runs), st : Status])
  BY EmptySeq DEF Init
<1>6. /\ own \in 0 .. Len(runs) /\ current \subseteq 1 .. Len(runs) /\ pc = "read" /\ offset = 0 /\ failed = FALSE
      /\ listed = 0 /\ evidence = NoEvidence /\ decision = "none"
  BY <1>2 DEF Init
<1>7. /\ start.runs \in 0 .. Len(runs) /\ start.failed \subseteq 1 .. Len(runs)
      /\ listed \in 0 .. Len(runs) /\ offset \in Nat
  BY <1>3, <1>6
<1>8. /\ evidence.failures \subseteq 1 .. Len(rows)
      /\ \A i \in evidence.ignored : i.check \in 1 .. Len(rows) /\ i.by \in 0 .. Len(runs)
  BY <1>4
<1>9. Fresh
  BY <1>6 DEF Fresh
<1> QED
  BY <1>1, <1>5, <1>6, <1>7, <1>8, <1>9 DEF TypeOK

(* Rows, evidence and decision keep their types, for any runs and pages.     *)
THEOREM CheckRunTypes == Spec => []TypeOK
BY TypeInit, TypeStep, PTL DEF Spec

-----------------------------------------------------------------------------
(* What a step may do to the runs: nothing that is final changes.            *)
LEMMA FinalStays ==
  ASSUME TypeOK, [Next]_vars
  PROVE  /\ Len(runs') \in Nat /\ Len(runs') >= Len(runs)
         /\ \A i \in 1 .. Len(runs) :
              runs[i].st \in Final => runs'[i].st = runs[i].st
         /\ runs' # runs => /\ pc \in {"read", "list"}
                            /\ UNCHANGED <<own, current, start, pc, offset, rows, failed, listed,
                                          evidence, decision>>
<1>r. runs \in Seq(Run) /\ Len(runs) \in Nat
  BY DEF TypeOK
<1>1. CASE StartRun
  <2>1. PICK job \in Job : runs' = Append(runs, [job |-> job, st |-> "in_progress"])
    BY <1>1 DEF StartRun
  <2> DEFINE new == [job |-> job, st |-> "in_progress"]
  <2>2. new \in Run
    BY DEF Run, Status
  <2>3. runs' = Append(runs, new)
    BY <2>1
  <2> HIDE DEF new
  <2>4. /\ Len(runs') = Len(runs) + 1
        /\ \A i \in 1 .. Len(runs) : runs'[i] = runs[i]
    BY <1>r, <2>2, <2>3
  <2>5. /\ pc \in {"read", "list"}
        /\ UNCHANGED <<own, current, start, pc, offset, rows, failed, listed, evidence, decision>>
    <3>1. World
      BY <1>1 DEF StartRun
    <3> QED
      BY <3>1 DEF World
  <2> QED
    BY <1>r, <2>4, <2>5
<1>2. CASE FinishRun
  <2>1. PICK i \in 1 .. Len(runs), st \in Final :
          runs[i].st = "in_progress" /\ runs' = [runs EXCEPT ![i].st = st]
    BY <1>2 DEF FinishRun
  <2>2. Len(runs') = Len(runs)
    BY <1>r, <2>1
  <2>3. \A j \in 1 .. Len(runs) : j # i => runs'[j] = runs[j]
    BY <1>r, <2>1
  <2>4. runs[i].st \notin Final
    BY <2>1 DEF Final, Failure
  <2>5. World
    BY <1>2 DEF FinishRun
  <2>6. /\ pc \in {"read", "list"}
        /\ UNCHANGED <<own, current, start, pc, offset, rows, failed, listed, evidence, decision>>
    BY <2>5 DEF World
  <2>7. \A j \in 1 .. Len(runs) : runs[j].st \in Final => runs'[j].st = runs[j].st
    BY <2>3, <2>4
  <2> QED
    BY <1>r, <2>2, <2>6, <2>7
<1>3. CASE ReadPage \/ ReadFails \/ ListWorkflowRuns \/ Analyze \/ PollAgain \/ Plan \/ UNCHANGED vars
  <2>1. runs' = runs
    BY <1>3 DEF ReadPage, ReadFails, ListWorkflowRuns, Analyze, PollAgain, Plan, vars
  <2> QED
    BY <1>r, <2>1
<1> QED
  BY <1>1, <1>2, <1>3 DEF Next

(* A row with a final status keeps being right.                             *)
LEMMA FinalRowsStep ==
  ASSUME TypeOK, FinalRows, [Next]_vars
  PROVE  FinalRows'
<1>1. CASE ReadPage
  <2>1. runs' = runs
    BY <1>1 DEF ReadPage
  <2>2. ASSUME NEW k \in Checks', rows'[k].st \in Final
        PROVE  runs[rows'[k].id].st = rows'[k].st
    <3>1. CASE k \in 1 .. Len(rows)
      BY <1>1, <2>2, <3>1, PageAppended DEF FinalRows, Checks
    <3>2. CASE k \notin 1 .. Len(rows)
      <4>1. k \in Len(rows) + 1 .. Len(rows')
        BY <1>1, <2>2, <3>2, RowsTyped, PageAppended DEF Checks
      <4> QED
        BY <1>1, <4>1, PageAppended
    <3> QED
      BY <3>1, <3>2
  <2> QED
    BY <2>1, <2>2 DEF FinalRows
<1>2. CASE ReadFails
  BY <1>2 DEF ReadFails, FinalRows, Checks
<1>3. CASE StartRun \/ FinishRun \/ ListWorkflowRuns \/ Analyze \/ PollAgain \/ Plan \/ UNCHANGED vars
  <2>1. rows' = rows
    BY <1>3 DEF StartRun, FinishRun, World, ListWorkflowRuns, Analyze, PollAgain, Plan, vars
  <2>2. ASSUME NEW k \in Checks, rows[k].st \in Final
        PROVE  runs'[rows[k].id].st = rows[k].st
    <3>1. rows[k].id \in 1 .. Len(runs) /\ runs[rows[k].id].st = rows[k].st
      BY <2>2, RowsTyped DEF FinalRows
    <3> QED
      BY <2>2, <3>1, FinalStays
  <2> QED
    BY <2>1, <2>2 DEF FinalRows, Checks
<1> QED
  BY <1>1, <1>2, <1>3 DEF Next

(* A run that had failed when the read began is failed and listed as such.   *)
LEMMA StartFailedStep ==
  ASSUME TypeOK, StartFailed, Covered, [Next]_vars
  PROVE  StartFailed'
<1>f. Failure \subseteq Final
  BY DEF Final
<1>r. start.runs \in 0 .. Len(runs) /\ start.failed \subseteq 1 .. Len(runs) /\ Len(runs) \in Nat
  BY DEF TypeOK
<1>1. CASE ReadPage
  <2>1. runs' = runs
    BY <1>1 DEF ReadPage
  <2>2. ASSUME NEW i \in start'.failed
        PROVE  /\ i <= start'.runs /\ runs[i].st \in Failure
               /\ offset = 0 => rows = <<>>
               /\ offset # 0 => i \in start.failed
    BY <1>1, <1>r, <2>2 DEF ReadPage, FailedRuns, StartFailed, Covered
  <2>3. ASSUME NEW i \in start'.failed, NEW k \in Checks', rows'[k].id = i
        PROVE  rows'[k].st \in Failure
    <3>1. CASE k \in 1 .. Len(rows)
      <4>1. offset # 0
        BY <2>2, <3>1
      <4>2. i \in start.failed /\ rows'[k] = rows[k]
        BY <1>1, <2>2, <3>1, <4>1, PageAppended
      <4> QED
        BY <2>3, <3>1, <4>2 DEF StartFailed, Checks
    <3>2. CASE k \notin 1 .. Len(rows)
      <4>1. k \in Len(rows) + 1 .. Len(rows')
        BY <1>1, <2>3, <3>2, RowsTyped, PageAppended DEF Checks
      <4>2. rows'[k].st = runs[i].st
        BY <1>1, <2>3, <4>1, PageAppended
      <4> QED
        BY <2>2, <4>2
    <3> QED
      BY <3>1, <3>2
  <2> QED
    BY <2>1, <2>2, <2>3 DEF StartFailed
<1>2. CASE ReadFails
  BY <1>2 DEF ReadFails, StartFailed, Checks
<1>3. CASE StartRun \/ FinishRun \/ ListWorkflowRuns \/ Analyze \/ PollAgain \/ Plan \/ UNCHANGED vars
  <2>1. rows' = rows /\ start' = start
    BY <1>3 DEF StartRun, FinishRun, World, ListWorkflowRuns, Analyze, PollAgain, Plan, vars
  <2>2. ASSUME NEW i \in start.failed PROVE runs'[i].st \in Failure
    <3>1. i \in 1 .. Len(runs) /\ runs[i].st \in Failure
      BY <1>r DEF StartFailed
    <3> QED
      BY <1>f, <3>1, FinalStays
  <2> QED
    BY <2>1, <2>2 DEF StartFailed, Checks
<1> QED
  BY <1>1, <1>2, <1>3 DEF Next

(* The pages together pass over the runs there were without a gap.           *)
LEMMA CoveredStep ==
  ASSUME TypeOK, Covered, [Next]_vars
  PROVE  Covered'
<1>r. /\ Len(runs) \in Nat /\ offset \in Nat /\ start.runs \in 0 .. Len(runs)
      /\ Len(rows) \in Nat
  BY DEF TypeOK
<1>1. CASE StartRun \/ FinishRun
  <2>1. /\ Len(runs') \in Nat /\ Len(runs') >= Len(runs)
        /\ UNCHANGED <<start, pc, offset, rows, failed>>
    BY <1>1, FinalStays DEF StartRun, FinishRun, World
  <2>2. ASSUME NEW j \in 1 .. start.runs, j + offset > Len(runs')
        PROVE  j + offset > Len(runs)
    BY <1>r, <2>1, <2>2
  <2> QED
    BY <2>1, <2>2 DEF Covered, Shown, Checks
<1>2. CASE ReadPage
  <2> DEFINE n == Len(runs)
  <2>1. /\ runs' = runs /\ offset' = offset + PageSize /\ offset' # 0
        /\ pc' = IF PageLength < PageSize THEN "list" ELSE "read"
        /\ pc = "read"
        /\ start' = IF offset = 0 THEN [runs |-> n, failed |-> FailedRuns] ELSE start
        /\ ~failed' => ~failed
    BY <1>2, <1>r, PageAssumption DEF ReadPage
  <2>2. start'.runs \in 0 .. n
    BY <1>r, <2>1
  <2>3. PageLength \in 0 .. PageSize /\ PageSize \in Nat
    BY PageShape, PageAssumption
  <2>4. ASSUME NEW j \in 1 .. start'.runs, ~failed', j + offset > n
        PROVE  Shown(j)'
    <3>1. offset # 0
      BY <1>r, <2>2, <2>4
    <3>2. PICK k \in Checks : rows[k].id = j
      BY <2>1, <2>4, <3>1 DEF Covered, Shown
    <3>3. k \in Checks' /\ rows'[k].id = j
      BY <1>2, <1>r, <2>4, <3>2, PageAppended DEF Checks
    <3> QED
      BY <3>3 DEF Shown
  <2>5. ASSUME NEW j \in 1 .. start'.runs, ~failed', j + offset <= n,
               j + offset + PageLength > n
        PROVE  Shown(j)'
    <3> DEFINE k == n - offset - j + 1
    <3>1. j \in Nat
      BY <2>2
    <3>2. k \in 1 .. PageLength
      BY <1>r, <2>3, <2>5, <3>1
    <3>3. Len(rows') = Len(rows) + PageLength /\ rows'[Len(rows) + k].id = n - offset - k + 1
      BY <1>2, <2>5, <3>2, PageAppended
    <3>4. n - offset - k + 1 = j
      BY <1>r, <3>1
    <3>5. Len(rows) + k \in Checks'
      BY <1>r, <2>3, <3>2, <3>3 DEF Checks
    <3> QED
      BY <3>3, <3>4, <3>5 DEF Shown
  <2>6. ASSUME NEW j \in 1 .. start'.runs, ~failed', j + offset + PageLength > n
        PROVE  Shown(j)'
    <3>1. j \in Nat
      BY <2>2
    <3> QED
      BY <1>r, <2>4, <2>5, <2>6, <3>1
  <2>7. ASSUME NEW j \in 1 .. start'.runs, pc' = "read", j + offset' > n
        PROVE  j + offset + PageLength > n
    BY <1>r, <2>1, <2>2, <2>3, <2>7
  <2>8. ASSUME NEW j \in 1 .. start'.runs, pc' # "read"
        PROVE  j + offset + PageLength > n
    <3>1. n <= offset + PageLength
      BY <2>1, <2>8, PageShape
    <3>2. j \in Nat \ {0}
      BY <2>2
    <3> QED
      BY <1>r, <2>3, <3>1, <3>2
  <2> QED
    BY <2>1, <2>6, <2>7, <2>8 DEF Covered
<1>3. CASE ReadFails
  BY <1>3 DEF ReadFails, Covered
<1>4. CASE ListWorkflowRuns \/ Analyze \/ PollAgain \/ Plan \/ UNCHANGED vars
  <2>1. UNCHANGED <<runs, start, offset, rows, failed>> /\ (pc' = "read" <=> pc = "read")
    BY <1>4 DEF ListWorkflowRuns, Analyze, PollAgain, Plan, vars
  <2> QED
    BY <2>1 DEF Covered, Shown, Checks
<1> QED
  BY <1>1, <1>2, <1>3, <1>4 DEF Next

(* The listing comes after the runs have been read, and shows all or none.   *)
LEMMA ListingStep ==
  ASSUME TypeOK, Listing, [Next]_vars
  PROVE  Listing'
<1>1. CASE runs' # runs
  BY <1>1, FinalStays DEF Listing
<1>2. CASE runs' = runs
  BY <1>2 DEF Listing, Next, StartRun, FinishRun, World, ReadPage, ReadFails,
     ListWorkflowRuns, Analyze, PollAgain, Plan, vars
<1> QED
  BY <1>1, <1>2

-----------------------------------------------------------------------------
(* Two rows of one run are judged alike, once they show how it ended.        *)
LEMMA SameRunAlike ==
  ASSUME TypeOK, FinalRows, NEW k \in Checks, NEW m \in Checks,
         rows[k].id = rows[m].id
  PROVE  /\ IsOwn(k) <=> IsOwn(m)
         /\ rows[k].st \in Final /\ rows[m].st \in Final /\ IsSuperseded(k)
              => IsSuperseded(m)
<1>1. JobOf(k) = JobOf(m) /\ (HasWorkflow(k) <=> HasWorkflow(m))
  BY DEF JobOf, HasWorkflow
<1>2. IsOwn(k) <=> IsOwn(m)
  BY <1>1 DEF IsOwn
<1>3. ASSUME rows[k].st \in Final, rows[m].st \in Final, IsSuperseded(k)
      PROVE  IsSuperseded(m)
  <2>1. rows[m].st = "cancelled"
    BY <1>3 DEF FinalRows, IsSuperseded
  <2>2. PICK newer \in Checks : /\ HasWorkflow(newer) /\ HasWorkflow(k)
                                /\ JobOf(newer) = JobOf(k)
                                /\ rows[newer].id > rows[k].id
    BY <1>3 DEF IsSuperseded, Newer
  <2>3. newer # m
    BY <2>2, RowsTyped
  <2>4. newer \in Newer(m)
    BY <1>1, <2>2, <2>3 DEF Newer
  <2> QED
    BY <1>2, <1>3, <2>1, <2>4 DEF IsSuperseded
<1> QED
  BY <1>2, <1>3

(* What the partition drops is dropped for every row of the run, and with    *)
(* the evidence its verifier asks for.                                      *)
LEMMA IgnoredCoherent ==
  ASSUME TypeOK, FinalRows, evidence.failures = Failures, evidence.ignored = Ignored
  PROVE  Coherent(evidence)
<1>1. ASSUME NEW i \in Ignored
      PROVE  /\ i.check \in Checks
             /\ \/ /\ i.reason = "SELF_WORKFLOW" /\ IsOwn(i.check)
                \/ /\ i.reason = "SUPERSEDED_CANCELLED" /\ IsSuperseded(i.check)
                   /\ i.by \in {rows[m].id : m \in Newer(i.check)}
  <2>1. CASE \E k \in Checks : IsOwn(k) /\ i = [check |-> k, reason |-> "SELF_WORKFLOW", by |-> 0]
    BY <2>1
  <2>2. CASE \E k \in Checks :
               /\ IsSuperseded(k)
               /\ i = [check |-> k, reason |-> "SUPERSEDED_CANCELLED",
                       by |-> Newest({rows[m].id : m \in Newer(k)})]
    <3>1. PICK k \in Checks :
               /\ IsSuperseded(k)
               /\ i = [check |-> k, reason |-> "SUPERSEDED_CANCELLED",
                       by |-> Newest({rows[m].id : m \in Newer(k)})]
      BY <2>2
    <3> DEFINE ids == {rows[m].id : m \in Newer(k)}
    <3>2. ids \subseteq 1 .. Len(runs) /\ Len(runs) \in Nat
      BY RowsTyped DEF Newer, TypeOK
    <3>3. ids # {}
      BY <3>1 DEF IsSuperseded
    <3>4. i.check = k /\ i.reason = "SUPERSEDED_CANCELLED" /\ i.by = Newest(ids)
      BY <3>1
    <3> HIDE DEF ids
    <3>5. i.by \in ids
      BY <3>2, <3>3, <3>4, NewestIsOne
    <3> QED
      BY <3>1, <3>4, <3>5 DEF ids
  <2> QED
    BY <2>1, <2>2 DEF Ignored
<1>2. ASSUME NEW i \in Ignored, NEW k \in Failures
      PROVE  rows[i.check].id # rows[k].id
  <2>1. SUFFICES ASSUME rows[i.check].id = rows[k].id PROVE FALSE
    OBVIOUS
  <2>2. /\ k \in Checks /\ ~IsOwn(k) /\ ~IsSuperseded(k) /\ rows[k].st \in Final
    BY DEF Failures, Effective, Final
  <2>3. CASE IsOwn(i.check)
    BY <1>1, <2>1, <2>2, <2>3, SameRunAlike
  <2>4. CASE IsSuperseded(i.check)
    <3>1. rows[i.check].st \in Final
      BY <2>4 DEF IsSuperseded, Final, Failure
    <3> QED
      BY <1>1, <2>1, <2>2, <2>4, <3>1, SameRunAlike
  <2> QED
    BY <1>1, <2>3, <2>4
<1>3. ASSUME NEW i \in Ignored, i.reason = "SUPERSEDED_CANCELLED"
      PROVE  /\ rows[i.check].st = "cancelled" /\ HasWorkflow(i.check)
             /\ i.by > rows[i.check].id
  <2>1. IsSuperseded(i.check) /\ i.by \in {rows[m].id : m \in Newer(i.check)}
    BY <1>1, <1>3
  <2>2. PICK m \in Newer(i.check) : i.by = rows[m].id
    BY <2>1
  <2> QED
    BY <2>1, <2>2 DEF IsSuperseded, Newer
<1>4. ASSUME NEW i \in Ignored
      PROVE  /\ rows[i.check].id \notin {rows[k].id : k \in Failures}
             /\ CASE i.reason = "SELF_WORKFLOW" -> IsOwn(i.check)
                  [] i.reason = "SUPERSEDED_CANCELLED" ->
                       /\ rows[i.check].st = "cancelled"
                       /\ HasWorkflow(i.check)
                       /\ i.by > rows[i.check].id
  BY <1>1, <1>2, <1>3
<1> QED
  BY <1>4 DEF Coherent

(* Evidence is made of the rows as they stay.                               *)
LEMMA JudgedStep ==
  ASSUME TypeOK, FinalRows, Judged, [Next]_vars
  PROVE  Judged'
<1>1. CASE Analyze
  <2>1. /\ UNCHANGED <<runs, own, rows, failed, listed>>
        /\ evidence'.failures = Failures /\ evidence'.ignored = Ignored
    BY <1>1 DEF Analyze
  <2>2. PICK statuses \in BOOLEAN : evidence'.status = Triage(HasGaps(statuses), Failures)
    BY <1>1 DEF Analyze
  <2>3. /\ evidence'.status # "INSUFFICIENT_EVIDENCE" => ~failed
        /\ evidence'.status = "NO_TERMINAL_FAILURE" => Failures = {}
    BY <2>2 DEF Triage, HasGaps
  <2>4. Failures' = Failures /\ Ignored' = Ignored
    BY <2>1 DEF Failures, Effective, Ignored, IsSuperseded, Newer, IsOwn, HasWorkflow, JobOf, Checks
  <2> QED
    BY <2>1, <2>3, <2>4 DEF Judged
<1>2. CASE Plan \/ UNCHANGED vars
  <2>1. UNCHANGED <<runs, own, rows, failed, listed, evidence>>
    BY <1>2 DEF Plan, vars
  <2>2. pc' \in {"plan", "done"} => pc \in {"plan", "done"}
    BY <1>2 DEF Plan, vars
  <2>3. Failures' = Failures /\ Ignored' = Ignored
    BY <2>1 DEF Failures, Effective, Ignored, IsSuperseded, Newer, IsOwn, HasWorkflow, JobOf, Checks
  <2> QED
    BY <2>1, <2>2, <2>3 DEF Judged
<1>3. CASE StartRun \/ FinishRun \/ ReadPage \/ ReadFails \/ ListWorkflowRuns \/ PollAgain
  <2>1. pc' \notin {"plan", "done"}
    BY <1>3 DEF StartRun, FinishRun, World, ReadPage, ReadFails, ListWorkflowRuns, PollAgain
  <2> QED
    BY <2>1 DEF Judged
<1> QED
  BY <1>1, <1>2, <1>3 DEF Next

(* Nothing moves between the wait and the evidence made of its sample.       *)
LEMMA AwaitedStep ==
  ASSUME Awaited, [Next]_vars
  PROVE  Awaited'
<1>1. CASE Analyze
  <2>1. UNCHANGED <<own, current, rows, failed>>
    BY <1>1 DEF Analyze
  <2>2. current # {} => ~failed /\ \A k \in External : rows[k].st \in Final
    BY <1>1 DEF Analyze, Settled
  <2> QED
    BY <2>1, <2>2 DEF Awaited, External, Checks
<1>2. CASE Plan \/ UNCHANGED vars
  <2>1. /\ UNCHANGED <<own, current, rows, failed>>
        /\ pc' \in {"plan", "done"} => pc \in {"plan", "done"}
    BY <1>2 DEF Plan, vars
  <2> QED
    BY <2>1 DEF Awaited, External, Checks
<1>3. CASE StartRun \/ FinishRun \/ ReadPage \/ ReadFails \/ ListWorkflowRuns \/ PollAgain
  <2>1. UNCHANGED <<own, current>> /\ pc' \notin {"plan", "done"}
    BY <1>3 DEF StartRun, FinishRun, World, ReadPage, ReadFails, ListWorkflowRuns, PollAgain
  <2> QED
    BY <2>1 DEF Awaited
<1> QED
  BY <1>1, <1>2, <1>3 DEF Next

(* The decision follows from the status, and the evidence is not refused.    *)
LEMMA DecidedStep ==
  ASSUME TypeOK, Fresh, FinalRows, Judged, Decided, OwnEvidenceAccepted, [Next]_vars
  PROVE  Decided' /\ OwnEvidenceAccepted'
<1>1. CASE Plan
  <2>1. Coherent(evidence)
    BY <1>1, IgnoredCoherent DEF Plan, Judged
  <2>2. evidence' = evidence /\ pc' = "done"
        /\ decision' \in {"BLOCKED", Decide(evidence.status)}
    BY <1>1, <2>1 DEF Plan
  <2> QED
    BY <2>2 DEF Decide, Decided, OwnEvidenceAccepted
<1>2. CASE Analyze
  <2>1. decision' = "none"
    BY <1>2 DEF Analyze, Fresh
  <2> QED
    BY <2>1 DEF Decided, OwnEvidenceAccepted
<1>3. CASE StartRun \/ FinishRun \/ ReadPage \/ ReadFails \/ ListWorkflowRuns \/ PollAgain
  <2>1. decision' = "none"
    BY <1>3 DEF StartRun, FinishRun, World, ReadPage, ReadFails, ListWorkflowRuns, PollAgain,
       Fresh
  <2> QED
    BY <2>1 DEF Decided, OwnEvidenceAccepted
<1>4. CASE UNCHANGED vars
  BY <1>4 DEF vars, Decided, OwnEvidenceAccepted
<1> QED
  BY <1>1, <1>2, <1>3, <1>4 DEF Next

-----------------------------------------------------------------------------
(* The strengthening of the properties is inductive.                   *)
THEOREM RunsInvariant == Spec => []RunsInv
<1>1. Init => RunsInv
  <2> SUFFICES ASSUME Init PROVE RunsInv
    OBVIOUS
  <2>1. TypeOK /\ Fresh
    BY TypeInit
  <2>2. /\ start.runs = 0 /\ start.failed = {} /\ rows = <<>> /\ pc = "read"
        /\ listed = 0 /\ decision = "none" /\ Len(rows) = 0
    BY EmptySeq DEF Init
  <2>3. FinalRows /\ StartFailed /\ Covered
    BY <2>2 DEF FinalRows, StartFailed, Covered, Checks
  <2>4. Listing /\ Judged /\ Decided /\ OwnEvidenceAccepted
    BY <2>2 DEF Listing, Judged, Decided, OwnEvidenceAccepted
  <2>5. Awaited
    BY DEF Init, Awaited
  <2> QED
    BY <2>1, <2>3, <2>4, <2>5 DEF RunsInv
<1>2. RunsInv /\ [Next]_vars => RunsInv'
  BY TypeStep, FinalRowsStep, StartFailedStep, CoveredStep, ListingStep, JudgedStep,
     AwaitedStep, DecidedStep DEF RunsInv
<1> QED
  BY <1>1, <1>2, PTL DEF Spec

(* The evidence the engine builds is evidence its verifier accepts, however  *)
(* often a run was listed and with whatever statuses.                        *)
THEOREM CheckRunsAccepted == Spec => []OwnEvidenceAccepted
<1>1. RunsInv => OwnEvidenceAccepted
  BY DEF RunsInv
<1> QED
  BY <1>1, RunsInvariant, PTL

(* Nothing to do means that every failure there was when the read began is   *)
(* one of the own workflow or superseded.                                   *)
THEOREM CheckRunsNoneMissed == Spec => []NoFailureMissed
<1>1. RunsInv => NoFailureMissed
  <2> SUFFICES ASSUME RunsInv, decision = "NO_ACTION", NEW i \in start.failed
               PROVE  OfOwnWorkflow(i) \/ SupersededAmong(i, Len(runs))
    BY DEF NoFailureMissed
  <2>1. /\ pc = "done" /\ ~failed /\ Failures = {}
    BY DEF RunsInv, Decided, Judged
  <2>2. i \in 1 .. start.runs /\ Len(runs) \in Nat
    BY DEF RunsInv, StartFailed, TypeOK
  <2>3. PICK k \in Checks : rows[k].id = i
    BY <2>1, <2>2 DEF RunsInv, Covered, Shown
  <2>4. rows[k].st \in Failure /\ runs[i].st = rows[k].st
    BY <2>3 DEF RunsInv, StartFailed, FinalRows, Final
  <2>5. IsOwn(k) \/ IsSuperseded(k)
    BY <2>1, <2>4 DEF Failures, Effective
  <2>6. CASE IsOwn(k)
    <3>1. listed # 0
      BY <2>6 DEF IsOwn, RunsInv, TypeOK
    <3> QED
      BY <2>3, <2>6, <3>1 DEF IsOwn, OfOwnWorkflow, JobOf
  <2>7. CASE IsSuperseded(k)
    <3>1. PICK m \in Checks : JobOf(m) = JobOf(k) /\ rows[m].id > rows[k].id
      BY <2>7 DEF IsSuperseded, Newer
    <3>2. rows[m].id \in i + 1 .. Len(runs)
      BY <2>2, <2>3, <3>1, RowsTyped DEF RunsInv
    <3> QED
      BY <2>3, <2>4, <2>7, <3>1, <3>2 DEF IsSuperseded, SupersededAmong, JobOf
  <2> QED
    BY <2>5, <2>6, <2>7
<1> QED
  BY <1>1, RunsInvariant, PTL

(* A failure is counted for a run that failed; with the workflow runs known, *)
(* not for the own workflow nor for what was superseded before the read.     *)
THEOREM CheckRunsReal == Spec => []CountedFailuresAreReal
<1>1. RunsInv => CountedFailuresAreReal
  <2> SUFFICES ASSUME RunsInv, decision = "READY", NEW k \in evidence.failures
               PROVE  /\ runs[rows[k].id].st = rows[k].st
                      /\ ~OfOwnWorkflow(rows[k].id)
                      /\ listed # 0 /\ runs[rows[k].id].job \notin Foreign =>
                           ~SupersededAmong(rows[k].id, start.runs)
    BY DEF CountedFailuresAreReal
  <2> DEFINE i == rows[k].id
  <2>1. /\ pc = "done" /\ ~failed /\ k \in Failures
    BY DEF RunsInv, Decided, Judged
  <2>2. /\ k \in Checks /\ ~IsOwn(k) /\ ~IsSuperseded(k) /\ rows[k].st \in Failure
    BY <2>1 DEF Failures, Effective
  <2>3. i \in 1 .. Len(runs) /\ Len(runs) \in Nat /\ own \in 0 .. Len(runs)
    BY <2>2, RowsTyped DEF RunsInv, TypeOK
  <2>4. runs[i].st = rows[k].st
    BY <2>2 DEF RunsInv, FinalRows, Final
  <2>5. ~OfOwnWorkflow(i)
    <3>1. SUFFICES ASSUME own # 0, listed # 0, runs[i].job = OwnJob PROVE FALSE
      BY DEF OfOwnWorkflow
    <3>2. listed = Len(runs)
      BY <3>1 DEF RunsInv, Listing
    <3>3. HasWorkflow(k) /\ JobOf(k) = OwnJob
      BY <2>3, <3>1, <3>2, JobAssumption DEF HasWorkflow, JobOf
    <3>4. IsOwn(k)
      BY <2>3, <3>1, <3>2, <3>3 DEF IsOwn
    <3> QED
      BY <2>2, <3>4
  <2>6. ASSUME listed # 0, runs[i].job \notin Foreign, SupersededAmong(i, start.runs)
        PROVE  FALSE
    <3>1. listed = Len(runs)
      BY <2>6 DEF RunsInv, Listing
    <3>2. PICK j \in i + 1 .. start.runs : runs[j].job = runs[i].job
      BY <2>6 DEF SupersededAmong
    <3>3. start.runs \in 0 .. Len(runs)
      BY DEF RunsInv, TypeOK
    <3>4. j \in 1 .. start.runs /\ j > i /\ j <= Len(runs)
      BY <2>3, <3>2, <3>3
    <3>5. PICK m \in Checks : rows[m].id = j
      BY <2>1, <3>4 DEF RunsInv, Covered, Shown
    <3>6. /\ HasWorkflow(m) /\ HasWorkflow(k) /\ JobOf(m) = JobOf(k)
          /\ rows[m].id > rows[k].id /\ m # k
      BY <2>3, <2>6, <3>1, <3>2, <3>4, <3>5 DEF HasWorkflow, JobOf
    <3>7. m \in Newer(k)
      BY <3>5, <3>6 DEF Newer
    <3>8. rows[k].st = "cancelled"
      BY <2>4, <2>6 DEF SupersededAmong
    <3> QED
      BY <2>2, <3>7, <3>8 DEF IsSuperseded
  <2> QED
    BY <2>4, <2>5, <2>6
<1> QED
  BY <1>1, RunsInvariant, PTL

(* What the terminal program decides on has ended, but for its own Actions   *)
(* run; where it finds nothing to do, without a failure or for a newer run.  *)
THEOREM CheckRunsTerminalEnded == Spec => []TerminalJudgesWhatEnded
<1>1. RunsInv => TerminalJudgesWhatEnded
  <2> SUFFICES ASSUME RunsInv, current # {}, decision \in {"READY", "NO_ACTION"},
                      NEW i \in 1 .. start.runs \ current
               PROVE  /\ runs[i].st \in Final
                      /\ decision = "NO_ACTION" =>
                           \/ runs[i].st \in {"success", "startup_failure"}
                           \/ SupersededAmong(i, Len(runs))
    BY DEF TerminalJudgesWhatEnded
  <2>1. /\ pc = "done" /\ ~failed /\ own = 0
        /\ \A k \in External : rows[k].st \in Final
        /\ decision = "NO_ACTION" => Failures = {}
    BY DEF RunsInv, Decided, Judged, Awaited
  <2>2. start.runs \in 0 .. Len(runs) /\ Len(runs) \in Nat
    BY DEF RunsInv, TypeOK
  <2>3. PICK k \in Checks : rows[k].id = i
    BY <2>1, <2>2 DEF RunsInv, Covered, Shown
  <2>4. rows[k].st \in Final /\ runs[i].st = rows[k].st
    BY <2>1, <2>3 DEF External, RunsInv, FinalRows
  <2>5. ASSUME decision = "NO_ACTION", runs[i].st \in Failure
        PROVE  SupersededAmong(i, Len(runs))
    <3>1. IsSuperseded(k)
      BY <2>1, <2>4, <2>5 DEF Failures, Effective, IsOwn
    <3>2. PICK m \in Checks : JobOf(m) = JobOf(k) /\ rows[m].id > rows[k].id
      BY <3>1 DEF IsSuperseded, Newer
    <3>3. rows[m].id \in i + 1 .. Len(runs)
      BY <2>2, <2>3, <3>2, RowsTyped DEF RunsInv
    <3> QED
      BY <2>3, <2>4, <3>1, <3>2, <3>3 DEF IsSuperseded, SupersededAmong, JobOf
  <2> QED
    BY <2>4, <2>5 DEF Final
<1> QED
  BY <1>1, RunsInvariant, PTL
=============================================================================
