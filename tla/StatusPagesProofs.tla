--------------------------- MODULE StatusPagesProofs ---------------------------
(***************************************************************************)
(* Proofs about StatusPages, for every page size and any number of reports  *)
(* between two pages.                                                       *)
(*                                                                         *)
(* Two facts carry the argument.  A list that only grows at its front never *)
(* moves a row back over the offset, so what the pages have passed of the   *)
(* first list is in `rows' (Passed), and whatever is newer than a row of    *)
(* `rows' and was there at the start is in front of it (NewerFirst).  The   *)
(* loop then keeps the first row of every context (ScanInv).                *)
(***************************************************************************)
EXTENDS StatusPages, TLAPS

Read(j) == \E p \in 1 .. Len(rows) : rows[p] = j

Passed ==
  /\ offset = 0 => rows = <<>> /\ start = 0
  /\ pc = "read" => \A j \in 1 .. start : j + offset > Len(reports) => Read(j)
  /\ pc # "read" /\ errors = 0 => \A j \in 1 .. start : Read(j)

NewerFirst ==
  \A q \in 1 .. Len(rows) : \A j \in rows[q] + 1 .. start :
    \E p \in 1 .. q - 1 : rows[p] = j

First(i) ==
  \E q \in 1 .. next - 1 :
    /\ rows[q] = i
    /\ \A p \in 1 .. q - 1 : ~SameContext(rows[p], i)

KeptFor(k) == \E i \in taken : HasContext(i) /\ ContextKey(i) = k

ScanInv ==
  /\ pc = "read" => next = 1 /\ taken = {} /\ seen = {} /\ errors = 0
  /\ \A p \in 1 .. next - 1 : HasContext(rows[p]) => ContextKey(rows[p]) \in seen
  /\ \A i \in taken : HasContext(i) /\ ContextKey(i) \in seen /\ First(i)
  /\ errors = 0 => \A p \in 1 .. next - 1 : HasContext(rows[p])
  /\ errors = 0 => \A k \in seen : KeptFor(k)
  /\ pc = "done" => next > Len(rows)

-----------------------------------------------------------------------------
(* A page holds the ids of reports, newest first, without a gap.            *)
LEMMA PageShape ==
  ASSUME TypeOK
  PROVE  /\ PageLength \in 0 .. PageSize
         /\ Page \in Seq(1 .. Len(reports))
         /\ Len(Page) = PageLength
         /\ \A j \in 1 .. PageLength : Page[j] = Len(reports) - offset - j + 1
         /\ PageLength < PageSize => Len(reports) <= offset + PageLength
         /\ PageLength > 0 => offset + PageLength <= Len(reports)
BY PageAssumption DEF TypeOK, Page, PageLength, Remaining

(* The key of a row with a context.                                         *)
LEMMA KeyType ==
  ASSUME TypeOK, NEW i \in 1 .. Len(reports), HasContext(i)
  PROVE  ContextKey(i) \in Key
<1>1. reports[i] \in Report
  BY DEF TypeOK
<1>2. reports[i].context \in Spelling
  BY <1>1 DEF HasContext, Report
<1> QED
  BY <1>2, ContextAssumption DEF ContextKey

(* Every step keeps the variables in their types; the loop starts at the    *)
(* first row.                                                               *)
LoopStart == pc = "read" => next = 1
(* Every step keeps the types, and the scan starts at the first row.       *)
LEMMA TypeStep == TypeOK /\ LoopStart /\ [Next]_vars => TypeOK' /\ LoopStart'
<1> SUFFICES ASSUME TypeOK, LoopStart, [Next]_vars PROVE TypeOK' /\ LoopStart'
  OBVIOUS
<1> USE DEF TypeOK, LoopStart
<1>1. CASE PostStatus
  <2>1. PICK r \in Report : reports' = Append(reports, r)
    BY <1>1 DEF PostStatus
  <2>2. /\ reports' \in Seq(Report)
        /\ Len(reports') = Len(reports) + 1
    BY <2>1
  <2>3. rows \in Seq(1 .. Len(reports'))
    BY <2>2
  <2> QED
    BY <1>1, <2>2, <2>3 DEF PostStatus
<1>2. CASE ReadPage
  <2>1. rows' \in Seq(1 .. Len(reports))
    BY <1>2, PageShape DEF ReadPage
  <2>2. next \in 1 .. Len(rows') + 1
    BY <1>2, PageShape DEF ReadPage
  <2>3. offset' \in Nat
    BY <1>2, PageAssumption DEF ReadPage
  <2>4. start' \in 0 .. Len(reports)
    BY <1>2 DEF ReadPage
  <2> QED
    BY <1>2, <2>1, <2>2, <2>3, <2>4 DEF ReadPage
<1>3. CASE ReadFails
  BY <1>3 DEF ReadFails
<1>4. CASE MissingContext
  BY <1>4 DEF MissingContext, AtRow, Advance
<1>5. CASE SkipOlder
  BY <1>5 DEF SkipOlder, AtRow, Advance
<1>6. CASE Reject \/ Take
  <2>1. Row \in 1 .. Len(reports) /\ HasContext(Row)
    BY <1>6 DEF Reject, Take, AtRow, Row
  <2>2. ContextKey(Row) \in Key
    BY <2>1, KeyType
  <2>3. seen' \subseteq Key /\ taken' \subseteq 1 .. Len(reports)
    BY <1>6, <2>1, <2>2 DEF Reject, Take
  <2>4. errors' \in Nat /\ next' \in 1 .. Len(rows) + 1
    BY <1>6 DEF Reject, Take, AtRow, Advance
  <2> QED
    BY <1>6, <2>3, <2>4 DEF Reject, Take, AtRow, Advance
<1>7. CASE Finish
  BY <1>7 DEF Finish
<1>8. CASE UNCHANGED vars
  BY <1>8 DEF vars
<1> QED
  BY <1>1, <1>2, <1>3, <1>4, <1>5, <1>6, <1>7, <1>8 DEF Next

(* The types hold at the start.                                             *)
LEMMA TypeInit == Init => TypeOK /\ LoopStart
BY DEF Init, TypeOK, LoopStart

(* The ids read, kept and counted are those of reports, in every state.     *)
THEOREM StatusTypes == Spec => []TypeOK
BY TypeInit, TypeStep, PTL DEF Spec

-----------------------------------------------------------------------------
(* The statuses of one context form an equivalence over the ids of reports. *)
LEMMA SameContextKey ==
  ASSUME NEW i, NEW j
  PROVE  SameContext(i, j) <=>
           HasContext(i) /\ HasContext(j) /\ ContextKey(i) = ContextKey(j)
BY DEF SameContext, ContextKey

(* What is read stays read, page after page.                                *)
LEMMA PageAppended ==
  ASSUME TypeOK, ReadPage
  PROVE  /\ Len(rows') = Len(rows) + PageLength
         /\ \A p \in 1 .. Len(rows) : rows'[p] = rows[p]
         /\ \A k \in 1 .. PageLength :
              rows'[Len(rows) + k] = Len(reports) - offset - k + 1
<1>1. /\ rows \in Seq(1 .. Len(reports))
      /\ Page \in Seq(1 .. Len(reports))
      /\ Len(Page) = PageLength
      /\ PageLength \in Nat
      /\ \A j \in 1 .. PageLength : Page[j] = Len(reports) - offset - j + 1
  BY PageShape, PageAssumption DEF TypeOK
<1>2. rows' = rows \o Page
  BY DEF ReadPage
<1>3. Len(rows') = Len(rows) + PageLength
  <2>1. Len(rows \o Page) = Len(rows) + Len(Page)
    BY <1>1
  <2> QED
    BY <1>1, <1>2, <2>1
<1>4. ASSUME NEW p \in 1 .. Len(rows) PROVE rows'[p] = rows[p]
  BY <1>1, <1>2
<1>5. ASSUME NEW k \in 1 .. PageLength
      PROVE  rows'[Len(rows) + k] = Len(reports) - offset - k + 1
  <2>1. rows'[Len(rows) + k] = Page[k]
    BY <1>1, <1>2
  <2> QED
    BY <1>1, <2>1
<1> QED
  BY <1>3, <1>4, <1>5

(* The pages together pass over the first list without a gap.               *)
LEMMA PassedStep ==
  ASSUME TypeOK, LoopStart, Passed, [Next]_vars
  PROVE  Passed'
<1>1. CASE PostStatus
  <2>1. PICK r \in Report : reports' = Append(reports, r)
    BY <1>1 DEF PostStatus
  <2>2. Len(reports') = Len(reports) + 1
    BY <2>1 DEF TypeOK
  <2>3. UNCHANGED <<start, pc, offset, rows>> /\ pc = "read"
    BY <1>1 DEF PostStatus
  <2>4. ASSUME NEW j \in 1 .. start, j + offset > Len(reports')
        PROVE  Read(j)
    <3>1. j + offset > Len(reports)
      BY <2>2, <2>4 DEF TypeOK
    <3> QED
      BY <2>3, <3>1 DEF Passed
  <2> QED
    BY <2>3, <2>4 DEF Passed, Read
<1>2. CASE ReadPage
  <2> DEFINE n == Len(reports)
  <2>1. n \in Nat /\ offset \in Nat /\ rows \in Seq(1 .. n)
    BY DEF TypeOK
  <2>2. ASSUME NEW j \in 1 .. start', j + offset > n
        PROVE  Read(j)'
    <3>1. CASE offset = 0
      BY <1>2, <2>1, <2>2, <3>1 DEF ReadPage
    <3>2. CASE offset # 0
      <4>1. j \in 1 .. start
        BY <1>2, <3>2 DEF ReadPage
      <4>2. Read(j)
        BY <1>2, <2>2, <4>1 DEF ReadPage, Passed
      <4>3. PICK p \in 1 .. Len(rows) : rows[p] = j
        BY <4>2 DEF Read
      <4>4. p \in 1 .. Len(rows') /\ rows'[p] = j
        BY <1>2, <2>1, <4>3, PageAppended, PageShape, PageAssumption
      <4> QED
        BY <4>4 DEF Read
    <3> QED
      BY <3>1, <3>2
  <2>3. ASSUME NEW j \in 1 .. start', j + offset <= n, j + offset + PageLength > n
        PROVE  Read(j)'
    <3>1. j \in Nat
      BY <1>2, <2>1 DEF ReadPage, TypeOK
    <3> DEFINE k == n - offset - j + 1
    <3>2. k \in 1 .. PageLength
      BY <2>1, <2>3, <3>1, PageShape, PageAssumption
    <3>3. rows'[Len(rows) + k] = j
      BY <1>2, <2>1, <3>1, <3>2, PageAppended
    <3>4. Len(rows) + k \in 1 .. Len(rows')
      BY <1>2, <2>1, <3>2, PageAppended, PageShape, PageAssumption
    <3> QED
      BY <3>3, <3>4 DEF Read
  <2>4. ASSUME NEW j \in 1 .. start', j + offset + PageLength > n
        PROVE  Read(j)'
    <3>1. j \in Nat
      BY <1>2, <2>1 DEF ReadPage, TypeOK
    <3> QED
      BY <2>1, <2>2, <2>3, <2>4, <3>1
  <2>5. offset' = offset + PageSize /\ reports' = reports /\ offset' # 0
    BY <1>2, <2>1, PageAssumption DEF ReadPage
  <2>6. pc' = "read" => PageLength = PageSize
    BY <1>2, PageShape, PageAssumption DEF ReadPage
  <2>7. pc' # "read" => \A j \in 1 .. start' : j + offset + PageLength > n
    <3>1. SUFFICES ASSUME pc' # "read", NEW j \in 1 .. start'
                   PROVE  j + offset + PageLength > n
      OBVIOUS
    <3>2. PageLength < PageSize
      BY <1>2, <3>1 DEF ReadPage
    <3>3. n <= offset + PageLength
      BY <3>2, PageShape
    <3>4. j \in Nat \ {0}
      BY <1>2, <2>1 DEF ReadPage, TypeOK
    <3> QED
      BY <2>1, <3>3, <3>4, PageShape, PageAssumption
  <2>8. pc' = "read" => \A j \in 1 .. start' : j + offset' > Len(reports') => Read(j)'
    <3>1. SUFFICES ASSUME pc' = "read", NEW j \in 1 .. start',
                          j + (offset + PageSize) > n
                   PROVE  Read(j)'
      BY <2>5
    <3>2. j \in Nat
      BY <1>2, <2>1 DEF ReadPage, TypeOK
    <3>3. j + offset + PageLength > n
      BY <2>1, <2>6, <3>1, <3>2, PageAssumption
    <3> QED
      BY <2>4, <3>3
  <2>9. pc' # "read" => \A j \in 1 .. start' : Read(j)'
    BY <2>4, <2>7
  <2> QED
    BY <2>5, <2>8, <2>9 DEF Passed
<1>3. CASE ReadFails
  BY <1>3 DEF ReadFails, Passed, TypeOK
<1>4. CASE MissingContext
  BY <1>4 DEF MissingContext, AtRow, Advance, Passed, Read, TypeOK
<1>5. CASE SkipOlder
  BY <1>5 DEF SkipOlder, AtRow, Advance, Passed, Read
<1>6. CASE Reject
  BY <1>6 DEF Reject, AtRow, Advance, Passed, Read, TypeOK
<1>7. CASE Take
  BY <1>7 DEF Take, AtRow, Advance, Passed, Read
<1>8. CASE Finish
  BY <1>8 DEF Finish, Passed, Read
<1>9. CASE UNCHANGED vars
  BY <1>9 DEF vars, Passed, Read
<1> QED
  BY <1>1, <1>2, <1>3, <1>4, <1>5, <1>6, <1>7, <1>8, <1>9 DEF Next

(* What was newer than a row when the read began is in front of it.         *)
LEMMA NewerFirstStep ==
  ASSUME TypeOK, LoopStart, Passed, NewerFirst, [Next]_vars
  PROVE  NewerFirst'
<1>1. CASE ReadPage
  <2> DEFINE n == Len(reports)
  <2>1. n \in Nat /\ offset \in Nat /\ rows \in Seq(1 .. n)
    BY DEF TypeOK
  <2>2. SUFFICES ASSUME NEW q \in 1 .. Len(rows'), NEW j \in rows'[q] + 1 .. start'
                 PROVE  \E p \in 1 .. q - 1 : rows'[p] = j
    BY DEF NewerFirst
  <2>3. CASE q <= Len(rows)
    <3>1. rows # <<>> /\ offset # 0
      BY <2>1, <2>3 DEF Passed
    <3>2. rows'[q] = rows[q] /\ start' = start
      BY <1>1, <2>1, <2>3, <3>1, PageAppended DEF ReadPage
    <3>3. PICK p \in 1 .. q - 1 : rows[p] = j
      BY <2>1, <2>3, <3>2 DEF NewerFirst
    <3>4. p \in 1 .. Len(rows)
      BY <2>1, <2>3
    <3>5. rows'[p] = j
      BY <1>1, <3>3, <3>4, PageAppended
    <3> QED
      BY <3>5
  <2>4. CASE q > Len(rows)
    <3> DEFINE k == q - Len(rows)
    <3>1. k \in 1 .. PageLength /\ rows'[q] = n - offset - k + 1
      <4>1. k \in 1 .. PageLength /\ q = Len(rows) + k
        BY <1>1, <2>1, <2>4, PageAppended, PageShape, PageAssumption
      <4> QED
        BY <1>1, <4>1, PageAppended
    <3>2. rows'[q] \in Nat /\ j \in Nat /\ j > rows'[q] /\ start' \in Nat /\ j <= start'
      <4>1. start' \in Nat
        BY <1>1, <2>1 DEF ReadPage, TypeOK
      <4>2. rows'[q] \in Nat
        BY <2>1, <3>1, PageShape, PageAssumption
      <4> QED
        BY <4>1, <4>2
    <3>3. CASE j + offset <= n
      <4> DEFINE m == n - offset - j + 1
      <4>1. m \in 1 .. k - 1
        BY <2>1, <3>1, <3>2, <3>3, PageShape, PageAssumption
      <4>2. rows'[Len(rows) + m] = j
        <5>1. m \in 1 .. PageLength
          BY <2>1, <3>1, <4>1, PageShape, PageAssumption
        <5>2. rows'[Len(rows) + m] = n - offset - m + 1
          BY <1>1, <5>1, PageAppended
        <5> QED
          BY <2>1, <3>2, <5>2
      <4>3. Len(rows) + m \in 1 .. q - 1
        BY <2>1, <4>1, <3>1
      <4> QED
        BY <4>2, <4>3
    <3>4. CASE j + offset > n
      <4>1. offset # 0
        BY <1>1, <2>1, <3>2, <3>4 DEF ReadPage
      <4>2. start' = start
        BY <1>1, <4>1 DEF ReadPage
      <4>3. Read(j)
        BY <1>1, <3>2, <3>4, <4>2 DEF ReadPage, Passed
      <4>4. PICK p \in 1 .. Len(rows) : rows[p] = j
        BY <4>3 DEF Read
      <4> QED
        BY <1>1, <2>1, <2>4, <4>4, PageAppended
    <3> QED
      BY <2>1, <3>2, <3>3, <3>4
  <2> QED
    BY <2>1, <2>3, <2>4, <1>1, PageAppended, PageShape, PageAssumption
<1>2. CASE ReadFails
  BY <1>2 DEF ReadFails, NewerFirst
<1>3. CASE PostStatus \/ MissingContext \/ SkipOlder \/ Reject \/ Take \/ Finish \/ UNCHANGED vars
  <2>1. rows' = rows /\ start' = start
    BY <1>3 DEF PostStatus, MissingContext, SkipOlder, Reject, Take, Advance, Finish, vars
  <2> QED
    BY <2>1 DEF NewerFirst
<1> QED
  BY <1>1, <1>2, <1>3 DEF Next

-----------------------------------------------------------------------------
(* Between the pages no row has been looked at; in the loop a step over the  *)
(* row `next' marks its context, and keeps it only as the first one.         *)
LEMMA ScanStep ==
  ASSUME TypeOK, ScanInv, [Next]_vars
  PROVE  ScanInv'
<1>1. CASE PostStatus \/ ReadPage
  <2>1. /\ next = 1 /\ taken = {} /\ seen = {} /\ errors = 0
        /\ UNCHANGED <<next, taken, seen, errors>>
        /\ pc' # "done"
    BY <1>1 DEF ScanInv, PostStatus, ReadPage
  <2> QED
    BY <2>1 DEF ScanInv
<1>2. CASE ReadFails
  <2>1. /\ next = 1 /\ taken = {} /\ seen = {} /\ errors' = 1
        /\ UNCHANGED <<next, taken, seen>>
        /\ pc' = "scan"
    BY <1>2 DEF ScanInv, ReadFails
  <2> QED
    BY <2>1 DEF ScanInv
<1>3. CASE MissingContext \/ SkipOlder \/ Reject \/ Take
  <2>1. /\ next \in Nat \ {0} /\ next' = next + 1
        /\ UNCHANGED <<reports, start, pc, offset, rows>>
        /\ pc = "scan" /\ next <= Len(rows)
        /\ seen \subseteq seen' /\ taken \subseteq taken'
    BY <1>3 DEF MissingContext, SkipOlder, Reject, Take, AtRow, Advance, TypeOK
  <2>2. HasContext(rows[next]) => ContextKey(rows[next]) \in seen'
    BY <1>3 DEF MissingContext, SkipOlder, Reject, Take, Row
  <2>3. \A p \in 1 .. next : HasContext(rows[p]) => ContextKey(rows[p]) \in seen'
    BY <2>1, <2>2 DEF ScanInv
  <2>4. ASSUME NEW i \in taken'
        PROVE  HasContext(i) /\ ContextKey(i) \in seen' /\ First(i)'
    <3>1. CASE i \in taken
      <4>1. HasContext(i) /\ ContextKey(i) \in seen /\ First(i)
        BY <3>1 DEF ScanInv
      <4>2. First(i)'
        BY <2>1, <4>1 DEF First, SameContext, HasContext
      <4> QED
        BY <2>1, <4>1, <4>2
    <3>2. CASE i \notin taken
      <4>1. /\ i = rows[next] /\ HasContext(i)
            /\ ContextKey(i) \notin seen /\ ContextKey(i) \in seen'
        BY <1>3, <3>2 DEF MissingContext, SkipOlder, Reject, Take, Row
      <4>2. ASSUME NEW p \in 1 .. next - 1 PROVE ~SameContext(rows[p], i)
        BY <4>1, SameContextKey DEF ScanInv
      <4>3. First(i)'
        BY <2>1, <4>1, <4>2 DEF First, SameContext, HasContext
      <4> QED
        BY <4>1, <4>3
    <3> QED
      BY <3>1, <3>2
  <2>5. ASSUME errors' = 0
        PROVE  /\ errors = 0
               /\ HasContext(rows[next])
               /\ \A k \in seen' : \E i \in taken' : HasContext(i) /\ ContextKey(i) = k
    <3>1. errors = 0 /\ (SkipOlder \/ Take)
      BY <1>3, <2>5 DEF MissingContext, Reject, SkipOlder, Take, TypeOK
    <3>2. \A k \in seen : KeptFor(k)
      BY <3>1 DEF ScanInv
    <3>3. HasContext(rows[next])
      BY <3>1 DEF SkipOlder, Take, Row
    <3>4. CASE SkipOlder
      BY <3>1, <3>2, <3>3, <3>4 DEF SkipOlder, KeptFor
    <3>5. CASE Take
      BY <3>1, <3>2, <3>3, <3>5 DEF Take, Row, KeptFor
    <3> QED
      BY <3>1, <3>4, <3>5
  <2>6. errors' = 0 => \A p \in 1 .. next : HasContext(rows[p])
    BY <2>1, <2>5 DEF ScanInv
  <2>7. next' - 1 = next
    BY <2>1
  <2>8. /\ \A p \in 1 .. next' - 1 : HasContext(rows[p])' => ContextKey(rows[p])' \in seen'
        /\ errors' = 0 => \A p \in 1 .. next' - 1 : HasContext(rows[p])'
        /\ \A i \in taken' : HasContext(i)' /\ ContextKey(i)' \in seen'
        /\ errors' = 0 => \A k \in seen' : KeptFor(k)'
    BY <2>1, <2>3, <2>4, <2>5, <2>6, <2>7 DEF HasContext, ContextKey, KeptFor
  <2> QED
    BY <2>1, <2>4, <2>8 DEF ScanInv
<1>4. CASE Finish
  BY <1>4 DEF Finish, AtRow, ScanInv, First, KeptFor, SameContext, HasContext, ContextKey, TypeOK
<1>5. CASE UNCHANGED vars
  BY <1>5 DEF vars, ScanInv, First, KeptFor, SameContext, HasContext, ContextKey
<1> QED
  BY <1>1, <1>2, <1>3, <1>4, <1>5 DEF Next

-----------------------------------------------------------------------------
StatusInv == TypeOK /\ LoopStart /\ Passed /\ NewerFirst /\ ScanInv

(* The strengthening of the three properties is inductive.                  *)
THEOREM StatusInvariant == Spec => []StatusInv
<1>1. Init => StatusInv
  <2> SUFFICES ASSUME Init PROVE StatusInv
    OBVIOUS
  <2>1. TypeOK /\ LoopStart
    BY TypeInit
  <2>2. Passed /\ NewerFirst
    BY DEF Init, Passed, NewerFirst
  <2>3. ScanInv
    BY DEF Init, ScanInv
  <2> QED
    BY <2>1, <2>2, <2>3 DEF StatusInv
<1>2. StatusInv /\ [Next]_vars => StatusInv'
  BY TypeStep, PassedStep, NewerFirstStep, ScanStep DEF StatusInv
<1> QED
  BY <1>1, <1>2, PTL DEF Spec

(* A status kept is never older than one its context had when the read      *)
(* began, however the list shifts between two pages.                        *)
THEOREM StatusNeverOutdated == Spec => []NeverOutdated
<1>1. StatusInv => NeverOutdated
  <2> SUFFICES ASSUME StatusInv, NEW i \in taken, NEW j \in i + 1 .. start
               PROVE  ~SameContext(i, j)
    BY DEF NeverOutdated
  <2>1. PICK q \in 1 .. next - 1 :
          rows[q] = i /\ \A p \in 1 .. q - 1 : ~SameContext(rows[p], i)
    BY DEF StatusInv, ScanInv, First
  <2>2. q \in 1 .. Len(rows)
    BY DEF StatusInv, TypeOK
  <2>3. PICK p \in 1 .. q - 1 : rows[p] = j
    BY <2>1, <2>2 DEF StatusInv, NewerFirst
  <2> QED
    BY <2>1, <2>3, SameContextKey
<1> QED
  BY <1>1, StatusInvariant, PTL

(* The pages may repeat a row, the checks never repeat a context.           *)
THEOREM StatusOnePerContext == Spec => []OnePerContext
<1>1. StatusInv => OnePerContext
  <2> SUFFICES ASSUME StatusInv, NEW i \in taken, NEW j \in taken, SameContext(i, j)
               PROVE  i = j
    BY DEF OnePerContext
  <2>1. PICK q \in 1 .. next - 1 :
          rows[q] = i /\ \A p \in 1 .. q - 1 : ~SameContext(rows[p], i)
    BY DEF StatusInv, ScanInv, First
  <2>2. PICK r \in 1 .. next - 1 :
          rows[r] = j /\ \A p \in 1 .. r - 1 : ~SameContext(rows[p], j)
    BY DEF StatusInv, ScanInv, First
  <2>3. SameContext(j, i)
    BY SameContextKey
  <2>4. ~(q < r) /\ ~(r < q)
    BY <2>1, <2>2, <2>3 DEF StatusInv, TypeOK
  <2>5. q = r
    BY <2>4 DEF StatusInv, TypeOK
  <2> QED
    BY <2>1, <2>2, <2>5
<1> QED
  BY <1>1, StatusInvariant, PTL

(* A read without an error is complete: no context that had been reported   *)
(* when it began is missing.                                                *)
THEOREM StatusNoContextLost == Spec => []NoContextLost
<1>1. StatusInv => NoContextLost
  <2> SUFFICES ASSUME StatusInv, pc = "done", errors = 0, NEW j \in 1 .. start
               PROVE  \E i \in taken : SameContext(i, j)
    BY DEF NoContextLost
  <2>1. PICK p \in 1 .. Len(rows) : rows[p] = j
    BY DEF StatusInv, Passed, Read
  <2>2. p \in 1 .. next - 1
    BY <2>1 DEF StatusInv, ScanInv, TypeOK
  <2>3. HasContext(j) /\ ContextKey(j) \in seen
    BY <2>1, <2>2 DEF StatusInv, ScanInv
  <2>4. PICK i \in taken : HasContext(i) /\ ContextKey(i) = ContextKey(j)
    BY <2>3 DEF StatusInv, ScanInv, KeptFor
  <2> QED
    BY <2>3, <2>4, SameContextKey
<1> QED
  BY <1>1, StatusInvariant, PTL
=============================================================================
