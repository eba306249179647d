---------------------------- MODULE ReadinessProofs ----------------------------
(***************************************************************************)
(* Proofs about Readiness for batches of any size and any snapshots: what    *)
(* is reported as ready, and that the verifier comes to the same findings    *)
(* as the builder.                                                         *)
(***************************************************************************)
EXTENDS Readiness, TLAPS

-----------------------------------------------------------------------------
(***************************************************************************)
(* One pull request.                                                       *)
(***************************************************************************)

(* A coerced snapshot is one that may be observed.                          *)
LEMMA CoerceType ==
  ASSUME NEW s \in Observed
  PROVE  Coerce(s) \in Observed
<1>1. CASE ~s.mapping
  BY <1>1 DEF Coerce
<1>2. CASE s.mapping
  <2> DEFINE declared == [side \in Sides |->
                            IF s.declared[side] = None THEN s.legacy[side] ELSE s.declared[side]]
             main == IF s.main \in Missing THEN s.base ELSE s.main
  <2>1. declared \in Declared /\ main \in Shas
    BY DEF Observed, Declared
  <2>2. Coerce(s) = [s EXCEPT !.mapping = FALSE, !.main = main, !.declared = declared]
    BY <1>2 DEF Coerce, Observed
  <2> HIDE DEF declared, main
  <2> QED
    BY <2>1, <2>2 DEF Observed
<1> QED
  BY <1>1, <1>2 DEF Observed

LEMMA CoerceFields ==
  ASSUME NEW s \in Observed
  PROVE  LET c == Coerce(s) IN
           /\ c.main = IF s.main \in Missing /\ s.mapping THEN s.base ELSE s.main
           /\ \A side \in Sides :
                DeclaredOf(c)[side] = IF s.mapping /\ s.declared[side] = None
                                      THEN s.legacy[side] ELSE s.declared[side]
           /\ c.repository = s.repository /\ c.number = s.number
           /\ c.base = s.base /\ c.head = s.head
           /\ c.mergeBase = s.mergeBase /\ c.draft = s.draft
           /\ c.mergeable = s.mergeable /\ c.hold = s.hold
           /\ c.labels = s.labels /\ c.complete = s.complete
           /\ c.errors = s.errors
BY DEF Coerce, DeclaredOf, Observed

(* Each finding of a snapshot, one by one.                                  *)
LEMMA FindingsAre ==
  ASSUME NEW s \in Observed
  PROVE  /\ "STALE_BASE" \in Findings(s) <=> s.base # s.main
         /\ "NO_UNIQUE_MERGE_BASE" \in Findings(s) <=> s.mergeBase = "NONE"
         /\ "MERGE_BASE_UNKNOWN" \in Findings(s)
              <=> s.base # s.main /\ s.mergeBase = "UNKNOWN"
         /\ "STALE_EVIDENCE" \in Findings(s) <=> StaleEvidence(s)
         /\ "DRAFT" \in Findings(s) <=> s.draft
         /\ "NON_MERGEABLE" \in Findings(s) <=> s.mergeable = "no"
         /\ "MERGEABLE_UNKNOWN" \in Findings(s) <=> s.mergeable = "unknown"
         /\ "DO_NOT_MERGE" \in Findings(s) <=> s.hold # {}
         /\ "STALE_LONG_LIVED" \in Findings(s) <=> s.labels \cap StaleLabel # {}
         /\ "COLLECTION_INCOMPLETE" \in Findings(s) <=> ~s.complete
         /\ "INVALID_IDENTITY" \in Findings(s) <=> IdentityGaps(s) # {}
         /\ "PATH_OVERLAP" \notin Findings(s)
         /\ "SAME_ISSUE_CHAIN" \notin Findings(s)
         /\ Findings(s) \subseteq Finding
BY DEF Findings, Finding

LEMMA DispositionType ==
  ASSUME NEW gaps, NEW found
  PROVE  BaseDisposition(gaps, found) \in Disposition \ {"WAIT_REBIND"}
BY DEF BaseDisposition, DispositionOf, Disposition

LEMMA IdentityType ==
  ASSUME NEW s \in Observed
  PROVE  Identity(s) \in Identities
<1>1. StaleBase(s) \in BOOLEAN /\ StaleEvidence(s) \in BOOLEAN
  BY DEF StaleBase, StaleEvidence, Contradicted
<1>2. IdentityGaps(s) \in SUBSET IdentityGap
  BY DEF IdentityGaps
<1>3. s.number \in Nat
  BY BatchAssumption DEF Observed
<1>4. /\ TextOf(s.base) \in Sha \cup {""} /\ TextOf(s.head) \in Sha \cup {""}
      /\ TextOf(s.main) \in Sha \cup {""}
      /\ (IF s.repository = None THEN "None" ELSE s.repository) \in Repository \cup {"", "None"}
  BY DEF TextOf, Observed, Shas, Missing
<1>5. DeclaredOf(s) \in Declared
  BY DEF DeclaredOf, Observed, Declared
<1>6. (s.mergeBase = "NONE") \in BOOLEAN
  OBVIOUS
<1> QED
  BY <1>1, <1>2, <1>3, <1>4, <1>5, <1>6 DEF Identity, Identities

(* What a classification has in each field.                                 *)
LEMMA ClassifyFields ==
  ASSUME NEW s
  PROVE  /\ Classify(s).identity = Identity(s)
         /\ Classify(s).findings = Findings(s)
         /\ Classify(s).disposition = BaseDisposition(IdentityGaps(s), Findings(s))
         /\ Classify(s).gaps = Gaps(s)
         /\ Classify(s).completeness =
              IF IdentityGaps(s) # {} \/ ~s.complete THEN "INCOMPLETE"
              ELSE IF s.errors # {} \/ s.mergeable = "unknown" THEN "PARTIAL"
              ELSE "COMPLETE"
         /\ Identity(s).number = s.number
         /\ Identity(s).gaps = IdentityGaps(s)
BY DEF Classify, Identity

LEMMA ClassifyType ==
  ASSUME NEW s \in Observed
  PROVE  Classify(s) \in Items
<1>1. BaseDisposition(IdentityGaps(s), Findings(s)) \in Disposition
  BY DispositionType
<1>2. Gaps(s) \in SUBSET Gap
  BY DEF Gaps, Gap, IdentityGaps, Observed
<1>3. Findings(s) \in SUBSET Finding
  BY FindingsAre
<1>4. (IF IdentityGaps(s) # {} \/ ~s.complete THEN "INCOMPLETE"
       ELSE IF s.errors # {} \/ s.mergeable = "unknown" THEN "PARTIAL"
       ELSE "COMPLETE") \in Completeness
  BY DEF Completeness
<1>5. [n \in Number |-> {}] \in [Number -> SUBSET File]
  OBVIOUS
<1> QED
  BY IdentityType, <1>1, <1>2, <1>3, <1>4, <1>5 DEF Classify, Items

-----------------------------------------------------------------------------
(***************************************************************************)
(* The batch.  Together is what the comparison leaves of an item, said of    *)
(* the snapshots alone.                                                     *)
(***************************************************************************)
Shared(i, j) == IF i = j THEN {} ELSE batch[i].files \cap batch[j].files
Chained(i, j) == i # j /\ batch[i].issues \cap batch[j].issues # {}
Conflict(i, j) == Shared(i, j) # {} \/ Chained(i, j)

(* They are what detect compares.                                           *)
LEMMA DetectionOf ==
  ASSUME NEW i \in Item, NEW j \in Item
  PROVE  /\ D!Shared(i, j) = Shared(i, j)
         /\ D!Chained(i, j) <=> Chained(i, j)
         /\ D!Conflict(i, j) <=> Conflict(i, j)
BY DEF D!Shared, D!Chained, D!Conflict, Shared, Chained, Conflict

Seen(i) == Coerce(batch[i])
Free(i) == BaseDisposition(IdentityGaps(Seen(i)), Findings(Seen(i))) = "REVIEW_READY"
Common(i) ==
  {f \in {"PATH_OVERLAP", "SAME_ISSUE_CHAIN"} :
     \/ f = "PATH_OVERLAP" /\ \E j \in Item : Shared(i, j) # {}
     \/ f = "SAME_ISSUE_CHAIN" /\ \E j \in Item : Chained(i, j)}
Held(i) == Free(i) /\ \E j \in Item : Free(j) /\ Conflict(i, j)
Graph(i) ==
  [n \in Number |->
     UNION {Shared(i, j) : j \in
       {k \in {m \in Item : batch[m].number = n /\ Shared(i, m) # {}} :
          \A l \in {m \in Item : batch[m].number = n /\ Shared(i, m) # {}} : l <= k}}]

Together(i, item) ==
  /\ item.identity = Identity(Seen(i))
  /\ item.findings = Findings(Seen(i)) \cup Common(i)
  /\ item.disposition =
       IF Held(i) THEN "WAIT_REBIND"
       ELSE BaseDisposition(IdentityGaps(Seen(i)), Findings(Seen(i)))
  /\ item.overlaps = Graph(i)
  /\ item.completeness = Classify(Seen(i)).completeness
  /\ item.gaps = Gaps(Seen(i))

ItemsInv ==
  /\ pc = "classify" => \A i \in Item : i < at => items[i] = Classify(Seen(i))
  /\ pc # "classify" => \A i \in Item : Together(i, items[i])
  /\ pc \in {"classify", "build"} => form = "object"
  /\ pc \in {"verify", "done"} =>
       report \in Builds(items) /\ digest = Digest(report, "object")
  /\ pc = "done" => accepted = (digest = Digest(report, form) /\ Accepts(report))

LEMMA SeenType ==
  ASSUME TypeOK, NEW i \in Item
  PROVE  batch[i] \in Observed /\ Seen(i) \in Observed
BY CoerceType, BatchAssumption DEF TypeOK, Seen

(* The comparison keeps the types, whatever the items are.                  *)
LEMMA ComparedType ==
  ASSUME TypeOK, NEW i \in Item
  PROVE  Compared(i) \in Items
<1> DEFINE found == items[i].findings \cup D!Findings(i)
           disposition == D!Disposition(i)
<1>1. items[i] \in Items
  BY DEF TypeOK
<1>2. found \in SUBSET Finding
  <2>1. D!Findings(i) \subseteq {"PATH_OVERLAP", "SAME_ISSUE_CHAIN"}
    BY DEF D!Findings
  <2> QED
    BY <1>1, <2>1 DEF Items, Finding
<1>3. disposition \in Disposition
  <2>1. disposition \in {"WAIT_REBIND", items[i].disposition}
    BY DEF D!Disposition
  <2> QED
    BY <1>1, <2>1 DEF Items, Disposition
<1>4. D!Overlaps(i) \in [Number -> SUBSET File]
  <2>1. \A j \in Item : D!Shared(i, j) \in SUBSET File
    <3>1. ASSUME NEW j \in Item PROVE Shared(i, j) \in SUBSET File
      BY SeenType DEF Shared, Observed
    <3> QED
      BY <3>1, DetectionOf
  <2>2. ASSUME NEW set \in SUBSET Item
        PROVE  UNION {D!Shared(i, j) : j \in D!Last(set)} \in SUBSET File
    <3>1. \A j \in D!Last(set) : j \in Item
      BY DEF D!Last
    <3> QED
      BY <2>1, <3>1
  <2> DEFINE others(n) ==
        {k \in Item : [j \in Item |-> items[j].identity.number][k] = n /\ D!Shared(i, k) # {}}
  <2>3. \A n \in Number : others(n) \in SUBSET Item
    OBVIOUS
  <2>4. D!Overlaps(i) = [n \in Number |-> UNION {D!Shared(i, j) : j \in D!Last(others(n))}]
    BY DEF D!Overlaps
  <2> HIDE DEF others
  <2> QED
    BY <2>2, <2>3, <2>4
<1>5. Compared(i) = [items[i] EXCEPT !.overlaps = D!Overlaps(i), !.findings = found,
                                     !.disposition = disposition]
  BY DEF Compared
<1> HIDE DEF found, disposition
<1> QED
  BY <1>1, <1>2, <1>3, <1>4, <1>5 DEF Items

(* The comparison of items that were classified.                            *)
LEMMA ComparedIs ==
  ASSUME TypeOK, \A i \in Item : items[i] = Classify(Seen(i)), NEW i \in Item
  PROVE  Together(i, Compared(i))
<1>1. \A j \in Item : items[j].identity.number = batch[j].number
  <2> SUFFICES ASSUME NEW j \in Item PROVE items[j].identity.number = batch[j].number
    OBVIOUS
  <2>1. items[j].identity.number = Seen(j).number
    <3>1. items[j].identity = Identity(Seen(j))
      BY ClassifyFields
    <3> QED
      BY <3>1, ClassifyFields
  <2>2. Seen(j).number = batch[j].number
    BY SeenType, CoerceFields DEF Seen
  <2> QED
    BY <2>1, <2>2
<1>2. \A j \in Item : D!Eligible(j) <=> Free(j)
  BY ClassifyFields DEF D!Eligible, Free
<1>3. D!Overlaps(i) = Graph(i)
  <2> DEFINE found(n) == {k \in Item :
                            [j \in Item |-> items[j].identity.number][k] = n /\ D!Shared(i, k) # {}}
             others(n) == {m \in Item : batch[m].number = n /\ Shared(i, m) # {}}
  <2>1. ASSUME NEW n \in Number
        PROVE  UNION {D!Shared(i, j) : j \in D!Last(found(n))}
                 = UNION {Shared(i, j) : j \in {k \in others(n) : \A l \in others(n) : l <= k}}
    <3>1. found(n) = others(n)
      BY <1>1, DetectionOf
    <3>2. others(n) \subseteq Item
      OBVIOUS
    <3> HIDE DEF found, others
    <3> QED
      BY <3>1, <3>2, DetectionOf DEF D!Last
  <2>2. D!Overlaps(i) = [n \in Number |-> UNION {D!Shared(i, j) : j \in D!Last(found(n))}]
    BY DEF D!Overlaps
  <2>3. Graph(i) = [n \in Number |->
                      UNION {Shared(i, j) : j \in {k \in others(n) : \A l \in others(n) : l <= k}}]
    BY DEF Graph
  <2> HIDE DEF found, others
  <2> QED
    BY <2>1, <2>2, <2>3
<1>4. D!Waits(i) <=> Held(i)
  BY <1>2, DetectionOf DEF D!Waits, Held
<1>5. items[i] = Classify(Seen(i)) /\ items[i] \in Items
  BY DEF TypeOK
<1>6. Compared(i) =
        [items[i] EXCEPT !.overlaps = Graph(i),
                         !.findings = items[i].findings \cup Common(i),
                         !.disposition = IF Held(i) THEN "WAIT_REBIND"
                                         ELSE items[i].disposition]
  <2>1. D!Findings(i) = Common(i)
    BY DetectionOf DEF D!Findings, Common
  <2>2. D!Disposition(i) = IF Held(i) THEN "WAIT_REBIND" ELSE items[i].disposition
    BY <1>4 DEF D!Disposition
  <2> QED
    BY <1>3, <2>1, <2>2 DEF Compared
<1>7. /\ Compared(i).identity = items[i].identity
      /\ Compared(i).overlaps = Graph(i)
      /\ Compared(i).findings = items[i].findings \cup Common(i)
      /\ Compared(i).disposition = IF Held(i) THEN "WAIT_REBIND" ELSE items[i].disposition
      /\ Compared(i).completeness = items[i].completeness
      /\ Compared(i).gaps = items[i].gaps
  <2> HIDE DEF Graph, Common, Held
  <2> QED
    BY <1>5, <1>6 DEF Items
<1>8. Together(i, Compared(i))
  BY <1>5, <1>7, ClassifyFields DEF Together
<1> QED
  BY <1>8

(* A report is one, whichever names it takes.                               *)
LEMMA BuildType ==
  ASSUME TypeOK, NEW r \in Builds(items)
  PROVE  r \in Reports
<1>1. \A i \in Item : items[i] \in Items /\ items[i].identity \in Identities
  BY DEF TypeOK, Items
<1>2. Named(Repositories) \subseteq Repository \cup {""} /\ Named(Mains) \subseteq Sha \cup {""}
  <2>1. \A i \in Item : Seen(i).repository \in Repository \cup Missing /\ Seen(i).main \in Shas
    BY SeenType DEF Observed
  <2>2. Repositories \subseteq Repository /\ Mains \subseteq Sha
    BY <2>1 DEF Repositories, Mains, Present, Seen, Shas
  <2> QED
    BY <2>2 DEF Named
<1>3. Mixed(Repositories, Mains) \in SUBSET {"repository", "current main"}
  BY DEF Mixed
<1>4. TopCompleteness(Mixed(Repositories, Mains), items) \in Completeness
  BY DEF TopCompleteness, Completeness
<1>5. \A i \in Item : Reported(items[i]) \in Items
  <2> SUFFICES ASSUME NEW i \in Item PROVE Reported(items[i]) \in Items
    OBVIOUS
  <2>1. Ready(Valid(items[i]), items[i].disposition, items[i].completeness) \in BOOLEAN
    BY DEF Ready, Valid
  <2> QED
    BY <1>1, <2>1 DEF Reported, Items
<1>6. [i \in Item |-> Reported(items[i])] \in [Item -> Items]
  BY <1>5
<1>7. r.items = [i \in Item |-> Reported(items[i])]
  BY DEF Builds
<1> QED
  BY <1>2, <1>3, <1>4, <1>6, <1>7 DEF Builds, Reports

LEMMA DigestType ==
  ASSUME NEW r \in Reports, NEW f
  PROVE  Digest(r, f) \in Digests
<1>1. \A i \in Item : Ascending(r.items[i].overlaps, f) \in SUBSET (Number \X Number)
  BY DEF Ascending
<1> QED
  BY <1>1 DEF Digest, Digests

(* Every variable keeps its type.                                            *)
THEOREM ReadinessTypes == Spec => []TypeOK
<1>1. Init => TypeOK
  <2>1. Nothing \in Declared
    BY DEF Nothing, Declared, Shas, Missing
  <2>2. NoIdentity \in Identities
    BY <2>1 DEF NoIdentity, Identities
  <2>3. NoItem \in Items
    BY <2>2 DEF NoItem, Items, Disposition, Completeness
  <2> QED
    <3>1. 1 \in 1 .. N + 1
      <4>1. N \in Nat
        BY BatchAssumption
      <4> QED
        BY <4>1
    <3>2. [i \in Item |-> NoItem] \in [Item -> Items]
      BY <2>3
    <3> QED
      BY <3>1, <3>2 DEF Init, TypeOK
<1>2. TypeOK /\ [Next]_vars => TypeOK'
  <2> SUFFICES ASSUME TypeOK, [Next]_vars PROVE TypeOK'
    OBVIOUS
  <2>1. CASE ClassifyItem
    <3>1. at \in Item /\ at + 1 \in 1 .. N + 1
      <4>1. at \in 1 .. N + 1 /\ at <= N /\ N \in Nat
        BY <2>1, BatchAssumption DEF ClassifyItem, TypeOK
      <4> QED
        BY <4>1 DEF Item
    <3>2. Classify(Coerce(batch[at])) \in Items
      BY <3>1, SeenType, ClassifyType DEF Seen
    <3> QED
      BY <2>1, <3>1, <3>2 DEF ClassifyItem, TypeOK
  <2>2. CASE Detect
    <3>1. [i \in Item |-> Compared(i)] \in [Item -> Items]
      BY ComparedType
    <3> QED
      BY <2>2, <3>1 DEF Detect, TypeOK
  <2>3. CASE Build
    <3>1. report' \in Reports
      BY <2>3, BuildType DEF Build
    <3>2. digest' \in Digests
      BY <2>3, <3>1, DigestType DEF Build
    <3> QED
      BY <2>3, <3>1, <3>2 DEF Build, TypeOK
  <2>4. CASE ReadBack
    BY <2>4 DEF ReadBack, TypeOK
  <2>5. CASE Verify
    <3>1. accepted' \in BOOLEAN
      <4> DEFINE said == digest = Digest(report, form) /\ Accepts(report)
      <4>1. said \in BOOLEAN
        OBVIOUS
      <4>2. accepted' = said
        BY <2>5 DEF Verify
      <4> QED
        BY <4>1, <4>2
    <3> QED
      BY <2>5, <3>1 DEF Verify, TypeOK
  <2>6. CASE UNCHANGED vars
    BY <2>6 DEF vars, TypeOK
  <2> QED
    BY <2>1, <2>2, <2>3, <2>4, <2>5, <2>6 DEF Next
<1> QED
  BY <1>1, <1>2, PTL DEF Spec

(* The items are always what the snapshots alone make of them.               *)
THEOREM ItemsInvariant == Spec => []ItemsInv
<1>1. Init => ItemsInv
  <2>1. ASSUME Init, NEW i \in Item, i < at PROVE FALSE
    BY <2>1 DEF Init, Item
  <2> QED
    BY <2>1 DEF Init, ItemsInv
<1>2. TypeOK /\ ItemsInv /\ [Next]_vars => ItemsInv'
  <2> SUFFICES ASSUME TypeOK, ItemsInv, [Next]_vars PROVE ItemsInv'
    OBVIOUS
  <2>1. CASE ClassifyItem
    <3>1. pc = "classify" /\ UNCHANGED <<batch, report, form, accepted, pc>> /\ at \in Nat
      BY <2>1 DEF ClassifyItem, TypeOK
    <3>2. ASSUME NEW i \in Item, i < at'
          PROVE  items'[i] = Classify(Seen(i))
      <4>1. CASE i = at
        BY <2>1, <4>1 DEF ClassifyItem, TypeOK, Seen
      <4>2. CASE i # at
        <5>1. i < at
          BY <2>1, <3>1, <3>2, <4>2 DEF ClassifyItem, Item
        <5>2. items'[i] = items[i]
          BY <2>1, <4>2 DEF ClassifyItem, TypeOK
        <5> QED
          BY <3>1, <5>1, <5>2 DEF ItemsInv
      <4> QED
        BY <4>1, <4>2
    <3>3. \A i \in Item : Seen(i)' = Seen(i)
      BY <3>1 DEF Seen
    <3> QED
      BY <3>1, <3>2, <3>3 DEF ItemsInv
  <2>2. CASE Detect
    <3>1. \A i \in Item : i < at
      <4>1. N \in Nat
        BY BatchAssumption
      <4>2. at \in Nat /\ at > N
        BY <2>2, <4>1 DEF Detect, TypeOK
      <4> QED
        BY <4>1, <4>2 DEF Item
    <3>2. \A i \in Item : items[i] = Classify(Seen(i))
      BY <2>2, <3>1 DEF Detect, ItemsInv
    <3>3. \A i \in Item : Together(i, Compared(i))
      BY <3>2, ComparedIs
    <3>4. \A i \in Item : items'[i] = Compared(i)
      BY <2>2 DEF Detect
    <3>5. \A i \in Item : Together(i, items'[i])
      BY <3>3, <3>4
    <3>6. \A i \in Item : Together(i, items[i])'
      BY <2>2, <3>5 DEF Detect, Together, Seen, Common, Held, Free, Graph, Conflict,
         Shared, Chained
    <3>7. form' = "object" /\ pc' = "build"
      BY <2>2 DEF Detect, ItemsInv
    <3> QED
      BY <3>6, <3>7 DEF ItemsInv
  <2>3. CASE Build
    <3>1. UNCHANGED <<batch, items>> /\ pc = "build" /\ pc' = "verify"
      BY <2>3 DEF Build
    <3>2. \A i \in Item : Together(i, items[i])'
      BY <3>1 DEF ItemsInv, Together, Seen, Common, Held, Free, Graph, Conflict,
         Shared, Chained
    <3>3. report' \in Builds(items)'
      BY <2>3, <3>1 DEF Build, Builds, Repositories, Mains
    <3>4. digest' = Digest(report, "object")'
      BY <2>3, <3>1 DEF Build, ItemsInv, Digest, Ascending
    <3> QED
      BY <3>1, <3>2, <3>3, <3>4 DEF ItemsInv
  <2>4. CASE ReadBack
    <3>1. UNCHANGED <<batch, items, report, digest, pc>> /\ pc = "verify"
      BY <2>4 DEF ReadBack
    <3>2. \A i \in Item : Together(i, items[i])'
      BY <3>1 DEF ItemsInv, Together, Seen, Common, Held, Free, Graph, Conflict,
         Shared, Chained
    <3>3. report' \in Builds(items)'
      BY <3>1 DEF ItemsInv, Builds, Repositories, Mains
    <3>4. digest' = Digest(report, "object")'
      BY <3>1 DEF ItemsInv, Digest, Ascending
    <3> QED
      BY <3>1, <3>2, <3>3, <3>4 DEF ItemsInv
  <2>5. CASE Verify
    <3>1. UNCHANGED <<batch, items, report, digest, form>> /\ pc = "verify" /\ pc' = "done"
      BY <2>5 DEF Verify
    <3>2. \A i \in Item : Together(i, items[i])'
      BY <3>1 DEF ItemsInv, Together, Seen, Common, Held, Free, Graph, Conflict,
         Shared, Chained
    <3>3. report' \in Builds(items)'
      BY <3>1 DEF ItemsInv, Builds, Repositories, Mains
    <3>4. /\ Accepts(report)' = Accepts(report)
          /\ Digest(report, "object")' = Digest(report, "object")
          /\ Digest(report, form)' = Digest(report, form)
      BY <3>1 DEF Accepts, Digest, Ascending
    <3>5. digest' = Digest(report, "object")'
      BY <3>1, <3>4 DEF ItemsInv
    <3>6. accepted' = (digest = Digest(report, form) /\ Accepts(report))'
      BY <2>5, <3>1, <3>4 DEF Verify
    <3> QED
      BY <3>1, <3>2, <3>3, <3>5, <3>6 DEF ItemsInv
  <2>6. CASE UNCHANGED vars
    <3>1. UNCHANGED <<batch, items, at, report, digest, form, accepted, pc>>
      BY <2>6 DEF vars
    <3>2. \A i \in Item : Together(i, items[i])' <=> Together(i, items[i])
      BY <3>1 DEF Together, Seen, Common, Held, Free, Graph, Conflict, Shared, Chained
    <3>3. Builds(items)' = Builds(items) /\ Accepts(report)' = Accepts(report)
      BY <3>1 DEF Builds, Repositories, Mains, Accepts
    <3>4. /\ Digest(report, "object")' = Digest(report, "object")
          /\ Digest(report, form)' = Digest(report, form)
      BY <3>1 DEF Digest, Ascending
    <3> QED
      BY <3>1, <3>2, <3>3, <3>4 DEF ItemsInv, Seen
  <2> QED
    BY <2>1, <2>2, <2>3, <2>4, <2>5, <2>6 DEF Next
<1> QED
  BY <1>1, <1>2, ReadinessTypes, PTL DEF Spec

-----------------------------------------------------------------------------
(***************************************************************************)
(* What is ready.                                                          *)
(***************************************************************************)
LEMMA FreeIff ==
  ASSUME TypeOK, NEW i \in Item
  PROVE  /\ Free(i) /\ Seen(i).complete <=> Unblocked(batch[i])
         /\ Free(i) => Seen(i).complete /\ IdentityGaps(Seen(i)) = {}
<1> DEFINE s == Seen(i)
           b == batch[i]
<1>1. b \in Observed /\ s \in Observed
  BY SeenType
<1>2. /\ s.main = IF b.main \in Missing /\ b.mapping THEN b.base ELSE b.main
      /\ \A side \in Sides :
           DeclaredOf(s)[side] = IF b.mapping /\ b.declared[side] = None
                                 THEN b.legacy[side] ELSE b.declared[side]
      /\ s.repository = b.repository /\ s.number = b.number
      /\ s.base = b.base /\ s.head = b.head
      /\ s.mergeBase = b.mergeBase /\ s.draft = b.draft
      /\ s.mergeable = b.mergeable /\ s.hold = b.hold
      /\ s.labels = b.labels /\ s.complete = b.complete
  BY <1>1, CoerceFields DEF Seen
<1>3. IdentityGaps(s) = {} <=>
        /\ s.repository \in WellFormed /\ s.number # 0
        /\ s.head \notin Missing /\ s.base \notin Missing /\ s.main \notin Missing
  BY DEF IdentityGaps, IdentityGap
<1>4. DispositionOf(Findings(s)) = "REVIEW_READY" <=> Findings(s) \cap Blocker = {}
  BY DEF DispositionOf
<1>5. Findings(s) \cap Blocker = {} <=>
        /\ s.mergeBase # "NONE" /\ ~StaleEvidence(s) /\ ~s.draft
        /\ s.mergeable # "no" /\ s.mergeable # "unknown"
        /\ s.hold = {} /\ s.labels \cap StaleLabel = {} /\ s.complete
  BY <1>1, FindingsAre DEF Blocker
<1>6. Free(i) <=> IdentityGaps(s) = {} /\ Findings(s) \cap Blocker = {}
  BY <1>4 DEF Free, BaseDisposition
<1>7. s.mergeable \in {"yes", "no", "unknown"}
  BY <1>1 DEF Observed
<1> HIDE DEF s, b
<1>8. Unblocked(b) <=> IdentityGaps(s) = {} /\ Findings(s) \cap Blocker = {}
  <2> DEFINE now(side) == IF side = "main" /\ b.main \in Missing THEN b.base ELSE b[side]
             said(side) == IF b.mapping /\ b.declared[side] = None THEN b.legacy[side]
                           ELSE b.declared[side]
  <2>1. StaleEvidence(s) <=> \/ said("base") \notin Missing \cup {s.base}
                             \/ said("head") \notin Missing \cup {s.head}
                             \/ said("main") \notin Missing \cup {s.main}
    BY <1>2 DEF StaleEvidence, Contradicted, Sides
  <2>2. /\ now("base") = s.base /\ now("head") = s.head
        /\ b.main \notin Missing \/ b.mapping => now("main") = s.main
    BY <1>2
  <2>3. (\A side \in Sides : said(side) \in Missing \cup {now(side)}) <=>
          /\ said("base") \in Missing \cup {now("base")}
          /\ said("head") \in Missing \cup {now("head")}
          /\ said("main") \in Missing \cup {now("main")}
    BY DEF Sides
  <2>4. Unblocked(b) <=>
          /\ b.repository \in WellFormed /\ b.number # 0
          /\ b.head \notin Missing /\ b.base \notin Missing
          /\ b.main \notin Missing \/ b.mapping
          /\ b.complete /\ b.mergeable = "yes" /\ b.mergeBase # "NONE"
          /\ ~b.draft /\ b.hold = {} /\ b.labels \cap StaleLabel = {}
          /\ \A side \in Sides : said(side) \in Missing \cup {now(side)}
    BY DEF Unblocked
  <2> HIDE DEF now, said
  <2> QED
    BY <1>2, <1>3, <1>5, <1>7, <2>1, <2>2, <2>3, <2>4
<1> QED
  BY <1>5, <1>6, <1>8 DEF s, b

(* "Ready" is said of exactly the pull requests that nothing blocks, neither *)
(* of their own nor in conflict with them.                                  *)
THEOREM ReadinessExactly == Spec => []ReadyExactly
<1>1. TypeOK /\ ItemsInv => ReadyExactly
  <2> SUFFICES ASSUME TypeOK, ItemsInv, pc \in {"verify", "done"}, NEW i \in Item
               PROVE  report.items[i].ready <=>
                        /\ Unblocked(batch[i])
                        /\ \A j \in Item : Conflict(i, j) => ~Unblocked(batch[j])
    BY DetectionOf DEF ReadyExactly
  <2>1. Together(i, items[i]) /\ report.items = [k \in Item |-> Reported(items[k])]
    BY DEF ItemsInv, Builds
  <2>2. report.items[i].ready <=>
          Ready(Valid(items[i]), items[i].disposition, items[i].completeness)
    <3>1. items[i] \in Items /\ report.items[i] = Reported(items[i])
      BY <2>1 DEF TypeOK
    <3> QED
      BY <3>1 DEF Reported, Items
  <2>3. \A j \in Item : Free(j) <=> Unblocked(batch[j])
    BY FreeIff
  <2>4. items[i].disposition = "REVIEW_READY" <=> Free(i) /\ ~Held(i)
    BY <2>1 DEF Together, Free
  <2>5. Free(i) => Valid(items[i]) /\ items[i].completeness # "INCOMPLETE"
    <3> SUFFICES ASSUME Free(i) PROVE Valid(items[i]) /\ items[i].completeness # "INCOMPLETE"
      OBVIOUS
    <3>1. Seen(i).complete /\ IdentityGaps(Seen(i)) = {}
      BY FreeIff
    <3>2. items[i].identity.gaps = IdentityGaps(Seen(i))
      BY <2>1, ClassifyFields DEF Together
    <3>3. items[i].completeness # "INCOMPLETE"
      <4> DEFINE c == Classify(Seen(i)).completeness
      <4>1. items[i].completeness = c
        BY <2>1 DEF Together
      <4>2. c = IF IdentityGaps(Seen(i)) # {} \/ ~Seen(i).complete THEN "INCOMPLETE"
                ELSE IF Seen(i).errors # {} \/ Seen(i).mergeable = "unknown" THEN "PARTIAL"
                ELSE "COMPLETE"
        BY ClassifyFields
      <4> HIDE DEF c
      <4> QED
        BY <3>1, <4>1, <4>2
    <3> QED
      BY <3>1, <3>2, <3>3 DEF Valid
  <2> QED
    BY <2>2, <2>3, <2>4, <2>5 DEF Ready, Held
<1> QED
  BY <1>1, ReadinessTypes, ItemsInvariant, PTL

(* Two runs of the program name a report differently only if it says that it *)
(* is incomplete.                                                           *)
THEOREM ReadinessAmbiguous == Spec => []AmbiguousIsIncomplete
<1>1. ItemsInv => AmbiguousIsIncomplete
  <2> SUFFICES ASSUME ItemsInv, pc \in {"verify", "done"}, NEW r \in Builds(items),
                      r # report
               PROVE  report.completeness = "INCOMPLETE"
    BY DEF AmbiguousIsIncomplete
  <2>1. report \in Builds(items)
    BY DEF ItemsInv
  <2>2. CASE Mixed(Repositories, Mains) # {}
    BY <2>1, <2>2 DEF Builds, TopCompleteness
  <2>3. CASE Mixed(Repositories, Mains) = {}
    <3>1. \A set : ~Several(set) => \A x, y \in Named(set) : x = y
      BY DEF Several, Named
    <3>2. /\ \A x, y \in Named(Repositories) : x = y
          /\ \A x, y \in Named(Mains) : x = y
      BY <2>3, <3>1 DEF Mixed
    <3>3. r = report
      BY <2>1, <3>2 DEF Builds
    <3> QED
      BY <3>3
  <2> QED
    BY <2>2, <2>3
<1> QED
  BY <1>1, ItemsInvariant, PTL

-----------------------------------------------------------------------------
(***************************************************************************)
(* The verifier, one condition at a time, on what the builder makes.         *)
(***************************************************************************)
LEMMA IdentityFields ==
  ASSUME NEW s
  PROVE  LET d == Identity(s) IN
           /\ d.repository = IF s.repository = None THEN "None" ELSE s.repository
           /\ d.number = s.number
           /\ d.base = TextOf(s.base) /\ d.head = TextOf(s.head) /\ d.main = TextOf(s.main)
           /\ d.declared = DeclaredOf(s)
           /\ d.staleBase = StaleBase(s) /\ d.staleEvidence = StaleEvidence(s)
           /\ d.gaps = IdentityGaps(s) /\ d.noUniqueMergeBase = (s.mergeBase = "NONE")
BY DEF Identity

(* What is derived from an identity is what was derived from its snapshot.   *)
LEMMA IdentityRederived ==
  ASSUME NEW s
  PROVE  /\ StaleBase(Identity(s)) <=> StaleBase(s)
         /\ Contradicted(DeclaredOf(s), Identity(s)) <=> StaleEvidence(s)
         /\ IdentityGaps(Identity(s)) = IdentityGaps(s)
<1> DEFINE d == Identity(s)
<1>1. /\ d.repository = IF s.repository = None THEN "None" ELSE s.repository
      /\ d.number = s.number
      /\ d.base = TextOf(s.base) /\ d.head = TextOf(s.head) /\ d.main = TextOf(s.main)
  BY IdentityFields
<1>2. None # "" /\ None \notin WellFormed /\ "None" \notin WellFormed
  BY MissingAssumption
<1> HIDE DEF d
<1>3. StaleBase(d) <=> StaleBase(s)
  BY <1>1 DEF StaleBase, TextOf, Missing
<1>4. Contradicted(DeclaredOf(s), d) <=> StaleEvidence(s)
  BY <1>1 DEF StaleEvidence, Contradicted, TextOf, Missing
<1>5. IdentityGaps(d) = IdentityGaps(s)
  BY <1>1, <1>2 DEF IdentityGaps, TextOf, Missing
<1> QED
  BY <1>3, <1>4, <1>5 DEF d

LEMMA ReportedFields ==
  ASSUME NEW item \in Items
  PROVE  LET r == Reported(item) IN
           /\ r.identity = item.identity /\ r.findings = item.findings
           /\ r.disposition = item.disposition /\ r.overlaps = item.overlaps
           /\ r.completeness = item.completeness /\ r.gaps = item.gaps
           /\ r.ready = Ready(Valid(item), item.disposition, item.completeness)
BY DEF Reported, Items

(* A conflict adds findings that do not bear upon the disposition.           *)
LEMMA CommonDisposition ==
  ASSUME NEW i, NEW gaps, NEW found
  PROVE  BaseDisposition(gaps, found \cup Common(i)) = BaseDisposition(gaps, found)
<1>1. (found \cup Common(i)) \cap Blocker = found \cap Blocker
  BY DEF Common, Blocker
<1>2. /\ "DO_NOT_MERGE" \in found \cup Common(i) <=> "DO_NOT_MERGE" \in found
      /\ (found \cup Common(i)) \cap {"DRAFT", "NON_MERGEABLE"}
           = found \cap {"DRAFT", "NON_MERGEABLE"}
      /\ (found \cup Common(i)) \cap {"STALE_LONG_LIVED", "NO_UNIQUE_MERGE_BASE", "STALE_EVIDENCE"}
           = found \cap {"STALE_LONG_LIVED", "NO_UNIQUE_MERGE_BASE", "STALE_EVIDENCE"}
  BY DEF Common
<1>3. DispositionOf(found \cup Common(i)) = DispositionOf(found)
  BY <1>1, <1>2 DEF DispositionOf
<1> QED
  BY <1>3 DEF BaseDisposition

LEMMA GraphIs ==
  ASSUME TypeOK, DistinctNumbers, NEW i \in Item, NEW j \in Item
  PROVE  Graph(i)[batch[j].number] = Shared(i, j)
<1> DEFINE n == batch[j].number
           others == {m \in Item : batch[m].number = n /\ Shared(i, m) # {}}
           last == {k \in others : \A l \in others : l <= k}
<1>1. n \in Number
  BY SeenType DEF Observed
<1>2. Graph(i)[n] = UNION {Shared(i, k) : k \in last}
  BY <1>1 DEF Graph
<1>3. others = IF Shared(i, j) # {} THEN {j} ELSE {}
  BY DEF DistinctNumbers
<1>4. j <= j
  <2>1. N \in Nat
    BY BatchAssumption
  <2> QED
    BY <2>1 DEF Item
<1>5. last = IF Shared(i, j) # {} THEN {j} ELSE {}
  BY <1>3, <1>4
<1> HIDE DEF n, last, others
<1>6. UNION {Shared(i, k) : k \in last} = Shared(i, j)
  BY <1>5
<1> QED
  BY <1>2, <1>6 DEF n

LEMMA GraphOnly ==
  ASSUME NEW i \in Item, NEW n \in Number, Graph(i)[n] # {}
  PROVE  \E j \in Item : batch[j].number = n /\ Shared(i, j) # {}
BY DEF Graph

LEMMA CoherentGenuine ==
  ASSUME TypeOK, NEW i \in Item, Together(i, items[i])
  PROVE  Coherent(Reported(items[i]))
<1> DEFINE r == Reported(items[i])
           s == Seen(i)
<1>1. items[i] \in Items /\ s \in Observed
  BY SeenType DEF TypeOK
<1>2. /\ r.identity = Identity(s)
      /\ r.disposition = IF Held(i) THEN "WAIT_REBIND"
                         ELSE BaseDisposition(IdentityGaps(s), Findings(s))
      /\ r.ready = Ready(Valid(items[i]), items[i].disposition, items[i].completeness)
      /\ items[i].identity = r.identity /\ items[i].disposition = r.disposition
      /\ items[i].completeness = r.completeness
  BY <1>1, ReportedFields DEF Together
<1>3. Valid(items[i]) <=> Valid(r)
  BY <1>2 DEF Valid
<1>4. /\ r.identity.staleEvidence = StaleEvidence(s)
      /\ r.identity.gaps = IdentityGaps(s)
      /\ r.identity.noUniqueMergeBase = (s.mergeBase = "NONE")
  BY <1>2, IdentityFields
<1>5. /\ "STALE_EVIDENCE" \in Findings(s) <=> StaleEvidence(s)
      /\ "NO_UNIQUE_MERGE_BASE" \in Findings(s) <=> s.mergeBase = "NONE"
  BY <1>1, FindingsAre
<1> HIDE DEF r, s
<1>6. r.ready <=> Ready(Valid(r), r.disposition, r.completeness)
  BY <1>2, <1>3 DEF Ready
<1>7. ASSUME r.disposition = "REVIEW_READY"
      PROVE  Valid(r) /\ ~r.identity.staleEvidence /\ ~r.identity.noUniqueMergeBase
  <2>1. BaseDisposition(IdentityGaps(s), Findings(s)) = "REVIEW_READY"
    BY <1>2, <1>7
  <2>2. IdentityGaps(s) = {} /\ Findings(s) \cap Blocker = {}
    BY <2>1 DEF BaseDisposition, DispositionOf
  <2> QED
    BY <1>4, <1>5, <2>2 DEF Valid, Blocker
<1>8. Coherent(r)
  BY <1>6, <1>7 DEF Coherent
<1> QED
  BY <1>8 DEF r

LEMMA GapsAre ==
  ASSUME NEW s \in Observed
  PROVE  /\ IdentityGaps(s) \subseteq Gaps(s)
         /\ "mergeable state unknown" \in Gaps(s) <=> s.mergeable = "unknown"
         /\ "merge-base with current main unknown" \in Gaps(s)
              <=> "MERGE_BASE_UNKNOWN" \in Findings(s)
         /\ IdentityGaps(s) = {} => (Gaps(s) \subseteq Unknown <=> s.errors = {})
<1>1. s.errors \subseteq Error /\ s.errors \cap (IdentityGap \cup Unknown) = {}
  BY BatchAssumption DEF Observed
<1>2. IdentityGaps(s) \subseteq IdentityGap
  BY DEF IdentityGaps
<1>3. /\ "mergeable state unknown" \in Unknown /\ "mergeable state unknown" \notin IdentityGap
      /\ "merge-base with current main unknown" \in Unknown
      /\ "merge-base with current main unknown" \notin IdentityGap
  BY DEF Unknown, IdentityGap
<1>4. "mergeable state unknown" \in Gaps(s) <=> s.mergeable = "unknown"
  BY <1>1, <1>2, <1>3 DEF Gaps
<1>5. "merge-base with current main unknown" \in Gaps(s)
        <=> "MERGE_BASE_UNKNOWN" \in Findings(s)
  BY <1>1, <1>2, <1>3 DEF Gaps
<1>6. IdentityGaps(s) \subseteq Gaps(s)
  BY DEF Gaps
<1>7. IdentityGaps(s) = {} => (Gaps(s) \subseteq Unknown <=> s.errors = {})
  BY <1>1 DEF Gaps
<1> QED
  BY <1>4, <1>5, <1>6, <1>7

LEMMA RederivableGenuine ==
  ASSUME TypeOK, DistinctNumbers, NEW i \in Item, Together(i, items[i])
  PROVE  Rederivable(Reported(items[i]))
<1> DEFINE r == Reported(items[i])
           s == Seen(i)
           d == r.identity
           found == r.findings
           base == BaseDisposition(d.gaps, found)
<1>1. items[i] \in Items /\ s \in Observed
  BY SeenType DEF TypeOK
<1>2. /\ d = Identity(s)
      /\ found = Findings(s) \cup Common(i)
      /\ r.disposition = IF Held(i) THEN "WAIT_REBIND"
                         ELSE BaseDisposition(IdentityGaps(s), Findings(s))
      /\ r.overlaps = Graph(i)
      /\ r.completeness = Classify(s).completeness
      /\ r.gaps = Gaps(s)
  BY <1>1, ReportedFields DEF Together
<1>3. /\ d.base = TextOf(s.base) /\ d.main = TextOf(s.main) /\ d.declared = DeclaredOf(s)
      /\ d.staleBase = StaleBase(s) /\ d.staleEvidence = StaleEvidence(s)
      /\ d.gaps = IdentityGaps(s) /\ d.noUniqueMergeBase = (s.mergeBase = "NONE")
  BY <1>2, IdentityFields
<1>4. /\ d.staleBase <=> StaleBase(d)
      /\ d.staleEvidence <=> Contradicted(d.declared, d)
      /\ d.gaps = IdentityGaps(d)
  BY <1>2, <1>3, IdentityRederived
<1>5. /\ "STALE_BASE" \in found <=> s.base # s.main
      /\ "STALE_EVIDENCE" \in found <=> StaleEvidence(s)
      /\ "INVALID_IDENTITY" \in found <=> IdentityGaps(s) # {}
      /\ "NO_UNIQUE_MERGE_BASE" \in found <=> s.mergeBase = "NONE"
      /\ "MERGE_BASE_UNKNOWN" \in found <=> s.base # s.main /\ s.mergeBase = "UNKNOWN"
      /\ "MERGEABLE_UNKNOWN" \in found <=> s.mergeable = "unknown"
      /\ "COLLECTION_INCOMPLETE" \in found <=> ~s.complete
      /\ "PATH_OVERLAP" \in found <=> \E j \in Item : Shared(i, j) # {}
      /\ "SAME_ISSUE_CHAIN" \in found <=> \E j \in Item : Chained(i, j)
  BY <1>1, <1>2, FindingsAre DEF Common
<1>6. base = BaseDisposition(IdentityGaps(s), Findings(s))
  BY <1>2, <1>3, CommonDisposition
<1>7. r.completeness = IF IdentityGaps(s) # {} \/ ~s.complete THEN "INCOMPLETE"
                       ELSE IF s.errors # {} \/ s.mergeable = "unknown" THEN "PARTIAL"
                       ELSE "COMPLETE"
  BY <1>2, ClassifyFields
<1>8. (\E n \in Number : r.overlaps[n] # {}) <=> "PATH_OVERLAP" \in found
  <2>1. ASSUME NEW n \in Number, r.overlaps[n] # {}
        PROVE  \E j \in Item : Shared(i, j) # {}
    BY <1>2, <2>1, GraphOnly
  <2>2. ASSUME NEW j \in Item, Shared(i, j) # {}
        PROVE  \E n \in Number : r.overlaps[n] # {}
    <3>1. batch[j].number \in Number
      BY SeenType DEF Observed
    <3>2. r.overlaps[batch[j].number] = Shared(i, j)
      BY <1>2, GraphIs
    <3> QED
      BY <2>2, <3>1, <3>2
  <2> QED
    BY <1>5, <2>1, <2>2
<1>9. r.gaps = Gaps(s)
  BY <1>2
<1>10. Valid(r) <=> IdentityGaps(s) = {}
  BY <1>3 DEF Valid
<1>11. \/ r.disposition = base
       \/ /\ r.disposition = "WAIT_REBIND"
          /\ base = "REVIEW_READY"
          /\ found \cap {"PATH_OVERLAP", "SAME_ISSUE_CHAIN"} # {}
  <2>1. CASE Held(i)
    <3>1. r.disposition = "WAIT_REBIND" /\ base = "REVIEW_READY"
      BY <1>2, <1>6, <2>1 DEF Held, Free
    <3>2. "PATH_OVERLAP" \in found \/ "SAME_ISSUE_CHAIN" \in found
      BY <1>5, <2>1 DEF Held, Conflict
    <3> QED
      BY <3>1, <3>2
  <2>2. CASE ~Held(i)
    BY <1>2, <1>6, <2>2
  <2> QED
    BY <2>1, <2>2
<1> HIDE DEF r, s, d, found, base
<1>12. /\ d.gaps \subseteq r.gaps
       /\ "MERGE_BASE_UNKNOWN" \in found <=> "merge-base with current main unknown" \in r.gaps
       /\ "MERGEABLE_UNKNOWN" \in found <=> "mergeable state unknown" \in r.gaps
       /\ IdentityGaps(s) = {} => (r.gaps \subseteq Unknown <=> s.errors = {})
  <2>1. "MERGE_BASE_UNKNOWN" \in found <=> "MERGE_BASE_UNKNOWN" \in Findings(s)
    BY <1>1, <1>5, FindingsAre
  <2> QED
    BY <1>1, <1>3, <1>5, <1>9, <2>1, GapsAre
<1>13. r.completeness =
         IF ~Valid(r) \/ "COLLECTION_INCOMPLETE" \in found THEN "INCOMPLETE"
         ELSE IF "MERGEABLE_UNKNOWN" \in found \/ ~(r.gaps \subseteq Unknown)
              THEN "PARTIAL"
         ELSE "COMPLETE"
  BY <1>5, <1>7, <1>10, <1>12
<1>14. /\ IdentityGaps(s) = {} => d.base = s.base /\ d.main = s.main
       /\ d.base # d.main => s.base # s.main
  BY <1>3 DEF IdentityGaps, IdentityGap, TextOf, Missing
<1>15. /\ Valid(r) => ("STALE_BASE" \in found <=> d.base # d.main)
       /\ "STALE_EVIDENCE" \in found <=> d.staleEvidence
       /\ "INVALID_IDENTITY" \in found <=> ~Valid(r)
       /\ "NO_UNIQUE_MERGE_BASE" \in found <=> d.noUniqueMergeBase
       /\ "MERGE_BASE_UNKNOWN" \in found =>
            (d.base # d.main \/ ~Valid(r)) /\ "NO_UNIQUE_MERGE_BASE" \notin found
  BY <1>3, <1>5, <1>10, <1>14
<1> QED
  BY <1>4, <1>8, <1>11, <1>12, <1>13, <1>15 DEF Rederivable, r, d, found, base

(* The names of the identities are those of the snapshots, and "None" where a  *)
(* repository is None.                                                      *)
LEMMA IdentityNames ==
  ASSUME TypeOK, \A i \in Item : Together(i, items[i]), NEW r \in Builds(items)
  PROVE  /\ Present({r.items[i].identity.repository : i \in Item})
              = Repositories \cup {n \in {"None"} : \E i \in Item : batch[i].repository = None}
         /\ Present({r.items[i].identity.main : i \in Item}) = Mains
         /\ Repositories = Present({batch[i].repository : i \in Item})
<1>1. ASSUME NEW i \in Item
      PROVE  /\ r.items[i].identity.repository =
                  IF batch[i].repository = None THEN "None" ELSE batch[i].repository
             /\ r.items[i].identity.main = TextOf(Coerce(batch[i]).main)
             /\ Coerce(batch[i]).repository = batch[i].repository
  <2>1. r.items[i].identity = Identity(Seen(i))
    <3>1. r.items[i].identity = items[i].identity
      BY ReportedFields DEF TypeOK, Builds
    <3> QED
      BY <3>1 DEF Together
  <2>2. Coerce(batch[i]).repository = batch[i].repository
    BY SeenType, CoerceFields
  <2> QED
    BY <2>1, <2>2, IdentityFields DEF Seen
<1>2. None # "" /\ None # "None"
  BY MissingAssumption
<1>3. Present({r.items[i].identity.main : i \in Item}) = Mains
  BY <1>1, <1>2 DEF Present, Mains, TextOf, Missing
<1>4. Repositories = Present({batch[i].repository : i \in Item})
  BY <1>1 DEF Repositories, Present
<1>5. Present({r.items[i].identity.repository : i \in Item})
        = Repositories \cup {n \in {"None"} : \E i \in Item : batch[i].repository = None}
  BY <1>1, <1>2, <1>4 DEF Present, Missing
<1> QED
  BY <1>3, <1>4, <1>5

(* The aggregates of the identities are those of the snapshots, unless the     *)
(* name that stands for None is one too many.                               *)
LEMMA AggregatesGenuine ==
  ASSUME TypeOK, \A i \in Item : Together(i, items[i]), NEW r \in Builds(items)
  PROVE  AggregatesMatch(r) <=> NamesAgree
<1> DEFINE names == Present({r.items[i].identity.repository : i \in Item})
           unnamed == \E i \in Item : batch[i].repository = None
<1>1. /\ names = Repositories \cup {n \in {"None"} : unnamed}
      /\ Present({r.items[i].identity.main : i \in Item}) = Mains
      /\ NamesAgree <=> (unnamed => "None" \in Repositories \/ Several(Repositories))
  BY IdentityNames DEF NamesAgree
<1>2. /\ r.repository \in Named(Repositories) /\ r.main \in Named(Mains)
      /\ r.mixed = Mixed(Repositories, Mains)
      /\ r.completeness = TopCompleteness(r.mixed, items)
      /\ r.items = [i \in Item |-> Reported(items[i])]
  BY DEF Builds
<1>3. TopCompleteness(r.mixed, r.items) = TopCompleteness(r.mixed, items)
  <2>1. \A i \in Item : r.items[i].completeness = items[i].completeness
    BY <1>2, ReportedFields DEF TypeOK
  <2> QED
    BY <2>1 DEF TopCompleteness
<1>4. AggregatesMatch(r) <=>
        /\ Mixed(Repositories, Mains) = Mixed(names, Mains)
        /\ Several(names) \/ r.repository \in Named(names)
  BY <1>1, <1>2, <1>3 DEF AggregatesMatch
<1> HIDE DEF names, unnamed
<1>5. CASE unnamed => "None" \in Repositories
  <2>1. names = Repositories
    BY <1>1, <1>5
  <2> QED
    BY <1>1, <1>2, <1>4, <1>5, <2>1
<1>6. CASE unnamed /\ "None" \notin Repositories
  <2>1. names = Repositories \cup {"None"}
    BY <1>1, <1>6
  <2>2. Several(Repositories) => Several(names)
    BY <2>1 DEF Several
  <2>3. Repositories # {} => Several(names)
    BY <1>6, <2>1 DEF Several
  <2>4. "repository" \in Mixed(Repositories, Mains) <=> Several(Repositories)
    BY DEF Mixed
  <2>5. "repository" \in Mixed(names, Mains) <=> Several(names)
    BY DEF Mixed
  <2>6. CASE Several(Repositories)
    <3>1. Mixed(Repositories, Mains) = Mixed(names, Mains)
      BY <2>2, <2>6 DEF Mixed
    <3> QED
      BY <1>1, <1>4, <2>2, <2>6, <3>1
  <2>7. CASE ~Several(Repositories)
    <3>1. CASE Repositories # {}
      BY <1>1, <1>4, <1>6, <2>3, <2>4, <2>5, <2>7, <3>1
    <3>2. CASE Repositories = {}
      <4>1. r.repository = "" /\ Named(names) = {"None"} /\ ~Several(names)
        BY <1>2, <2>1, <3>2 DEF Named, Several
      <4> QED
        BY <1>1, <1>4, <1>6, <2>7, <4>1
    <3> QED
      BY <3>1, <3>2
  <2> QED
    BY <2>6, <2>7
<1> QED
  BY <1>5, <1>6

LEMMA OverlapsGenuine ==
  ASSUME TypeOK, \A i \in Item : Together(i, items[i]), NEW r \in Builds(items)
  PROVE  OverlapsMatch(r.items) <=> DistinctNumbers
<1> DEFINE its == r.items
           number(i) == its[i].identity.number
           eligible(i) == BaseDisposition(its[i].identity.gaps, its[i].findings) = "REVIEW_READY"
           demoted(i) == /\ eligible(i)
                         /\ \E j \in Item : eligible(j) /\ its[i].overlaps[number(j)] # {}
<1>1. its = [i \in Item |-> Reported(items[i])]
  BY DEF Builds
<1>2. ASSUME NEW i \in Item
      PROVE  /\ its[i].identity = Identity(Seen(i))
             /\ its[i].findings = Findings(Seen(i)) \cup Common(i)
             /\ its[i].disposition =
                  IF Held(i) THEN "WAIT_REBIND"
                  ELSE BaseDisposition(IdentityGaps(Seen(i)), Findings(Seen(i)))
             /\ its[i].overlaps = Graph(i)
  BY <1>1, ReportedFields DEF TypeOK, Together
<1>3. ASSUME NEW i \in Item
      PROVE  number(i) = batch[i].number
  <2>1. number(i) = Seen(i).number
    BY <1>2, IdentityFields
  <2> QED
    BY <2>1, SeenType, CoerceFields DEF Seen
<1>4. ASSUME NEW i \in Item
      PROVE  eligible(i) <=> Free(i)
  <2>1. its[i].identity.gaps = IdentityGaps(Seen(i))
    BY <1>2, IdentityFields
  <2> QED
    BY <1>2, <2>1, CommonDisposition DEF Free
<1>5. ASSUME DistinctNumbers, NEW i \in Item, NEW j \in Item
      PROVE  its[i].overlaps[number(j)] = Shared(i, j)
  BY <1>2, <1>3, <1>5, GraphIs
<1>6. ASSUME NEW i \in Item
      PROVE  /\ its[i].disposition = "WAIT_REBIND" <=> Held(i)
             /\ "SAME_ISSUE_CHAIN" \in its[i].findings <=> \E j \in Item : Chained(i, j)
  <2>1. its[i].disposition = "WAIT_REBIND" <=> Held(i)
    BY <1>2, DispositionType
  <2>2. "SAME_ISSUE_CHAIN" \in its[i].findings <=> \E j \in Item : Chained(i, j)
    BY <1>2, SeenType, FindingsAre DEF Common
  <2> QED
    BY <2>1, <2>2
<1> HIDE DEF its, number, eligible
<1>7. ASSUME DistinctNumbers, NEW i \in Item
      PROVE  demoted(i) <=> Free(i) /\ \E j \in Item : Free(j) /\ Shared(i, j) # {}
  BY <1>4, <1>5, <1>7
<1>8. ASSUME DistinctNumbers
      PROVE  /\ \A i, j \in Item : number(i) = number(j) => i = j
             /\ \A i \in Item : its[i].overlaps[number(i)] = {}
             /\ \A i, j \in Item : its[i].overlaps[number(j)] # {} =>
                  its[j].overlaps[number(i)] = its[i].overlaps[number(j)]
  <2>1. \A i, j \in Item : number(i) = number(j) => i = j
    BY <1>3, <1>8 DEF DistinctNumbers
  <2>2. \A i \in Item : Shared(i, i) = {}
    BY DEF Shared
  <2>3. \A i, j \in Item : Shared(i, j) = Shared(j, i)
    BY DEF Shared
  <2>4. \A i, j \in Item : its[i].overlaps[number(j)] = Shared(i, j)
    BY <1>5, <1>8
  <2> QED
    BY <2>1, <2>2, <2>3, <2>4
<1> HIDE DEF demoted
<1>9. ASSUME DistinctNumbers, NEW i \in Item
      PROVE  /\ demoted(i) => its[i].disposition = "WAIT_REBIND"
             /\ its[i].disposition = "WAIT_REBIND" =>
                  demoted(i) \/ "SAME_ISSUE_CHAIN" \in its[i].findings
  BY <1>6, <1>7, <1>9 DEF Held, Conflict
<1>10. (\A i, j \in Item : number(i) = number(j) => i = j) => DistinctNumbers
  BY <1>3 DEF DistinctNumbers
<1>11. OverlapsMatch(its) <=>
         /\ \A i, j \in Item : number(i) = number(j) => i = j
         /\ \A i \in Item : its[i].overlaps[number(i)] = {}
         /\ \A i, j \in Item : its[i].overlaps[number(j)] # {} =>
              its[j].overlaps[number(i)] = its[i].overlaps[number(j)]
         /\ \A i \in Item : demoted(i) => its[i].disposition = "WAIT_REBIND"
         /\ \A i \in Item : its[i].disposition = "WAIT_REBIND" =>
              demoted(i) \/ "SAME_ISSUE_CHAIN" \in its[i].findings
  BY DEF OverlapsMatch, number, eligible, demoted
<1> QED
  BY <1>8, <1>9, <1>10, <1>11 DEF its

(* Read back, the keys of the overlaps are written in the same order iff the *)
(* numbers of any two others that share a path sort alike as texts.          *)
LEMMA DigestGenuine ==
  ASSUME TypeOK, DistinctNumbers, \A i \in Item : Together(i, items[i]),
         NEW r \in Builds(items)
  PROVE  Digest(r, "object") = Digest(r, "text") <=> SameOrder
<1>1. \A i \in Item : r.items[i].overlaps = Graph(i)
  BY ReportedFields DEF Builds, TypeOK, Together
<1>2. Digest(r, "object") = Digest(r, "text") <=>
        \A i \in Item : Ascending(Graph(i), "object") = Ascending(Graph(i), "text")
  BY <1>1 DEF Digest
<1>3. ASSUME NEW i \in Item
      PROVE  Ascending(Graph(i), "object") = Ascending(Graph(i), "text") <=>
               \A a, b \in Number :
                 Graph(i)[a] # {} /\ Graph(i)[b] # {} /\ a < b => TextBefore(a, b)
  <2> DEFINE K == {p \in Number \X Number :
                     Graph(i)[p[1]] # {} /\ Graph(i)[p[2]] # {} /\ p[1] < p[2]}
  <2>1. /\ Ascending(Graph(i), "object") = K
        /\ Ascending(Graph(i), "text") = {p \in K : TextBefore(p[1], p[2])}
    BY DEF Ascending
  <2>2. K = {p \in K : TextBefore(p[1], p[2])} <=> \A p \in K : TextBefore(p[1], p[2])
    OBVIOUS
  <2>3. ASSUME \A p \in K : TextBefore(p[1], p[2]),
               NEW a \in Number, NEW b \in Number,
               Graph(i)[a] # {}, Graph(i)[b] # {}, a < b
        PROVE  TextBefore(a, b)
    <3>1. <<a, b>> \in K
      BY <2>3
    <3>2. TextBefore(<<a, b>>[1], <<a, b>>[2])
      BY <2>3, <3>1
    <3> QED
      BY <3>2
  <2>4. ASSUME \A a, b \in Number :
                 Graph(i)[a] # {} /\ Graph(i)[b] # {} /\ a < b => TextBefore(a, b),
               NEW p \in K
        PROVE  TextBefore(p[1], p[2])
    BY <2>4
  <2> QED
    BY <2>1, <2>2, <2>3, <2>4
<1>4. ASSUME SameOrder, NEW i \in Item, NEW a \in Number, NEW b \in Number,
             Graph(i)[a] # {}, Graph(i)[b] # {}, a < b
      PROVE  TextBefore(a, b)
  <2>1. PICK j \in Item : batch[j].number = a /\ Shared(i, j) # {}
    BY <1>4, GraphOnly
  <2>2. PICK k \in Item : batch[k].number = b /\ Shared(i, k) # {}
    BY <1>4, GraphOnly
  <2> QED
    BY <1>4, <2>1, <2>2, DetectionOf DEF SameOrder
<1>5. ASSUME \A i \in Item : \A a, b \in Number :
               Graph(i)[a] # {} /\ Graph(i)[b] # {} /\ a < b => TextBefore(a, b)
      PROVE  SameOrder
  <2> SUFFICES ASSUME NEW i \in Item, NEW j \in Item, NEW k \in Item,
                      Shared(i, j) # {}, Shared(i, k) # {},
                      batch[j].number < batch[k].number
               PROVE  TextBefore(batch[j].number, batch[k].number)
    BY DetectionOf DEF SameOrder
  <2>1. batch[j].number \in Number /\ batch[k].number \in Number
    BY SeenType DEF Observed
  <2>2. Graph(i)[batch[j].number] # {} /\ Graph(i)[batch[k].number] # {}
    BY GraphIs
  <2> QED
    BY <1>5, <2>1, <2>2
<1> QED
  BY <1>2, <1>3, <1>4, <1>5

(* The verifier accepts what the builder makes, for batches of any size and   *)
(* any snapshots, iff the numbers differ and the names of the report are those *)
(* of its identities; read back from JSON, iff the order of the keys has stayed *)
(* as well.                                                                *)
THEOREM ReadinessGenuine == Spec => []GenuineAccepted
<1>1. TypeOK /\ ItemsInv => GenuineAccepted
  <2> SUFFICES ASSUME TypeOK, ItemsInv, pc = "done"
               PROVE  accepted <=> /\ DistinctNumbers /\ NamesAgree
                                   /\ form = "text" => SameOrder
    BY DEF GenuineAccepted
  <2>1. /\ \A i \in Item : Together(i, items[i])
        /\ report \in Builds(items)
        /\ digest = Digest(report, "object")
        /\ accepted <=> digest = Digest(report, form) /\ Accepts(report)
    BY DEF ItemsInv
  <2>2. Accepts(report) <=> DistinctNumbers /\ NamesAgree
    <3>1. AggregatesMatch(report) <=> NamesAgree
      BY <2>1, AggregatesGenuine
    <3>2. OverlapsMatch(report.items) <=> DistinctNumbers
      BY <2>1, OverlapsGenuine
    <3>3. ASSUME DistinctNumbers
          PROVE  \A i \in Item : Coherent(report.items[i]) /\ Rederivable(report.items[i])
      BY <2>1, <3>3, CoherentGenuine, RederivableGenuine DEF Builds
    <3> QED
      BY <3>1, <3>2, <3>3 DEF Accepts
  <2>3. DistinctNumbers => (digest = Digest(report, form) <=> (form = "text" => SameOrder))
    <3>1. form \in {"object", "text"}
      BY DEF TypeOK
    <3>2. DistinctNumbers => (Digest(report, "object") = Digest(report, "text") <=> SameOrder)
      BY <2>1, DigestGenuine
    <3> QED
      BY <2>1, <3>1, <3>2
  <2> QED
    BY <2>1, <2>2, <2>3
<1> QED
  BY <1>1, ReadinessTypes, ItemsInvariant, PTL
=============================================================================
