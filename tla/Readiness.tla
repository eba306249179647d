------------------------------- MODULE Readiness -------------------------------
(***************************************************************************)
(* repository_intelligence/core.py and classifier.py: a batch of pull        *)
(* requests is classified one by one, compared pair by pair (Overlap has the  *)
(* loops; Detect is one step, by what Detection says that they compute), put  *)
(* into one report, and the report is verified from its own contents, as it   *)
(* is or read back from JSON.                                                *)
(***************************************************************************)
EXTENDS Naturals, Revision

CONSTANTS
  N,            \* the pull requests of the batch are 1 .. N
  Repository,   \* names of repositories
  Sha,
  Number,       \* pull-request numbers; 0 is not one
  File, Issue, Label,
  Protected,    \* the policy: the paths that protected_path_patterns match
  StaleLabel,   \* the policy: the labels of long-lived pull requests
  Error,        \* texts of collection errors
  Batch         \* the batches that may be observed

Item == 1 .. N
Finding == {"STALE_BASE", "NO_UNIQUE_MERGE_BASE", "MERGE_BASE_UNKNOWN",
            "STALE_EVIDENCE", "DRAFT", "NON_MERGEABLE", "MERGEABLE_UNKNOWN",
            "DO_NOT_MERGE", "STALE_LONG_LIVED", "COLLECTION_INCOMPLETE",
            "INVALID_IDENTITY", "EXPECTED_FAILURE", "UNEXPECTED_FAILURE",
            "AUTHORITY_OVERLAP", "PATH_OVERLAP", "SAME_ISSUE_CHAIN"}
Unknown == {"mergeable state unknown", "merge-base with current main unknown"}
Gap == IdentityGap \cup Unknown \cup Error
Shas == Sha \cup Missing
Declared == [Sides -> Shas]
Disposition == {"REVIEW_READY", "WAIT_REBIND", "NEEDS_ATTENTION", "EVIDENCE_ONLY",
                "STALE", "EXCLUDED"}
Completeness == {"COMPLETE", "PARTIAL", "INCOMPLETE"}

Observed ==
  [repository : Repository \cup Missing, number : Number, base : Shas, head : Shas,
   main : Shas, declared : Declared, legacy : Declared, mapping : BOOLEAN,
   mergeBase : {"RESOLVED", "NONE", "UNKNOWN"},
   draft : BOOLEAN, mergeable : {"yes", "no", "unknown"},
   hold : SUBSET {"field", "label", "body"},         \* who says "do not merge"
   labels : SUBSET Label,
   failures : SUBSET {"expected", "unexpected"},     \* of the effective checks
   complete : BOOLEAN, errors : SUBSET Error,
   files : SUBSET File, issues : SUBSET Issue]

(* The text of no collection error is that of a gap the engine adds itself.  *)
ASSUME BatchAssumption ==
  /\ N \in Nat
  /\ WellFormed \subseteq Repository
  /\ Number \subseteq Nat
  /\ Missing \cap (Repository \cup Sha) = {}
  /\ Error \cap (IdentityGap \cup Unknown) = {}
  /\ Batch \subseteq [Item -> Observed]

VARIABLES
  batch,        \* the snapshots
  items,        \* what has been made of those before `at'
  at,           \* the snapshot classified next
  report,
  digest,       \* its content_sha256
  form,         \* "object", or "text" once it has been read back from JSON
  accepted,     \* what the verifier said
  pc

vars == <<batch, items, at, report, digest, form, accepted, pc>>

-----------------------------------------------------------------------------
(***************************************************************************)
(* One pull request.  The operators on an identity take a snapshot or the    *)
(* identity of an item.                                                     *)
(***************************************************************************)

(* The fault: a missing merge base is also reported as an unknown one.       *)
FaultyFindings(s) ==
  {f \in Finding :
     \/ f = "STALE_BASE" /\ s.base # s.main
     \/ f = "NO_UNIQUE_MERGE_BASE" /\ s.mergeBase = "NONE"
     \/ f = "MERGE_BASE_UNKNOWN" /\ s.base # s.main /\ s.mergeBase # "RESOLVED"
     \/ f = "STALE_EVIDENCE" /\ StaleEvidence(s)
     \/ f = "DRAFT" /\ s.draft
     \/ f = "NON_MERGEABLE" /\ s.mergeable = "no"
     \/ f = "MERGEABLE_UNKNOWN" /\ s.mergeable = "unknown"
     \/ f = "DO_NOT_MERGE" /\ s.hold # {}
     \/ f = "STALE_LONG_LIVED" /\ s.labels \cap StaleLabel # {}
     \/ f = "EXPECTED_FAILURE" /\ "expected" \in s.failures
     \/ f = "UNEXPECTED_FAILURE" /\ "unexpected" \in s.failures
     \/ f = "AUTHORITY_OVERLAP" /\ s.files \cap Protected # {}
     \/ f = "COLLECTION_INCOMPLETE" /\ ~s.complete
     \/ f = "INVALID_IDENTITY" /\ IdentityGaps(s) # {}}
Findings(s) ==
  {f \in Finding :
     \/ f = "STALE_BASE" /\ s.base # s.main
     \/ f = "NO_UNIQUE_MERGE_BASE" /\ s.mergeBase = "NONE"
     \/ f = "MERGE_BASE_UNKNOWN" /\ s.base # s.main /\ s.mergeBase = "UNKNOWN"
     \/ f = "STALE_EVIDENCE" /\ StaleEvidence(s)
     \/ f = "DRAFT" /\ s.draft
     \/ f = "NON_MERGEABLE" /\ s.mergeable = "no"
     \/ f = "MERGEABLE_UNKNOWN" /\ s.mergeable = "unknown"
     \/ f = "DO_NOT_MERGE" /\ s.hold # {}
     \/ f = "STALE_LONG_LIVED" /\ s.labels \cap StaleLabel # {}
     \/ f = "EXPECTED_FAILURE" /\ "expected" \in s.failures
     \/ f = "UNEXPECTED_FAILURE" /\ "unexpected" \in s.failures
     \/ f = "AUTHORITY_OVERLAP" /\ s.files \cap Protected # {}
     \/ f = "COLLECTION_INCOMPLETE" /\ ~s.complete
     \/ f = "INVALID_IDENTITY" /\ IdentityGaps(s) # {}}

Blocker == {"NO_UNIQUE_MERGE_BASE", "STALE_EVIDENCE", "DRAFT", "NON_MERGEABLE",
            "MERGEABLE_UNKNOWN", "DO_NOT_MERGE", "STALE_LONG_LIVED",
            "COLLECTION_INCOMPLETE"}
DispositionOf(found) ==
  IF found \cap Blocker = {} THEN "REVIEW_READY"
  ELSE IF "DO_NOT_MERGE" \in found THEN "EVIDENCE_ONLY"
  ELSE IF found \cap {"DRAFT", "NON_MERGEABLE"} # {} THEN "EXCLUDED"
  ELSE IF found \cap {"STALE_LONG_LIVED", "NO_UNIQUE_MERGE_BASE", "STALE_EVIDENCE"} # {}
       THEN "STALE"
  ELSE "NEEDS_ATTENTION"

(* An invalid identity overrides what the findings say.                     *)
BaseDisposition(gaps, found) ==
  IF gaps # {} THEN "NEEDS_ATTENTION" ELSE DispositionOf(found)

Ready(valid, disposition, completeness) ==
  valid /\ disposition = "REVIEW_READY" /\ completeness # "INCOMPLETE"

(* The fault: the findings are taken for the texts of the gaps.              *)
FaultyGaps(s) ==
  IdentityGaps(s) \cup s.errors \cup
    (Findings(s) \cap {"MERGEABLE_UNKNOWN", "MERGE_BASE_UNKNOWN"})
Gaps(s) ==
  IdentityGaps(s) \cup s.errors \cup
    {g \in Unknown :
       \/ g = "mergeable state unknown" /\ s.mergeable = "unknown"
       \/ /\ g = "merge-base with current main unknown"
          /\ "MERGE_BASE_UNKNOWN" \in Findings(s)}

Classify(s) ==
  LET gaps == IdentityGaps(s) IN
    [identity |-> Identity(s),
     findings |-> Findings(s),
     disposition |-> BaseDisposition(gaps, Findings(s)),
     risk |-> IF "AUTHORITY_OVERLAP" \in Findings(s) THEN "HIGH" ELSE "MED",
     overlaps |-> [n \in Number |-> {}],
     completeness |-> IF gaps # {} \/ ~s.complete THEN "INCOMPLETE"
                      ELSE IF s.errors # {} \/ s.mergeable = "unknown" THEN "PARTIAL"
                      ELSE "COMPLETE",
     gaps |-> Gaps(s),
     ready |-> FALSE]

ClassifyItem ==
  /\ pc = "classify"
  /\ at <= N
  /\ items' = [items EXCEPT ![at] = Classify(Coerce(batch[at]))]
  /\ at' = at + 1
  /\ UNCHANGED <<batch, report, digest, form, accepted, pc>>

-----------------------------------------------------------------------------
(***************************************************************************)
(* The batch.                                                              *)
(***************************************************************************)
(* What the comparison makes of the batch.                                   *)
D == INSTANCE Detection WITH
       files <- [i \in Item |-> batch[i].files],
       issues <- [i \in Item |-> batch[i].issues],
       number <- [i \in Item |-> items[i].identity.number],
       before <- [i \in Item |-> items[i].disposition]

Compared(i) ==
  [items[i] EXCEPT !.overlaps = D!Overlaps(i),
                   !.findings = @ \cup D!Findings(i),
                   !.disposition = D!Disposition(i)]

Detect ==
  /\ pc = "classify"
  /\ at > N
  /\ items' = [i \in Item |-> Compared(i)]
  /\ pc' = "build"
  /\ UNCHANGED <<batch, at, report, digest, form, accepted>>

Valid(item) == item.identity.gaps = {}
Several(set) == \E x, y \in set : x # y

(* The names that are there, of the repositories and of the mains; what is of   *)
(* several is a gap of the report.                                          *)
(* The fault: a batch of several mains is not held against the report.       *)
Present(names) == names \ Missing
FaultyMixed(repositories, mains) ==
  {m \in {"repository", "current main"} : m = "repository" /\ Several(repositories)}
Mixed(repositories, mains) ==
  {m \in {"repository", "current main"} :
     \/ m = "repository" /\ Several(repositories)
     \/ m = "current main" /\ Several(mains)}

TopCompleteness(mixed, its) ==
  IF N = 0 \/ mixed # {} \/ \E i \in Item : its[i].completeness = "INCOMPLETE"
  THEN "INCOMPLETE"
  ELSE IF \E i \in Item : its[i].completeness = "PARTIAL" THEN "PARTIAL"
  ELSE "COMPLETE"

(* An element of a set of names, whichever comes first, or none.            *)
Named(set) == IF set = {} THEN {""} ELSE set

(* to_dict adds is_review_ready.                                           *)
Reported(item) ==
  [item EXCEPT !.ready = Ready(Valid(item), item.disposition, item.completeness)]

(* The reports that two runs of the program may make of one batch: the names   *)
(* are those of the snapshots.                                              *)
Repositories == Present({Coerce(batch[i]).repository : i \in Item})
Mains == Present({Coerce(batch[i]).main : i \in Item})
Builds(its) ==
  LET mixed == Mixed(Repositories, Mains) IN
    [repository : Named(Repositories), main : Named(Mains),
     items : {[i \in Item |-> Reported(its[i])]},
     mixed : {mixed}, completeness : {TopCompleteness(mixed, its)}]

(* Width of a number in decimal, and the order of two numbers as texts:      *)
(* both are filled up with zeros, and of two equal ones the shorter is first. *)
Width[n \in Nat] == IF n < 10 THEN 1 ELSE 1 + Width[n \div 10]
TextBefore(a, b) ==
  LET x == a * 10 ^ Width[b]
      y == b * 10 ^ Width[a]
  IN x < y \/ (x = y /\ a < b)

(* sort_keys puts numbers in their own order and, once read back, in that of  *)
(* their texts: the pairs of keys that are written in ascending order.       *)
Ascending(overlaps, f) ==
  {p \in Number \X Number :
     /\ overlaps[p[1]] # {} /\ overlaps[p[2]] # {}
     /\ p[1] < p[2]
     /\ f = "object" \/ TextBefore(p[1], p[2])}

(* A report and the order of its keys stand for its hash.                   *)
Digest(r, f) == <<r, [i \in Item |-> Ascending(r.items[i].overlaps, f)]>>

Build ==
  /\ pc = "build"
  /\ report' \in Builds(items)
  /\ digest' = Digest(report', form)
  /\ pc' = "verify"
  /\ UNCHANGED <<batch, items, at, form, accepted>>

(* The caller stores the report as JSON and reads it back.                   *)
ReadBack ==
  /\ pc = "verify"
  /\ form = "object"
  /\ form' = "text"
  /\ UNCHANGED <<batch, items, at, report, digest, accepted, pc>>

-----------------------------------------------------------------------------
(***************************************************************************)
(* The verifier looks at nothing but the report.                            *)
(***************************************************************************)
Coherent(item) ==
  /\ item.ready <=> Ready(Valid(item), item.disposition, item.completeness)
  /\ item.disposition = "REVIEW_READY" =>
       Valid(item) /\ ~item.identity.staleEvidence /\ ~item.identity.noUniqueMergeBase

Rederivable(item) ==
  LET d == item.identity
      found == item.findings
      differs == d.base # d.main
      base == BaseDisposition(d.gaps, found)
  IN
    /\ d.staleBase <=> StaleBase(d)
    /\ d.staleEvidence <=> Contradicted(d.declared, d)
    /\ d.gaps = IdentityGaps(d)
    /\ (\E n \in Number : item.overlaps[n] # {}) <=> "PATH_OVERLAP" \in found
    /\ Valid(item) => ("STALE_BASE" \in found <=> differs)
    /\ "STALE_EVIDENCE" \in found <=> d.staleEvidence
    /\ "INVALID_IDENTITY" \in found <=> ~Valid(item)
    /\ "NO_UNIQUE_MERGE_BASE" \in found <=> d.noUniqueMergeBase
    /\ \/ item.disposition = base
       \/ /\ item.disposition = "WAIT_REBIND"
          /\ base = "REVIEW_READY"
          /\ found \cap {"PATH_OVERLAP", "SAME_ISSUE_CHAIN"} # {}
    /\ d.gaps \subseteq item.gaps
    /\ "MERGE_BASE_UNKNOWN" \in found
         <=> "merge-base with current main unknown" \in item.gaps
    /\ "MERGEABLE_UNKNOWN" \in found <=> "mergeable state unknown" \in item.gaps
    /\ "MERGE_BASE_UNKNOWN" \in found =>
         (differs \/ ~Valid(item)) /\ "NO_UNIQUE_MERGE_BASE" \notin found
    /\ item.completeness =
         IF ~Valid(item) \/ "COLLECTION_INCOMPLETE" \in found THEN "INCOMPLETE"
         ELSE IF "MERGEABLE_UNKNOWN" \in found \/ ~(item.gaps \subseteq Unknown)
              THEN "PARTIAL"
         ELSE "COMPLETE"

(* The graph of overlaps as the report has it.                              *)
OverlapsMatch(its) ==
  LET number(i) == its[i].identity.number
      eligible(i) == BaseDisposition(its[i].identity.gaps, its[i].findings) = "REVIEW_READY"
      demoted(i) == /\ eligible(i)
                    /\ \E j \in Item : eligible(j) /\ its[i].overlaps[number(j)] # {}
  IN
    /\ \A i, j \in Item : number(i) = number(j) => i = j
    /\ \A i \in Item : its[i].overlaps[number(i)] = {}
    /\ \A i, j \in Item : its[i].overlaps[number(j)] # {} =>
                            its[j].overlaps[number(i)] = its[i].overlaps[number(j)]
    /\ \A i \in Item : demoted(i) => its[i].disposition = "WAIT_REBIND"
    /\ \A i \in Item : its[i].disposition = "WAIT_REBIND" =>
                         demoted(i) \/ "SAME_ISSUE_CHAIN" \in its[i].findings

(* The names are now those of the identities.                               *)
AggregatesMatch(r) ==
  LET repositories == Present({r.items[i].identity.repository : i \in Item})
      mains == Present({r.items[i].identity.main : i \in Item})
  IN /\ r.mixed = Mixed(repositories, mains)
     /\ r.completeness = TopCompleteness(r.mixed, r.items)
     /\ Several(repositories) \/ r.repository \in Named(repositories)
     /\ Several(mains) \/ r.main \in Named(mains)

Accepts(r) ==
  /\ \A i \in Item : Coherent(r.items[i]) /\ Rederivable(r.items[i])
  /\ AggregatesMatch(r)
  /\ OverlapsMatch(r.items)

Verify ==
  /\ pc = "verify"
  /\ accepted' = (digest = Digest(report, form) /\ Accepts(report))
  /\ pc' = "done"
  /\ UNCHANGED <<batch, items, at, report, digest, form>>

-----------------------------------------------------------------------------
NoReport ==
  [repository |-> "", main |-> "", items |-> <<>>, mixed |-> {}, completeness |-> "INCOMPLETE"]
NoIdentity ==
  [repository |-> "", number |-> 0, base |-> "", head |-> "", main |-> "",
   declared |-> Nothing, staleBase |-> FALSE, staleEvidence |-> FALSE, gaps |-> {},
   noUniqueMergeBase |-> FALSE]
NoItem ==
  [identity |-> NoIdentity, findings |-> {}, disposition |-> "NEEDS_ATTENTION", risk |-> "MED",
   overlaps |-> [n \in Number |-> {}], completeness |-> "INCOMPLETE", gaps |-> {},
   ready |-> FALSE]

Init ==
  /\ batch \in Batch
  /\ items = [i \in Item |-> NoItem]
  /\ at = 1
  /\ report = NoReport
  /\ digest = <<>>
  /\ form = "object"
  /\ accepted = FALSE
  /\ pc = "classify"

Next == ClassifyItem \/ Detect \/ Build \/ ReadBack \/ Verify

Spec == Init /\ [][Next]_vars

-----------------------------------------------------------------------------
(***************************************************************************)
(* Properties.                                                             *)
(***************************************************************************)
Identities ==
  [repository : Repository \cup {"", "None"}, number : Nat, base : Sha \cup {""},
   head : Sha \cup {""}, main : Sha \cup {""}, declared : Declared, staleBase : BOOLEAN, staleEvidence : BOOLEAN,
   gaps : SUBSET IdentityGap, noUniqueMergeBase : BOOLEAN]
Items ==
  [identity : Identities, findings : SUBSET Finding, disposition : Disposition,
   risk : {"MED", "HIGH"}, overlaps : [Number -> SUBSET File], completeness : Completeness,
   gaps : SUBSET Gap, ready : BOOLEAN]
Reports ==
  [repository : Repository \cup {""}, main : Sha \cup {""}, items : [Item -> Items],
   mixed : SUBSET {"repository", "current main"}, completeness : Completeness]

Digests == Reports \X [Item -> SUBSET (Number \X Number)]

(* The values of the variables.                                            *)
TypeOK ==
  /\ batch \in Batch
  /\ items \in [Item -> Items]
  /\ at \in 1 .. N + 1
  /\ report \in Reports \cup {NoReport}
  /\ digest \in Digests \cup {<<>>}
  /\ form \in {"object", "text"}
  /\ accepted \in BOOLEAN
  /\ pc \in {"classify", "build", "verify", "done"}

(* What makes a pull request ready when nobody else is in sight.             *)
Unblocked(s) ==
  LET now(side) == IF side = "main" /\ s.main \in Missing THEN s.base ELSE s[side]
      said(side) == IF s.mapping /\ s.declared[side] = None THEN s.legacy[side]
                    ELSE s.declared[side]
  IN /\ s.repository \in WellFormed /\ s.number # 0
     /\ s.head \notin Missing /\ s.base \notin Missing
     /\ s.main \notin Missing \/ s.mapping
     /\ s.complete /\ s.mergeable = "yes" /\ s.mergeBase # "NONE"
     /\ ~s.draft /\ s.hold = {} /\ s.labels \cap StaleLabel = {}
     /\ \A side \in Sides : said(side) \in Missing \cup {now(side)}

(* The report says "ready" of exactly the pull requests that nothing blocks  *)
(* and that conflict with none of the others that nothing blocks.           *)
ReadyExactly ==
  pc \in {"verify", "done"} =>
    \A i \in Item :
      report.items[i].ready <=>
        /\ Unblocked(batch[i])
        /\ \A j \in Item : D!Conflict(i, j) => ~Unblocked(batch[j])

(* Without the batch the verifier comes to the same findings: it accepts     *)
(* every report of the builder, unless two pull requests have one number;     *)
(* a repository is None, which the identity calls "None", and the others do    *)
(* not give the report that name or several; or, once it is read back, the     *)
(* keys of some overlaps sort differently as texts.                          *)
DistinctNumbers ==
  \A i, j \in Item : batch[i].number = batch[j].number => i = j
SameOrder ==
  \A i, j, k \in Item :
    D!Shared(i, j) # {} /\ D!Shared(i, k) # {} /\ batch[j].number < batch[k].number
      => TextBefore(batch[j].number, batch[k].number)
NamesAgree ==
  (\E i \in Item : batch[i].repository = None) =>
    LET others == Present({batch[i].repository : i \in Item}) IN
      "None" \in others \/ Several(others)
GenuineAccepted ==
  pc = "done" =>
    (accepted <=> DistinctNumbers /\ NamesAgree /\ (form = "text" => SameOrder))

(* _hashing.py: the hash is that of canonical JSON.  So a report that        *)
(* verifies as it was built also verifies when it is read back from JSON.    *)
ReadBackVerifies ==
  pc = "done" /\ form = "text" => (accepted <=> DistinctNumbers /\ NamesAgree)

(* The name of a report is taken from a set, so two runs of the program may  *)
(* differ in it; a batch for which they do is reported as incomplete.        *)
AmbiguousIsIncomplete ==
  pc \in {"verify", "done"} =>
    ((\E r \in Builds(items) : r # report) => report.completeness = "INCOMPLETE")
=============================================================================
