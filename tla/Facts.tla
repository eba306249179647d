--------------------------------- MODULE Facts ---------------------------------
(***************************************************************************)
(* repository_intelligence/facts.py: what a detector's observations prove      *)
(* about the covered files of a revision, and the verifier, which classifies  *)
(* the embedded observations again.                                         *)
(*                                                                         *)
(* "" is a language, detector version, path or kind that is missing or        *)
(* malformed; `odd' names what else is malformed and was dropped.            *)
(***************************************************************************)
EXTENDS Revision

CONSTANTS
  FactKind,
  TestPath,     \* the paths _is_test_path recognises
  Subject       \* Subject[path]: what its name is about, "" if nothing

Input(data) == data.snapshot \in Snapshot

Related == "RELATED_TEST_CHANGED"

RelatedTests(changed) ==
  {t \in changed \cap TestPath :
     \E s \in changed \ TestPath : Subject[s] = Subject[t] /\ Subject[t] # ""}

Valid(o, covered) == o.path \in covered /\ o.placed

Evidence(kind, given) ==
  {o \in given.observations : o.kind = kind /\ Valid(o, given.covered)}
InvalidKinds(given) ==
  {o.kind : o \in {p \in given.observations : ~Valid(p, given.covered)}}

Unresolved(given) ==
  IF IdentityGaps(given.snapshot) # {} THEN "INVALID_REVISION_IDENTITY"
  ELSE IF StaleEvidence(given.snapshot) THEN "STALE_EVIDENCE"
  ELSE IF ~given.complete THEN "EVIDENCE_INCOMPLETE"
  ELSE IF given.language = "" THEN "LANGUAGE_UNSPECIFIED"
  ELSE ""

RelatedTestChanged(changed) ==
  LET tests == {[path |-> t, placed |-> TRUE, kind |-> Related] : t \in RelatedTests(changed)}
  IN IF changed = {} THEN [status |-> "UNKNOWN", reason |-> "NO_CHANGED_FILES", evidence |-> {}]
     ELSE IF tests # {}
     THEN [status |-> "PROVEN", reason |-> "TEST_CHANGE_DETECTED", evidence |-> tests]
     ELSE [status |-> "NOT_OBSERVED", reason |-> "COVERAGE_COMPLETE", evidence |-> {}]

(* The fault: an observation that is not valid is no observation.             *)
FaultyFact(kind, given) ==
  LET of(status, reason) == [status |-> status, reason |-> reason, evidence |-> {}] IN
  IF Unresolved(given) # "" THEN of("UNRESOLVED", Unresolved(given))
  ELSE IF kind = Related THEN RelatedTestChanged(given.changed)
  ELSE IF kind \notin given.supported THEN of("UNKNOWN", "DETECTOR_NOT_IMPLEMENTED")
  ELSE IF Evidence(kind, given) = {} THEN of("NOT_OBSERVED", "COVERAGE_COMPLETE")
  ELSE [status |-> "PROVEN", reason |-> "DETECTOR_OBSERVATION",
        evidence |-> Evidence(kind, given)]
(* What was observed of a kind that no detector is declared for is dropped.    *)
Fact(kind, given) ==
  LET of(status, reason) == [status |-> status, reason |-> reason, evidence |-> {}] IN
  IF Unresolved(given) # "" THEN of("UNRESOLVED", Unresolved(given))
  ELSE IF kind \in InvalidKinds(given) THEN of("UNRESOLVED", "INVALID_OBSERVATION")
  ELSE IF kind = Related THEN RelatedTestChanged(given.changed)
  ELSE IF kind \notin given.supported THEN of("UNKNOWN", "DETECTOR_NOT_IMPLEMENTED")
  ELSE IF Evidence(kind, given) = {} THEN of("NOT_OBSERVED", "COVERAGE_COMPLETE")
  ELSE [status |-> "PROVEN", reason |-> "DETECTOR_OBSERVATION",
        evidence |-> Evidence(kind, given)]

Facts(given) == [kind \in given.requested |-> Fact(kind, given)]

(* An invalid observation of a kind that was not asked for counts as well.     *)
Completeness(given) ==
  IF \/ Unresolved(given) # "" \/ InvalidKinds(given) # {} \/ given.errors # {}
     \/ given.covered = {} \/ given.declared = {} \/ given.requested = {}
     \/ \E kind \in given.requested : Facts(given)[kind].status = "UNRESOLVED"
  THEN "INCOMPLETE" ELSE "COMPLETE"

CollectionErrors(data) ==
  data.errors \cup data.odd \cup
  {k \in {"language missing or invalid", "detector_version missing or invalid",
          "requested_facts contains no known fact kinds", "no covered_files provided",
          "observation has unknown fact_kind",
          "changed_files do not match snapshot.changed_files"} :
     \/ k = "language missing or invalid" /\ data.language = ""
     \/ k = "detector_version missing or invalid" /\ data.detector = ""
     \/ k = "requested_facts contains no known fact kinds" /\ data.requested = {}
     \/ k = "no covered_files provided" /\ data.covered = {}
     \/ k = "observation has unknown fact_kind" /\ \E o \in data.observations : o.kind = ""
     \/ k = "changed_files do not match snapshot.changed_files"
          /\ data.changed # data.snapshotChanged}

Analyze(data) ==
  LET errors == CollectionErrors(data)
      given == [snapshot |-> data.snapshot, language |-> data.language,
                covered |-> data.covered, changed |-> data.snapshotChanged,
                requested |-> data.requested, declared |-> data.declared,
                supported |-> data.supported, errors |-> errors,
                complete |-> data.complete /\ errors = {},
                observations |-> {o \in data.observations : o.kind # ""}]
  IN [identity |-> Identity(data.snapshot), given |-> given, detector |-> data.detector,
      facts |-> Facts(given), completeness |-> Completeness(given),
      whole |-> Completeness(given) = "COMPLETE",
      gaps |-> IdentityGaps(data.snapshot) \cup InvalidKinds(given)
                 \cup (IF StaleEvidence(data.snapshot) THEN {"stale identity evidence"} ELSE {})]

-----------------------------------------------------------------------------
Verify(report) ==
  LET again == Rebuilt(report.identity)
      given == [report.given EXCEPT !.snapshot = again,
                                    !.complete = @ /\ report.given.errors = {}]
  IN /\ Identity(again) = report.identity
     /\ report.detector # ""
     /\ report.facts = Facts(given)
     /\ report.completeness = Completeness(given)
     /\ report.whole <=> Completeness(given) = "COMPLETE"
     /\ report.whole => report.gaps = {}
=============================================================================
