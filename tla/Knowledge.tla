------------------------------- MODULE Knowledge -------------------------------
(***************************************************************************)
(* repository_intelligence/knowledge.py: which knowledge artifacts the changes *)
(* of a pull request leave current, and the verifier, which analyses again    *)
(* what the report embeds.                                                  *)
(*                                                                         *)
(* "" is a path, hash, pattern or kind that is missing or malformed, 0 an      *)
(* artifact id or path that is.  A problem is a pair <<text, index>>; so is an *)
(* error of the caller.  Of two changes none is malformed.                   *)
(***************************************************************************)
EXTENDS Revision, Ordering, Sequences

CONSTANT Matched   \* Matched[pattern]: the paths that it matches

ArtifactProblem ==
  {"KNOWLEDGE_ARTIFACT_INVALID", "SOURCE_REFS_INVALID", "SOURCE_PATH_INVALID",
   "SOURCE_SHA256_INVALID", "COVER_INVALID", "ARTIFACT_ID_INVALID",
   "ARTIFACT_PATH_INVALID"}
ChangeProblem == {"CHANGE_KIND_INVALID", "CHANGE_PATH_MISSING", "CHANGE_OLD_PATH_MISSING"}

(* The artifacts of the input are a list, and the patterns of its scope known.  *)
Artifact ==
  [id : Nat, path : Nat, refs : SUBSET [source : STRING, hash : STRING],
   covers : SUBSET STRING, shape : {"whole", "no list", "no mapping"}]
Input(evidence) ==
  /\ evidence.snapshot \in Snapshot
  /\ evidence.artifacts \in Seq(Artifact)
  /\ evidence.scope \subseteq DOMAIN Matched

(* An artifact that is no mapping is dropped, source_refs that are no list are *)
(* read as an empty one.                                                    *)
ArtifactProblems(artifacts) ==
  {p \in ArtifactProblem \X DOMAIN artifacts :
     LET k == p[1]
         a == artifacts[p[2]]
     IN IF a.shape = "no mapping" THEN k = "KNOWLEDGE_ARTIFACT_INVALID"
        ELSE \/ k = "SOURCE_REFS_INVALID" /\ a.shape = "no list"
             \/ /\ a.shape = "whole"
                /\ \E ref \in a.refs :
                     \/ k = "SOURCE_PATH_INVALID" /\ ref.source = ""
                     \/ k = "SOURCE_SHA256_INVALID" /\ ref.hash = ""
             \/ k = "COVER_INVALID" /\ "" \in a.covers
             \/ k = "ARTIFACT_ID_INVALID" /\ a.id = 0
             \/ k = "ARTIFACT_PATH_INVALID" /\ a.path = 0}

(* The order of id and path, and of the list where both are the same.         *)
Before(artifacts, kept) ==
  {p \in kept \X kept :
     LET a == artifacts[p[1]]
         b == artifacts[p[2]]
     IN \/ a.id < b.id
        \/ a.id = b.id /\ a.path < b.path
        \/ a.id = b.id /\ a.path = b.path /\ p[1] < p[2]}

Normalised(a) ==
  [a EXCEPT !.refs = {ref \in @ : a.shape = "whole" /\ ref.source # "" /\ ref.hash # ""},
            !.covers = @ \ {""},
            !.shape = "whole"]

NormaliseArtifacts(artifacts) ==
  LET kept == {i \in DOMAIN artifacts : artifacts[i].shape # "no mapping"}
      sorted == InOrder(kept, Before(artifacts, kept))
  IN [k \in DOMAIN sorted |-> Normalised(artifacts[sorted[k]])]

ChangeProblems(changes) ==
  {p \in ChangeProblem \X {1} :
     \E c \in changes :
       \/ p[1] = "CHANGE_KIND_INVALID" /\ c.kind = ""
       \/ p[1] = "CHANGE_PATH_MISSING" /\ c.path = "" /\ c.kind \in {"ADD", "MODIFY", "RENAME"}
       \/ p[1] = "CHANGE_OLD_PATH_MISSING" /\ c.old = "" /\ c.kind \in {"DELETE", "RENAME"}}

RemovedOrRenamed(changes) ==
  {c.old : c \in {d \in changes : d.kind \in {"DELETE", "RENAME"}}} \ {""}

ChangedPaths(changes) ==
  ({c.path : c \in changes} \cup RemovedOrRenamed(changes)) \ {""}

Covered(patterns) == UNION {Matched[p] : p \in patterns}

Problems(evidence) ==
  ArtifactProblems(evidence.artifacts) \cup ChangeProblems(evidence.changes)
    \cup (evidence.odd \X {1})

-----------------------------------------------------------------------------
Sources(a) == {ref.source : ref \in a.refs}
Eligible(a) == a.id # 0 /\ a.path # 0

(* The sources of a that are gone or no longer what it was written from.      *)
Outdated(a, evidence) ==
  {s \in Sources(a) :
     \/ s \in RemovedOrRenamed(evidence.changes)
     \/ \E ref \in a.refs : ref.source = s /\ evidence.observed[s] \notin {"", ref.hash}}
Unobserved(a, evidence) ==
  {s \in Sources(a) \ RemovedOrRenamed(evidence.changes) : evidence.observed[s] = ""}

Affected(a, evidence) ==
  Outdated(a, evidence) \cup
    ((ChangedPaths(evidence.changes) \ Sources(a)) \cap Covered(a.covers))

Status(a, evidence, doubt) ==
  IF doubt \/ ~Eligible(a) \/ Unobserved(a, evidence) # {} THEN "UNKNOWN"
  ELSE IF Outdated(a, evidence) # {} THEN "STALE_EXACT_SOURCE"
  ELSE IF Affected(a, evidence) # {} THEN "AFFECTED_BY_COVERAGE"
  ELSE "CURRENT"

(* The fault: an artifact without an identity claims paths as well.          *)
FaultyClaimed(a, changed) == Sources(a) \cup (changed \cap Covered(a.covers))
Claimed(a, changed) ==
  IF Eligible(a) THEN Sources(a) \cup (changed \cap Covered(a.covers)) ELSE {}

(* What is wrong with an artifact does not keep the list of artifacts from    *)
(* being complete, so uncovered_changes may be stated with problems at hand.  *)
InventoryComplete(evidence) ==
  /\ Trusted(evidence.snapshot)
  /\ evidence.complete
  /\ \A i \in DOMAIN evidence.artifacts : evidence.artifacts[i].shape = "whole"
  /\ "COLLECTION_ERRORS_INVALID" \notin evidence.odd
  /\ evidence.errors = {}

EvidenceGaps(evidence, errors) ==
  {k \in {"REVISION_IDENTITY_INVALID_OR_STALE", "COLLECTION_INCOMPLETE",
          "COLLECTION_ERROR", "IN_SCOPE_MISSING"} :
     \/ k = "REVISION_IDENTITY_INVALID_OR_STALE" /\ ~Trusted(evidence.snapshot)
     \/ k = "COLLECTION_INCOMPLETE" /\ ~evidence.complete
     \/ k = "COLLECTION_ERROR" /\ errors # {}
     \/ k = "IN_SCOPE_MISSING" /\ evidence.scope = {}}

Analyze(evidence) ==
  LET artifacts == NormaliseArtifacts(evidence.artifacts)
      changed == ChangedPaths(evidence.changes)
      errors == evidence.errors \cup Problems(evidence)
      gaps == EvidenceGaps(evidence, errors)
      doubt == gaps \ {"IN_SCOPE_MISSING"} # {}
      relations == [i \in DOMAIN artifacts |->
                      [artifact |-> artifacts[i],
                       status |-> Status(artifacts[i], evidence, doubt),
                       affected |-> Affected(artifacts[i], evidence)]]
      claimed == UNION {Claimed(artifacts[i], changed) : i \in DOMAIN artifacts}
  IN [identity |-> Identity(evidence.snapshot), artifacts |-> artifacts,
      changes |-> evidence.changes, observed |-> evidence.observed,
      scope |-> evidence.scope, complete |-> evidence.complete, errors |-> errors,
      relations |-> relations,
      uncovered |-> IF InventoryComplete(evidence)
                    THEN (changed \cap Covered(evidence.scope)) \ claimed ELSE {},
      gaps |-> gaps,
      whole |-> gaps = {} /\ \A i \in DOMAIN relations : relations[i].status # "UNKNOWN"]

-----------------------------------------------------------------------------
(* The errors that the report records, the engine's own among them, are the   *)
(* caller's when it is analysed again.                                      *)
Neutral(report) ==
  [snapshot |-> Rebuilt(report.identity), artifacts |-> report.artifacts,
   changes |-> report.changes, observed |-> report.observed, scope |-> report.scope,
   complete |-> report.complete, errors |-> report.errors, odd |-> {}]

Verify(report) == Analyze(Neutral(report)) = report
=============================================================================
