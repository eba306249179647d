------------------------------- MODULE CIFailures -------------------------------
(***************************************************************************)
(* The evidence of failed checks (core.py), the triage of it (cfi.py), the      *)
(* envelope that says what an automation may consider (eia.py), and the        *)
(* bundles of both programs (adapters/), each with its verifier.  CheckRuns     *)
(* has how the rows are read; here they are any rows a caller may hand over.    *)
(*                                                                         *)
(* A check is [row, name, status, run, suite, workflow, app, head, expected,    *)
(* located, actions]: `run' is its check-run id, `actions' the Actions run its  *)
(* url names, `located' says whether anything but `run' tells where it ran.     *)
(* "" and 0 are missing, and None for a name that is no text.  Rows that say    *)
(* the same differ in `row'.                                                *)
(***************************************************************************)
EXTENDS Revision, FiniteSets, Naturals

Failure == {"failure", "cancelled"}                   \* SUPPORTED_TERMINAL_FAILURES
Ended == Failure \cup {"success", "startup_failure"}  \* TERMINAL_CHECK_STATES

Check ==
  [row : Nat, name : MaybeText, status : STRING, run : Nat, suite : Nat, workflow : Nat,
   app : STRING, head : STRING, expected : BOOLEAN, located : BOOLEAN, actions : Nat]
(* A report that claims something is handed to the planner as a report.        *)
Input(input) ==
  /\ input.snapshot \in Snapshot
  /\ input.checks \subseteq Check /\ IsFiniteSet(input.checks)
  /\ {"snapshot", "checks", "self", "complete", "errors", "expected", "wanted"}
       \subseteq DOMAIN input
  /\ input.claimed # "" => input.given = "report"

-----------------------------------------------------------------------------
(* partition_effective_checks.                                              *)
Identified(c) == c.name \notin Missing /\ c.app # "" /\ c.workflow # 0 /\ c.run # 0

(* The fault: a run supersedes itself.                                       *)
FaultySupersedes(c, d) ==
  /\ Identified(c) /\ Identified(d) /\ c # d
  /\ <<c.name, c.app, c.workflow>> = <<d.name, d.app, d.workflow>>
  /\ c.run >= d.run
Supersedes(c, d) ==
  /\ Identified(c) /\ Identified(d)
  /\ <<c.name, c.app, c.workflow>> = <<d.name, d.app, d.workflow>>
  /\ c.run > d.run

OfSelf(c, input) == c.suite # 0 /\ c.suite \in input.self
NewerRuns(c, input) == {d.run : d \in {e \in input.checks : Supersedes(e, c)}}
Superseded(c, input) ==
  ~OfSelf(c, input) /\ c.status = "cancelled" /\ NewerRuns(c, input) # {}

Ignored(input) ==
  {[check |-> c, reason |-> "SELF_WORKFLOW", by |-> 0] :
     c \in {d \in input.checks : OfSelf(d, input)}} \cup
  {[check |-> c, reason |-> "SUPERSEDED_CANCELLED",
    by |-> CHOOSE n \in NewerRuns(c, input) : \A m \in NewerRuns(c, input) : m <= n] :
     c \in {d \in input.checks : Superseded(d, input)}}
Effective(input) == {c \in input.checks : ~OfSelf(c, input) /\ ~Superseded(c, input)}

(* _normalize_check; head is "" for an identity that is not valid.            *)
Normal(c) == c.name \notin Missing /\ c.status # ""
CheckGaps(c, head) ==
  {k \in {"check name missing or invalid", "check status missing or invalid",
          "check head_sha mismatches PR head_sha", "terminal check missing head_sha",
          "terminal check cannot anchor to missing PR head_sha",
          "terminal check missing material execution/evidence locator"} :
     \/ k = "check name missing or invalid" /\ c.name \in Missing
     \/ k = "check status missing or invalid" /\ c.name \notin Missing /\ c.status = ""
     \/ /\ k = "check head_sha mismatches PR head_sha"
        /\ Normal(c) /\ head # "" /\ c.head \notin {"", head}
     \/ /\ Normal(c) /\ c.status \in Failure
        /\ \/ k = "terminal check missing head_sha" /\ c.head = ""
           \/ /\ k = "terminal check cannot anchor to missing PR head_sha"
              /\ c.head # "" /\ head = ""
           \/ /\ k = "terminal check missing material execution/evidence locator"
              /\ c.run = 0 /\ ~c.located}

(* fingerprint_ci_failures; `wanted' is expected_check_run_id, which a caller   *)
(* in Python may give, and stands for the other three it may expect too.       *)
Fingerprint(input) ==
  LET identity == Identity(input.snapshot)
      head == IF identity.gaps = {} THEN identity.head ELSE ""
      counted == {c \in Effective(input) : Normal(c)}
      failures == {c \in counted : c.status \in Failure}
      expected == {c \in failures : c.expected \/ input.expected}
      gaps == identity.gaps \cup input.errors
                \cup (UNION {CheckGaps(c, head) : c \in Effective(input)})
                \cup {k \in {"collection_incomplete", "no_check_evidence_provided",
                             "foreign check identity"} :
                        \/ k = "collection_incomplete" /\ ~input.complete
                        \/ k = "no_check_evidence_provided" /\ input.checks = {}
                        \/ /\ k = "foreign check identity"
                           /\ input.wanted # 0 /\ \E c \in failures : c.run # input.wanted}
  IN [identity |-> identity, unexpected |-> failures \ expected, expected |-> expected,
      total |-> Cardinality(counted), gaps |-> gaps, whole |-> gaps = {},
      ignored |-> Ignored(input), self |-> input.self, wanted |-> input.wanted]

(* _ignored_checks_are_coherent: a name is asked for, and "" is one.          *)
Coherent(evidence) ==
  \A i \in evidence.ignored :
    LET c == i.check IN
      /\ c.name # None
      /\ c.run # 0 => \A d \in evidence.unexpected \cup evidence.expected : d.run # c.run
      /\ CASE i.reason = "SELF_WORKFLOW" -> c.suite \in evidence.self
           [] i.reason = "SUPERSEDED_CANCELLED" ->
                c.status = "cancelled" /\ c.run # 0 /\ c.workflow # 0 /\ c.app # "" /\ i.by > c.run

VerifyEvidence(evidence) ==
  /\ evidence.whole => evidence.gaps = {}
  /\ Coherent(evidence)
  /\ evidence.whole =>
       \A c \in evidence.unexpected \cup evidence.expected :
         /\ c.head = evidence.identity.head
         /\ evidence.wanted # 0 => c.run = evidence.wanted

-----------------------------------------------------------------------------
(* analyze_ci_failure_intelligence.                                         *)
Triage(evidence) ==
  IF ~evidence.whole THEN "INSUFFICIENT_EVIDENCE"
  ELSE IF evidence.unexpected # {} THEN "UNEXPECTED_FAILURE_OBSERVED"
  ELSE IF evidence.expected # {} THEN "EXPECTED_FAILURE_ONLY"
  ELSE "NO_TERMINAL_FAILURE"

Analyze(input) ==
  LET evidence == Fingerprint(input) IN
    [identity |-> evidence.identity, evidence |-> evidence, status |-> Triage(evidence),
     eligible |-> Triage(evidence) = "UNEXPECTED_FAILURE_OBSERVED",
     names |-> {c.name : c \in evidence.unexpected \cup evidence.expected},
     gaps |-> evidence.gaps]

Verify(report) ==
  LET evidence == report.evidence IN
    /\ VerifyEvidence(evidence)
    /\ evidence.identity = report.identity
    /\ \A c \in evidence.unexpected \cup evidence.expected : c.status \in Failure
    /\ report.status = Triage(evidence)
    /\ report.eligible <=> report.status = "UNEXPECTED_FAILURE_OBSERVED"
    /\ report.gaps = evidence.gaps
    /\ report.names = {c.name : c \in evidence.unexpected \cup evidence.expected}

-----------------------------------------------------------------------------
(* plan_external_intelligence_automation, on a snapshot or on a report on it;   *)
(* a report that claims another status than its own was hashed again.  The      *)
(* identity is rebuilt without no_unique_merge_base.                         *)
Given(input) ==
  LET report == Analyze(input) IN
    IF input.claimed = "" THEN report
    ELSE [report EXCEPT !.status = input.claimed,
                        !.eligible = input.claimed = "UNEXPECTED_FAILURE_OBSERVED"]

(* What raises ValueError: neither of the two, or a report that does not        *)
(* verify.                                                                  *)
Refused(input) ==
  input.given = "neither" \/ (input.given = "report" /\ ~Verify(Given(input)))

Key(identity, action, reference) ==
  <<<<identity.repository, identity.number, identity.head, identity.base, identity.main>>,
    action, reference>>

Plan(report) ==
  LET identity == [report.identity EXCEPT !.noUniqueMergeBase = FALSE]
      envelope(decision, action, reason, gaps) ==
        [identity |-> identity, decision |-> decision, action |-> action, reason |-> reason,
         gaps |-> gaps, reference |-> report, key |-> Key(identity, action, report)]
  IN IF identity.staleBase \/ identity.staleEvidence
     THEN envelope("BLOCKED", "NONE", "IDENTITY_STALE_FOR_AUTOMATION",
                   report.gaps \cup {"identity_stale_for_automation"})
     ELSE IF report.status = "UNEXPECTED_FAILURE_OBSERVED" /\ report.eligible
     THEN envelope("READY", "CI_FAILURE_DIAGNOSIS",
                   "UNEXPECTED_FAILURE_WITH_COMPLETE_EVIDENCE", {})
     ELSE IF report.status \in {"NO_TERMINAL_FAILURE", "EXPECTED_FAILURE_ONLY"}
     THEN envelope("NO_ACTION", "NONE", report.status, {})
     ELSE envelope("BLOCKED", "NONE", "EVIDENCE_INSUFFICIENT_FOR_AUTOMATION", report.gaps)

(* The envelope is judged by itself; its report is a digest to it.            *)
VerifyEnvelope(e) ==
  LET stale == e.identity.staleBase \/ e.identity.staleEvidence IN
    /\ e.identity.gaps = {}
    /\ e.key = Key(e.identity, e.action, e.reference)
    /\ CASE e.decision = "READY" ->
              /\ e.action = "CI_FAILURE_DIAGNOSIS" /\ ~stale /\ e.gaps = {}
              /\ e.reason = "UNEXPECTED_FAILURE_WITH_COMPLETE_EVIDENCE"
         [] e.decision = "NO_ACTION" ->
              /\ e.action = "NONE" /\ ~stale /\ e.gaps = {}
              /\ e.reason \in {"NO_TERMINAL_FAILURE", "EXPECTED_FAILURE_ONLY"}
         [] e.decision = "BLOCKED" ->
              /\ e.action = "NONE"
              /\ IF stale THEN /\ e.reason = "IDENTITY_STALE_FOR_AUTOMATION"
                               /\ "identity_stale_for_automation" \in e.gaps
                 ELSE e.reason = "EVIDENCE_INSUFFICIENT_FOR_AUTOMATION" /\ e.gaps # {}

-----------------------------------------------------------------------------
(***************************************************************************)
(* The bundle of the action.  Of readiness it has the identity here; that an   *)
(* item is coherent is ReadinessProofs!CoherentGenuine.                      *)
(***************************************************************************)
Bundle(input) ==
  [revision |-> Identity(input.snapshot), readiness |-> Identity(Coerce(input.snapshot)),
   cfi |-> Analyze(input), eia |-> Plan(Analyze(input))]

(* _norm: a declared revision that is "" is as good as none.                 *)
Plain(id) == [id EXCEPT !.declared = [side \in Sides |-> IF @[side] = "" THEN None ELSE @[side]]]

VerifyBundle(b) ==
  /\ Plain(b.cfi.identity) = Plain(b.readiness)
  /\ Plain(b.eia.identity) = [Plain(b.readiness) EXCEPT !.noUniqueMergeBase = FALSE]
  /\ \A id \in {b.readiness, b.cfi.identity, b.eia.identity} :
       /\ id.repository = b.revision.repository /\ id.number = b.revision.number
       /\ id.head = b.revision.head /\ id.base = b.revision.base /\ id.main = b.revision.main
  /\ Verify(b.cfi)
  /\ VerifyEnvelope(b.eia)

(* The bundle of the terminal program, on the sample its wait returns, which     *)
(* has been collected for the head.                                         *)
External(input) == {c \in input.checks : c.actions # input.current}
Waited(input) ==
  /\ input.current # 0 /\ input.complete
  /\ \A c \in input.checks : c.head = input.snapshot.head
  /\ External(input) # {} /\ \A c \in External(input) : c.status \in Ended

TerminalBundle(input) ==
  [bundle |-> Bundle(input), head |-> input.snapshot.head, run |-> input.current,
   observed |-> External(input)]

VerifyTerminalBundle(t) ==
  /\ VerifyBundle(t.bundle)
  /\ t.head = t.bundle.revision.head
  /\ t.run # 0
  /\ t.observed # {}
  /\ \A c \in t.observed : c.head = t.head /\ c.status \in Ended /\ c.actions # t.run
=============================================================================
