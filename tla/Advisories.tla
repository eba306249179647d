------------------------------- MODULE Advisories -------------------------------
(***************************************************************************)
(* The advisory reports of repository_intelligence: one operation, called by   *)
(* the command line (cli.py), by the adapters or as a function, analyses one   *)
(* input and emits a report, which a consumer verifies.  Module Impact has the  *)
(* steps of change impact; the other analyzers are functions of their input,   *)
(* each in a module of its own.  An input is of the form its operation asks for *)
(* ("object") or not.                                                       *)
(***************************************************************************)
EXTENDS Impact, FiniteSets, Naturals, Sequences

CONSTANTS
  Matched,                       \* see Knowledge and GuardDelta
  FactKind, TestPath, Subject,   \* see Facts
  Inputs                         \* Inputs[op]: the inputs of the other operations

K == INSTANCE Knowledge
G == INSTANCE GuardDelta
F == INSTANCE Facts
R == INSTANCE Retrieval
C == INSTANCE CheckRoles
S == INSTANCE Systemic
E == INSTANCE CIFailures

(* Of the operations of the command line, those that are modelled here; cfi     *)
(* has that of ci, its evidence, in its report.                              *)
Commands == {"impact", "knowledge", "guard-delta", "facts", "query", "systemic", "cfi", "eia"}
Operation ==
  Commands \cup {"task query", "check roles", "cloud bundle", "terminal cloud bundle"}

VARIABLES op, form, evidence, report, verdict, pc

advisoriesVars == <<impactVars, op, form, evidence, report, verdict, pc>>

(* The inputs are of the form the operation normalises them to; the terminal    *)
(* program has waited for the checks.                                        *)
Proper(o, data) ==
  CASE o = "knowledge" -> K!Input(data)
    [] o = "guard-delta" -> G!Input(data)
    [] o = "facts" -> F!Input(data)
    [] o \in {"query", "task query"} -> R!Input(data)
    [] o = "check roles" -> C!Input(data)
    [] o = "systemic" -> S!Input(data)
    [] o = "cfi" -> E!Input(data)
    [] o = "eia" -> E!Input(data) /\ (data.given = "snapshot" => data.snapshot.mapping)
    [] o = "cloud bundle" -> E!Input(data) /\ data.snapshot.mapping
    [] o = "terminal cloud bundle" ->
         E!Input(data) /\ data.snapshot.mapping /\ E!Waited(data)
ASSUME MatchedAssumption == \A p \in DOMAIN Matched : "" \notin Matched[p]
ASSUME InputAssumption ==
  \A o \in Operation \ {"impact"} : \A data \in Inputs[o] : Proper(o, data)

-----------------------------------------------------------------------------
(* execute_operation.                                                       *)
Analyzed(o, input) ==
  CASE o = "knowledge" -> K!Analyze(input)
    [] o = "guard-delta" -> G!Analyze(input)
    [] o = "facts" -> F!Analyze(input)
    [] o = "query" -> R!Analyze(input)
    [] o = "task query" -> R!AnalyzeTask(input)
    [] o = "check roles" -> C!Classify(input)
    [] o = "systemic" -> S!Analyze(input)
    [] o = "cfi" -> E!Analyze(input)
    [] o = "eia" -> E!Plan(E!Given(input))
    [] o = "cloud bundle" -> E!Bundle(input)
    [] o = "terminal cloud bundle" -> E!TerminalBundle(input)

VerdictOn(o, r, input) ==
  CASE o = "knowledge" -> K!Verify(r)
    [] o = "guard-delta" -> G!Verify(r)
    [] o = "facts" -> F!Verify(r)
    [] o = "query" -> R!Verify(r)
    [] o = "task query" -> R!VerifyTask(r)
    [] o = "check roles" -> C!Verify(r, input.policy)
    [] o = "systemic" -> S!Verify(r)
    [] o = "cfi" -> E!Verify(r)
    [] o = "eia" -> E!VerifyEnvelope(r)
    [] o = "cloud bundle" -> E!VerifyBundle(r)
    [] o = "terminal cloud bundle" -> E!VerifyTerminalBundle(r)

(* What raises: a bundle hands its report to the planner, and the terminal      *)
(* program verifies the bundle before it wraps it.                           *)
Raises(o, input) ==
  \/ o = "eia" /\ E!Refused(input)
  \/ o = "cloud bundle" /\ ~E!Verify(E!Analyze(input))
  \/ o = "terminal cloud bundle" /\ ~E!VerifyBundle(E!Bundle(input))

(* No file, no JSON or no object: an error payload, and exit status 1.         *)
Refuse ==
  /\ pc = "start"
  /\ form = "object" => Raises(op, evidence)
  /\ pc' = "error"
  /\ UNCHANGED <<impactVars, op, form, evidence, report, verdict>>

Analyze ==
  /\ pc = "start"
  /\ form = "object" /\ ~Raises(op, evidence)
  /\ IF op = "impact"
     THEN pc' = "impact" /\ UNCHANGED report
     ELSE pc' = "printed" /\ report' = Analyzed(op, evidence)
  /\ UNCHANGED <<impactVars, op, form, evidence, verdict>>

AnalyzeImpact ==
  /\ pc = "impact"
  /\ ImpactNext
  /\ UNCHANGED <<op, form, evidence, report, verdict, pc>>

Verify ==
  /\ pc = "printed"
  /\ verdict' = VerdictOn(op, report, evidence)
  /\ pc' = "done"
  /\ UNCHANGED <<impactVars, op, form, evidence, report>>

NoImpact ==
  /\ graph = {} /\ impact = {} /\ accepted = FALSE /\ stage = "direct"
  /\ direct = {} /\ transitive = {} /\ followed = {} /\ waiting = {}

(* A check-role classification without a whole identity raises ValueError.    *)
Init ==
  /\ op \in Operation
  /\ form \in {"object"} \cup (IF op \in Commands THEN {"missing", "malformed", "list"} ELSE {})
  /\ report = {} /\ verdict = FALSE /\ pc = "start"
  /\ IF op = "impact" /\ form = "object" THEN evidence = {} /\ ImpactInit
     ELSE NoImpact /\ evidence \in IF form = "object" THEN Inputs[op] ELSE {{}}

Next == Refuse \/ Analyze \/ AnalyzeImpact \/ Verify

Spec == Init /\ [][Next]_advisoriesVars

-----------------------------------------------------------------------------
Emitted(o) == op = o /\ pc \in {"printed", "done"}

(* A changed path in scope is never passed over: the report calls it uncovered, *)
(* or some artifact with an identity answers for it, by an unknown status, by   *)
(* listing it as affected, or because it still is what it was written from.     *)
(* That holds with problems in the input too, which do not keep the list of     *)
(* artifacts from being complete.                                            *)
NoChangeSilent ==
  Emitted("knowledge") /\ K!InventoryComplete(evidence) =>
    \A c \in evidence.changes :
      \A path \in {c.path} \cup (IF c.kind \in {"DELETE", "RENAME"} THEN {c.old} ELSE {}) :
        path \in K!Covered(evidence.scope) =>
          \/ path \in report.uncovered
          \/ \E i \in DOMAIN report.relations :
               LET relation == report.relations[i] IN
                 /\ relation.artifact.id # 0 /\ relation.artifact.path # 0
                 /\ \/ path \in relation.affected
                    \/ \E ref \in relation.artifact.refs :
                         /\ ref.source = path
                         /\ \/ relation.status = "UNKNOWN"
                            \/ evidence.observed[path] = ref.hash

(* A direction is said of all that was observed: nothing is lost where a guard  *)
(* TIGHTENS, nothing gained where it LOOSENS, and where it is UNCHANGED no      *)
(* field, trigger, witness or hash differs, so that no witness without a        *)
(* direction vouches for an implementation that changed.                      *)
GuardDirection ==
  Emitted("guard-delta") /\ report.whole =>
    LET old == evidence.old.guard
        new == evidence.new.guard
        within(a, b, allowed) ==
          /\ \A f \in G!SetField : a.sets[f] \subseteq b.sets[f]
          /\ G!Triggered(a, evidence.known) \subseteq G!Triggered(b, evidence.known)
          /\ \A w \in evidence.witnesses : w.old = w.new \/ w.new # allowed
    IN /\ report.classification \in {"TIGHTENS", "UNCHANGED"} => within(old, new, "ALLOW")
       /\ report.classification \in {"LOOSENS", "UNCHANGED"} => within(new, old, "DENY")
       /\ report.classification = "UNCHANGED" => old.hashes = new.hashes

(* NOT_OBSERVED is said only where the detector gave no observation of that     *)
(* kind, well-formed or not; and a complete report keeps every observation of   *)
(* the kinds that were asked for and that a detector is declared for.          *)
ObservationsKept ==
  Emitted("facts") =>
    \A kind \in DOMAIN report.facts \ {F!Related} :
      LET given == {o \in evidence.observations : o.kind = kind} IN
        /\ report.facts[kind].status = "NOT_OBSERVED" =>
             given = {} /\ \A o \in evidence.observations : o.kind # ""
        /\ report.whole /\ kind \in evidence.supported =>
             report.facts[kind].evidence = given

(* The list of candidates never loses an exact match, holds at most as many     *)
(* others as are required, and of those the best; a query resolved to bounded   *)
(* candidates lists each that a retriever named, one resolved exactly the only  *)
(* exact one.  The order a task gives them keeps the exact matches as well.     *)
CandidatesKept ==
  Emitted("query") \/ Emitted("task query") =>
    LET query == IF op = "query" THEN report ELSE report.query
        kept == query.kept
        fused == {query.fused[i] : i \in DOMAIN query.fused}
        exact == R!ExactRefs(kept)
        named == UNION {{evidence.retrievers[i].candidates[j] :
                           j \in DOMAIN evidence.retrievers[i].candidates} :
                          i \in DOMAIN evidence.retrievers}
        score(ref) == R!Score(ref, kept, [i \in DOMAIN evidence.retrievers |-> 2])
    IN /\ exact \subseteq fused
       /\ Cardinality(fused \ exact) <= R!Required(evidence)
       /\ \A a \in fused \ exact, b \in R!Refs(kept) \ fused : score(a) >= score(b)
       /\ query.resolution = "BOUNDED_CANDIDATES" => fused = {c.ref : c \in named}
       /\ query.resolution = "EXACT_RESOLUTION" =>
            /\ {c.ref : c \in {d \in named : d.exact}} = exact
            /\ Cardinality(exact) = 1
       /\ op = "task query" /\ report.order # <<>> =>
            exact \subseteq {report.order[i] : i \in DOMAIN report.order}

(* No required gate is missed when the gate is CLEAR and the observation has    *)
(* settled as ADVISORY_COMPLETE: of the checks seen before, every one that the  *)
(* policy requires has one row, and that succeeded on the head under review.    *)
(* CLEAR alone does not say so.                                             *)
GatesClear ==
  /\ Emitted("check roles")
  /\ report.gate = "CLEAR" /\ report.disposition = "ADVISORY_COMPLETE"
  => \A name \in evidence.previous :
       evidence.policy[name] = "REQUIRED_GATE" =>
         \E row \in evidence.rows :
           /\ row.name = name /\ row.status \in C!Success /\ row.head = evidence.head
           /\ \A other \in evidence.rows : other.name = name => other = row

(* A check is reported exactly when enough pull requests have it failing in     *)
(* their latest run, in the window, and later than every sign that it works     *)
(* again: a success on main, a change of its workflow, successes of two pull    *)
(* requests.                                                                *)
SystemicExactly ==
  Emitted("systemic") /\ evidence.observed # 0 =>
    LET latest(r, n) ==
          \A s \in evidence.prs[n] : s.check = r.check => s = r \/ S!Later(r, s)
        fixed(r) ==
          \/ \E s \in evidence.main : s.check = r.check /\ s.status = "success" /\ s.at >= r.at
          \/ \E c \in evidence.workflowChanged : c.path = r.check[1] /\ c.at >= r.at
          \/ \E m, n \in DOMAIN evidence.prs :
               /\ m # n
               /\ \A k \in {m, n} : \E s \in evidence.prs[k] :
                    s.check = r.check /\ latest(s, k) /\ s.status = "success" /\ s.at >= r.at
        failing(check) ==
          {n \in DOMAIN evidence.prs : \E r \in evidence.prs[n] :
             /\ r.check = check /\ latest(r, n) /\ r.status \in S!Failure
             /\ r.at # 0 /\ S!InWindow(r.at, evidence) /\ ~fixed(r)}
        checks == UNION {{r.check : r \in evidence.prs[n]} : n \in DOMAIN evidence.prs}
    IN report.systemic =
         {[check |-> c, prs |-> failing(c)] :
            c \in {d \in checks : Cardinality(failing(d)) >= evidence.least}}

(* The envelope decides what the runs of the checks say, however the pages      *)
(* were torn: a row that is listed once more, or as it was before its run       *)
(* ended, changes the counts and the fingerprint but not the decision, unless   *)
(* that earlier row names another head, which is a gap of its own.  READY        *)
(* and NO_ACTION rest on a whole snapshot of a trusted revision; with NO_ACTION  *)
(* every check that failed was expected to, is of a workflow of the engine      *)
(* itself, or was cancelled and ran again under a newer id: on the head under   *)
(* review, or else that run names no head or is of the engine itself, which no  *)
(* gap reports.                                                             *)
DecidedByRuns ==
  Emitted("eia") \/ Emitted("cloud bundle") \/ Emitted("terminal cloud bundle") =>
    LET envelope == CASE op = "eia" -> report
                      [] op = "cloud bundle" -> report.eia
                      [] OTHER -> report.bundle.eia
        repeats(c, d) ==
          /\ d = [c EXCEPT !.row = d.row, !.status = d.status]
          /\ \/ c.status = d.status /\ c.row > d.row
             \/ /\ c.status = "in_progress" /\ d.status # c.status /\ c.run # 0
                /\ c.head \in {"", evidence.snapshot.head}
        once == {c \in evidence.checks : ~\E d \in evidence.checks : repeats(c, d)}
    IN /\ envelope.decision = E!Plan(E!Analyze([evidence EXCEPT !.checks = once])).decision
       /\ envelope.decision # "BLOCKED" =>
            /\ K!Trusted(evidence.snapshot) /\ evidence.snapshot.base = evidence.snapshot.main
            /\ evidence.complete /\ once # {}
       /\ envelope.decision = "NO_ACTION" =>
            \A c \in evidence.checks :
              \/ c.suite # 0 /\ c.suite \in evidence.self
              \/ c.status \notin E!Failure \cup {""} \/ c.expected \/ evidence.expected
              \/ /\ c.status = "cancelled"
                 /\ \E d \in evidence.checks :
                      /\ d.run > c.run /\ d.name = c.name /\ d.workflow = c.workflow
                      /\ \/ d.head \in {"", evidence.snapshot.head}
                         \/ d.suite # 0 /\ d.suite \in evidence.self

(* The identity of a report is found again from its fields: a missing merge     *)
(* base is not, and "" for a declared revision has become None.               *)
FoundAgain(s) == s.mergeBase # "NONE" /\ \A side \in Sides : DeclaredOf(s)[side] # ""

(* The readers of a mapping agree on what it declares: for "" the one takes the *)
(* other name, and the one that makes a PRSnapshot does not.                   *)
AgreedOn(s) ==
  \A side \in Sides : s.declared[side] = "" => s.legacy[side] \in Missing

(* What the engine emits and its own verifier refuses: the reports that rebuild *)
(* the identity, for a pull request without a unique merge base or with "" for  *)
(* a declared revision; a facts report without a detector version; and a        *)
(* knowledge report with problems when it lists uncovered changes, or when its   *)
(* artifacts, sorted by then, show the same problem at another index.  Every    *)
(* other genuine report is accepted, except a query or task it could not        *)
(* settle; and a query that is accepted rests on every retriever of the input:  *)
(* each complete, without error, of one revision, under an id of its own.       *)
(* Failure evidence is refused when a check that was left out has None for a    *)
(* name or the id of a failure; an envelope or a bundle only when the identity  *)
(* is invalid, a bundle also when its readers disagree on what is declared, and  *)
(* the bundle the terminal program emits never.  A report that claims another   *)
(* status than its own is never planned on.                                  *)
AcceptedExactly ==
  pc = "done" =>
    CASE op = "knowledge" ->
           verdict <=> /\ FoundAgain(evidence.snapshot)
                       /\ K!Problems(evidence) = {} \/ report.uncovered = {}
                       /\ K!ArtifactProblems(report.artifacts) \subseteq report.errors
      [] op = "guard-delta" ->
           verdict <=> FoundAgain(evidence.old.snapshot) /\ FoundAgain(evidence.new.snapshot)
      [] op = "facts" ->
           verdict <=> FoundAgain(evidence.snapshot) /\ evidence.detector # ""
      [] op = "query" ->
           /\ report.whole => verdict
           /\ verdict =>
                \A i, j \in DOMAIN evidence.retrievers :
                  LET r == evidence.retrievers[i]
                      s == evidence.retrievers[j] IN
                    /\ r.complete /\ ~r.failed
                    /\ i # j => r.id # s.id
                    /\ R!Effective(r, evidence).revision = R!Effective(s, evidence).revision
      [] op = "task query" ->
           /\ report.query.whole /\ R!ContextGaps(evidence.context) = {} => verdict
           /\ verdict => R!ContextGaps(evidence.context) = {}
      [] op = "cfi" ->
           LET left == {i.check : i \in report.evidence.ignored}
               failures == report.evidence.unexpected \cup report.evidence.expected
           IN verdict <=>
                \A c \in left :
                  c.name # None /\ (c.run = 0 \/ \A d \in failures : d.run # c.run)
      [] op = "eia" ->
           /\ verdict <=> K!IdentityGaps(evidence.snapshot) = {}
           /\ report.reference.status = E!Analyze(evidence).status
      [] op = "cloud bundle" ->
           verdict <=> K!IdentityGaps(evidence.snapshot) = {} /\ AgreedOn(evidence.snapshot)
      [] op \in {"check roles", "systemic", "terminal cloud bundle"} -> verdict
=============================================================================
