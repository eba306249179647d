------------------------------ MODULE MCAdvisories ------------------------------
(***************************************************************************)
(* Instances of Advisories: for every operation, inputs that differ from good *)
(* ones in a few respects.                                                  *)
(***************************************************************************)
EXTENDS Advisories, FiniteSetsExt

Resolved ==
  [repository |-> "o/a", number |-> 1, base |-> "m", head |-> "h", main |-> "m",
   declared |-> Nothing, legacy |-> Nothing, mapping |-> TRUE, mergeBase |-> "RESOLVED"]
NoMergeBase == [Resolved EXCEPT !.mergeBase = "NONE"]
Stale == [Resolved EXCEPT !.declared.head = "old"]
Invalid == [Resolved EXCEPT !.number = 0]
Unnamed == [Resolved EXCEPT !.repository = None]
Empty == [side \in Sides |-> ""]
SomeSnapshot ==
  {Resolved, NoMergeBase, Stale, Invalid, Unnamed,
   [Resolved EXCEPT !.mapping = FALSE, !.declared.main = ""],
   [Resolved EXCEPT !.declared = Empty], [Resolved EXCEPT !.legacy.base = ""],
   [Resolved EXCEPT !.declared = Empty, !.legacy.head = "h"],
   [Resolved EXCEPT !.declared = Empty, !.legacy.head = "old"]}

MCMatched == [p \in {"p*", "q*", "*"} |->
                CASE p = "p*" -> {"p"} [] p = "q*" -> {"q"} [] p = "*" -> {"p", "q"}]

-----------------------------------------------------------------------------
(***************************************************************************)
(* Change impact: four files with at most four edges, all of them covered; and *)
(* every graph of at most three edges on three files, one thing wrong with it. *)
(***************************************************************************)
GoodGraph ==
  [snapshot |-> Resolved, covered |-> File, snapshotChanged |-> {"a"}, changed |-> {"a"},
   edges |-> {}, whole |-> TRUE, failed |-> FALSE, symbols |-> {}, odd |-> {}]

Edges(files, most, self) ==
  UNION {kSubset(k, {e \in [consumer : files, dependency : files] :
                       self \/ e.consumer # e.dependency}) : k \in 0 .. most}

MCGraph ==
  {[GoodGraph EXCEPT !.edges = edges, !.changed = changed, !.snapshotChanged = changed] :
     edges \in Edges(File, 4, FALSE), changed \in {{"a"}, {"a", "b"}}}
  \cup
  {[g EXCEPT !.edges = edges] :
     edges \in Edges({"a", "b", "c"}, 3, TRUE),
     g \in {[GoodGraph EXCEPT !.covered = @ \ {f}] : f \in {"a", "b"}} \cup
           {[GoodGraph EXCEPT !.covered = {}],
            [GoodGraph EXCEPT !.changed = {}, !.snapshotChanged = {}],
            [GoodGraph EXCEPT !.snapshotChanged = {"b"}],
            [GoodGraph EXCEPT !.whole = FALSE],
            [GoodGraph EXCEPT !.failed = TRUE],
            [GoodGraph EXCEPT !.odd = {"dependency_edges"}],
            [GoodGraph EXCEPT !.odd = {"graph_errors"}],
            [GoodGraph EXCEPT !.covered = @ \ {"d"}, !.symbols = {"d"}]}
           \cup {[GoodGraph EXCEPT !.snapshot = s] : s \in SomeSnapshot}}

-----------------------------------------------------------------------------
(***************************************************************************)
(* Knowledge: up to two artifacts on the paths p and q.                       *)
(***************************************************************************)
GoodArtifact == [id |-> 1, path |-> 1, refs |-> {}, covers |-> {}, shape |-> "whole"]
Ref(source, hash) == [source |-> source, hash |-> hash]
Artifacts ==
  {[GoodArtifact EXCEPT !.id = id, !.refs = refs, !.covers = covers] :
     id \in {0, 2},
     refs \in {{}, {Ref("p", "1")}, {Ref("p", "1"), Ref("q", "1")}, {Ref("p", "1"), Ref("p", "2")}},
     covers \in {{}, {"p*"}, {"*"}}}
  \cup {[GoodArtifact EXCEPT !.refs = {Ref("p", "")}], [GoodArtifact EXCEPT !.refs = {Ref("", "1")}],
        [GoodArtifact EXCEPT !.covers = {"", "p*"}], [GoodArtifact EXCEPT !.path = 0],
        [GoodArtifact EXCEPT !.refs = {Ref("p", "1")}, !.shape = "no list"],
        [GoodArtifact EXCEPT !.shape = "no mapping"]}
Inventories ==
  {<<>>} \cup {<<a>> : a \in Artifacts}
    \cup {<<[GoodArtifact EXCEPT !.covers = {"q*"}], a>> : a \in Artifacts}
    \cup {<<[GoodArtifact EXCEPT !.refs = {Ref("q", "2")}], a>> : a \in Artifacts}

Change(kind, path, old) == [kind |-> kind, path |-> path, old |-> old]
Changes ==
  {{}, {Change("MODIFY", "p", "")}, {Change("MODIFY", "q", "")}, {Change("DELETE", "", "p")},
   {Change("RENAME", "q", "p")}, {Change("RENAME", "p", "q")}, {Change("ADD", "", "")},
   {Change("", "p", "")}, {Change("RENAME", "p", "")}, {Change("DELETE", "p", "")},
   {Change("MODIFY", "p", ""), Change("DELETE", "", "q")},
   {Change("ADD", "p", ""), Change("MODIFY", "q", "")}}

GoodKnowledge ==
  [snapshot |-> Resolved, artifacts |-> <<>>, changes |-> {},
   observed |-> [p \in {"p", "q"} |-> "1"], scope |-> {"*"}, complete |-> TRUE,
   errors |-> {}, odd |-> {}]
KnowledgeContexts ==
  {[GoodKnowledge EXCEPT !.observed["p"] = hash] : hash \in {"1", "2", ""}} \cup
  {[GoodKnowledge EXCEPT !.scope = scope] : scope \in {{}, {"p*"}}} \cup
  {[GoodKnowledge EXCEPT !.snapshot = s] : s \in SomeSnapshot} \cup
  {[GoodKnowledge EXCEPT !.complete = FALSE], [GoodKnowledge EXCEPT !.errors = {<<"E", 0>>}],
   [GoodKnowledge EXCEPT !.odd = {"COLLECTION_ERRORS_INVALID"}],
   [GoodKnowledge EXCEPT !.odd = {"OBSERVED_SOURCE_SHA256_INVALID"}, !.observed["q"] = ""]}
KnowledgeInputs ==
  {[e EXCEPT !.artifacts = as, !.changes = cs] :
     e \in KnowledgeContexts, as \in Inventories, cs \in Changes}

-----------------------------------------------------------------------------
(***************************************************************************)
(* Guards with rules and fail fixtures, on the paths p and q.                 *)
(***************************************************************************)
Guard(rules, fixtures, trigger, hashes) ==
  [sets |-> [f \in {"rules", "enforcement_bindings", "lifecycle_phases", "fail_fixtures"} |->
               CASE f = "rules" -> rules [] f = "fail_fixtures" -> fixtures [] OTHER -> {}],
   trigger_patterns |-> trigger,
   hashes |-> [f \in {"implementation_sha256", "self_test_sha256", "wording_sha256"} |->
                 IF f \in hashes THEN "2" ELSE "1"]]
Witness(id, old, new) == [id |-> id, old |-> old, new |-> new]
GoodDelta ==
  [old |-> [snapshot |-> Resolved, guard |-> Guard({}, {}, {}, {})],
   new |-> [snapshot |-> [Resolved EXCEPT !.head = "g"], guard |-> Guard({}, {}, {}, {})],
   known |-> {"p", "q"}, witnesses |-> {}, complete |-> TRUE, errors |-> {}, odd |-> {}]
GuardInputs ==
  {[GoodDelta EXCEPT !.old.guard = Guard(r, x, t, {}), !.new.guard = Guard(s, y, u, h),
                     !.witnesses = w] :
     r, s, x, y \in {{}, {"r"}}, t, u \in {{"p*"}, {"*"}, {"q*"}},
     h \in {{}, {"implementation_sha256"}, {"implementation_sha256", "self_test_sha256"},
            {"wording_sha256"}},
     w \in {{}, {Witness(1, "ALLOW", "DENY")}, {Witness(1, "DENY", "ALLOW")},
            {Witness(1, "ALLOW", "ALLOW")},
            {Witness(1, "ALLOW", "DENY"), Witness(2, "DENY", "ALLOW")}}}
  \cup
  {[e EXCEPT !.new.guard = Guard(s, {}, u, h)] :
     s \in {{}, {"r"}}, u \in {{}, {"p*"}}, h \in {{}, {"self_test_sha256"}},
     e \in {[GoodDelta EXCEPT !.old.snapshot = v] : v \in SomeSnapshot} \cup
           {[GoodDelta EXCEPT !.new.snapshot = v] : v \in SomeSnapshot} \cup
           {[GoodDelta EXCEPT !.complete = FALSE], [GoodDelta EXCEPT !.errors = {"E"}],
            [GoodDelta EXCEPT !.odd = {"OLD_RULES_INVALID"}], [GoodDelta EXCEPT !.known = {}]}}

-----------------------------------------------------------------------------
(***************************************************************************)
(* Facts of two detectors and of the changed tests.                          *)
(***************************************************************************)
MCSubject == [p \in {"p", "q", "test_p"} |-> IF p = "q" THEN "q" ELSE "p"]
Observation(kind, path, placed) == [kind |-> kind, path |-> path, placed |-> placed]
GoodFacts ==
  [snapshot |-> Resolved, language |-> "python", detector |-> "v1",
   requested |-> FactKind, covered |-> {"p"}, declared |-> FactKind, supported |-> FactKind,
   complete |-> TRUE, errors |-> {}, odd |-> {}, observations |-> {},
   snapshotChanged |-> {"p"}, changed |-> {"p"}]
FactsContexts ==
  {[GoodFacts EXCEPT !.snapshot = s] : s \in SomeSnapshot} \cup
  {[GoodFacts EXCEPT !.snapshotChanged = c, !.changed = c] :
     c \in {{}, {"q", "test_p"}, {"p", "test_p"}, {"test_p"}}} \cup
  {[GoodFacts EXCEPT !.requested = k, !.supported = s] :
     k \in SUBSET FactKind, s \in SUBSET FactKind} \cup
  {[GoodFacts EXCEPT !.language = ""], [GoodFacts EXCEPT !.detector = ""],
   [GoodFacts EXCEPT !.covered = {}], [GoodFacts EXCEPT !.covered = {"p", "q"}],
   [GoodFacts EXCEPT !.declared = {}, !.supported = {}], [GoodFacts EXCEPT !.complete = FALSE],
   [GoodFacts EXCEPT !.errors = {"E"}], [GoodFacts EXCEPT !.odd = {"covered_files"}],
   [GoodFacts EXCEPT !.changed = {"q"}]}
Observations ==
  [kind : FactKind \cup {""}, path : {"p", "q"}, placed : {TRUE}]
    \cup [kind : FactKind, path : {"p", ""}, placed : {FALSE}]
FactsInputs ==
  {[e EXCEPT !.observations = o] :
     e \in FactsContexts, o \in UNION {kSubset(k, Observations) : k \in 0 .. 2}}

-----------------------------------------------------------------------------
(***************************************************************************)
(* Queries of two retrievers on three candidates.                            *)
(***************************************************************************)
Candidate(ref, rank, exact) == [ref |-> ref, rank |-> rank, exact |-> exact, odd |-> ""]
Retriever(id, index, revision, candidates) ==
  [id |-> id, index |-> index, revision |-> revision, candidates |-> candidates,
   complete |-> TRUE, failed |-> FALSE]
OddFields == {"source_score must be numeric or null", "evidence_ref must be a string"}
Lists ==
  {<<>>} \cup
  {<<Candidate(r, 1, x), Candidate(s, n, y)>> :
     r, s \in {1, 2, 3}, n \in {0, 2, 3}, x, y \in BOOLEAN} \cup
  {<<Candidate(3, 1, FALSE), Candidate(2, 2, FALSE), Candidate(1, 3, x)>> : x \in BOOLEAN}
    \cup {<<Candidate(0, 1, FALSE)>>} \cup
  {<<[Candidate(1, 1, x) EXCEPT !.odd = f], Candidate(r, 2, TRUE)>> :
     r \in {1, 2}, x \in BOOLEAN, f \in OddFields}
Shorter ==
  {<<>>, <<Candidate(2, 1, FALSE)>>, <<Candidate(3, 2, TRUE)>>,
   <<Candidate(1, 3, FALSE), Candidate(3, 1, FALSE)>>}
GoodQuery ==
  [snapshot |-> Resolved, query |-> "q1", digest |-> "d1", index |-> "i", indexRevision |-> "h",
   retrievers |-> <<>>, required |-> 1, complete |-> TRUE, errors |-> {}, odd |-> {},
   context |-> [role |-> "", policy |-> "", shadow |-> FALSE, weights |-> <<>>]]
Two(list, other) ==
  <<Retriever("path_lexical", "", "", list), Retriever("history_cochange", "", "", other)>>
QueryInputs ==
  {[GoodQuery EXCEPT !.retrievers = Two(a, b), !.required = n] :
     a \in Lists, b \in Shorter, n \in {1, 2, 3}}
  \cup
  {[e EXCEPT !.retrievers = rs] :
     rs \in {<<>>, Two(<<>>, <<>>), Two(<<Candidate(1, 1, TRUE)>>, <<Candidate(2, 1, FALSE)>>)} \cup
            {<<Retriever(a, i, v, <<Candidate(1, 1, TRUE)>>), Retriever(b, j, w, <<>>)>> :
               a \in {"", "path_lexical"}, b \in {"path_lexical", "history_cochange"},
               i, j \in {"", "i", "j"}, v, w \in {"", "h", "old"}} \cup
            {<<[Retriever("path_lexical", "i", "h", c) EXCEPT !.complete = x, !.failed = y]>> :
               c \in {<<>>, <<Candidate(1, 1, TRUE)>>}, x, y \in BOOLEAN},
     e \in {[GoodQuery EXCEPT !.snapshot = s] : s \in SomeSnapshot} \cup
           {GoodQuery, [GoodQuery EXCEPT !.index = "", !.indexRevision = ""],
            [GoodQuery EXCEPT !.query = ""], [GoodQuery EXCEPT !.digest = ""],
            [GoodQuery EXCEPT !.required = 0], [GoodQuery EXCEPT !.complete = FALSE],
            [GoodQuery EXCEPT !.errors = {"E"}]}}
  \cup {[GoodQuery EXCEPT !.odd = {"retrievers missing"}]}

TaskInputs ==
  {[GoodQuery EXCEPT !.retrievers = Two(a, b),
                     !.context = [role |-> r, policy |-> p, shadow |-> s, weights |-> w]] :
     a \in {l \in Lists : \A i \in DOMAIN l : l[i].rank # 0}, b \in Shorter,
     r \in {"", "general_localization", "test_selection"},
     p \in {"", "rrf_k60_uniform", "rrf_k60_weighted"}, s \in BOOLEAN,
     w \in {<<>>, [id \in {"path_lexical"} |-> 1], [id \in {"path_lexical", "x"} |-> IF id = "x" THEN 0 ELSE 4]}}

-----------------------------------------------------------------------------
(***************************************************************************)
(* Two or three checks under a policy with one required gate.                *)
(***************************************************************************)
Row(n, name, head, status) == [row |-> n, name |-> name, head |-> head, status |-> status]
MCPolicy == [n \in {"gate", "advice", "other"} |->
               CASE n = "gate" -> "REQUIRED_GATE" [] n = "advice" -> "ADVISORY_CHECK"
                 [] OTHER -> ""]
RoleInputs ==
  {[head |-> "h", rows |-> rows, policy |-> MCPolicy, previous |-> previous] :
     rows \in {{Row(1, "gate", h, s), Row(2, n, i, t)} :
                 h \in {"h", "old", ""}, s \in {"success", "failure", "", "timed_out"},
                 n \in {"", "gate", "advice", "other"}, i \in {"h", "old"},
                 t \in {"success", "failure", "queued", "skipped"}}
               \cup {{}, {Row(1, "advice", "h", "success")}, {Row(1, "gate", "h", "neutral")}},
     previous \in {{""}, {}, {"gate"}, {"advice"}, {"gate", "advice"}, {"gate", "advice", "other"}}}

-----------------------------------------------------------------------------
(***************************************************************************)
(* Three pull requests, the first with up to two runs of a check.             *)
(***************************************************************************)
Unit == <<"w", "unit">>
Run(id, status, at) ==
  [row |-> id, id |-> id, check |-> Unit, status |-> status, at |-> at, ended |-> at,
   started |-> 0]
SomeRun(n) ==
  {{Run(n, s, t)} : s \in {"success", "failure"}, t \in {1, 2, 3}}
    \cup {{}, {Run(n, "cancelled", 2)}, {Run(n, "in_progress", 0)}, {Run(n, "failure", 0)},
          {Run(n, "failure", 5)}, {[Run(n, "failure", 2) EXCEPT !.check = <<"app:x", "unit">>]}}
Pairs ==
  {{Run(1, s, t), Run(2, u, v)} :
     s, u \in {"success", "failure"}, t, v \in {1, 2, 3}}
(* One or both runs without an id; the second may end at no proper time.      *)
Unnumbered ==
  {{[Run(1, s, 2) EXCEPT !.id = 0, !.started = 1], [Run(2, u, t) EXCEPT !.id = i, !.started = b]} :
     s, u \in {"success", "failure"}, t \in {1, 2, 3}, i, b \in {0, 2}}
  \cup
  {{[Run(1, s, 2) EXCEPT !.id = 0], [Run(2, u, 0) EXCEPT !.id = 0, !.ended = e]} :
     s, u \in {"success", "failure"}, e \in {0, 9}}
SystemicInputs ==
  {[observed |-> 3, window |-> w, least |-> k, prs |-> [n \in {1, 2, 3} |-> CASE n = 1 -> a [] n = 2 -> b [] n = 3 -> c],
    main |-> m, workflowChanged |-> f, odd |-> o] :
     w \in {1, 2}, k \in {2, 3}, a \in SomeRun(1) \cup Pairs \cup Unnumbered, b \in SomeRun(5),
     c \in {{}, {Run(7, "failure", 2)}, {Run(7, "success", 2)}, {Run(7, "failure", 3)}},
     m \in {{}, {Run(8, "success", 2), Run(9, "failure", 3)}},
     f \in {{}, {[path |-> "w", at |-> 1]}}, o \in {{}}}
  \cup
  {[observed |-> t, window |-> 9, least |-> 1, prs |-> p, main |-> {}, workflowChanged |-> {},
    odd |-> o] :
     t \in {0, 3}, p \in {<<>>, <<{Run(1, "failure", 2)}>>}, o \in {{}, {"checks"}}}

-----------------------------------------------------------------------------
(***************************************************************************)
(* Up to three checks: two of good ones that differ in a respect, in several    *)
(* contexts, and three runs of one check.                                    *)
(***************************************************************************)
Check1(n, run, status) ==
  [row |-> n, name |-> "u", status |-> status, run |-> run, suite |-> run, workflow |-> 7,
   app |-> "actions", head |-> "h", expected |-> FALSE, located |-> TRUE, actions |-> 0]
Variants(c) ==
  {c, [c EXCEPT !.name = ""], [c EXCEPT !.name = None], [c EXCEPT !.name = "v"], [c EXCEPT !.workflow = 0],
   [c EXCEPT !.run = 0], [c EXCEPT !.run = 0, !.located = FALSE], [c EXCEPT !.suite = 9],
   [c EXCEPT !.suite = 9, !.name = ""], [c EXCEPT !.suite = 9, !.name = None],
   [c EXCEPT !.head = ""], [c EXCEPT !.head = "old"],
   [c EXCEPT !.expected = TRUE], [c EXCEPT !.actions = 5], [c EXCEPT !.app = ""]}
SomeStatus == {"success", "failure", "cancelled", "in_progress", "startup_failure", ""}
FirstChecks == UNION {Variants(Check1(1, 1, s)) : s \in SomeStatus}
OtherChecks ==
  {Check1(2, r, s) : r \in {1, 2}, s \in SomeStatus} \cup Variants(Check1(2, 1, "failure"))
    \cup Variants(Check1(2, 2, "cancelled"))
GoodChecks ==
  [snapshot |-> Resolved, checks |-> {}, self |-> {}, complete |-> TRUE, errors |-> {},
   expected |-> FALSE, wanted |-> 0, given |-> "snapshot", claimed |-> "", current |-> 0]
OwnChecks == [GoodChecks EXCEPT !.self = {9}]
CheckInputs ==
  {[e EXCEPT !.checks = {a, b}] :
     e \in {GoodChecks, OwnChecks, [GoodChecks EXCEPT !.current = 5]},
     a \in FirstChecks, b \in OtherChecks}
  \cup
  {[e EXCEPT !.checks = {a, Check1(3, 3, s)}] :
     a \in Variants(Check1(1, 1, "cancelled")) \cup Variants(Check1(1, 1, "failure")),
     s \in {"success", "failure"},
     e \in {[OwnChecks EXCEPT !.snapshot = v] :
              v \in SomeSnapshot \cup {[Resolved EXCEPT !.main = m] : m \in {"", None, "n"}}} \cup
           {[OwnChecks EXCEPT !.complete = FALSE], [OwnChecks EXCEPT !.errors = {"E"}],
            [OwnChecks EXCEPT !.expected = TRUE], [OwnChecks EXCEPT !.wanted = 1],
            [OwnChecks EXCEPT !.given = "neither"]} \cup
           {[OwnChecks EXCEPT !.given = "report", !.claimed = c] :
              c \in {"", "INSUFFICIENT_EVIDENCE", "UNEXPECTED_FAILURE_OBSERVED",
                     "EXPECTED_FAILURE_ONLY", "NO_TERMINAL_FAILURE"}}}
  \cup
  {[e EXCEPT !.checks = c] :
     e \in {GoodChecks, OwnChecks},
     c \in {{}} \cup {{Check1(1, i, r), Check1(2, j, s), Check1(3, k, t)} :
                     i, j, k \in {1, 2}, r, s, t \in {"cancelled", "failure", "success"}}
                \cup {{[Check1(1, 1, "in_progress") EXCEPT !.head = h],
                       [Check1(2, 1, "cancelled") EXCEPT !.head = h], Check1(3, 2, "success")} :
                        h \in {"h", "old", ""}}}
BundleInputs ==
  {[e EXCEPT !.given = "report"] :
     e \in {i \in CheckInputs : i.claimed = "" /\ i.snapshot.mapping}}

MCInputs ==
  [o \in Operation \ {"impact"} |->
     CASE o = "knowledge" -> KnowledgeInputs
       [] o = "guard-delta" -> GuardInputs
       [] o = "facts" -> FactsInputs
       [] o = "query" -> QueryInputs
       [] o = "task query" -> TaskInputs
       [] o = "check roles" -> RoleInputs
       [] o = "systemic" -> SystemicInputs
       [] o = "cfi" -> {i \in CheckInputs : i.current = 0}
       [] o = "eia" -> {i \in CheckInputs : i.current = 0 /\ i.snapshot.mapping}
       [] o = "cloud bundle" -> {i \in BundleInputs : i.current = 0}
       [] o = "terminal cloud bundle" -> {i \in BundleInputs : E!Waited(i)}]
=============================================================================
