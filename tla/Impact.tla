--------------------------------- MODULE Impact ---------------------------------
(***************************************************************************)
(* repository_intelligence/impact.py: which files a change may reach through  *)
(* the dependency edges an adapter observed, the report on it, and the        *)
(* verifier of that report.                                                 *)
(*                                                                         *)
(* An item of the input that is no path, edge or symbol at all is dropped     *)
(* with a gap; `odd' names the fields that had one.                         *)
(***************************************************************************)
EXTENDS Revision

CONSTANTS
  File,         \* paths of the repository
  Graph         \* the inputs that may be given

Edge == [consumer : File, dependency : File]
Field == {"covered_files", "changed_files", "dependency_edges", "observed_symbols",
          "graph_errors", "graph_complete"}
HardGap == IdentityGap \cup
  {"stale identity evidence", "covered_files", "no covered_files provided",
   "changed_files", "changed_files do not match snapshot.changed_files",
   "no changed_files provided", "changed file not covered by graph",
   "dependency_edges", "dependency edge not covered by graph",
   "observed_symbols", "observed_symbols path not covered by graph"}
SoftGap == {"graph_incomplete", "graph_errors", "graph_error", "graph_complete"}

ASSUME GraphAssumption ==
  \A g \in Graph : g.changed \subseteq File /\ g.edges \subseteq Edge

VARIABLES
  graph,        \* the input
  direct, transitive,
  followed,     \* queue[:cursor]
  waiting,      \* queue[cursor:]
  impact,       \* the report
  accepted,     \* what the verifier said of it
  stage

impactVars == <<graph, direct, transitive, followed, waiting, impact, accepted, stage>>

-----------------------------------------------------------------------------
(***************************************************************************)
(* The input made normal.                                                   *)
(***************************************************************************)
Kept(g) ==
  {e \in g.edges : e.consumer \in g.covered /\ e.dependency \in g.covered
                   /\ e.consumer # e.dependency}

Uncovered(g) ==
  {e \in g.edges : e.consumer \notin g.covered \/ e.dependency \notin g.covered}

(* The fault: an edge that is dropped leaves no gap.                         *)
FaultyGaps(g) ==
  IdentityGaps(g.snapshot) \cup (g.odd \cap Field) \cup
  {k \in HardGap \cup SoftGap :
     \/ k = "stale identity evidence" /\ StaleEvidence(g.snapshot)
     \/ k = "no covered_files provided" /\ g.covered = {}
     \/ k = "changed_files do not match snapshot.changed_files"
          /\ g.changed # g.snapshotChanged
     \/ k = "no changed_files provided" /\ g.changed = {}
     \/ k = "changed file not covered by graph" /\ ~(g.changed \subseteq g.covered)
     \/ k = "observed_symbols path not covered by graph"
          /\ ~(g.symbols \subseteq g.covered)
     \/ k = "graph_incomplete" /\ (~g.whole \/ "graph_complete" \in g.odd)
     \/ k = "graph_error" /\ g.failed}
(* A copy of changed_files that is not given is the snapshot's own list.      *)
Gaps(g) ==
  IdentityGaps(g.snapshot) \cup (g.odd \cap Field) \cup
  {k \in HardGap \cup SoftGap :
     \/ k = "stale identity evidence" /\ StaleEvidence(g.snapshot)
     \/ k = "no covered_files provided" /\ g.covered = {}
     \/ k = "changed_files do not match snapshot.changed_files"
          /\ g.changed # g.snapshotChanged
     \/ k = "no changed_files provided" /\ g.changed = {}
     \/ k = "changed file not covered by graph" /\ ~(g.changed \subseteq g.covered)
     \/ k = "dependency edge not covered by graph" /\ Uncovered(g) # {}
     \/ k = "observed_symbols path not covered by graph"
          /\ ~(g.symbols \subseteq g.covered)
     \/ k = "graph_incomplete" /\ (~g.whole \/ "graph_complete" \in g.odd)
     \/ k = "graph_error" /\ g.failed}

CompletenessOf(gaps) ==
  IF gaps = {} THEN "COMPLETE"
  ELSE IF gaps \cap HardGap = {} THEN "PARTIAL"
  ELSE "INCOMPLETE"

-----------------------------------------------------------------------------
(***************************************************************************)
(* _compute_impact, one iteration of its loop at a time.                     *)
(***************************************************************************)
Consumers(set, edges) == {f \in File : \E e \in edges : e.dependency \in set /\ e.consumer = f}
Visited == graph.changed \cup direct \cup transitive

(* The fault: a changed file that depends on another one counts as impacted.   *)
FaultyDirect ==
  /\ stage = "direct"
  /\ direct' = Consumers(graph.changed, Kept(graph))
  /\ waiting' = direct'
  /\ stage' = "follow"
  /\ UNCHANGED <<graph, transitive, followed, impact, accepted>>
Direct ==
  /\ stage = "direct"
  /\ direct' = Consumers(graph.changed, Kept(graph)) \ graph.changed
  /\ waiting' = direct'
  /\ stage' = "follow"
  /\ UNCHANGED <<graph, transitive, followed, impact, accepted>>

(* The queue is a set: the order in which it is followed is open.             *)
Follow ==
  /\ stage = "follow"
  /\ \E f \in waiting :
       LET new == Consumers({f}, Kept(graph)) \ Visited IN
         /\ transitive' = transitive \cup new
         /\ waiting' = (waiting \ {f}) \cup new
         /\ followed' = followed \cup {f}
  /\ UNCHANGED <<graph, direct, impact, accepted, stage>>

(* The fault: the loop ends with files still to be followed.                  *)
FaultyReport ==
  /\ stage = "follow"
  /\ impact' = [covered |-> graph.covered, changed |-> graph.changed,
                edges |-> Kept(graph), direct |-> direct, transitive |-> transitive,
                all |-> Visited, gaps |-> Gaps(graph), whole |-> graph.whole,
                failed |-> graph.failed, trusted |-> Trusted(graph.snapshot),
                completeness |-> CompletenessOf(Gaps(graph))]
  /\ stage' = "verify"
  /\ UNCHANGED <<graph, direct, transitive, followed, waiting, accepted>>
Report ==
  /\ stage = "follow"
  /\ waiting = {}
  /\ impact' = [covered |-> graph.covered, changed |-> graph.changed,
                edges |-> Kept(graph), direct |-> direct, transitive |-> transitive,
                all |-> Visited, gaps |-> Gaps(graph), whole |-> graph.whole,
                failed |-> graph.failed, trusted |-> Trusted(graph.snapshot),
                completeness |-> CompletenessOf(Gaps(graph))]
  /\ stage' = "verify"
  /\ UNCHANGED <<graph, direct, transitive, followed, waiting, accepted>>

-----------------------------------------------------------------------------
(***************************************************************************)
(* verify_change_impact_report: it computes the impact again; Downstream says  *)
(* at once what the loop computes.                                          *)
(***************************************************************************)
Closed(set, edges) == \A e \in edges : e.dependency \in set => e.consumer \in set
Downstream(changed, edges) ==
  {f \in File : \A set \in SUBSET File : changed \subseteq set /\ Closed(set, edges)
                                          => f \in set}

(* The fault: the changed files are not compared with the coverage.           *)
FaultyVerified(r) ==
  LET first == Consumers(r.changed, r.edges) \ r.changed
      all == Downstream(r.changed, r.edges)
  IN /\ \A e \in r.edges : e.consumer \in r.covered /\ e.dependency \in r.covered
     /\ r.direct = first
     /\ r.transitive = all \ (r.changed \cup first)
     /\ r.all = all
     /\ r.completeness = "COMPLETE" => r.gaps = {} /\ ~r.failed /\ r.whole /\ r.trusted
Verified(r) ==
  LET first == Consumers(r.changed, r.edges) \ r.changed
      all == Downstream(r.changed, r.edges)
  IN /\ r.changed \subseteq r.covered
     /\ \A e \in r.edges : e.consumer \in r.covered /\ e.dependency \in r.covered
     /\ r.direct = first
     /\ r.transitive = all \ (r.changed \cup first)
     /\ r.all = all
     /\ r.completeness = "COMPLETE" => r.gaps = {} /\ ~r.failed /\ r.whole /\ r.trusted

Check ==
  /\ stage = "verify"
  /\ accepted' = Verified(impact)
  /\ stage' = "done"
  /\ UNCHANGED <<graph, direct, transitive, followed, waiting, impact>>

ImpactInit ==
  /\ graph \in Graph
  /\ direct = {} /\ transitive = {} /\ followed = {} /\ waiting = {}
  /\ impact = {}
  /\ accepted = FALSE
  /\ stage = "direct"

ImpactNext == Direct \/ Follow \/ Report \/ Check

ImpactSpec == ImpactInit /\ [][ImpactNext]_impactVars

-----------------------------------------------------------------------------
Reported == stage \in {"verify", "done"}

(* The values of the variables; the queue is empty but for the loop.          *)
ImpactTypeOK ==
  /\ direct \subseteq File /\ transitive \subseteq File
  /\ followed \subseteq File /\ waiting \subseteq File
  /\ accepted \in BOOLEAN
  /\ stage \in {"direct", "follow", "verify", "done"}
  /\ waiting # {} => stage = "follow"

(* Cycles and diamonds included, the report lists exactly what depends on a   *)
(* changed file, and says of each file whether it does so at one remove or at  *)
(* several: the three parts are disjoint.  On the way no file is followed      *)
(* twice, so the loop ends after at most as many rounds as there are files.    *)
ImpactExactly ==
  /\ followed \cap waiting = {}
  /\ Reported =>
       /\ impact.all = Downstream(graph.changed, Kept(graph))
       /\ impact.direct = Consumers(graph.changed, Kept(graph)) \ graph.changed
       /\ impact.transitive = impact.all \ (graph.changed \cup impact.direct)

(* A report that does not call itself INCOMPLETE has dropped none of the edges *)
(* that were observed: what it lists is downstream in the graph as it was      *)
(* given, and every file it starts from is in the graph.                     *)
NothingDropped ==
  (Reported /\ impact.completeness # "INCOMPLETE") =>
    /\ impact.all = Downstream(graph.changed, graph.edges)
    /\ graph.changed \subseteq graph.covered

(* A report of the engine verifies unless a changed file is not covered: such a *)
(* report is emitted, as INCOMPLETE, but never accepted.                     *)
ImpactAccepted ==
  stage = "done" => (accepted <=> graph.changed \subseteq graph.covered)
=============================================================================
