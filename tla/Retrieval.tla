-------------------------------- MODULE Retrieval --------------------------------
(***************************************************************************)
(* repository_intelligence/retrieval.py: ranked candidates of several          *)
(* retrievers fused into one bounded list, the resolution of the query, the    *)
(* order a task gives the same candidates, and the verifiers, which analyse    *)
(* the embedded input again.                                                *)
(*                                                                         *)
(* "" is text that is missing or malformed, 0 such a number.  A candidate is    *)
(* [ref, rank, exact, odd], with refs numbered in their order and `odd' the     *)
(* other field of it that is malformed.  Weights are in halves, and ranks at   *)
(* most 3: no two scores that differ are rounded to one.                       *)
(***************************************************************************)
EXTENDS Revision, Ordering, Sequences

(* The retrievers of the input are a list, each with a list of candidates.     *)
OddField == {"", "source_score must be numeric or null", "evidence_ref must be a string"}
Candidate == [ref : Nat, rank : Nat, exact : BOOLEAN, odd : OddField]
Retriever ==
  [id : STRING, index : STRING, revision : STRING, candidates : Seq(Candidate),
   complete : BOOLEAN, failed : BOOLEAN]
Input(data) ==
  /\ data.retrievers \in Seq(Retriever) /\ data.required \in Nat
  /\ {"snapshot", "query", "digest", "index", "indexRevision", "retrievers", "required",
      "complete", "errors", "odd", "context"} \subseteq DOMAIN data
  /\ data.context.weights \in [DOMAIN data.context.weights -> Nat]

Declared(data) == data.index # ""

(* What a retriever leaves out it has from the declared index.               *)
Effective(r, data) ==
  [index |-> IF r.index = "" THEN data.index ELSE r.index,
   revision |-> IF r.revision = "" THEN data.indexRevision ELSE r.revision]
Identified(r, data) ==
  r.id # "" /\ (Declared(data) \/ (r.index # "" /\ r.revision # ""))

Collides(i, data) ==
  \E j \in 1 .. i - 1 :
    Identified(data.retrievers[j], data) /\ data.retrievers[j].id = data.retrievers[i].id

RunProblem(i, data) ==
  LET r == data.retrievers[i] IN
    IF ~Identified(r, data) THEN "identity invalid"
    ELSE IF Collides(i, data) THEN "retriever_id collision"
    ELSE IF Declared(data) /\ Effective(r, data).index # data.index
         THEN "index_id does not match"
    ELSE IF Declared(data) /\ Effective(r, data).revision # data.indexRevision
         THEN "index_revision does not match"
    ELSE ""

Runs(data) == {i \in DOMAIN data.retrievers : RunProblem(i, data) = ""}

(* A ref counts as seen even where the candidate is dropped after all.        *)
CandidateProblem(j, candidates) ==
  LET c == candidates[j] IN
    IF c.ref = 0 THEN "candidate_ref must be a non-empty string"
    ELSE IF \E k \in 1 .. j - 1 : candidates[k].ref = c.ref THEN "duplicate candidate_ref"
    ELSE IF c.rank = 0 THEN "source_rank must be a position int"
    ELSE c.odd

(* The candidates that are kept, each with its retriever.                    *)
Kept(data) ==
  UNION {LET cs == data.retrievers[i].candidates IN
           {[run |-> i, ref |-> cs[j].ref, rank |-> cs[j].rank, exact |-> cs[j].exact] :
              j \in {k \in DOMAIN cs : CandidateProblem(k, cs) = ""}} : i \in Runs(data)}
Refs(kept) == {c.ref : c \in kept}
ExactRefs(kept) == {c.ref : c \in {d \in kept : d.exact}}

Gaps(data) ==
  IdentityGaps(data.snapshot) \cup data.errors \cup data.odd
    \cup ({RunProblem(i, data) : i \in DOMAIN data.retrievers} \ {""})
    \cup ((UNION {LET cs == data.retrievers[i].candidates IN
                    {CandidateProblem(j, cs) : j \in DOMAIN cs} : i \in Runs(data)}) \ {""})
    \cup {k \in {"stale identity evidence", "query_id missing or invalid",
                 "query_digest missing or invalid", "required_candidates must be a positive int",
                 "collection_incomplete"} :
            \/ k = "stale identity evidence" /\ StaleEvidence(data.snapshot)
            \/ k = "query_id missing or invalid" /\ data.query = ""
            \/ k = "query_digest missing or invalid" /\ data.digest = ""
            \/ k = "required_candidates must be a positive int" /\ data.required = 0
            \/ k = "collection_incomplete" /\ ~data.complete}

DefaultRequired == 8
Required(data) == IF data.required = 0 THEN DefaultRequired ELSE data.required

-----------------------------------------------------------------------------
(***************************************************************************)
(* Reciprocal rank fusion.                                                  *)
(***************************************************************************)
(* weight / (60 + rank), times 2 * 61 * 62 * 63.                              *)
Share(c, weight) == weight * ((61 * 62 * 63) \div (60 + c.rank))

(* Summed over the runs, of which none names a ref twice.                     *)
Score(ref, kept, weight) ==
  LET named(i) == {c \in kept : c.run = i /\ c.ref = ref}
      share(i) == IF named(i) = {} THEN 0 ELSE Share(CHOOSE c \in named(i) : TRUE, weight[i])
      sum[i \in 0 .. Len(weight)] == IF i = 0 THEN 0 ELSE sum[i - 1] + share(i)
  IN sum[Len(weight)]

(* Those of `first' first, the others by their score and then their name.     *)
Before(kept, weight, first) ==
  LET score == [ref \in Refs(kept) |-> Score(ref, kept, weight)] IN
  {p \in Refs(kept) \X Refs(kept) :
     IF (p[1] \in first) # (p[2] \in first) THEN p[1] \in first
     ELSE score[p[1]] > score[p[2]] \/ (score[p[1]] = score[p[2]] /\ p[1] < p[2])}

(* The fault: the bound holds exact matches back as well.                    *)
FaultyAppended(list, ref, exact, required) ==
  IF Len(list) < required THEN Append(list, ref) ELSE list
Appended(list, ref, exact, required) ==
  IF ref \in exact \/ Len(list) < required THEN Append(list, ref) ELSE list

Bounded(order, exact, required) ==
  LET bounded[n \in 0 .. Len(order)] ==
        IF n = 0 THEN <<>> ELSE Appended(bounded[n - 1], order[n], exact, required)
  IN bounded[Len(order)]

Fused(data) ==
  LET kept == Kept(data)
      order == InOrder(Refs(kept), Before(kept, [i \in DOMAIN data.retrievers |-> 2], {}))
  IN Bounded(order, ExactRefs(kept), Required(data))

-----------------------------------------------------------------------------
(***************************************************************************)
(* The resolution and its reason.  Retrievers that are missing altogether are *)
(* one incomplete run with an error where an index is declared.              *)
(***************************************************************************)
Unlisted(data) == "retrievers missing" \in data.odd /\ Declared(data)

Resolution(data) ==
  LET gaps == Gaps(data)
      kept == Kept(data)
      runs == {data.retrievers[i] : i \in Runs(data)}
      insufficient(reason) == <<"INSUFFICIENT_EVIDENCE", reason>>
  IN
  IF IdentityGaps(data.snapshot) # {} THEN insufficient("INVALID_REVISION_IDENTITY")
  ELSE IF StaleEvidence(data.snapshot) THEN insufficient("STALE_REVISION_EVIDENCE")
  ELSE IF data.query = "" THEN insufficient("QUERY_ID_MISSING")
  ELSE IF data.digest = "" THEN insufficient("QUERY_DIGEST_MISSING")
  ELSE IF \/ Cardinality({Effective(r, data).revision : r \in runs}) > 1
          \/ "index_revision does not match" \in gaps
       THEN insufficient("RETRIEVER_REVISION_MISMATCH")
  ELSE IF "index_id does not match" \in gaps THEN insufficient("RETRIEVER_INDEX_MISMATCH")
  ELSE IF "retriever_id collision" \in gaps THEN insufficient("RETRIEVER_ID_COLLISION")
  ELSE IF runs = {} /\ ~Unlisted(data) THEN insufficient("NO_RETRIEVERS")
  ELSE IF "source_rank must be a position int" \in gaps
       THEN insufficient("CANDIDATE_RANK_INVALID")
  ELSE IF "duplicate candidate_ref" \in gaps THEN insufficient("CANDIDATE_DUPLICATE")
  ELSE IF Unlisted(data) \/ \E r \in runs : ~r.complete
       THEN insufficient("RETRIEVER_INCOMPLETE")
  ELSE IF \E r \in runs : r.failed THEN insufficient("RETRIEVER_ERROR")
  ELSE IF gaps # {} THEN insufficient("EVIDENCE_INCOMPLETE")
  ELSE IF kept = {} THEN insufficient("EMPTY_RETRIEVAL_NOT_ABSENCE")
  ELSE IF Cardinality(ExactRefs(kept)) > 1
       THEN <<"AMBIGUOUS_RETRIEVAL", "MULTIPLE_EXACT_MATCHES">>
  ELSE IF Cardinality(ExactRefs(kept)) = 1 THEN <<"EXACT_RESOLUTION", "">>
  ELSE IF Cardinality(Refs(kept)) > Required(data)
       THEN <<"AMBIGUOUS_RETRIEVAL", "AMBIGUOUS_CANDIDATES">>
  ELSE <<"BOUNDED_CANDIDATES", "">>

(* COMPLETE also for a resolution of INSUFFICIENT_EVIDENCE that has no gap,     *)
(* such as a retriever that reports an error.                               *)
Resolved == {"EXACT_RESOLUTION", "BOUNDED_CANDIDATES"}
Completeness(data) ==
  IF ~Trusted(data.snapshot) THEN "INCOMPLETE"
  ELSE IF Resolution(data)[1] \in Resolved \/ Gaps(data) = {} THEN "COMPLETE"
  ELSE "INCOMPLETE"

Analyze(data) ==
  [source |-> data, identity |-> Identity(data.snapshot), kept |-> Kept(data),
   fused |-> Fused(data), resolution |-> Resolution(data)[1],
   reason |-> Resolution(data)[2], gaps |-> Gaps(data),
   completeness |-> Completeness(data),
   whole |-> Completeness(data) = "COMPLETE" /\ Resolution(data)[1] \in Resolved,
   review |-> Resolution(data)[1] \notin Resolved]

Verify(report) ==
  /\ report = Analyze(report.source)
  /\ report.resolution = "INSUFFICIENT_EVIDENCE"
       => report.reason = "EMPTY_RETRIEVAL_NOT_ABSENCE"

-----------------------------------------------------------------------------
(***************************************************************************)
(* The task-aware query: the candidates in the order of their weights too.    *)
(***************************************************************************)
ContextGaps(context) ==
  {k \in {"task_role invalid", "fusion_policy invalid", "fusion_weights must be positive",
          "uniform policy must not carry weights"} :
     LET policy == IF context.policy = "" THEN "rrf_k60_uniform" ELSE context.policy IN
     \/ k = "task_role invalid" /\ context.role = ""
     \/ k = "fusion_policy invalid" /\ context.policy = ""
     \/ k = "fusion_weights must be positive"
          /\ \E id \in DOMAIN context.weights : context.weights[id] = 0
     \/ k = "uniform policy must not carry weights" /\ policy = "rrf_k60_uniform"
          /\ \E id \in DOMAIN context.weights : context.weights[id] # 0}

DefaultWeights(role) ==
  [id \in {"path_lexical", "content_bm25", "history_cochange"} |->
     IF role = "test_selection" /\ id = "history_cochange" THEN 3 ELSE 2]

NormaliseContext(context) ==
  LET role == IF context.role = "" THEN "general_localization" ELSE context.role
      policy == IF context.policy = "" THEN "rrf_k60_uniform" ELSE context.policy
      given == {id \in DOMAIN context.weights : context.weights[id] # 0}
  IN [role |-> role, policy |-> policy, shadow |-> context.shadow,
      weights |-> IF policy = "rrf_k60_uniform" THEN <<>>
                  ELSE IF given = {} THEN DefaultWeights(role)
                  ELSE [id \in given |-> context.weights[id]]]

WeightedOrder(data, weights) ==
  LET kept == Kept(data)
      exact == ExactRefs(kept)
      weight == [i \in DOMAIN data.retrievers |->
                   LET id == data.retrievers[i].id IN
                   IF id \in DOMAIN weights THEN weights[id] ELSE 2]
      full == InOrder(Refs(kept), Before(kept, weight, exact))
      limit == IF Required(data) < Cardinality(exact) THEN Cardinality(exact) ELSE Required(data)
  IN [k \in {i \in DOMAIN full : i <= limit} |-> full[k]]

(* data.context is left out of the query the report is about.                *)
AnalyzeTask(data) ==
  LET context == NormaliseContext(data.context) IN
    [query |-> Analyze(data), context |-> context,
     order |-> IF context.policy = "rrf_k60_weighted"
               THEN WeightedOrder(data, context.weights) ELSE <<>>,
     missing |-> DOMAIN context.weights \ {data.retrievers[i].id : i \in Runs(data)},
     gaps |-> Gaps(data) \cup ContextGaps(data.context)
                \cup (IF context.role = "test_selection" /\ ~context.shadow
                      THEN {"test_selection requires shadow_mode"} ELSE {})]

VerifyTask(report) ==
  /\ Verify(report.query)
  /\ ContextGaps(report.context) = {}
  /\ NormaliseContext(report.context) = report.context
  /\ [AnalyzeTask([report.query.source EXCEPT !.context = report.context])
        EXCEPT !.query = report.query] = report
=============================================================================
