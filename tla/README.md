# Formal model of the Repository Intelligence Engine

This directory holds TLA+ specifications of the engine and of its two GitHub
adapters, the TLC configurations that check them on small instances, and TLAPS
proofs of their main theorems. `PROJECT.json` lists the components, the runs, the
mutants that show that each property can fail, the lines of `src/` behind every
definition, the hazards and the theorems.

    tlc -workers 2 -config Terminal.cfg Terminal.tla   # one run
    tlapm TerminalProofs.tla                           # one proof module

## 1. The system

The engine reads evidence about a pull request (identity, changed files, check
runs, commit statuses, dependency facts) and derives reports that other agents
act upon. Nothing in `src/repository_intelligence/` keeps state between calls: a
report is a function of its input, carries the SHA-256 of its own content, and has
a verifier that recomputes what it can. What has state, and meets a world that
moves while it is read, are the two adapters.

| Component | Source | State | Operations | Right when |
|---|---|---|---|---|
| Terminal observer | `adapters/github_terminal.py`, `terminal/action.yml` | the last fingerprint, since when and how often it was seen; the clock | poll, accept, give up, sleep | a witness rests on a set of checks that did not change during the window; the loop always answers |
| Snapshot acquisition | `adapters/github_action.py`: `GitHubReadClient`, `collect_pr_snapshot`, `main` | attempt, page, rows so far, collection errors | eight kinds of GET, with retries and pagination | a bundle holds whole reads of one head, or says that it does not |
| Commit status selection | same, the status loop | the contexts seen, the statuses taken | one step per row | one current status per context |
| Check-run evidence | `core.py` (`partition_effective_checks`, `fingerprint_ci_failures`, `_ignored_checks_are_coherent`), `cfi.py`, `eia.py` | none; input is a list of rows torn between two pages | partition, count, triage, verify, decide | no failure missed, none invented, own evidence accepted |
| Report publication | both `main`s, `_write_github_outputs`, the shell of `terminal/action.yml` | report file, step outputs, exit status | writes that may fail | success means one report everywhere |
| Cross-PR overlap | `overlap.py` | dispositions and findings of the batch, rewritten in place | pairs, Issue groups | two ready items that conflict both wait, nobody else does |
| Readiness, report and verifier | `classifier.py`, `core.py` | none | classify, build, verify | a report the engine builds verifies; a blocker is never ready |
| Check roles | `check_roles.py` | none | classify the gates, verify | a gate that is CLEAR in a settled observation has succeeded on this head |
| Systemic failures | `systemic.py` | none | group failures over pull requests, verify | only the latest run of a check counts, and only if nothing later says it works |
| Change impact | `impact.py` | queue and visited set of a traversal | normalise, follow, report, verify | the result is the reachable set, and says so when something was dropped |
| Retrieval fusion | `retrieval.py` | none | merge ranked candidates, resolve, verify | the bound holds, exact matches survive |
| Structured facts | `facts.py` | none | classify observations, verify | nothing observed becomes "not observed" |
| Knowledge applicability | `knowledge.py` | none | relate artifacts to changes, verify | no changed path is passed over in silence |
| Guard semantic delta | `guard_delta.py` | none | compare two guards, verify | a direction is said of everything that changed |
| Revision identity | `core.py`, `contracts.py` | none | derive flags | builders and verifiers agree on the identity |
| Command line | `cli.py` | none | twelve operations on one JSON input | malformed input is refused before any analysis |
| Python fact detector, hashing, release scripts | the rest | none | syntax trees, SHA-256, maintenance | (not modelled) |

How they interact. `main` of the action calls `collect_pr_snapshot` once; the
terminal program calls it from a loop until the checks have settled. Both hand
the snapshot to `run_cloud_bundle`, which builds readiness (classifier, then
overlap), CI evidence (partition, fingerprint, triage) and the automation
envelope, and then publish. There are no threads: the concurrency is that of the
program with GitHub, whose checks, statuses and heads change between any two
requests, and of one job's steps through a shared file.

What is hard: the reads of one collection are not atomic, and neither are the
pages of one read; a set that is only sampled may change in between; rate limits
and failures are handled differently for different reads; the observer sees its
own run among the checks; the report is written in place while a later step may
still fail. In the analyzers it is partial evidence: an item that is dropped must show in the
completeness of the report; and the verifiers derive what a report says from the report alone,
so whatever a builder knew and did not write down refuses a genuine report.
`PROJECT.json` lists each such hazard at its line.

## 2. The modules

| Module | What it is | Composes |
|---|---|---|
| `StableObservation` | abstract: an observer that remembers every sample | |
| `Terminal` | the polling loop with a moving world | implements `StableObservation` |
| `TerminalProofs` | types, invariants, refinement | |
| `Acquisition`, `AcquisitionProofs` | the reads, retries and outcomes of one collection | |
| `StatusPages`, `MCStatusPages`, `StatusPagesProofs` | torn pagination of statuses and the selection loop | |
| `CheckRuns`, `CheckRunsProofs` | torn pagination of check runs, partition, triage, envelope | |
| `Publication`, `PublicationProofs` | report file, outputs and exit status | |
| `Detection` | what `overlap.detect` makes of a batch, said at once | |
| `Overlap`, `OverlapProofs` | the loops of `overlap.detect` | implements `Detection` |
| `Readiness`, `MCReadiness`, `ReadinessProofs` | classification, report and verifier of a batch | takes as one step what `Detection` says |
| `Revision` | the identity that every report is bound to, and the one that verifiers rebuild | |
| `Impact` | change impact, one iteration of its loop at a time | extends `Revision` |
| `Ordering` | a sort, as the place of each item | |
| `Knowledge`, `GuardDelta`, `Facts`, `Retrieval` | an analyzer and its verifier each, as functions of an input | extend `Revision`, two of them `Ordering` |
| `CheckRoles`, `Systemic` | the same, without an identity to rebuild | |
| `CIFailures` | failure evidence, triage, envelope and bundles, each with its verifier | extends `Revision` |
| `Advisories`, `MCAdvisories` | one operation from its input to the verdict on its report | extends `Impact`, instantiates the seven above |
| `AdvisoriesProofs` | what the analyzers emit, and what their verifiers accept, for every input | `Impact` as the part of `Advisories` that it implements |

### Terminal

`wait_for_terminal_snapshot`. One action per read of a collection
(`ReadPullRequest`, `ReadCheckRuns`, `ReadStatuses`), then exactly one decision:
`HeadChanged`, `Accept`, `GiveUp` or `Sleep`, in the order the code tests them.
`Accept`, `GiveUp` and `Sleep` share `Evaluate`, which updates `streak`
(`stable_fingerprint`, `stable_since`, `stable_observations`). The world (`StartRun`,
`FinishRun`, `ReopenRun`, `PostStatus`, `MoveHead`) may act between any two steps
of the observer. A check is one row `[id, st]`: the id is the check-run id, or the
id of the newest status of a context; a check that is requested again gets a new id,
and only a check run that an app reopens keeps it. `Reopened` names the runs that
this may happen to: what a witness says of a check holds for all others. A collection that
fails is reported by `ReadFails`, a read of checks that fails makes it
incomplete. `log` is a history variable: all samples that were evaluated.

`StableObservation` says what the loop promises: at each sample it looks at all
samples ever taken and returns a witness when a suffix of at least two is terminal,
agrees and spans the quiescence window, a timeout only when there is none. The
refinement maps `log` and `result`.

The time of a collection's reads is let pass at its end (`Tick` at `decide`), because
the code reads the clock nowhere in between. The files, the repository and the ref
that are read between the pull request and the checks do not enter the loop's
decision; their failures are part of `ReadFails`. A poll's
conclusions are abstracted to one terminal value, as the fingerprint only compares.

### Acquisition

`Reads` is the order of the requests; `Handle` says where the `RuntimeError` of a
read goes: propagated to `main` (pull, repository, ref, files), recorded as a
collection error (check runs, statuses) or forgotten (workflow runs, compare).
`page` and `attempt` are those of the loops in `_paginate_list` and `get_json`;
`Retry` is a rate-limited attempt with an acceptable wait, `Exhausted` one without.
`heads` records of which heads each read has shown rows. The pull request and its files are those of the
head there is by then. A list that is asked for one SHA (`ByHead`) may show rows of any head the pull request has
had, on any page (`ShownHeads`): what the server lists is not taken on trust, as the code does not take it either.
`Bundle` sorts them: `OfHead` keeps those of the recorded head, and `RowErrors` says where a dropped row leaves a
collection error (a check run always; statuses when none of the head is left; a workflow run never, as
`_resolve_workflow_runs` skips it). `odd` are the lists with rows that are dropped for another reason, and `kept` is
what remains in the snapshot.

### StatusPages and CheckRuns

Both read a list that grows at its front, page by page: a row that arrives between
two pages makes the second show rows of the first again, as they are by then.
`StatusPages` goes on with the loop that keeps the first row of every context up to
case, one action per branch (`MissingContext`, `SkipOlder`, `Reject`, `Take`).
`CheckRuns` goes on with the listing of workflow runs (which may fail silently),
`partition_effective_checks` (`IsOwn`, `Newer`, `IsSuperseded`, `Effective`), the triage
status, the coherence test of the verifier (`Coherent`, on the entries themselves) and
the envelope's decision. A job stands for name, app and workflow together; a foreign
app's check has no workflow and therefore supersedes nothing.

`CheckRuns` is both programs. In the action `own` is the run it is in and `current` is empty. In the
terminal program `current` holds the check runs of its own Actions run: a sample is judged only when every
other check has ended (`Settled`), and given up for another poll otherwise (`PollAgain`; what the wait
does with several samples is `Terminal`). It passes no run id to the collection (`github_terminal.py:245`), so
no workflow is its own to the partition and `own` is 0.

### Publication

Every write is an action with a failing twin; a failing write of the file leaves it
as it was or torn, a failing append of outputs leaves a prefix. `Killed` may come
before any of them. `Expose` is the shell of `terminal/action.yml` after the process.
A report stands for its own digest. `NextStep` starts another step on the same file.

### Overlap

`detect` with its two nested loops (`NextPair`) and the loop over Issues. The
dispositions, findings and overlaps are rewritten in place, `before` is what `eligible_before` was computed
from. The paths a pair shares are written under the other's pull-request number, so a later pair may overwrite an
earlier one. The order in which the Issues come is left open.

`Detection` has no state: it says of a batch, by the relation `Conflict`, what each item is left with.
`Overlap` instantiates it with its own variables, and its properties say that the loops arrive there. `Readiness`
instantiates it with the snapshots and the classified items, and `Detect` takes that for one step: the two modules have
one definition in common, which the theorems of `OverlapProofs` justify.

### Readiness

`ClassifyItem` is `_classify_snapshot` for one snapshot: coercion, identity and its gaps,
findings, disposition, completeness. `Detect` compares the whole batch. `Build` makes the report (any of the names
that `next(iter(...))` may take), `ReadBack` is a caller that stores it as JSON and reads it
again, and `Verify` is `verify_repository_intelligence_report`, condition by condition, which
sees nothing but the report. `IdentityGaps`, `StaleBase` and `StaleEvidence` are used on a snapshot by the
builder and on the identity of an item by the verifier, as `_derive_identity_flags` is.

`None` and `""` are both missing (`Missing`), but two values, as in the code, where the identity says `"None"` for a
repository that is `None`, and the name of the report passes over it. `NamesAgree` is when that makes no difference. `hold` says where "do not merge" was found, `failures`
which kinds of failure the effective checks show (their partition is in `CheckRuns` and `CIFailures`),
`Protected` and `StaleLabel` are the policy. `ReadyExactly` also says that the three findings which only
inform (expected and unexpected failures, authority overlap) block nothing. Left out are the gap texts of the
report, the order of items, the pairs listed beside a batch, and the type checks of the JSON. The text of a collection error
is taken to differ from the engine's own gaps; the code names that limit itself (`core.py:1084`).
The hash is a report together with the pairs of overlap keys that are written in ascending
order, which is all that tells an object from what JSON makes of it: integer keys become
texts, and `TextBefore` is the order of their decimal representations.

### Revision and the analyzers

`Revision` is `_derive_identity_flags` and `revision_identity`, whose operators take a snapshot or
the identity in a report, and `Rebuilt`, the snapshot that the verifiers of facts, knowledge and guard
delta make of that identity. A snapshot is a mapping or a `PRSnapshot`. A mapping declares revisions under two names:
`DeclaredOf` is what `get(a) or get(b)` takes of them, which goes past `None` and `""`, and `Coerce` is `_coerce_snapshot`,
which goes past `None` only. So a declared `""` may stay in an identity, and be `None` in the one that a verifier
rebuilds: `FoundAgain` says when that one is equal to the first. `AgreedOn` says when the two readers of a mapping
declare the same; the bundle has reports of both. `verify_cloud_bundle` treats `""` as `None` when it compares
them (`Plain`), so `""` alone does not matter there.

`Impact` has a variable for each of the sets of `_compute_impact`; the queue is `followed` and
`waiting`. `Direct`, `Follow`, `Report` and `Check` are the first round, one iteration of the loop,
the report and its verifier. `Downstream` is the reference: the least set that holds the changed files and
is closed under the edges. The verifier, which runs the loop again, uses it at once; that the
loop computes it is `ImpactExactly`.

`Knowledge`, `GuardDelta`, `Facts`, `Retrieval`, `CheckRoles`, `Systemic` and `CIFailures` have no state:
`Analyze` (or `Classify`, `Plan`, `Bundle`) is the builder, `Verify...` the verifier, and the operators in
between are named after what they derive. What an input may lack is `""`, 0, or a name in `odd`; a report is its own
digest. Where `""` and `None` lead to different reports (the fields of an identity, the name of a check) both are inputs.
In `Systemic` a run has its place in the list, its id or 0, and the texts of its times: `Later` is
`_run_order`, which falls back on the texts for runs without an id, so the latest run of a check need not
have a time that can be read. In `Retrieval` a candidate may be malformed in its ref, rank, score or evidence ref,
and is dropped with a gap in each case. `CheckRuns` has how rows come about and `CIFailures` what is made of rows, those of no
collection included; in it a tampered report is one whose status was changed and hashed again (`claimed`).

`Advisories` is one call: `Refuse`, or `Analyze` (for impact the steps of `Impact`), and then `Verify`
by whoever receives the report. `op` ranges over eight operations of the command line, the two functions that
it does not offer (task queries and check roles), and the bundles of both programs. `Inputs` is a constant;
`MCAdvisories` gives it, per operation, inputs that differ from good ones in a few respects.

The analyzers are written so that they can be proved about, which rules out operators that take operators. A sort
is the place of each item, the number of those before it (`Ordering`); where keys may be equal, what is sorted are
positions, so the sort is stable as Python's is. The loop that bounds the candidates (`Bounded`) and a retrieval score are
recursive functions.

`Proper` says what inputs `Inputs` may hold: what is left of any JSON object when malformed values have become `""`, 0
or a name in `odd` (the `Input` of each analyzer), and, for the terminal bundle, that the program has waited
(`CIFailures!Waited`). It is an assumption of the theorems, and TLC evaluates it on the inputs of the run.

## 3. The runs

| Run | Shows | Bounds |
|---|---|---|
| `terminal` | `ImplementsObservation`, `WitnessedSetUnchanged`, `EventuallyAnswers` | four changes of a check run that may be requested again, one that may also be reopened, the observer's own run and a status context, so that each of them can leave a terminal state and return to it; one head move; timeout 3, poll 2, quiescence 2: up to three samples, so a streak can break and restart too late. That a restarted streak succeeds is left to the theorems |
| `status_pages` | `NeverOutdated`, `OnePerContext`, `NoContextLost` | pages of 2, 3 reports before and 2 during the read (a whole page may slip by), two spellings of one context and another one, rows without a context or invalid |
| `check_runs` | `NoFailureMissed`, `CountedFailuresAreReal`, `TerminalJudgesWhatEnded`, `OwnEvidenceAccepted` | pages of 1, two runs before and one during the read, an own, a sibling and a foreign job, each program; one row listed twice with two statuses is reached, and so is a page too many with more runs |
| `acquisition` | `AllOrNothing`, `UnavailableBeforeCI`, `EvidenceOfHead`, `EventuallyEnds` | 2 retries, 2 pages, 1 push: every read can break off on its first or second page after 0 to 2 retries, before or after the push, and every page of a list may show rows of the head before it, of that after it, of both or of none |
| `publication` | `SuccessIsWhole`, `DigestOfFile` | two steps: the second finds every file the first may leave |
| `overlap` | `WaitExactly`, `OverlapsExactly` | all batches of 3 items over 2 paths, 2 Issues and 2 numbers: a chain in which the ends do not conflict is the smallest interesting one, and with two numbers some pair has the same |
| `readiness` | `ReadyExactly`, `GenuineAccepted`, `AmbiguousIsIncomplete` | batches of 3: the first pull request differs from a good one in up to two of 30 respects, the others in up to one of 5 and of 4; a missing field is `None` or `""`, and a repository may be called "None"; the numbers 8, 9 and 10 sort differently as texts, and two may be equal |
| `advisories` | change impact (`ImpactExactly`, `NothingDropped`, `ImpactAccepted`), one property per analyzer (`NoChangeSilent`, `GuardDirection`, `ObservationsKept`, `CandidatesKept`, `GatesClear`, `SystemicExactly`, `DecidedByRuns`), and `AcceptedExactly`: which genuine reports their own verifier refuses | below |
| `terminal_late`, `acquisition_files`, `acquisition_rate_limit`, `readiness_read_back` | a statement of the documentation that the code does not meet (section 5) | as above |

The bounds are constants (`MaxClock`, `MaxChanges`, `MaxHeadMoves`, `MaxPushes`,
`MaxReports`, `MaxRuns`, `MaxSteps`); the theorems hold for all of their values.

Bounds of `advisories`. Impact: four files with up to four edges, all covered (cycles, diamonds and
chains of three), and all graphs of up to three edges on three files, self-loops included, with one of 14
faults. Knowledge: two artifacts and two changes on two paths, 11 contexts; a problem of an artifact
moves when artifacts are sorted, for which two are enough. Guards: two of the four set fields, three trigger
patterns on two paths, up to two witnesses. Facts: two detectors and the related tests, up to two
observations. Queries: two retrievers, three candidates, ranks up to 3, required 1 to 3, so that the
bound cuts. Roles: two checks. Systemic: three pull requests, the first with two runs of a check, times 1 to 3:
a second success, a success before or after a failure, and a rerun that ended in the other order all
occur, and so do runs without an id, which their texts or their places tell apart. CI failures: two checks that each differ from a good one in one respect, and three runs of one
check. The theorems cover every graph and every input.

Deadlock is not checked: each module models one execution of a program, or one call, that ends.

**Fairness.** Only two runs state liveness. `Terminal!FairSpec` assumes weak fairness of
the observer and of time: every request has the `timeout` of `urlopen`, every sleep ends,
`time.monotonic` advances. `Acquisition!FairSpec` assumes weak fairness of the client,
for the same reason and because `get_json` refuses a wait longer than its limit.
Nothing is assumed of GitHub: checks may never settle, and rate limits never stop.

## 4. What is proved

Every theorem holds for all values of the constants that satisfy the `ASSUME`s
(disjoint names, positive durations with `Quiescence < Timeout` as `main` demands,
positive page sizes).

* **TerminalProofs.** `TypeCorrect`; then four invariants. `RankInv`: the row
  `[id, st]` of a check that is not reopened determines how often it has changed; so
  equal fingerprints mean equal histories. `StreakInv`: the three scalars of the loop
  describe the longest suffix of the log that is terminal and shows one set.
  `WitnessInv`: a result is there exactly at the end, a witness only on a streak of
  two that spans the window. `WitnessSound` (`WitnessedSetUnchanged`) follows from
  the three, and `ObservationImplemented` is the refinement: `StreakInv` is what shows
  that deciding on the scalars equals deciding on the whole log.
* **StatusPagesProofs.** `StatusInv` says what the pages have shown so far (every
  id up to the start that the offset has passed is among the rows, which is kept
  because the list grows at its front only) and what the scan has done with them.
  `StatusNeverOutdated`, `StatusOnePerContext` and `StatusNoContextLost` follow.
* **AcquisitionProofs.** `EvidenceInv` ties the reads before the current one to what
  they left; `AcquisitionAllOrNothing` and `AcquisitionUnavailable` follow.
  `AcquisitionEvidenceOfHead` rests on the same invariant: nothing changes what is kept once there is a bundle, and
  `BundleOfHead` shows of that one step that a ready bundle has no errors, hence no row dropped for its head.
* **CheckRunsProofs.** `RunsInv`: a row with a final status is true for good
  (`FinalRows`), what had failed at the start is listed as failed (`StartFailed`), and a
  read without an error lists every run there was at the start (`Covered`, the same
  argument as for statuses); the evidence is the partition of these rows
  (`Judged`). Two rows of one run are judged alike (`SameRunAlike`), which is why the
  verifier never meets a failure among the ignored checks. `CheckRunsNoneMissed`,
  `CheckRunsReal` and `CheckRunsAccepted` follow.
  `CheckRunsTerminalEnded` needs one more fact, `Awaited`: once the terminal program has its evidence,
  the read was without an error and every row it waited for (`External`) is final. With `Covered` and
  `FinalRows`, all that ran when the sample began had ended.
* **AdvisoriesProofs.** `AdvisoriesInv` says what the machine has at each point: `ImpactTypeOK` and `ImpactInv` where
  the operation is change impact, else a report that is what the analyzer makes of the input, and then the verdict of its
  verifier. All invariants of the run follow from it, over inputs of any number, size and content.
  * Impact. `ImpactInv`: the direct and transitive files are downstream of the changed ones, and closed but for what
    still waits. At the end nothing waits, so the visited files are the least closed set (`VisitedIsDownstream`), which is
    `ImpactIsDownstream`. `ImpactNothingDropped` follows from the absence of hard gaps (`NoHardGap`), `ImpactAcceptance` from
    both. `ImpactImplemented`: seen through its own variables, a run of `Advisories` on an object is one of
    `ImpactSpec`, in which the three are proved; so `ImpactHolds` states them of `Advisories`. `GraphAssumption` says
    that edges and changed files are among `File`, which is what normalisation leaves.
  * Sorting. `InOrderSorts`: a strict order gives each item of a finite set one place, and the list holds each item once, in
    order (`PlaceTaken`, by removing a last item); `InOrderStays`: what was sorted is sorted again into itself.
  * Builders. `NothingSilent` (a changed path that only an unusable artifact claims is a gap), `DirectionHolds`
    (`DirectionOf`, by the relation of the two guards), `ObservationsHold` (`FactCases`), `GatesHold` (`RoleBound`: a
    gate that is listed twice or not at all leaves the observation incomplete), `SystemicHolds` (`CutoffIs`: the time that the
    code takes as the second of the latest passing runs; `SystemicOf`), `CandidatesHold` (`BoundedKeeps`,
    `FirstPlaces`). `BoundedList` is about the loop of `_fuse_candidates`: a candidate is appended while the list is short or
    if it is exact, so the list is short just until `required` candidates were met, and holds those and the exact
    ones. It and the scores rest on `RecursionExists`; each is an induction, by the least counterexample.
  * Decision. `DecisionOfRuns`: a row listed twice is represented by the one that counts (`Represented`, by the first
    row among those of a run), so a listing and the same listing without its repetitions show the same kinds of
    failure and gap (`FailureRepresented`, `GapRepresented`), the same triage (`TriageOnce`) and the same
    decision.
  * Verifiers. `AcceptedGenuine` has a lemma per analyzer (`KnowledgeVerified`, `GuardVerified`, `FactsVerified`,
    `QueryVerified`, `TaskVerified`, `RolesVerified`, `SystemicVerified`, `FailuresVerified`, `EnvelopeVerified`,
    `BundleVerified`, `TerminalVerified`). Those of knowledge, guards and facts rest on the rebuilt snapshot having the
    flags of the first one, and knowledge on the normalised artifacts being sorted into themselves
    (`ArtifactsStay`). `RevisionAgain` and `DeclaredAgree` are the lemmas on rebuilt and on coerced identities: they
    are where `FoundAgain` and `AgreedOn` come from. Each says exactly which genuine reports are refused.
* **PublicationProofs.** `ReportInv` says, for each place the program can be at, what
  file and outputs are; `PublicationSuccess` and `PublicationDigest` follow, for any
  number of steps that share the file.
* **OverlapProofs.** `WaitInv` states the dispositions and findings after any part of the pairs and
  Issues, `OverlapInv` the paths on record: those shared with the last of the others of a number that an item was compared
  with, and the loops meet the others of one item in their order (`LaterReplaces`). At the end both are what `Detection`
  says, `OverlapWaitExactly` and `OverlapPairs`, for a batch of any size: the one step `Detect` of `Readiness` is
  what the loops do.

* **ReadinessProofs.** `ItemsInv` says that every item is `Together`: a function of the
  snapshots alone. `ReadinessExactly` follows from `FreeIff` (a disposition is `REVIEW_READY`
  before the comparison iff nothing blocks the pull request), `ReadinessAmbiguous` from the form of
  `Builds`. `ReadinessGenuine` has a lemma per part of the verifier: `CoherentGenuine`,
  `RederivableGenuine`, `AggregatesGenuine` (the names of the snapshots are those of the identities iff `NamesAgree`), `OverlapsGenuine` (the graph of a report on distinct
  numbers is exactly that of the shared paths) and `DigestGenuine` (the hash survives JSON
  iff the keys of every overlap sort alike as texts).

Model-checked only: liveness (`EventuallyAnswers`, `EventuallyEnds`), which the prover
does not reach. Every safety property of a passing run is a theorem. TLC has checked the inductive invariants on the
instances of the runs as well.

A limit of `CandidatesHold` and of the retrieval part of `AcceptedGenuine`: a score of the model is an integer. It is the code's
score, scaled, for ranks up to 3; for larger ones it is a truncated share, where the code has a float that
it rounds to six digits. The theorems hold for either, since they only compare scores, but the order they speak of is
that of the model's score.

Beyond the models: GitHub's ordering of its lists (newest first) is an assumption the
code makes too (`github_action.py:424`).

## 5. Where documentation and code disagree

Each is the one property of a run that TLC finds violated; `PROJECT.json` has the quotes.

1. `terminal_late`: `timeout-seconds` is documented as the maximum observation time, but a
   stable set is accepted before the elapsed time is looked at.
2. `acquisition_files`: the changed files are those of the pull request when they are
   read, which may be a later head than the one recorded.
3. `acquisition_rate_limit`: the changelog says that rate-limit exhaustion never passes;
   two reads forget it.
4. `readiness_read_back`: the hash of a report is not canonical. `overlaps` has integer keys, and
   `json.dumps(sort_keys=True)` orders them as numbers before and as texts after a round
   trip, so a report in which one pull request overlaps #9 and #10 is refused once it has
   been stored.

Limits that the models show and that are not runs of their own:

* `core.py:1298` recomputes the aggregates of a report "exactly as the builder does", but from the identities, in which
  a repository that is `None` is called `"None"` (`core.py:155`); the builder takes no name from it (`core.py:912`). The
  genuine report of such a pull request, which says that it is INCOMPLETE, is refused. `ReadinessGenuine` says that
  this (`NamesAgree`), two pull requests with one number, and finding 4 are the only ways to lose a genuine report.
* The fingerprint of `Terminal` has no timestamps, so a check run that an app reopens and completes
  under its id between two samples counts as unchanged; `WitnessedSetUnchanged` leaves out `Reopened`.
* The wait leaves out the checks of the own Actions run only, the evidence none: a job of that run that failed before the
  observer is counted, though `docs/dogfooding/README.md:100` says "excluding its own run".
* `startup_failure` ends the wait but is no failure to CFI: `TerminalJudgesWhatEnded` has to admit it under `NO_ACTION`.
* Two observers of one head wait for the check of each other until the timeout ends both.
* After a failure the shell exposes the report file that is there, which may be that of an earlier step
  (`terminal/action.yml:93`); `DigestOfFile` says that its digest is announced truthfully.
* `readiness`, `cfi-status` and `eia-decision` of a bundle stay among the outputs of a step that fails later
  (`github_terminal.py:487`).
* `overlap_pairs` identifies a pair by pull-request numbers alone (`core.py:372`): in a batch of two
  repositories the second pair with the same numbers is not listed.
* A run that is listed twice changes counts, fingerprint and idempotency key, so one failure may get two
  keys; `DecidedByRuns` says that it does not change the decision. There is one exception, which the attempt to prove it
  without one has shown: an earlier, unfinished row of a run that names another head is ignored as a check, but is a gap of
  its own (`check head_sha mismatches PR head_sha`) and blocks the decision. GitHub does not move a run to another head.
* `README.md:361` says that the candidates are bounded to `required_candidates` and that every exact match is
  kept: exact matches count towards the bound only when they come first (`retrieval.py:494`), so the list may be longer.
* `DecidedByRuns` admits under `NO_ACTION` a failure that was superseded by a run without a head or of the engine's own
  suites: `_supersedes` asks for no head, while the docstring of `partition_effective_checks` (`core.py:454-457`) speaks of a
  newer run on the same head. A run of another head blocks the decision by a gap of its own.
* The verifiers of knowledge, guard delta and facts refuse a genuine report whose snapshot declares a revision as
  `""`; `github_action.py:698` says that builders disagree on `""` and `None` and both mean absent, and allows for it.
* `_ignored_checks_are_coherent` accepts an ignored check whose name is `""` and refuses one whose name is no
  text, for which the fingerprint has the same gap (`core.py:804`).
* A failed listing of workflow runs leaves own and superseded runs among the evidence; `CountedFailuresAreReal` leaves
  that case out, as the code means it so.
* `DigestOfFile` is about a step that ends. A kill of the shell between the program and what it exposes is not modelled.
* A `detector_coverage` that is a list, as in the example at `README.md:299`, is rejected by `facts.py`.
* `CHANGELOG.md:89` says that unbound or unclassifiable checks fail closed; a required gate that is listed twice or
  not at all leaves the gate CLEAR. `GatesClear` holds because the observation is not ADVISORY_COMPLETE then.
* In `guard_delta.py` one witness with a direction vouches for whatever else changed, and a trigger that
  matches no known path may change unseen; facts and retrieval ignore `collection_errors` that are no list.
* `systemic.py` compares times of completion: a run that started before the fix and failed after it counts,
  although its docstring (`systemic.py:17`) says that the cutoff keeps an already-fixed failure from being reported.
* An order that GitHub does not promise: the default listing of check runs shows the latest per check only, so a rerun removes a
  row further down while it adds one at the top. Later rows keep their place or move down, as in the model; the
  row of the earlier run is no longer evidence.

## 6. Not modelled, and why

The text of reports, summaries and messages; JSON, HTTP and size limits (each is a
failing read); argument parsing; the type checks of the verifiers, which a report of a builder passes;
the matching of path patterns (a constant of `Knowledge` and `GuardDelta`); the rounding of retrieval scores (they
are exact integers, and within the bounds of the run no two that differ would be rounded to one); SHA-256 (a report is its own
digest, but for the order of keys in `Readiness`). A snapshot is a mapping or a `PRSnapshot`: other objects with its
attributes, which `revision_identity` reads by `getattr`, are left out. Its fields are texts or `None` and its number is
a natural number, 0 for what is none; values of other types, which the code treats as missing or raises on, are
not told apart from these. Run ids are positive. The Python fact detector walks a syntax tree and keeps no
state; its input is out of TLC's reach. Release scripts and benchmarks are no part of the engine.

## 7. Plan

1. `Readiness`: the top-level gap texts and `overlap_pairs`.
2. `Terminal` with several observers of one head, each with its timeout.
3. Proofs for both.
