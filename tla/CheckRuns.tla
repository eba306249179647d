------------------------------- MODULE CheckRuns -------------------------------
(***************************************************************************)
(* From the check runs of a head to the decision of the automation          *)
(* envelope: collect_pr_snapshot reads them page by page and then, once,    *)
(* the workflow runs they belong to (adapters/github_action.py);            *)
(* partition_effective_checks drops those of the observer's own workflow    *)
(* and the cancelled ones that a newer run superseded, the failures left    *)
(* make the evidence and its status (core.py, cfi.py), and the envelope     *)
(* decides on it (eia.py).                                                  *)
(*                                                                         *)
(* The terminal program (adapters/github_terminal.py) takes this way with   *)
(* the last of its samples, in which every check but those of its own       *)
(* Actions run had ended.  It passes no run id to the collection, so no      *)
(* workflow is its own to the partition.                                    *)
(*                                                                         *)
(* All the while runs are started, cancelled and finished.  GitHub lists    *)
(* the newest run first, so a run started between two pages makes the       *)
(* second show the last rows of the first once more, as they are by then.   *)
(***************************************************************************)
EXTENDS Naturals, Sequences

CONSTANTS
  Job,          \* the checks: a name, an app and a workflow
  OwnJob,       \* the one of the observer's own workflow
  Foreign,      \* those of other apps than Actions: they have no workflow
  PageSize,     \* rows per page (100)
  MaxPages,     \* DEFAULT_MAX_PAGES
  Initial,      \* bound on the runs before the read
  MaxRuns       \* bound on all runs

ASSUME JobAssumption ==
  /\ OwnJob \in Job \ Foreign
  /\ Foreign \subseteq Job

ASSUME PageAssumption ==
  /\ PageSize \in Nat \ {0}
  /\ MaxPages \in Nat \ {0}
  /\ Initial \in Nat
  /\ MaxRuns \in Nat

VARIABLES
  runs,         \* every check run of the head, oldest first; its id is its index
  own,          \* self_run_id: the run the action is in (GITHUB_RUN_ID), or 0
  current,      \* the check runs of current_actions_run_id; {} in the action
  start,        \* what there was when the first page was read (history)
  pc,
  offset,       \* how many rows the pages read so far took up
  rows,         \* check_rows: the id and the status of the run when it was read
  failed,       \* has a read left a collection error?
  listed,       \* how many of the runs the listing of workflow runs covers
  evidence,     \* what fingerprint_ci_failures makes of the rows
  decision      \* of the envelope, or how the bundle failed

vars == <<runs, own, current, start, pc, offset, rows, failed, listed, evidence, decision>>

Failure == {"failure", "cancelled"}      \* TERMINAL_FAILURE_STATUSES
Final == {"success", "startup_failure"} \cup Failure
Status == {"in_progress"} \cup Final

Run == [job : Job, st : Status]

-----------------------------------------------------------------------------
(* The workflows of the head.  A run is cancelled by hand, or because its    *)
(* concurrency group has a newer one.  The check of the observer itself does  *)
(* not end.                                                                 *)
World ==
  /\ pc = "read" \/ pc = "list"
  /\ UNCHANGED <<own, current, start, pc, offset, rows, failed, listed, evidence, decision>>

StartRun ==
  /\ World
  /\ Len(runs) < MaxRuns
  /\ \E job \in Job : runs' = Append(runs, [job |-> job, st |-> "in_progress"])

FinishRun ==
  /\ World
  /\ \E i \in 1 .. Len(runs), st \in Final :
       /\ i # own
       /\ i \in current => \E j \in current \ {i} : runs[j].st = "in_progress"
       /\ runs[i].st = "in_progress"
       /\ runs' = [runs EXCEPT ![i].st = st]

-----------------------------------------------------------------------------
(* The reads.                                                               *)
Remaining == IF offset >= Len(runs) THEN 0 ELSE Len(runs) - offset
PageLength == IF Remaining < PageSize THEN Remaining ELSE PageSize
(* The conclusion alone, which a run in progress has not got.                *)
FaultyPage ==
  [j \in 1 .. PageLength |->
     LET i == Len(runs) - offset - j + 1 IN
       [id |-> i, st |-> IF runs[i].st = "in_progress" THEN "null" ELSE runs[i].st]]
Page ==
  [j \in 1 .. PageLength |->
     [id |-> Len(runs) - offset - j + 1, st |-> runs[Len(runs) - offset - j + 1].st]]

FailedRuns == {i \in 1 .. Len(runs) : runs[i].st \in Failure}

(* The page without its row at `bad'.                                        *)
Without(bad) == [j \in 1 .. PageLength - 1 |-> Page[IF j < bad THEN j ELSE j + 1]]

(* A row without a name, a status or the sha of the head is dropped with a   *)
(* collection error; at most one of a page is.                              *)
ReadPage ==
  /\ pc = "read"
  /\ offset < MaxPages * PageSize
  /\ start' = IF offset = 0 THEN [runs |-> Len(runs), failed |-> FailedRuns] ELSE start
  /\ \/ rows' = rows \o Page /\ UNCHANGED failed
     \/ \E bad \in 1 .. PageLength : rows' = rows \o Without(bad) /\ failed' = TRUE
  /\ offset' = offset + PageSize
  /\ pc' = IF PageLength < PageSize THEN "list" ELSE "read"
  /\ UNCHANGED <<runs, own, current, listed, evidence, decision>>

(* Any RuntimeError, one page too many included.  The fault: the pages read  *)
(* before it are taken for all.                                             *)
FaultyReadFails ==
  /\ pc = "read"
  /\ pc' = "list"
  /\ UNCHANGED <<runs, own, current, start, offset, rows, failed, listed, evidence, decision>>
ReadFails ==
  /\ pc = "read"
  /\ rows' = <<>>
  /\ failed' = TRUE
  /\ pc' = "list"
  /\ UNCHANGED <<runs, own, current, start, offset, listed, evidence, decision>>

(* One listing for all suites, best effort: a failure leaves none.           *)
ListWorkflowRuns ==
  /\ pc = "list"
  /\ listed' \in {0, Len(runs)}
  /\ pc' = "analyze"
  /\ UNCHANGED <<runs, own, current, start, offset, rows, failed, evidence, decision>>

-----------------------------------------------------------------------------
(* partition_effective_checks.  A check is the index of a row, as one run    *)
(* may have several.                                                        *)
Checks == 1 .. Len(rows)
JobOf(k) == runs[rows[k].id].job

HasWorkflow(k) == rows[k].id <= listed /\ JobOf(k) \notin Foreign

(* The suite of the own run only, not those of the other runs of the         *)
(* workflow.                                                                *)
FaultyIsOwn(k) == own # 0 /\ own <= listed /\ rows[k].id = own
IsOwn(k) == own # 0 /\ own <= listed /\ HasWorkflow(k) /\ JobOf(k) = OwnJob

(* `not older' for `newer'.                                                 *)
FaultyNewer(k) ==
  {m \in Checks \ {k} : /\ HasWorkflow(m) /\ HasWorkflow(k)
                        /\ JobOf(m) = JobOf(k)
                        /\ rows[m].id >= rows[k].id}
Newer(k) ==
  {m \in Checks \ {k} : /\ HasWorkflow(m) /\ HasWorkflow(k)
                        /\ JobOf(m) = JobOf(k)
                        /\ rows[m].id > rows[k].id}

IsSuperseded(k) == ~IsOwn(k) /\ rows[k].st = "cancelled" /\ Newer(k) # {}

Newest(ids) == CHOOSE i \in ids : \A j \in ids : j <= i
Ignored ==
  {[check |-> k, reason |-> "SELF_WORKFLOW", by |-> 0] : k \in {c \in Checks : IsOwn(c)}}
  \cup
  {[check |-> k, reason |-> "SUPERSEDED_CANCELLED",
    by |-> Newest({rows[m].id : m \in Newer(k)})] :
      k \in {c \in Checks : IsSuperseded(c)}}
Effective == {k \in Checks : ~IsOwn(k) /\ ~IsSuperseded(k)}

Failures == {k \in Effective : rows[k].st \in Failure}

(* No check at all is a gap; commit statuses count as checks too, and there  *)
(* may be some, none of them failed.                                        *)
HasGaps(statuses) == failed \/ (Checks = {} /\ ~statuses)

Triage(gaps, failures) ==
  IF gaps THEN "INSUFFICIENT_EVIDENCE"
  ELSE IF failures # {} THEN "UNEXPECTED_FAILURE_OBSERVED"
  ELSE "NO_TERMINAL_FAILURE"

(* What the terminal program waits for.  The fault: it does not wait for the  *)
(* other runs of its own jobs.                                              *)
FaultyExternal == {k \in Checks : JobOf(k) \notin {runs[i].job : i \in current}}
External == {k \in Checks : rows[k].id \notin current}
Settled(statuses) ==
  /\ ~failed
  /\ External # {} \/ statuses
  /\ \A k \in External : rows[k].st \in Final

NoEvidence == [failures |-> {}, ignored |-> {}, status |-> "none"]
Analyze ==
  /\ pc = "analyze"
  /\ \E statuses \in BOOLEAN :
       /\ current # {} => Settled(statuses)
       /\ evidence' = [failures |-> Failures, ignored |-> Ignored,
                       status |-> Triage(HasGaps(statuses), Failures)]
  /\ pc' = "plan"
  /\ UNCHANGED <<runs, own, current, start, offset, rows, failed, listed, decision>>

(* A check or status has not ended, or the sample is not confirmed yet.       *)
PollAgain ==
  /\ pc = "analyze"
  /\ current # {}
  /\ pc' = "poll"
  /\ UNCHANGED <<runs, own, current, start, offset, rows, failed, listed, evidence, decision>>

(* _ignored_checks_are_coherent, on the ignored entries' own fields.         *)
Coherent(e) ==
  \A i \in e.ignored :
    /\ rows[i.check].id \notin {rows[k].id : k \in e.failures}
    /\ CASE i.reason = "SELF_WORKFLOW" -> IsOwn(i.check)
         [] i.reason = "SUPERSEDED_CANCELLED" ->
              /\ rows[i.check].st = "cancelled"
              /\ HasWorkflow(i.check)
              /\ i.by > rows[i.check].id

(* plan_external_intelligence_automation: it refuses a report that does not  *)
(* verify, and nothing is planned for a stale identity.                      *)
Decide(status) ==
  CASE status = "UNEXPECTED_FAILURE_OBSERVED" -> "READY"
    [] status = "NO_TERMINAL_FAILURE" -> "NO_ACTION"
    [] OTHER -> "BLOCKED"
Plan ==
  /\ pc = "plan"
  /\ \E stale \in BOOLEAN :
       decision' = IF ~Coherent(evidence) THEN "refused"
                   ELSE IF stale THEN "BLOCKED"
                   ELSE Decide(evidence.status)
  /\ pc' = "done"
  /\ UNCHANGED <<runs, own, current, start, offset, rows, failed, listed, evidence>>

Init ==
  /\ \E n \in 0 .. Initial : runs \in [1 .. n -> Run]
  /\ LET ids == 1 .. Len(runs)
         running == {i \in ids : runs[i].st = "in_progress"} IN
       \/ own \in {i \in running : runs[i].job = OwnJob} \cup {0} /\ current = {}
       \/ /\ own = 0
          /\ current \in {ofRun \in SUBSET {i \in ids : runs[i].job \notin Foreign} :
                            /\ ofRun \cap running # {}
                            /\ \A i, j \in ofRun : runs[i].job = runs[j].job => i = j}
  /\ start = [runs |-> 0, failed |-> {}]
  /\ pc = "read"
  /\ offset = 0
  /\ rows = <<>>
  /\ failed = FALSE
  /\ listed = 0
  /\ evidence = NoEvidence
  /\ decision = "none"

Next ==
  \/ StartRun \/ FinishRun
  \/ ReadPage \/ ReadFails \/ ListWorkflowRuns
  \/ Analyze \/ PollAgain \/ Plan

Spec == Init /\ [][Next]_vars

-----------------------------------------------------------------------------
(* The values of the variables; a row is that of a run.                      *)
TypeOK ==
  /\ runs \in Seq(Run)
  /\ own \in 0 .. Len(runs) /\ current \subseteq 1 .. Len(runs)
  /\ start.runs \in 0 .. Len(runs) /\ start.failed \subseteq 1 .. Len(runs)
  /\ pc \in {"read", "list", "analyze", "poll", "plan", "done"}
  /\ offset \in Nat
  /\ rows \in Seq([id : 1 .. Len(runs), st : Status])
  /\ failed \in BOOLEAN
  /\ listed \in 0 .. Len(runs)
  /\ evidence.failures \subseteq 1 .. Len(rows)
  /\ \A i \in evidence.ignored : i.check \in 1 .. Len(rows) /\ i.by \in 0 .. Len(runs)
  /\ decision \in {"none", "READY", "NO_ACTION", "BLOCKED", "refused"}

(* What partition_effective_checks may leave out of account, in terms of the *)
(* runs themselves: `n' is how many there were.                              *)
OfOwnWorkflow(i) == own # 0 /\ listed # 0 /\ runs[i].job = OwnJob
SupersededAmong(i, n) ==
  /\ runs[i].st = "cancelled"
  /\ \E j \in i + 1 .. n : runs[j].job = runs[i].job

(* Whatever is started or finished between the reads, the envelope only says *)
(* that there is nothing to do when every failure there was as the read      *)
(* began is one of the own workflow or a cancelled run with a newer one.     *)
NoFailureMissed ==
  decision = "NO_ACTION" =>
    \A i \in start.failed : OfOwnWorkflow(i) \/ SupersededAmong(i, Len(runs))

(* The other way round, a failure is only counted for a run that did fail,   *)
(* and, once the workflow runs could be listed, for none of the own workflow *)
(* and none that was cancelled and superseded before the read began.         *)
CountedFailuresAreReal ==
  decision = "READY" =>
    \A k \in evidence.failures :
      LET i == rows[k].id IN
        /\ runs[i].st = rows[k].st
        /\ ~OfOwnWorkflow(i)
        /\ listed # 0 /\ runs[i].job \notin Foreign =>
             ~SupersededAmong(i, start.runs)

(* What the terminal program decides on is over: of the runs there were when  *)
(* the last read began every one has ended, those of its own Actions run       *)
(* aside.  Where it says that there is nothing to do, each of them succeeded,  *)
(* could not start at all, or was cancelled for a newer one.                  *)
TerminalJudgesWhatEnded ==
  current # {} /\ decision \in {"READY", "NO_ACTION"} =>
    \A i \in 1 .. start.runs \ current :
      /\ runs[i].st \in Final
      /\ decision = "NO_ACTION" =>
           runs[i].st \in {"success", "startup_failure"} \/ SupersededAmong(i, Len(runs))

(* The evidence this code builds is evidence its verifier accepts, even when *)
(* one run was read twice with two statuses.                                *)
OwnEvidenceAccepted == decision # "refused"
=============================================================================
