------------------------------- MODULE Terminal -------------------------------
(***************************************************************************)
(* adapters/github_terminal.py: wait_for_terminal_snapshot polls GitHub     *)
(* until the external check runs and commit statuses of one pull-request    *)
(* head are complete, terminal and unchanged for a quiescence window.       *)
(*                                                                         *)
(* The world (the head, the checks, the clock) moves between any two reads  *)
(* of a collection, as it does on GitHub.  A collection is the sequence of  *)
(* reads of collect_pr_snapshot that matter here: the pull request, the     *)
(* repository and its files, the check runs, the commit statuses.           *)
(*                                                                         *)
(* Clock 0 is the moment `started' is read.                                 *)
(***************************************************************************)
EXTENDS Naturals, Sequences, Functions

CONSTANTS
  Run,          \* names of GitHub check runs
  Context,      \* contexts of commit statuses
  Own,          \* the check runs of the observing Actions run itself
  Conclusion,   \* the terminal states (TERMINAL_CHECK_STATES)
  Timeout, Poll, Quiescence,
  Reopened,     \* the check runs that an app may reopen under the same id
  MaxClock,     \* bound on the clock
  MaxChanges,   \* bound on the changes of all checks together
  MaxHeadMoves  \* bound on the moves of the pull-request head

Check == Run \cup Context
External == Check \ Own
State == {"absent", "running"} \cup Conclusion

ASSUME ChecksAssumption ==
  /\ Own \subseteq Run
  /\ Reopened \subseteq Run
  /\ Run \cap Context = {}
  /\ {"absent", "running"} \cap Conclusion = {}

ASSUME DurationAssumption ==
  /\ Timeout \in Nat \ {0}
  /\ Poll \in Nat \ {0}
  /\ Quiescence \in Nat \ {0}
  /\ Quiescence < Timeout

ASSUME BoundAssumption ==
  /\ MaxClock \in Nat
  /\ MaxChanges \in Nat
  /\ MaxHeadMoves \in Nat

VARIABLES
  head,         \* the head of the pull request: "expected" or "other"
  headMoves,    \* how often it moved (history)
  checks,       \* the latest row of every check at the expected head
  changes,      \* how often each check changed (history)
  clock,
  pc,           \* where the observer is
  snap,         \* the collection under way
  streak,       \* stable_fingerprint, stable_since, stable_observations
  wake,         \* when the current sleep ends
  result,       \* how wait_for_terminal_snapshot ended
  log           \* every sample evaluated (history)

world == <<head, headMoves, checks, changes>>
vars == <<head, headMoves, checks, changes, clock, pc, snap, streak, wake,
          result, log>>

(* A row: `id' stands for the check_run_id, or for the id of the newest      *)
(* commit status of the context.                                             *)
Row == [id : Nat, st : State]
AbsentRow == [id |-> 0, st |-> "absent"]
FirstRow == [id |-> 1, st |-> "running"]

-----------------------------------------------------------------------------
(***************************************************************************)
(* The world, for as long as it is observed.                                *)
(***************************************************************************)
TotalChanges == FoldFunction(+, 0, changes)

Change(c, row) ==
  /\ pc # "end"
  /\ TotalChanges < MaxChanges
  /\ checks' = [checks EXCEPT ![c] = row]
  /\ changes' = [changes EXCEPT ![c] = @ + 1]
  /\ UNCHANGED <<head, headMoves, clock, pc, snap, streak, wake, result, log>>

(* A check run is created, or requested again: a new id, not terminal.       *)
StartRun(c) ==
  /\ c \in Run
  /\ checks[c].st # "running"
  /\ Change(c, [id |-> checks[c].id + 1, st |-> "running"])

FinishRun(c) ==
  /\ c \in Run
  /\ checks[c].st = "running"
  /\ \E st \in Conclusion : Change(c, [id |-> checks[c].id, st |-> st])

(* An app sets a completed check run back to in_progress through the API.    *)
ReopenRun(c) ==
  /\ c \in Reopened
  /\ checks[c].st \in Conclusion
  /\ Change(c, [id |-> checks[c].id, st |-> "running"])

(* A commit status is never edited: each report of a context is a new row.   *)
PostStatus(c) ==
  /\ c \in Context
  /\ \E st \in State \ {"absent"} :
       Change(c, [id |-> checks[c].id + 1, st |-> st])

(* A push, or a force-push back to the expected head.                        *)
MoveHead ==
  /\ pc # "end"
  /\ headMoves < MaxHeadMoves
  /\ head' = IF head = "expected" THEN "other" ELSE "expected"
  /\ headMoves' = headMoves + 1
  /\ UNCHANGED <<checks, changes, clock, pc, snap, streak, wake, result, log>>

World ==
  \/ \E c \in Check : StartRun(c) \/ FinishRun(c) \/ ReopenRun(c) \/ PostStatus(c)
  \/ MoveHead

(* Time passes in sleeps and in reads.  Nothing looks at the clock between   *)
(* the first read of a collection and `now', so the time its reads take is   *)
(* let pass when the last of them is done.                                   *)
Tick ==
  /\ pc \in {"sleep", "decide"}
  /\ clock < MaxClock
  /\ clock' = clock + 1
  /\ UNCHANGED <<world, pc, snap, streak, wake, result, log>>

-----------------------------------------------------------------------------
(***************************************************************************)
(* The observer.  One step per read, one per decision.                     *)
(***************************************************************************)
NoRows == [c \in Check |-> AbsentRow]
NoSnapshot ==
  [head |-> "expected", rows |-> NoRows, complete |-> TRUE, seen |-> [c \in Check |-> 0]]
NoStreak == [fp |-> [c \in External |-> AbsentRow], since |-> 0, obs |-> 0]

End(outcome) ==
  /\ pc' = "end"
  /\ result' = outcome

(* A RuntimeError of a read that collect_pr_snapshot does not swallow.       *)
ReadFails ==
  \/ End("GITHUB_RATE_LIMITED")
  \/ End("GITHUB_READ_FAILED")
  \/ End("UNKNOWN")

(* The pull request is read first; the repository, the ref of its default   *)
(* branch and the changed files follow and may only fail.                    *)
ReadPullRequest ==
  /\ pc = "pull"
  /\ \/ /\ snap' = [snap EXCEPT !.head = head]
        /\ pc' = "runs"
        /\ UNCHANGED result
     \/ ReadFails /\ UNCHANGED snap
  /\ UNCHANGED <<world, clock, streak, wake, log>>

(* The rows of the checks in S as they are now; a failed read leaves none    *)
(* and makes the collection incomplete.                                      *)
ReadRows(S, next) ==
  /\ \/ snap' = [snap EXCEPT
                   !.rows = [c \in Check |-> IF c \in S THEN checks[c] ELSE @[c]],
                   !.seen = [c \in Check |-> IF c \in S THEN changes[c] ELSE @[c]]]
     \/ snap' = [snap EXCEPT !.complete = FALSE]
  /\ pc' = next
  /\ UNCHANGED <<world, clock, streak, wake, result, log>>

ReadCheckRuns == pc = "runs" /\ ReadRows(Run, "statuses")
ReadStatuses == pc = "statuses" /\ ReadRows(Context, "decide")

(* A fingerprint of names and statuses only, without the ids.                *)
FaultyFingerprint == [c \in External |-> [snap.rows[c] EXCEPT !.id = 0]]
Fingerprint == [c \in External |-> snap.rows[c]]
Present == {c \in External : snap.rows[c].st # "absent"}
AllTerminal ==
  /\ Present # {}
  /\ \A c \in Present : snap.rows[c].st \in Conclusion
Ok == snap.complete /\ AllTerminal

(* Without the reset of the `else' branch.                                   *)
FaultyNextStreak ==
  IF Ok /\ Fingerprint # streak.fp
  THEN [fp |-> Fingerprint, since |-> clock, obs |-> 1]
  ELSE [streak EXCEPT !.obs = @ + 1]
(* An incomplete poll takes back one observation instead of all.             *)
FaultyDecrement ==
  IF ~Ok THEN [NoStreak EXCEPT !.obs = streak.obs - 1]
  ELSE IF Fingerprint # streak.fp
       THEN [fp |-> Fingerprint, since |-> clock, obs |-> 1]
       ELSE [streak EXCEPT !.obs = @ + 1]
NextStreak ==
  IF ~Ok THEN NoStreak
  ELSE IF Fingerprint # streak.fp
       THEN [fp |-> Fingerprint, since |-> clock, obs |-> 1]
       ELSE [streak EXCEPT !.obs = @ + 1]

Stable(s) == s.obs >= 2 /\ clock - s.since >= Quiescence

HeadChanged ==
  /\ pc = "decide"
  /\ snap.head # "expected"
  /\ End("HEAD_CHANGED")
  /\ UNCHANGED <<world, clock, snap, streak, wake, log>>

Evaluate ==
  /\ pc = "decide"
  /\ snap.head = "expected"
  /\ streak' = NextStreak
  /\ log' = Append(log, [snap |-> snap, at |-> clock])
  /\ snap' = NoSnapshot      \* the next iteration collects anew
  /\ UNCHANGED <<world, clock>>

Accept ==
  /\ Evaluate
  /\ Stable(NextStreak)
  /\ End("witness")
  /\ UNCHANGED wake

(* The timeout looked at only while the set is not terminal.                 *)
FaultyGiveUp ==
  /\ Evaluate
  /\ ~Ok
  /\ clock >= Timeout
  /\ End("OBSERVATION_TIMEOUT")
  /\ UNCHANGED wake

GiveUp ==
  /\ Evaluate
  /\ ~Stable(NextStreak)
  /\ clock >= Timeout
  /\ End("OBSERVATION_TIMEOUT")
  /\ UNCHANGED wake

Sleep ==
  /\ Evaluate
  /\ ~Stable(NextStreak)
  /\ clock < Timeout
  /\ wake' = IF Poll < Timeout - clock THEN clock + Poll ELSE Timeout
  /\ pc' = "sleep"
  /\ UNCHANGED result

WakeUp ==
  /\ pc = "sleep"
  /\ clock >= wake
  /\ pc' = "pull"
  /\ UNCHANGED <<world, clock, snap, streak, wake, result, log>>

Observer ==
  \/ ReadPullRequest \/ ReadCheckRuns \/ ReadStatuses
  \/ HeadChanged \/ Accept \/ GiveUp \/ Sleep \/ WakeUp

-----------------------------------------------------------------------------
(* The observer's own run is in progress; the world may move any number of   *)
(* times before the first read.                                              *)
Init ==
  /\ head = "expected"
  /\ headMoves = 0
  /\ checks = [c \in Check |-> IF c \in Own THEN FirstRow ELSE AbsentRow]
  /\ changes = [c \in Check |-> IF c \in Own THEN 1 ELSE 0]
  /\ clock = 0
  /\ pc = "pull"
  /\ snap = NoSnapshot
  /\ streak = NoStreak
  /\ wake = 0
  /\ result = "pending"
  /\ log = <<>>

Next == World \/ Tick \/ Observer

Spec == Init /\ [][Next]_vars

(***************************************************************************)
(* urlopen has a timeout and a sleep ends, so the observer never stays in a *)
(* read or a sleep for ever, and time passes.  Nothing is assumed of the    *)
(* world.                                                                   *)
(***************************************************************************)
FairSpec == Spec /\ WF_vars(Observer) /\ WF_vars(Tick)

-----------------------------------------------------------------------------
(***************************************************************************)
(* Properties.                                                             *)
(***************************************************************************)
Rows == [Check -> Row]
Counts == [Check -> Nat]
Snapshots == [head : {"expected", "other"}, rows : Rows, complete : BOOLEAN, seen : Counts]
Streaks == [fp : [External -> Row], since : Nat, obs : Nat]
Samples == [snap : Snapshots, at : Nat]
Outcome == {"pending", "witness", "OBSERVATION_TIMEOUT", "HEAD_CHANGED",
            "GITHUB_RATE_LIMITED", "GITHUB_READ_FAILED", "UNKNOWN"}
PC == {"pull", "runs", "statuses", "decide", "sleep", "end"}

(* The values every variable of the observer and of the world ranges over.   *)
TypeOK ==
  /\ head \in {"expected", "other"}
  /\ headMoves \in Nat
  /\ checks \in Rows
  /\ changes \in Counts
  /\ clock \in Nat
  /\ pc \in PC
  /\ snap \in Snapshots
  /\ streak \in Streaks
  /\ wake \in Nat
  /\ result \in Outcome
  /\ log \in Seq(Samples)

(* What a sample shows of the checks that are not the observer's own.        *)
ExternalRows(s) == [c \in Check \ Own |-> s.snap.rows[c]]
TerminalSample(s) ==
  /\ s.snap.complete
  /\ \E c \in Check \ Own : s.snap.rows[c].st # "absent"
  /\ \A c \in Check \ Own :
       s.snap.rows[c].st # "absent" => s.snap.rows[c].st \in Conclusion

AbstractLog ==
  [i \in 1 .. Len(log) |-> [ok |-> TerminalSample(log[i]),
                            fp |-> ExternalRows(log[i]),
                            at |-> log[i].at]]
AbstractVerdict ==
  CASE result = "pending" -> "pending"
    [] result = "witness" -> "witness"
    [] result = "OBSERVATION_TIMEOUT" -> "timeout"
    [] OTHER -> "error"

Observation == INSTANCE StableObservation
  WITH log <- AbstractLog, verdict <- AbstractVerdict

(* The three scalars the loop keeps decide as the whole history of samples   *)
(* would: a witness exactly at the first quiescent suffix, a timeout only    *)
(* without one.                                                              *)
ImplementsObservation == Observation!Spec

(* The checks in S did not change at all between the first and the last of   *)
(* the samples a witness rests on.                                           *)
UnchangedIn(S) ==
  \E k \in 1 .. Len(log) - 1 :
    /\ log[Len(log)].at - log[k].at >= Quiescence
    /\ \A i \in k .. Len(log), c \in S :
         log[i].snap.seen[c] = log[Len(log)].snap.seen[c]

(* A witness means that no external check changed during the window,         *)
(* although it was only looked at now and then: a check that was requested   *)
(* again and finished again has a new id.  Only a check run that an app      *)
(* edits in place escapes.                                                   *)
WitnessedSetUnchanged ==
  result = "witness" => UnchangedIn((Check \ Own) \ Reopened)

-----------------------------------------------------------------------------
(***************************************************************************)
(* What the proofs need.                                                   *)
(***************************************************************************)

(* The row of a check that is not edited in place determines how often the   *)
(* check changed.                                                            *)
Rank(c, row) ==
  IF c \in Context THEN row.id
  ELSE IF row.st = "absent" THEN 0
  ELSE IF row.st = "running" THEN 2 * row.id - 1
  ELSE 2 * row.id

Ranked(s) == \A c \in Check \ Reopened : s.seen[c] = Rank(c, s.rows[c])

RankInv ==
  /\ \A c \in Check \ Reopened :
       /\ changes[c] = Rank(c, checks[c])
       /\ checks[c].st = "absent" => checks[c].id = 0
  /\ Ranked(snap)
  /\ \A i \in 1 .. Len(log) : Ranked(log[i].snap)

(* The streak is the longest suffix of the log that is terminal and shows    *)
(* one set of external rows; `since' is the time of its first sample.        *)
InStreak(i) == TerminalSample(log[i]) /\ ExternalRows(log[i]) = streak.fp
StreakInv ==
  LET n == Len(log) IN
    /\ streak.obs <= n
    /\ streak.obs = 0 => streak = NoStreak
    /\ \A i \in 1 .. n : i > n - streak.obs => InStreak(i)
    /\ streak.obs > 0 => log[n - streak.obs + 1].at = streak.since
    /\ streak.obs = 0 /\ n > 0 => ~TerminalSample(log[n])
    /\ streak.obs > 0 /\ streak.obs < n => ~InStreak(n - streak.obs)
    /\ \A i, j \in 1 .. n : i <= j => log[i].at <= log[j].at
    /\ \A i \in 1 .. n : log[i].at <= clock

(* A witness is only returned on a streak of two that spans the window.      *)
WitnessInv ==
  /\ pc = "end" <=> result # "pending"
  /\ result = "witness" =>
       streak.obs >= 2 /\ log[Len(log)].at - streak.since >= Quiescence

(* terminal/action.yml calls timeout-seconds the maximum observation time: a *)
(* witness would rest on samples evaluated within it.                        *)
WitnessWithinTimeout ==
  result = "witness" => log[Len(log)].at <= Timeout

(* The loop ends, whatever the world does.                                   *)
EventuallyAnswers == <>(result # "pending")
=============================================================================
