---------------------------- MODULE TerminalProofs ----------------------------
(***************************************************************************)
(* Proofs about Terminal for every set of checks and every duration: type   *)
(* correctness, the soundness of a witness, and the refinement of           *)
(* StableObservation.                                                       *)
(***************************************************************************)
EXTENDS Terminal, TLAPS

-----------------------------------------------------------------------------
(* What the parts of a step that several actions share do to the types.      *)

(* The initial values of the variables have their types.                   *)
LEMMA ConstantTypes ==
  /\ AbsentRow \in Row
  /\ FirstRow \in Row
  /\ NoRows \in Rows
  /\ NoSnapshot \in Snapshots
  /\ NoStreak \in Streaks
<1>1. AbsentRow \in Row /\ FirstRow \in Row
  BY DEF AbsentRow, FirstRow, Row, State
<1>2. NoRows \in Rows
  BY <1>1 DEF NoRows, Rows
<1>3. NoSnapshot \in Snapshots
  BY <1>2 DEF NoSnapshot, Snapshots, Counts
<1>4. NoStreak \in Streaks
  BY <1>1 DEF NoStreak, Streaks
<1> QED
  BY <1>1, <1>2, <1>3, <1>4

(* A change of a check keeps the types.                                    *)
LEMMA ChangeTypes ==
  ASSUME TypeOK, NEW c \in Check, NEW row \in Row, Change(c, row)
  PROVE  TypeOK'
BY DEF TypeOK, Change, Rows, Counts

(* A sample of a typed state is a sample.                                  *)
LEMMA SampleType ==
  ASSUME TypeOK
  PROVE  /\ [snap |-> snap, at |-> clock] \in Samples
         /\ Append(log, [snap |-> snap, at |-> clock]) \in Seq(Samples)
BY DEF TypeOK, Samples

(* A fingerprint maps the external checks to rows.                         *)
LEMMA FingerprintType ==
  ASSUME TypeOK
  PROVE  Fingerprint \in [External -> Row]
BY DEF TypeOK, Fingerprint, External, Snapshots, Rows

(* What the loop makes of the three scalars is a streak again.             *)
LEMMA NextStreakType ==
  ASSUME TypeOK
  PROVE  NextStreak \in Streaks
<1>1. [fp |-> Fingerprint, since |-> clock, obs |-> 1] \in Streaks
  BY FingerprintType DEF TypeOK, Streaks
<1>2. [streak EXCEPT !.obs = @ + 1] \in Streaks
  BY DEF TypeOK, Streaks
<1> QED
  BY <1>1, <1>2, ConstantTypes DEF NextStreak

(* An evaluated sample keeps the types of the streak and the log.          *)
LEMMA EvaluateTypes ==
  ASSUME TypeOK, Evaluate
  PROVE  /\ UNCHANGED <<head, headMoves, checks, changes, clock>>
         /\ snap' \in Snapshots
         /\ streak' \in Streaks
         /\ log' \in Seq(Samples)
BY ConstantTypes, NextStreakType, SampleType DEF Evaluate, world

(* Every variable keeps its type.                                            *)
THEOREM TypeCorrect == Spec => []TypeOK
<1> USE DurationAssumption, BoundAssumption
<1>1. Init => TypeOK
  BY ConstantTypes DEF Init, TypeOK, Rows, Counts, Outcome, PC
<1>2. TypeOK /\ [Next]_vars => TypeOK'
  <2> SUFFICES ASSUME TypeOK, [Next]_vars PROVE TypeOK'
    OBVIOUS
  <2>1. ASSUME NEW c \in Check, StartRun(c) PROVE TypeOK'
    <3>1. [id |-> checks[c].id + 1, st |-> "running"] \in Row
      BY DEF TypeOK, Rows, Row, State
    <3> QED BY <2>1, <3>1, ChangeTypes DEF StartRun
  <2>2. ASSUME NEW c \in Check, FinishRun(c) PROVE TypeOK'
    <3>1. \A st \in Conclusion : [id |-> checks[c].id, st |-> st] \in Row
      BY DEF TypeOK, Rows, Row, State
    <3> QED BY <2>2, <3>1, ChangeTypes DEF FinishRun
  <2>3. ASSUME NEW c \in Check, ReopenRun(c) PROVE TypeOK'
    <3>1. [id |-> checks[c].id, st |-> "running"] \in Row
      BY DEF TypeOK, Rows, Row, State
    <3> QED BY <2>3, <3>1, ChangeTypes DEF ReopenRun
  <2>4. ASSUME NEW c \in Check, PostStatus(c) PROVE TypeOK'
    <3>1. \A st \in State : [id |-> checks[c].id + 1, st |-> st] \in Row
      BY DEF TypeOK, Rows, Row
    <3> QED BY <2>4, <3>1, ChangeTypes DEF PostStatus
  <2>5. CASE MoveHead
    BY <2>5 DEF MoveHead, TypeOK
  <2>6. CASE Tick
    BY <2>6 DEF Tick, world, TypeOK
  <2>7. CASE ReadPullRequest
    <3>1. [snap EXCEPT !.head = head] \in Snapshots
      BY DEF TypeOK, Snapshots
    <3> QED
      BY <2>7, <3>1 DEF ReadPullRequest, ReadFails, End, world, TypeOK, PC, Outcome
  <2>8. ASSUME NEW S, NEW next \in PC, ReadRows(S, next) PROVE TypeOK'
    <3>1. [snap EXCEPT
             !.rows = [c \in Check |-> IF c \in S THEN checks[c] ELSE @[c]],
             !.seen = [c \in Check |-> IF c \in S THEN changes[c] ELSE @[c]]]
          \in Snapshots
      BY DEF TypeOK, Snapshots, Rows, Counts
    <3>2. [snap EXCEPT !.complete = FALSE] \in Snapshots
      BY DEF TypeOK, Snapshots
    <3> QED
      BY <2>8, <3>1, <3>2 DEF ReadRows, world, TypeOK
  <2>9. CASE ReadCheckRuns
    BY <2>9, <2>8 DEF ReadCheckRuns, PC
  <2>10. CASE ReadStatuses
    BY <2>10, <2>8 DEF ReadStatuses, PC
  <2>11. CASE HeadChanged
    BY <2>11 DEF HeadChanged, End, world, TypeOK, PC, Outcome
  <2>12. CASE Accept
    BY <2>12, EvaluateTypes DEF Accept, End, TypeOK, PC, Outcome
  <2>13. CASE GiveUp
    BY <2>13, EvaluateTypes DEF GiveUp, End, TypeOK, PC, Outcome
  <2>14. CASE Sleep
    <3>1. wake' \in Nat
      BY <2>14 DEF Sleep, TypeOK
    <3> QED
      BY <2>14, <3>1, EvaluateTypes DEF Sleep, TypeOK, PC, Outcome
  <2>15. CASE WakeUp
    BY <2>15 DEF WakeUp, world, TypeOK, PC
  <2>16. CASE UNCHANGED vars
    BY <2>16 DEF vars, TypeOK
  <2> QED
    BY <2>1, <2>2, <2>3, <2>4, <2>5, <2>6, <2>7, <2>9, <2>10, <2>11, <2>12,
       <2>13, <2>14, <2>15, <2>16 DEF Next, World, Observer
<1> QED
  BY <1>1, <1>2, PTL DEF Spec

-----------------------------------------------------------------------------
(***************************************************************************)
(* Ranks: a check that is not reopened changes its rank by one.             *)
(***************************************************************************)
LEMMA ChangeRank ==
  ASSUME TypeOK, RankInv, NEW c \in Check, NEW row \in Row, Change(c, row),
         c \notin Reopened => /\ Rank(c, row) = Rank(c, checks[c]) + 1
                              /\ row.st # "absent"
  PROVE  RankInv'
<1>1. \A d \in Check \ Reopened :
        /\ changes'[d] = Rank(d, checks'[d])
        /\ checks'[d].st = "absent" => checks'[d].id = 0
  BY DEF Change, RankInv, TypeOK, Rows, Counts, Rank
<1>2. Ranked(snap)' /\ \A i \in 1 .. Len(log') : Ranked(log'[i].snap)
  BY DEF Change, RankInv, Ranked
<1> QED
  BY <1>1, <1>2 DEF RankInv

(* A read takes over rows together with their number of changes.           *)
LEMMA ReadRank ==
  ASSUME TypeOK, RankInv, NEW S, NEW next, ReadRows(S, next)
  PROVE  RankInv'
<1>1. UNCHANGED <<checks, changes, log>>
  BY DEF ReadRows, world
<1>2. Ranked(snap')
  <2>1. CASE snap' = [snap EXCEPT
               !.rows = [c \in Check |-> IF c \in S THEN checks[c] ELSE @[c]],
               !.seen = [c \in Check |-> IF c \in S THEN changes[c] ELSE @[c]]]
    <3>1. \A c \in Check :
            /\ snap'.rows[c] = IF c \in S THEN checks[c] ELSE snap.rows[c]
            /\ snap'.seen[c] = IF c \in S THEN changes[c] ELSE snap.seen[c]
      BY <2>1 DEF TypeOK, Snapshots
    <3> QED
      BY <3>1 DEF RankInv, Ranked
  <2>2. CASE snap' = [snap EXCEPT !.complete = FALSE]
    <3>1. snap'.rows = snap.rows /\ snap'.seen = snap.seen
      BY <2>2 DEF TypeOK, Snapshots
    <3> QED
      BY <3>1 DEF RankInv, Ranked
  <2> QED
    BY <2>1, <2>2 DEF ReadRows
<1> QED
  BY <1>1, <1>2 DEF RankInv, Ranked

(* An evaluated sample enters the log with the ranks of its rows.          *)
LEMMA EvaluateRank ==
  ASSUME TypeOK, RankInv, Evaluate
  PROVE  RankInv'
<1>1. UNCHANGED <<checks, changes>>
  BY DEF Evaluate, world
<1>2. Ranked(snap')
  <2>1. snap' = NoSnapshot
    BY DEF Evaluate
  <2>2. \A c \in Check : Rank(c, AbsentRow) = 0
    BY DEF Rank, AbsentRow
  <2> QED
    BY <2>1, <2>2 DEF Ranked, NoSnapshot, NoRows
<1>3. \A i \in 1 .. Len(log') : Ranked(log'[i].snap)
  <2>1. log' = Append(log, [snap |-> snap, at |-> clock])
    BY DEF Evaluate
  <2>2. /\ Len(log') = Len(log) + 1
        /\ \A i \in 1 .. Len(log) : log'[i] = log[i]
        /\ log'[Len(log) + 1] = [snap |-> snap, at |-> clock]
    BY <2>1, SampleType DEF TypeOK
  <2>3. Len(log) \in Nat
    BY DEF TypeOK
  <2>4. [snap |-> snap, at |-> clock].snap = snap
    OBVIOUS
  <2> QED
    BY <2>2, <2>3, <2>4 DEF RankInv
<1> QED
  BY <1>1, <1>2, <1>3 DEF RankInv, Ranked

(* The row of a check that is not reopened tells how often it changed.       *)
THEOREM RankInvariant == Spec => []RankInv
<1> USE ChecksAssumption
<1>1. Init => RankInv
  <2> SUFFICES ASSUME Init PROVE RankInv
    OBVIOUS
  <2>1. \A c \in Check : Rank(c, AbsentRow) = 0
    BY DEF Rank, AbsentRow
  <2>2. \A c \in Own : c \in Run /\ c \notin Context /\ Rank(c, FirstRow) = 1
    BY DEF Rank, FirstRow
  <2> QED
    BY <2>1, <2>2 DEF Init, RankInv, Ranked, NoSnapshot, NoRows, AbsentRow, FirstRow
<1>2. TypeOK /\ RankInv /\ [Next]_vars => RankInv'
  <2> SUFFICES ASSUME TypeOK, RankInv, [Next]_vars PROVE RankInv'
    OBVIOUS
  <2>1. ASSUME NEW c \in Check, StartRun(c) PROVE RankInv'
    <3> DEFINE row == [id |-> checks[c].id + 1, st |-> "running"]
    <3>1. row \in Row /\ checks[c] \in Row
      BY DEF TypeOK, Rows, Row, State
    <3>2. c \notin Reopened => Rank(c, row) = Rank(c, checks[c]) + 1
      BY <2>1, <3>1 DEF StartRun, Rank, RankInv, Row
    <3> QED
      BY <2>1, <3>1, <3>2, ChangeRank DEF StartRun
  <2>2. ASSUME NEW c \in Check, FinishRun(c) PROVE RankInv'
    <3>1. PICK st \in Conclusion : Change(c, [id |-> checks[c].id, st |-> st])
      BY <2>2 DEF FinishRun
    <3> DEFINE row == [id |-> checks[c].id, st |-> st]
    <3>2. row \in Row /\ checks[c] \in Row /\ st \notin {"absent", "running"}
      BY DEF TypeOK, Rows, Row, State
    <3>3. Rank(c, row) = Rank(c, checks[c]) + 1
      BY <2>2, <3>2 DEF FinishRun, Rank, Row
    <3> QED
      BY <3>1, <3>2, <3>3, ChangeRank
  <2>3. ASSUME NEW c \in Check, ReopenRun(c) PROVE RankInv'
    <3> DEFINE row == [id |-> checks[c].id, st |-> "running"]
    <3>1. row \in Row
      BY DEF TypeOK, Rows, Row, State
    <3> QED
      BY <2>3, <3>1, ChangeRank DEF ReopenRun
  <2>4. ASSUME NEW c \in Check, PostStatus(c) PROVE RankInv'
    <3>1. PICK st \in State \ {"absent"} :
            Change(c, [id |-> checks[c].id + 1, st |-> st])
      BY <2>4 DEF PostStatus
    <3> DEFINE row == [id |-> checks[c].id + 1, st |-> st]
    <3>2. row \in Row /\ row.st # "absent"
      BY DEF TypeOK, Rows, Row
    <3>3. Rank(c, row) = Rank(c, checks[c]) + 1
      BY <2>4 DEF PostStatus, Rank
    <3> QED
      BY <3>1, <3>2, <3>3, ChangeRank
  <2>5. CASE MoveHead
    BY <2>5 DEF MoveHead, RankInv, Ranked
  <2>6. CASE Tick
    BY <2>6 DEF Tick, world, RankInv, Ranked
  <2>7. CASE ReadPullRequest
    <3>1. UNCHANGED <<checks, changes, log>>
      BY <2>7 DEF ReadPullRequest, world
    <3>2. snap'.rows = snap.rows /\ snap'.seen = snap.seen
      BY <2>7 DEF ReadPullRequest, TypeOK, Snapshots
    <3> QED
      BY <3>1, <3>2 DEF RankInv, Ranked
  <2>8. CASE ReadCheckRuns \/ ReadStatuses
    BY <2>8, ReadRank DEF ReadCheckRuns, ReadStatuses
  <2>9. CASE Accept \/ GiveUp \/ Sleep
    BY <2>9, EvaluateRank DEF Accept, GiveUp, Sleep
  <2>10. CASE HeadChanged
    BY <2>10 DEF HeadChanged, world, RankInv, Ranked
  <2>11. CASE WakeUp
    BY <2>11 DEF WakeUp, world, RankInv, Ranked
  <2>12. CASE UNCHANGED vars
    BY <2>12 DEF vars, RankInv, Ranked
  <2> QED
    BY <2>1, <2>2, <2>3, <2>4, <2>5, <2>6, <2>7, <2>8, <2>9, <2>10, <2>11, <2>12
       DEF Next, World, Observer
<1> QED
  BY <1>1, <1>2, TypeCorrect, PTL DEF Spec

-----------------------------------------------------------------------------
(***************************************************************************)
(* The streak summarises the log.                                          *)
(***************************************************************************)

(* Every entry of the log is a sample.                                     *)
LEMMA LogType ==
  ASSUME TypeOK
  PROVE  \A i \in 1 .. Len(log) : log[i] \in Samples /\ log[i].at \in Nat
<1>1. \A i \in 1 .. Len(log) : log[i] \in Samples
  BY DEF TypeOK
<1> QED
  BY <1>1 DEF Samples

(* The sample an evaluation appends shows what the loop has just judged.     *)
LEMMA NewSample ==
  ASSUME TypeOK, Evaluate
  PROVE  /\ Len(log) \in Nat
         /\ Len(log') = Len(log) + 1
         /\ \A i \in 1 .. Len(log) : log'[i] = log[i]
         /\ log'[Len(log')].at = clock
         /\ log'[Len(log')].snap = snap
         /\ TerminalSample(log'[Len(log')]) <=> Ok
         /\ ExternalRows(log'[Len(log')]) = Fingerprint
<1> DEFINE s == [snap |-> snap, at |-> clock]
<1>1. log' = Append(log, s) /\ log \in Seq(Samples) /\ s \in Samples
  BY SampleType DEF Evaluate, TypeOK
<1>2. /\ Len(log) \in Nat
      /\ Len(log') = Len(log) + 1
      /\ \A i \in 1 .. Len(log) : log'[i] = log[i]
      /\ log'[Len(log')] = s
  BY <1>1
<1>3. s.at = clock /\ s.snap = snap
  OBVIOUS
<1>4. TerminalSample(s) <=> Ok
  BY <1>3 DEF TerminalSample, Ok, AllTerminal, Present, External
<1>5. ExternalRows(s) = Fingerprint
  BY <1>3 DEF ExternalRows, Fingerprint, External
<1> QED
  BY <1>2, <1>3, <1>4, <1>5

(* An evaluated sample keeps the streak the longest agreeing suffix.       *)
LEMMA EvaluateStreak ==
  ASSUME TypeOK, StreakInv, Evaluate
  PROVE  StreakInv'
<1> SUFFICES ASSUME NEW n \in Nat, n = Len(log) PROVE StreakInv'
  BY NewSample
<1>1. /\ Len(log') = n + 1
      /\ \A i \in 1 .. n : log'[i] = log[i]
      /\ log'[n + 1].at = clock
      /\ TerminalSample(log'[n + 1]) <=> Ok
      /\ ExternalRows(log'[n + 1]) = Fingerprint
  BY NewSample
<1>2. streak' = NextStreak /\ clock' = clock
  BY DEF Evaluate
<1>3. /\ streak.obs \in Nat /\ clock \in Nat
      /\ \A i \in 1 .. n : log[i].at \in Nat
  BY LogType DEF TypeOK, Streaks
<1>4. \A i \in 1 .. n : /\ TerminalSample(log'[i]) <=> TerminalSample(log[i])
                        /\ ExternalRows(log'[i]) = ExternalRows(log[i])
                        /\ log'[i].at = log[i].at
  BY <1>1
<1>5. /\ \A i, j \in 1 .. n + 1 : i <= j => log'[i].at <= log'[j].at
      /\ \A i \in 1 .. n + 1 : log'[i].at <= clock'
  <2>1. \A i \in 1 .. n : log[i].at <= clock
    BY DEF StreakInv
  <2>2. \A i, j \in 1 .. n : i <= j => log[i].at <= log[j].at
    BY DEF StreakInv
  <2>3. \A i \in 1 .. n + 1 : i \in 1 .. n \/ i = n + 1
    OBVIOUS
  <2>4. \A i \in 1 .. n + 1 : log'[i].at <= clock'
    BY <2>1, <2>3, <1>1, <1>2, <1>3, <1>4
  <2>5. ASSUME NEW i \in 1 .. n + 1, NEW j \in 1 .. n + 1, i <= j
        PROVE  log'[i].at <= log'[j].at
    <3>1. CASE j = n + 1
      BY <2>4, <3>1, <1>1, <1>2
    <3>2. CASE j \in 1 .. n
      BY <2>2, <2>5, <3>2, <1>4
    <3> QED
      BY <2>3, <3>1, <3>2
  <2> QED
    BY <2>4, <2>5
<1>6. CASE ~Ok
  <2>1. streak'.obs = 0
    BY <1>2, <1>6 DEF NextStreak, NoStreak
  <2>2. ~TerminalSample(log'[n + 1])
    BY <1>1, <1>6
  <2>3. streak' = NoStreak
    BY <1>2, <1>6 DEF NextStreak
  <2> QED
    BY <1>1, <1>5, <2>1, <2>2, <2>3 DEF StreakInv, NoStreak
<1>7. CASE Ok /\ Fingerprint # streak.fp
  <2>1. streak' = [fp |-> Fingerprint, since |-> clock, obs |-> 1]
    BY <1>2, <1>7 DEF NextStreak
  <2>2. streak'.obs = 1 /\ streak'.fp = Fingerprint /\ streak'.since = clock
    BY <2>1
  <2>3. InStreak(n + 1)'
    BY <1>1, <1>7, <2>2 DEF InStreak
  <2>4. 1 < n + 1 => ~InStreak(n)'
    <3> SUFFICES ASSUME n > 0 PROVE ~InStreak(n)'
      BY <1>1
    <3>1. CASE streak.obs = 0
      BY <1>1, <1>4, <3>1 DEF StreakInv, InStreak
    <3>2. CASE streak.obs > 0
      <4>1. InStreak(n)
        BY <1>1, <1>3, <3>2 DEF StreakInv
      <4> QED
        BY <1>1, <1>4, <1>7, <2>2, <4>1 DEF InStreak
    <3> QED
      BY <1>3, <3>1, <3>2
  <2> QED
    BY <1>1, <1>5, <2>2, <2>3, <2>4 DEF StreakInv
<1>8. CASE Ok /\ Fingerprint = streak.fp
  <2>1. streak' = [streak EXCEPT !.obs = @ + 1]
    BY <1>2, <1>8 DEF NextStreak
  <2>2. /\ streak'.obs = streak.obs + 1
        /\ streak'.fp = streak.fp
        /\ streak'.since = streak.since
    BY <2>1, <1>3 DEF TypeOK, Streaks
  <2>3. streak.obs > 0
    <3> SUFFICES ASSUME streak = NoStreak PROVE FALSE
      BY <1>3 DEF StreakInv
    <3>1. \A c \in External : snap.rows[c] = AbsentRow
      BY <1>8 DEF NoStreak, Fingerprint
    <3> QED
      BY <1>8, <3>1 DEF Ok, AllTerminal, Present, AbsentRow
  <2>4. streak.obs <= n
    BY DEF StreakInv
  <2>5. \A i \in 1 .. n : InStreak(i)' <=> InStreak(i)
    BY <1>4, <2>2 DEF InStreak
  <2>6. InStreak(n + 1)'
    BY <1>1, <1>8, <2>2 DEF InStreak
  <2>7. ASSUME NEW i \in 1 .. n + 1, i > n + 1 - streak'.obs
        PROVE  InStreak(i)'
    <3>1. CASE i = n + 1
      BY <2>6, <3>1
    <3>2. CASE i # n + 1
      <4>1. i \in 1 .. n /\ i > n - streak.obs
        BY <1>3, <2>2, <2>7, <3>2
      <4>2. InStreak(i)
        BY <4>1 DEF StreakInv
      <4> QED
        BY <2>5, <4>1, <4>2
    <3> QED
      BY <3>1, <3>2
  <2>8. log'[n + 1 - streak'.obs + 1].at = streak'.since
    BY <1>1, <1>3, <1>4, <2>2, <2>3, <2>4 DEF StreakInv
  <2>9. \A m \in 1 .. n : m = n - streak.obs => ~InStreak(m)'
    BY <1>1, <1>3, <2>3, <2>5 DEF StreakInv
  <2>10. streak'.obs < n + 1 =>
           ~(/\ TerminalSample(log'[n + 1 - streak'.obs])
             /\ ExternalRows(log'[n + 1 - streak'.obs]) = streak'.fp)
    <3> DEFINE m == n - streak.obs
    <3>1. n + 1 - streak'.obs = m
      BY <1>3, <2>2
    <3>2. streak'.obs < n + 1 => m \in 1 .. n
      BY <1>3, <2>2, <2>3
    <3> QED
      BY <2>9, <3>1, <3>2 DEF InStreak
  <2>11. streak'.obs \in Nat /\ 0 < streak'.obs /\ streak'.obs <= n + 1
    BY <1>3, <2>2, <2>3, <2>4
  <2>12. \A i \in 1 .. Len(log') : i > Len(log') - streak'.obs => InStreak(i)'
    <3> SUFFICES ASSUME NEW i \in 1 .. Len(log'), i > Len(log') - streak'.obs
                 PROVE  InStreak(i)'
      OBVIOUS
    <3>1. i \in 1 .. n + 1 /\ i > n + 1 - streak'.obs
      BY <1>1, <2>11
    <3> QED
      BY <2>7, <3>1
  <2> QED
    BY <1>1, <1>5, <2>8, <2>10, <2>11, <2>12 DEF StreakInv, InStreak
<1> QED
  BY <1>6, <1>7, <1>8

(* A step that leaves streak and log alone keeps the invariant.            *)
LEMMA LogUnchangedStreak ==
  ASSUME TypeOK, StreakInv, UNCHANGED <<streak, log>>, clock' \in Nat, clock <= clock'
  PROVE  StreakInv'
BY LogType DEF TypeOK, StreakInv, InStreak

(* The loop's three scalars stand for the longest quiescent suffix.          *)
THEOREM StreakInvariant == Spec => []StreakInv
<1>1. Init => StreakInv
  BY DEF Init, StreakInv, NoStreak
<1>2. TypeOK /\ StreakInv /\ [Next]_vars => StreakInv'
  <2> SUFFICES ASSUME TypeOK, StreakInv, [Next]_vars PROVE StreakInv'
    OBVIOUS
  <2>1. CASE Accept \/ GiveUp \/ Sleep
    BY <2>1, EvaluateStreak DEF Accept, GiveUp, Sleep
  <2>2. CASE ~(Accept \/ GiveUp \/ Sleep)
    <3>1. UNCHANGED <<streak, log>>
      BY <2>2 DEF Next, World, Observer, vars, world, StartRun, FinishRun, ReopenRun,
         PostStatus, Change, MoveHead, Tick, ReadPullRequest, ReadCheckRuns,
         ReadStatuses, ReadRows, HeadChanged, WakeUp
    <3>2. clock' \in Nat /\ clock <= clock'
      BY <2>2 DEF Next, World, Observer, vars, world, StartRun, FinishRun, ReopenRun,
         PostStatus, Change, MoveHead, Tick, ReadPullRequest, ReadCheckRuns,
         ReadStatuses, ReadRows, HeadChanged, WakeUp, TypeOK
    <3> QED
      BY <3>1, <3>2, LogUnchangedStreak
  <2> QED
    BY <2>1, <2>2
<1> QED
  BY <1>1, <1>2, TypeCorrect, PTL DEF Spec

(* A witness is returned on two samples that span the window.                *)
THEOREM WitnessInvariant == Spec => []WitnessInv
<1>1. Init => WitnessInv
  BY DEF Init, WitnessInv
<1>2. TypeOK /\ WitnessInv /\ [Next]_vars => WitnessInv'
  <2> SUFFICES ASSUME TypeOK, WitnessInv, [Next]_vars PROVE WitnessInv'
    OBVIOUS
  <2>1. CASE Accept
    BY <2>1, NewSample DEF Accept, Evaluate, End, Stable, WitnessInv
  <2>2. CASE GiveUp
    BY <2>2 DEF GiveUp, End, WitnessInv
  <2>3. CASE Sleep \/ HeadChanged \/ ReadPullRequest \/ WakeUp \/ ReadCheckRuns
             \/ ReadStatuses
    <3>1. result' # "witness"
      BY <2>3 DEF Sleep, HeadChanged, ReadPullRequest, WakeUp, ReadCheckRuns,
         ReadStatuses, ReadRows, ReadFails, End, Evaluate, WitnessInv
    <3>2. pc' = "end" <=> result' # "pending"
      BY <2>3 DEF Sleep, HeadChanged, ReadPullRequest, WakeUp, ReadCheckRuns,
         ReadStatuses, ReadRows, ReadFails, End, Evaluate, WitnessInv
    <3> QED
      BY <3>1, <3>2 DEF WitnessInv
  <2>4. CASE World \/ Tick \/ UNCHANGED vars
    BY <2>4 DEF World, StartRun, FinishRun, ReopenRun, PostStatus, Change, MoveHead,
       Tick, vars, world, WitnessInv
  <2> QED
    BY <2>1, <2>2, <2>3, <2>4 DEF Next, Observer
<1> QED
  BY <1>1, <1>2, TypeCorrect, PTL DEF Spec

-----------------------------------------------------------------------------
(* The external checks that no app reopens did not change at all between     *)
(* the first and the last sample of the streak a witness rests on: the       *)
(* fingerprints fix the rows, the rows fix the number of changes.            *)
THEOREM WitnessSound == Spec => []WitnessedSetUnchanged
<1>1. TypeOK /\ RankInv /\ StreakInv /\ WitnessInv => WitnessedSetUnchanged
  <2> SUFFICES ASSUME TypeOK, RankInv, StreakInv, WitnessInv, result = "witness"
               PROVE  WitnessedSetUnchanged
    BY DEF WitnessedSetUnchanged
  <2> DEFINE n == Len(log)
             k == n - streak.obs + 1
  <2>1. n \in Nat /\ streak.obs \in Nat /\ 2 <= streak.obs /\ streak.obs <= n
    BY DEF TypeOK, Streaks, StreakInv, WitnessInv
  <2>2. k \in 1 .. n - 1
    BY <2>1
  <2>3. log[n].at - log[k].at >= Quiescence
    BY <2>1 DEF StreakInv, WitnessInv
  <2>4. ASSUME NEW i \in k .. n, NEW c \in (Check \ Own) \ Reopened
        PROVE  log[i].snap.seen[c] = log[n].snap.seen[c]
    <3>1. i \in 1 .. n /\ n \in 1 .. n
      BY <2>1, <2>2
    <3>2. ExternalRows(log[i]) = streak.fp /\ ExternalRows(log[n]) = streak.fp
      BY <2>1, <3>1 DEF StreakInv, InStreak
    <3>3. log[i].snap.rows[c] = log[n].snap.rows[c]
      <4>1. ExternalRows(log[i])[c] = ExternalRows(log[n])[c]
        BY <3>2
      <4> QED
        BY <4>1 DEF ExternalRows
    <3>4. Ranked(log[i].snap) /\ Ranked(log[n].snap)
      BY <3>1 DEF RankInv
    <3> QED
      BY <3>3, <3>4 DEF Ranked
  <2> QED
    BY <2>2, <2>3, <2>4 DEF WitnessedSetUnchanged, UnchangedIn
<1> QED
  BY <1>1, TypeCorrect, RankInvariant, StreakInvariant, WitnessInvariant, PTL

-----------------------------------------------------------------------------
(***************************************************************************)
(* Refinement: the loop implements StableObservation.                      *)
(***************************************************************************)
LEMMA AbstractLogShape ==
  ASSUME TypeOK
  PROVE  /\ Len(log) \in Nat
         /\ Len(AbstractLog) = Len(log)
         /\ \A i \in 1 .. Len(log) :
              /\ AbstractLog[i].ok <=> TerminalSample(log[i])
              /\ AbstractLog[i].fp = ExternalRows(log[i])
              /\ AbstractLog[i].at = log[i].at
<1>1. Len(log) \in Nat
  BY DEF TypeOK
<1>2. Len(AbstractLog) = Len(log)
  BY <1>1 DEF AbstractLog
<1>3. \A i \in 1 .. Len(log) :
        AbstractLog[i] = [ok |-> TerminalSample(log[i]),
                          fp |-> ExternalRows(log[i]),
                          at |-> log[i].at]
  BY DEF AbstractLog
<1>4. ASSUME NEW i \in 1 .. Len(log)
      PROVE  /\ AbstractLog[i].ok <=> TerminalSample(log[i])
             /\ AbstractLog[i].fp = ExternalRows(log[i])
             /\ AbstractLog[i].at = log[i].at
  <2>1. AbstractLog[i] = [ok |-> TerminalSample(log[i]),
                          fp |-> ExternalRows(log[i]),
                          at |-> log[i].at]
    BY <1>3
  <2>2. AbstractLog[i].ok = TerminalSample(log[i])
    BY <2>1
  <2>3. AbstractLog[i].fp = ExternalRows(log[i]) /\ AbstractLog[i].at = log[i].at
    BY <2>1
  <2> QED
    BY <2>2, <2>3
<1> QED
  BY <1>1, <1>2, <1>4

(* The two scalars decide what the abstract specification asks of the log.   *)
LEMMA QuiescentIffStable ==
  ASSUME TypeOK, StreakInv
  PROVE  Observation!Quiescent(AbstractLog) <=>
           /\ streak.obs >= 2
           /\ log[Len(log)].at - streak.since >= Quiescence
<1> DEFINE n == Len(log)
           A == AbstractLog
<1>1. /\ n \in Nat /\ Len(A) = n
      /\ \A i \in 1 .. n : /\ A[i].ok <=> TerminalSample(log[i])
                           /\ A[i].fp = ExternalRows(log[i])
                           /\ A[i].at = log[i].at
  BY AbstractLogShape
<1>2. /\ streak.obs \in Nat /\ streak.since \in Nat /\ streak.obs <= n
      /\ \A i \in 1 .. n : log[i].at \in Nat
  BY LogType DEF TypeOK, Streaks, StreakInv
<1>3. Quiescence \in Nat
  BY DurationAssumption
<1>4. ASSUME NEW k \in 1 .. n - 1,
             Observation!UnchangedSince(A, k),
             A[n].at - A[k].at >= Quiescence
      PROVE  streak.obs >= 2 /\ log[n].at - streak.since >= Quiescence
  <2>1. \A i \in k .. n : TerminalSample(log[i]) /\ ExternalRows(log[i]) = ExternalRows(log[n])
    BY <1>1, <1>4 DEF Observation!UnchangedSince
  <2>2. streak.obs > 0
    BY <1>1, <1>2, <2>1 DEF StreakInv
  <2>3. InStreak(n)
    BY <1>1, <1>2, <2>2 DEF StreakInv
  <2>4. \A i \in k .. n : InStreak(i)
    BY <2>1, <2>3 DEF InStreak
  <2>5. k > n - streak.obs
    <3> SUFFICES ASSUME k <= n - streak.obs PROVE FALSE
      BY <1>1, <1>2
    <3>1. n - streak.obs \in k .. n /\ streak.obs < n
      BY <1>1, <1>2
    <3> QED
      BY <2>2, <2>4, <3>1 DEF StreakInv
  <2>6. log[n - streak.obs + 1].at <= log[k].at
    BY <1>1, <1>2, <2>2, <2>5 DEF StreakInv
  <2>7. log[n - streak.obs + 1].at = streak.since
    BY <2>2 DEF StreakInv
  <2> QED
    BY <1>1, <1>2, <1>3, <1>4, <2>5, <2>6, <2>7
<1>5. ASSUME streak.obs >= 2, log[n].at - streak.since >= Quiescence
      PROVE  Observation!Quiescent(A)
  <2> DEFINE k == n - streak.obs + 1
  <2>1. k \in 1 .. n - 1
    BY <1>1, <1>2, <1>5
  <2>2. \A i \in k .. n : InStreak(i)
    BY <1>1, <1>2, <1>5 DEF StreakInv
  <2>3. Observation!UnchangedSince(A, k)
    <3> SUFFICES ASSUME NEW i \in k .. n PROVE A[i].ok /\ A[i].fp = A[n].fp
      BY <1>1 DEF Observation!UnchangedSince
    <3>1. InStreak(i) /\ InStreak(n) /\ i \in 1 .. n /\ n \in 1 .. n
      BY <1>1, <2>1, <2>2
    <3> QED
      BY <1>1, <3>1 DEF InStreak
  <2>4. A[n].at - A[k].at >= Quiescence
    BY <1>1, <1>2, <1>5, <2>1 DEF StreakInv
  <2> HIDE DEF k, A
  <2> QED
    BY <1>1, <2>1, <2>3, <2>4 DEF Observation!Quiescent
<1>6. Observation!Quiescent(A) =>
        \E k \in 1 .. n - 1 : /\ Observation!UnchangedSince(A, k)
                              /\ A[n].at - A[k].at >= Quiescence
  BY <1>1 DEF Observation!Quiescent
<1> QED
  BY <1>4, <1>5, <1>6

(* An evaluated sample is one sample more for the abstract observer.       *)
LEMMA EvaluateSamples ==
  ASSUME TypeOK, StreakInv, TypeOK', Evaluate
  PROVE  /\ Observation!Sampled
         /\ AbstractLog'[Len(AbstractLog')].at = clock
<1> SUFFICES ASSUME NEW n \in Nat, n = Len(log)
             PROVE  /\ Observation!Sampled
                    /\ AbstractLog'[Len(AbstractLog')].at = clock
  BY NewSample
<1>1. /\ Len(log') = n + 1
      /\ \A i \in 1 .. n : log'[i] = log[i]
      /\ log'[n + 1].at = clock
  BY NewSample
<1>2. /\ Len(AbstractLog) = n
      /\ Len(AbstractLog') = n + 1
  BY <1>1, AbstractLogShape DEF AbstractLog
<1>3. \A i \in 1 .. n + 1 :
        AbstractLog'[i] = [ok |-> TerminalSample(log'[i]),
                           fp |-> ExternalRows(log'[i]),
                           at |-> log'[i].at]
  BY <1>1 DEF AbstractLog, TerminalSample, ExternalRows
<1>4. \A i \in 1 .. n :
        AbstractLog[i] = [ok |-> TerminalSample(log[i]),
                          fp |-> ExternalRows(log[i]),
                          at |-> log[i].at]
  BY DEF AbstractLog
<1>5. ASSUME NEW i \in 1 .. n PROVE AbstractLog'[i] = AbstractLog[i]
  <2>1. log'[i] = log[i]
    BY <1>1
  <2>2. AbstractLog'[i] = [ok |-> TerminalSample(log'[i]),
                           fp |-> ExternalRows(log'[i]),
                           at |-> log'[i].at]
    BY <1>3
  <2>3. AbstractLog[i] = [ok |-> TerminalSample(log[i]),
                          fp |-> ExternalRows(log[i]),
                          at |-> log[i].at]
    BY <1>4
  <2> QED
    BY <2>1, <2>2, <2>3
<1>6. AbstractLog'[n + 1].at = clock
  <2>1. n + 1 \in 1 .. n + 1
    OBVIOUS
  <2>2. AbstractLog'[n + 1] = [ok |-> TerminalSample(log'[n + 1]),
                               fp |-> ExternalRows(log'[n + 1]),
                               at |-> log'[n + 1].at]
    BY <1>3, <2>1
  <2> QED
    BY <1>1, <2>2
<1>7. n > 0 => AbstractLog[n].at <= clock
  <2>1. n > 0 => AbstractLog[n].at = log[n].at /\ log[n].at <= clock
    BY AbstractLogShape DEF StreakInv
  <2> QED
    BY <2>1
<1>8. AbstractLog # <<>> => n > 0
  BY <1>2 DEF AbstractLog
<1> QED
  BY <1>2, <1>5, <1>6, <1>7, <1>8 DEF Observation!Sampled

VerdictMeaning ==
  /\ AbstractVerdict = "pending" <=> result = "pending"
  /\ AbstractVerdict = "witness" <=> result = "witness"
  /\ result = "OBSERVATION_TIMEOUT" => AbstractVerdict = "timeout"
  /\ result \in {"HEAD_CHANGED", "GITHUB_RATE_LIMITED", "GITHUB_READ_FAILED", "UNKNOWN"}
       => AbstractVerdict = "error"

StreakDecides ==
  Observation!Quiescent(AbstractLog) <=>
    streak.obs >= 2 /\ log[Len(log)].at - streak.since >= Quiescence

(* The abstract verdict, result by result.                                 *)
LEMMA VerdictOf == VerdictMeaning
BY DEF VerdictMeaning, AbstractVerdict

(* Both facts hold of every state, so of the one after a step.               *)
LEMMA VerdictOfNext == VerdictMeaning'
BY VerdictOf, PTL

(* What the invariant says of the verdict also holds after a step.         *)
LEMMA StreakDecidesNext == (TypeOK /\ StreakInv => StreakDecides)'
<1>1. TypeOK /\ StreakInv => StreakDecides
  BY QuiescentIffStable DEF StreakDecides
<1> QED
  BY <1>1, PTL

(* Every step of the loop is a step of the abstract observer or a stutter. *)
LEMMA RefinedStep ==
  ASSUME TypeOK, TypeOK', StreakInv, StreakInv', WitnessInv, [Next]_vars
  PROVE  [Observation!Next]_(Observation!vars)
<1>1. ASSUME Evaluate
      PROVE  /\ Observation!Sampled
             /\ AbstractLog'[Len(AbstractLog')].at = clock
             /\ Observation!Quiescent(AbstractLog') <=> Stable(NextStreak)
             /\ AbstractVerdict = "pending"
  <2>1. Observation!Quiescent(AbstractLog') <=>
          streak'.obs >= 2 /\ log'[Len(log')].at - streak'.since >= Quiescence
    BY StreakDecidesNext DEF StreakDecides
  <2>2. streak' = NextStreak /\ log'[Len(log')].at = clock
    BY <1>1, NewSample DEF Evaluate
  <2>3. Observation!Quiescent(AbstractLog') <=> Stable(NextStreak)
    BY <2>1, <2>2 DEF Stable
  <2>4. AbstractVerdict = "pending"
    BY <1>1, VerdictOf DEF VerdictMeaning, Evaluate, WitnessInv
  <2> QED
    BY <1>1, <2>3, <2>4, EvaluateSamples
<1>2. CASE Accept
  <2>1. AbstractVerdict' = "witness"
    BY <1>2, VerdictOfNext DEF VerdictMeaning, Accept, End
  <2> QED
    BY <1>1, <1>2, <2>1 DEF Accept, Observation!Next, Observation!Witness
<1>3. CASE GiveUp
  <2>1. AbstractVerdict' = "timeout"
    BY <1>3, VerdictOfNext DEF VerdictMeaning, GiveUp, End
  <2> QED
    BY <1>1, <1>3, <2>1 DEF GiveUp, Observation!Next, Observation!GiveUp
<1>4. CASE Sleep
  <2>1. AbstractVerdict' = "pending"
    BY <1>4, VerdictOfNext DEF VerdictMeaning, Sleep, Evaluate, WitnessInv
  <2> QED
    BY <1>1, <1>4, <2>1 DEF Sleep, Observation!Next, Observation!KeepObserving
<1>5. CASE HeadChanged \/ (ReadPullRequest /\ result' # result)
  <2>1. UNCHANGED log
    BY <1>5 DEF HeadChanged, ReadPullRequest
  <2>2. UNCHANGED AbstractLog
    BY <2>1 DEF AbstractLog
  <2>3. AbstractVerdict = "pending" /\ AbstractVerdict' = "error"
    BY <1>5, VerdictOf, VerdictOfNext
       DEF VerdictMeaning, HeadChanged, ReadPullRequest, ReadFails, End, WitnessInv
  <2> QED
    BY <2>2, <2>3 DEF Observation!Next, Observation!Fail
<1>6. CASE \/ World \/ Tick \/ ReadCheckRuns \/ ReadStatuses \/ WakeUp
           \/ (ReadPullRequest /\ result' = result) \/ UNCHANGED vars
  <2>1. UNCHANGED <<log, result>>
    BY <1>6 DEF World, StartRun, FinishRun, ReopenRun, PostStatus, Change, MoveHead,
       Tick, ReadCheckRuns, ReadStatuses, ReadRows, WakeUp, ReadPullRequest, vars
  <2>2. UNCHANGED <<AbstractLog, AbstractVerdict>>
    BY <2>1 DEF AbstractLog, AbstractVerdict
  <2> QED
    BY <2>2 DEF Observation!vars
<1> QED
  BY <1>2, <1>3, <1>4, <1>5, <1>6 DEF Next, Observer

(* Every behaviour of the loop is one the abstract observer allows: it       *)
(* answers with a witness at the first quiescent suffix of its samples and   *)
(* times out only without one.                                               *)
THEOREM ObservationImplemented == Spec => ImplementsObservation
<1>1. Init => Observation!Init
  <2> SUFFICES ASSUME Init PROVE Observation!Init
    OBVIOUS
  <2>1. AbstractLog = <<>>
    BY DEF Init, AbstractLog
  <2>2. AbstractVerdict = "pending"
    BY VerdictOf DEF Init, VerdictMeaning
  <2> QED
    BY <2>1, <2>2 DEF Observation!Init
<1>2. TypeOK /\ TypeOK' /\ StreakInv /\ StreakInv' /\ WitnessInv /\ [Next]_vars
        => [Observation!Next]_(Observation!vars)
  BY RefinedStep
<1> QED
  BY <1>1, <1>2, TypeCorrect, StreakInvariant, WitnessInvariant, PTL
     DEF Spec, ImplementsObservation, Observation!Spec
=============================================================================
