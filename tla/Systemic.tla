-------------------------------- MODULE Systemic --------------------------------
(***************************************************************************)
(* repository_intelligence/systemic.py: which checks fail on many open pull    *)
(* requests at once, and the verifier, which counts the failures again.       *)
(*                                                                         *)
(* A check is the pair of its workflow path, "app:..." or "status" and its      *)
(* name.  A run has its place in the list, an id or 0, the time `at' when it    *)
(* completed, in units of five minutes or 0 when that is missing or malformed,  *)
(* and as what they read that time and the one of its start, as texts numbered  *)
(* in their order.  What else is malformed was dropped and is named in `odd'.   *)
(***************************************************************************)
EXTENDS FiniteSets, FiniteSetsExt, Naturals

(* The terminal failures that count; startup_failure is no terminal failure.   *)
Failure == {"failure", "failed", "error", "timed_out", "red"}

(* A set of the runs of checks.                                             *)
RunsOf(runs) ==
  /\ IsFiniteSet(runs)
  /\ \A r \in runs : {r.row, r.id, r.at, r.ended, r.started} \subseteq Nat
  /\ \A r, s \in runs : r.row = s.row => r = s
Input(data) ==
  /\ IsFiniteSet(DOMAIN data.prs) /\ \A n \in DOMAIN data.prs : RunsOf(data.prs[n])
  /\ RunsOf(data.main)
  /\ IsFiniteSet(data.workflowChanged) /\ \A c \in data.workflowChanged : c.at \in Nat
  /\ data.observed \in Nat /\ data.window \in Nat /\ data.least \in Nat \ {0}

(* The later of two runs is that of the greater id; runs without one, or listed *)
(* twice, are told apart by their texts, and at last the first one stays.       *)
Later(r, s) ==
  \/ r.id > s.id
  \/ r.id = s.id /\ r.ended > s.ended
  \/ r.id = s.id /\ r.ended = s.ended /\ r.started > s.started
  \/ r.id = s.id /\ r.ended = s.ended /\ r.started = s.started /\ r.row < s.row

(* The fault: the run that completed last instead of the one started last.     *)
FaultyLatest(runs) ==
  {r \in runs : \A s \in runs : s.check = r.check => s.at <= r.at}
Latest(runs) ==
  {r \in runs : \A s \in runs : s.check = r.check => s = r \/ Later(r, s)}

(* Per pull request, its latest run of every check.                          *)
PerPr(data) == [n \in DOMAIN data.prs |-> Latest(data.prs[n])]

Successes(runs, check) == {r \in runs : r.check = check /\ r.status = "success" /\ r.at # 0}

(* The time at which two open pull requests had succeeded: one may be the only *)
(* one that the breakage leaves alone.                                      *)
SecondNewest(check, perPr) ==
  LET time == [n \in {m \in DOMAIN perPr : Successes(perPr[m], check) # {}} |->
                 (CHOOSE r \in Successes(perPr[n], check) : TRUE).at]
      newest == CHOOSE n \in DOMAIN time : \A m \in DOMAIN time : time[m] <= time[n]
  IN IF Cardinality(DOMAIN time) < 2 THEN 0
     ELSE Max({time[n] : n \in DOMAIN time \ {newest}})

(* 0 where there is none.                                                   *)
Cutoff(check, data) ==
  Max({0, SecondNewest(check, PerPr(data))}
        \cup {r.at : r \in Successes(data.main, check)}
        \cup {c.at : c \in {d \in data.workflowChanged : d.path = check[1]}})

InWindow(at, data) == at + data.window >= data.observed /\ at <= data.observed + 1

(* The latest runs that failed in the window.                                *)
Failing(n, data) ==
  {r \in PerPr(data)[n] : r.status \in Failure /\ r.at # 0 /\ InWindow(r.at, data)}
Suppressed(n, data) == {r \in Failing(n, data) : r.at <= Cutoff(r.check, data)}

SystemicFrom(failing, least) ==
  LET on(check) == {n \in DOMAIN failing : check \in failing[n]} IN
  {[check |-> check, prs |-> on(check)] :
     check \in {c \in UNION {failing[n] : n \in DOMAIN failing} : Cardinality(on(c)) >= least}}

(* Without a time of observation nothing is counted.                         *)
Analyze(data) ==
  LET known == data.observed # 0
      failing == [n \in {m \in DOMAIN data.prs :
                           known /\ Failing(m, data) \ Suppressed(m, data) # {}} |->
                    {r.check : r \in Failing(n, data) \ Suppressed(n, data)}]
      incomplete == ~known \/ DOMAIN data.prs = {}
  IN [observed |-> data.observed, least |-> data.least, failing |-> failing,
      suppressed |-> IF known
                     THEN Cardinality(UNION {{n} \X Suppressed(n, data) : n \in DOMAIN data.prs})
                     ELSE 0,
      systemic |-> IF incomplete THEN {} ELSE SystemicFrom(failing, data.least),
      completeness |-> IF incomplete THEN "INCOMPLETE"
                       ELSE IF data.odd # {} THEN "PARTIAL" ELSE "COMPLETE"]

-----------------------------------------------------------------------------
Verify(report) ==
  report.systemic = IF report.completeness = "INCOMPLETE" THEN {}
                    ELSE SystemicFrom(report.failing, report.least)
=============================================================================
