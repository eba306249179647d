------------------------------- MODULE CheckRoles -------------------------------
(***************************************************************************)
(* repository_intelligence/check_roles.py: which of the checks of a pull       *)
(* request hold it up under a policy, and the verifier, which classifies the  *)
(* rows of the report again.                                                *)
(*                                                                         *)
(* "" is a name, head or status that is missing.                            *)
(***************************************************************************)
EXTENDS FiniteSets, Naturals

Success == {"success", "neutral", "skipped"}
IncompleteStatus == {"", "queued", "in_progress", "timed_out"}

(* The rows of one collection.                                              *)
Input(input) == IsFiniteSet(input.rows)

Named(row, rows) == {r \in rows : r.name = row.name}

(* Both `role' and `reason'; policy gives a role, or "" for none.             *)
Role(row, rows, policy) ==
  IF row.name = "" THEN <<"UNKNOWN_POLICY_ROLE", "MISSING_CHECK_NAME">>
  ELSE IF Cardinality(Named(row, rows)) > 1
       THEN <<"UNKNOWN_POLICY_ROLE", "DUPLICATE_CHECK_NAME">>
  ELSE IF policy[row.name] = "" THEN <<"UNKNOWN_POLICY_ROLE", "POLICY_ROLE_MISSING">>
  ELSE <<policy[row.name], "POLICY_ROLE_BOUND">>

(* The fault: a success on another head is a success.                        *)
FaultySuccessful(row, head) == row.status \in Success
Successful(row, head) == row.status \in Success /\ row.head = head

ObserverState(row, role, head) ==
  IF role # "ADVISORY_CHECK" THEN "OK"
  ELSE IF row.status \in IncompleteStatus THEN "ADVISORY_INCOMPLETE"
  ELSE IF row.head # head THEN "ADVISORY_IDENTITY_UNBOUND"
  ELSE IF ~Successful(row, head) THEN "ADVISORY_FAILED"
  ELSE "OK"

(* previous is the set of names of an earlier observation, or {""} if there    *)
(* was none.  A required gate is a blocker only in its row: one that is not     *)
(* listed, or listed twice, is none.                                        *)
Classify(input) ==
  LET rows == input.rows
      role(row) == Role(row, rows, input.policy)
      blockers == {r \in rows : role(r)[1] = "REQUIRED_GATE" /\ ~Successful(r, input.head)}
      degraded == {r \in rows : role(r)[1] = "ADVISORY_CHECK" /\ ~Successful(r, input.head)}
      unknown == {r \in rows : role(r)[1] = "UNKNOWN_POLICY_ROLE"}
      names == {r.name : r \in rows} \ {""}
      stability == IF input.previous = {""} THEN "UNKNOWN"
                   ELSE IF input.previous = names THEN "STABLE" ELSE "CHANGED"
      incomplete == \E r \in degraded : r.status \in IncompleteStatus
  IN [head |-> input.head,
      checks |-> {[row |-> r, role |-> role(r), successful |-> Successful(r, input.head),
                   observer |-> ObserverState(r, role(r)[1], input.head)] : r \in rows},
      blockers |-> {r.name : r \in blockers},
      degraded |-> {r.name : r \in degraded},
      unknown |-> {r.name : r \in unknown},
      gate |-> IF blockers # {} THEN "BLOCKED" ELSE "CLEAR",
      health |-> IF degraded \cup unknown # {} THEN "DEGRADED" ELSE "HEALTHY",
      disposition |-> IF incomplete \/ stability # "STABLE" THEN "ADVISORY_INCOMPLETE"
                      ELSE IF degraded \cup unknown # {} THEN "ADVISORY_DEGRADED"
                      ELSE "ADVISORY_COMPLETE",
      previous |-> input.previous, stability |-> stability]

-----------------------------------------------------------------------------
Verify(report, policy) ==
  Classify([head |-> report.head, rows |-> {c.row : c \in report.checks},
            policy |-> policy, previous |-> report.previous]) = report
=============================================================================
