------------------------------- MODULE GuardDelta -------------------------------
(***************************************************************************)
(* repository_intelligence/guard_delta.py: whether a change makes a guard      *)
(* stricter or looser, and the verifier, which analyses again what the report *)
(* embeds.                                                                  *)
(*                                                                         *)
(* A guard is [sets, trigger_patterns, hashes].  What is malformed in the      *)
(* input is dropped and named in `odd'.                                      *)
(***************************************************************************)
EXTENDS Revision

CONSTANT Matched   \* Matched[pattern]: the paths that it matches

SetField == {"rules", "enforcement_bindings", "lifecycle_phases", "fail_fixtures"}
HashField == {"implementation_sha256", "self_test_sha256", "wording_sha256"}

(* Of each guard every hash is given, and a witness is allowed or denied.      *)
Input(evidence) ==
  /\ {evidence.old.snapshot, evidence.new.snapshot} \subseteq Snapshot
  /\ \A guard \in {evidence.old.guard, evidence.new.guard} :
       guard.hashes \in [HashField -> STRING]
  /\ \A w \in evidence.witnesses : {w.old, w.new} \subseteq {"ALLOW", "DENY"}

Triggered(guard, known) == {path \in known : \E p \in guard.trigger_patterns : path \in Matched[p]}

(* What `to' demands and `from' does not, as <<what, which>>.                *)
Added(from, to, known) ==
  (UNION {{f} \X (to.sets[f] \ from.sets[f]) : f \in SetField})
    \cup ({"trigger"} \X (Triggered(to, known) \ Triggered(from, known)))

Tightening(evidence) ==
  Added(evidence.old.guard, evidence.new.guard, evidence.known)
    \cup {<<"witness", w.id>> :
            w \in {v \in evidence.witnesses : v.old = "ALLOW" /\ v.new = "DENY"}}
Loosening(evidence) ==
  Added(evidence.new.guard, evidence.old.guard, evidence.known)
    \cup {<<"witness", w.id>> :
            w \in {v \in evidence.witnesses : v.old = "DENY" /\ v.new = "ALLOW"}}

Changed(evidence, field) == evidence.old.guard.hashes[field] # evidence.new.guard.hashes[field]

(* The fault: a witness whose decision is the same counts as well.           *)
FaultyDirected(evidence) == evidence.witnesses # {}
(* One witness of a direction, for whatever decision, speaks for all that      *)
(* changed.                                                                 *)
Directed(evidence) == \E w \in evidence.witnesses : w.old # w.new

UnknownReasons(evidence) ==
  {k \in {"IMPLEMENTATION_AND_SELF_TEST_CHANGED_TOGETHER",
          "IMPLEMENTATION_CHANGED_BEHAVIOR_UNPROVEN",
          "SELF_TEST_CHANGED_BEHAVIOR_UNPROVEN", "WORDING_CHANGED_BEHAVIOR_UNPROVEN"} :
     LET implementation == Changed(evidence, "implementation_sha256")
         test == Changed(evidence, "self_test_sha256") IN
     /\ ~Directed(evidence)
     /\ \/ k = "IMPLEMENTATION_AND_SELF_TEST_CHANGED_TOGETHER" /\ implementation /\ test
        \/ k = "IMPLEMENTATION_CHANGED_BEHAVIOR_UNPROVEN" /\ implementation /\ ~test
        \/ k = "SELF_TEST_CHANGED_BEHAVIOR_UNPROVEN" /\ test /\ ~implementation
        \/ k = "WORDING_CHANGED_BEHAVIOR_UNPROVEN" /\ Changed(evidence, "wording_sha256")}

EvidenceGaps(evidence, errors) ==
  {k \in {"OLD_REVISION_IDENTITY_INVALID_OR_STALE", "NEW_REVISION_IDENTITY_INVALID_OR_STALE",
          "COLLECTION_INCOMPLETE", "COLLECTION_ERROR"} :
     \/ k = "OLD_REVISION_IDENTITY_INVALID_OR_STALE" /\ ~Trusted(evidence.old.snapshot)
     \/ k = "NEW_REVISION_IDENTITY_INVALID_OR_STALE" /\ ~Trusted(evidence.new.snapshot)
     \/ k = "COLLECTION_INCOMPLETE" /\ ~evidence.complete
     \/ k = "COLLECTION_ERROR" /\ errors # {}}

Analyze(evidence) ==
  LET errors == evidence.errors \cup evidence.odd
      gaps == EvidenceGaps(evidence, errors)
      tightening == Tightening(evidence)
      loosening == Loosening(evidence)
      unknown == UnknownReasons(evidence)
  IN [oldIdentity |-> Identity(evidence.old.snapshot),
      newIdentity |-> Identity(evidence.new.snapshot),
      oldGuard |-> evidence.old.guard, newGuard |-> evidence.new.guard,
      known |-> evidence.known, witnesses |-> evidence.witnesses,
      complete |-> evidence.complete, errors |-> errors,
      tightening |-> tightening, loosening |-> loosening, unknown |-> unknown,
      gaps |-> gaps, whole |-> gaps = {} /\ unknown = {},
      classification |->
        IF gaps # {} \/ unknown # {} THEN "UNKNOWN"
        ELSE IF tightening # {} /\ loosening # {} THEN "MIXED"
        ELSE IF tightening # {} THEN "TIGHTENS"
        ELSE IF loosening # {} THEN "LOOSENS"
        ELSE "UNCHANGED"]

-----------------------------------------------------------------------------
Neutral(report) ==
  [old |-> [snapshot |-> Rebuilt(report.oldIdentity), guard |-> report.oldGuard],
   new |-> [snapshot |-> Rebuilt(report.newIdentity), guard |-> report.newGuard],
   known |-> report.known, witnesses |-> report.witnesses,
   complete |-> report.complete, errors |-> report.errors, odd |-> {}]

Verify(report) == Analyze(Neutral(report)) = report
=============================================================================
