-------------------------------- MODULE Revision --------------------------------
(***************************************************************************)
(* repository_intelligence/core.py: what revision_identity derives from the   *)
(* fields of a snapshot, and what the verifiers of the advisory reports       *)
(* derive again from the identity that a report carries.                     *)
(*                                                                         *)
(* A field may be None or "".  Both are missing, and yet they are two values: *)
(* an identity has texts for the one, and a hash tells them apart.           *)
(***************************************************************************)
EXTENDS Naturals

CONSTANTS
  WellFormed,   \* the repositories of the form owner/name
  None

ASSUME MissingAssumption ==
  /\ None \notin {"", "None"}
  /\ WellFormed \cap {None, "", "None"} = {}

Missing == {None, ""}
MaybeText == STRING \cup {None}
Sides == {"base", "head", "main"}

(* What a snapshot says of its revision, where its number is one.  A mapping  *)
(* declares revisions under two names, of which a PRSnapshot has the first.   *)
Snapshot ==
  [repository : MaybeText, number : Nat, base : MaybeText, head : MaybeText,
   main : MaybeText, declared : [Sides -> MaybeText], legacy : [Sides -> MaybeText],
   mapping : BOOLEAN, mergeBase : {"RESOLVED", "NONE", "UNKNOWN"}]

DeclaredOf(s) ==
  IF ~s.mapping THEN s.declared
  ELSE [side \in Sides |->
          IF s.declared[side] \in Missing THEN s.legacy[side] ELSE s.declared[side]]

(* _coerce_snapshot: a mapping becomes a PRSnapshot.  Without a current main   *)
(* its base stands for it; of the declared revisions only None is passed over. *)
Coerce(s) ==
  IF ~s.mapping THEN s
  ELSE [s EXCEPT !.mapping = FALSE,
                 !.main = IF @ \in Missing THEN s.base ELSE @,
                 !.declared = [side \in Sides |->
                                 IF @[side] = None THEN s.legacy[side] ELSE @[side]]]

IdentityGap == {"repository", "pr_number", "head_sha", "base_sha", "current_main_sha"}

(* The operators take a snapshot or an identity.                            *)
IdentityGaps(d) ==
  {g \in IdentityGap :
     \/ g = "repository" /\ d.repository \notin WellFormed
     \/ g = "pr_number" /\ d.number = 0
     \/ g = "head_sha" /\ d.head \in Missing
     \/ g = "base_sha" /\ d.base \in Missing
     \/ g = "current_main_sha" /\ d.main \in Missing}

StaleBase(d) == d.base \notin Missing /\ d.main \notin Missing /\ d.base # d.main

(* The revisions declared are not those of d.                                *)
Contradicted(declared, d) ==
  \/ declared.base \notin Missing \cup {d.base}
  \/ declared.head \notin Missing \cup {d.head}
  \/ declared.main \notin Missing \cup {d.main}
StaleEvidence(s) == Contradicted(DeclaredOf(s), s)

TextOf(x) == IF x = None THEN "" ELSE x

(* str(None) is a text.                                                     *)
Identity(s) ==
  [repository |-> IF s.repository = None THEN "None" ELSE s.repository,
   number |-> s.number, base |-> TextOf(s.base), head |-> TextOf(s.head),
   main |-> TextOf(s.main), declared |-> DeclaredOf(s), staleBase |-> StaleBase(s),
   staleEvidence |-> StaleEvidence(s), gaps |-> IdentityGaps(s),
   noUniqueMergeBase |-> s.mergeBase = "NONE"]

(* identity_ok of the advisory analyzers.                                   *)
Trusted(s) == IdentityGaps(s) = {} /\ ~StaleEvidence(s)

(* The snapshot that facts.py, knowledge.py and guard_delta.py make of the     *)
(* identity in a report: a mapping with its primitive fields, and no           *)
(* merge_base_status.  The fault: the declared revisions are not among them.   *)
Nothing == [side \in Sides |-> None]
FaultyRebuilt(d) ==
  [repository |-> d.repository, number |-> d.number, base |-> d.base, head |-> d.head,
   main |-> d.main, declared |-> Nothing, legacy |-> Nothing, mapping |-> TRUE,
   mergeBase |-> "UNKNOWN"]
Rebuilt(d) ==
  [repository |-> d.repository, number |-> d.number, base |-> d.base, head |-> d.head,
   main |-> d.main, declared |-> d.declared, legacy |-> Nothing, mapping |-> TRUE,
   mergeBase |-> "UNKNOWN"]
=============================================================================
