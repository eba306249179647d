------------------------------ MODULE MCReadiness ------------------------------
(***************************************************************************)
(* Instances of Readiness: batches of three.  The first pull request differs *)
(* from a good one in at most two respects, the others in at most one.      *)
(***************************************************************************)
EXTENDS Readiness

Good(n) ==
  [repository |-> "o/a", number |-> n, base |-> "m", head |-> "h", main |-> "m",
   declared |-> Nothing, legacy |-> Nothing, mapping |-> TRUE, mergeBase |-> "RESOLVED",
   draft |-> FALSE, mergeable |-> "yes", hold |-> {}, labels |-> {"bug"}, failures |-> {},
   complete |-> TRUE, errors |-> {}, files |-> {"f"}, issues |-> {}]

Deviation ==
  {"invalid number", "other repository", "no repository", "repository None", "no owner",
   "behind", "no main", "main None", "no base", "base None", "no head",
   "not a mapping", "declared base", "declared head", "declared main",
   "declares nothing", "declared before",
   "no merge base", "merge base unknown", "draft", "not mergeable",
   "mergeable unknown", "hold", "long-lived", "incomplete", "error", "no file",
   "issue", "failures", "protected file"}

Deviate(s, d) ==
  CASE d = "invalid number" -> [s EXCEPT !.number = 0]
    [] d = "number of another" -> [s EXCEPT !.number = 9]
    [] d = "other repository" -> [s EXCEPT !.repository = "o/b"]
    [] d = "no repository" -> [s EXCEPT !.repository = ""]
    [] d = "repository None" -> [s EXCEPT !.repository = None]
    [] d = "named None" -> [s EXCEPT !.repository = "None"]
    [] d = "no owner" -> [s EXCEPT !.repository = "a"]
    [] d = "behind" -> [s EXCEPT !.base = "old"]
    [] d = "later main" -> [s EXCEPT !.main = "new"]
    [] d = "no main" -> [s EXCEPT !.main = ""]
    [] d = "main None" -> [s EXCEPT !.main = None]
    [] d = "base None" -> [s EXCEPT !.base = None]
    [] d = "no base" -> [s EXCEPT !.base = ""]
    [] d = "no head" -> [s EXCEPT !.head = ""]
    [] d = "not a mapping" -> [s EXCEPT !.mapping = FALSE]
    [] d = "declared base" -> [s EXCEPT !.declared.base = "m"]
    [] d = "declared head" -> [s EXCEPT !.declared.head = "old"]
    [] d = "declared main" -> [s EXCEPT !.declared.main = "m"]
    [] d = "declares nothing" -> [s EXCEPT !.declared = [side \in Sides |-> ""]]
    [] d = "declared before" -> [s EXCEPT !.legacy.head = "old"]
    [] d = "no merge base" -> [s EXCEPT !.mergeBase = "NONE"]
    [] d = "merge base unknown" -> [s EXCEPT !.mergeBase = "UNKNOWN"]
    [] d = "draft" -> [s EXCEPT !.draft = TRUE]
    [] d = "not mergeable" -> [s EXCEPT !.mergeable = "no"]
    [] d = "mergeable unknown" -> [s EXCEPT !.mergeable = "unknown"]
    [] d = "hold" -> [s EXCEPT !.hold = {"body"}]
    [] d = "long-lived" -> [s EXCEPT !.labels = @ \cup {"long-lived"}]
    [] d = "incomplete" -> [s EXCEPT !.complete = FALSE]
    [] d = "error" -> [s EXCEPT !.errors = {"E"}]
    [] d = "no file" -> [s EXCEPT !.files = {}]
    [] d = "failures" -> [s EXCEPT !.failures = {"expected", "unexpected"}]
    [] d = "protected file" -> [s EXCEPT !.files = @ \cup {"p"}]
    [] d = "issue" -> [s EXCEPT !.issues = {7}]

First == {Good(9)} \cup {Deviate(Deviate(Good(9), c), d) : c, d \in Deviation}
Other(n, deviations) == {Good(n)} \cup {Deviate(Good(n), d) : d \in deviations}

MCBatch ==
  {<<x, y, z>> :
     x \in First,
     y \in Other(10, {"number of another", "repository None", "named None",
                      "no file", "issue"}),
     z \in Other(8, {"named None", "later main", "draft", "issue"})}
=============================================================================
