-------------------------------- MODULE Ordering --------------------------------
(***************************************************************************)
(* Python's sort, of things that no two are alike in the order: before is the *)
(* set of the pairs <<x, y>> with x before y.  Where keys may be equal, what   *)
(* is sorted are the positions, so that the sort is stable.                   *)
(***************************************************************************)
EXTENDS FiniteSets, Naturals

(* How many come before x.                                                  *)
Place(x, set, before) == Cardinality({y \in set : <<y, x>> \in before})

InOrder(set, before) ==
  [k \in 1 .. Cardinality(set) |-> CHOOSE x \in set : Place(x, set, before) = k - 1]
=============================================================================
