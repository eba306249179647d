----------------------------- MODULE AdvisoriesProofs -----------------------------
(***************************************************************************)
(* Proofs about Advisories: for inputs of any size and number, what each       *)
(* analyzer emits has the properties that Advisories states, and its verifier  *)
(* accepts what it says it does.                                            *)
(***************************************************************************)
EXTENDS Advisories, Ordering, TLAPS, FiniteSetTheorems, WellFoundedInduction

-----------------------------------------------------------------------------
(***************************************************************************)
(* Sorting, and the sizes of finite sets.                                   *)
(***************************************************************************)

(* No two things are each before the other, of any two one is before the     *)
(* other, and what is before the one that is before a third is before the    *)
(* third.                                                                    *)
Strict(set, before) ==
  /\ \A x, y \in set : <<x, y>> \in before => <<y, x>> \notin before
  /\ \A x, y \in set : x = y \/ <<x, y>> \in before \/ <<y, x>> \in before
  /\ \A x, y, z \in set : <<x, y>> \in before /\ <<y, z>> \in before => <<x, z>> \in before

(* A place is a number below that of the things.                             *)
LEMMA PlaceType ==
  ASSUME NEW set, IsFiniteSet(set), NEW before, Strict(set, before), NEW x \in set
  PROVE  Place(x, set, before) \in 0 .. Cardinality(set) - 1
<1> DEFINE below == {y \in set : <<y, x>> \in before}
<1>1. below \subseteq set /\ x \notin below
  BY DEF Strict
<1>2. /\ IsFiniteSet(set \ {x}) /\ Cardinality(set \ {x}) = Cardinality(set) - 1
      /\ Cardinality(set) \in Nat
  BY FS_RemoveElement, FS_CardinalityType
<1>3. below \in SUBSET (set \ {x})
  BY <1>1
<1>4. IsFiniteSet(below) /\ Cardinality(below) <= Cardinality(set) - 1
  BY <1>2, <1>3, FS_Subset
<1>5. Cardinality(below) \in Nat
  BY <1>4, FS_CardinalityType
<1> QED
  BY <1>2, <1>4, <1>5 DEF Place

(* What is before has the smaller place.                                     *)
LEMMA PlaceGrows ==
  ASSUME NEW set, IsFiniteSet(set), NEW before, Strict(set, before),
         NEW x \in set, NEW y \in set, <<x, y>> \in before
  PROVE  Place(x, set, before) < Place(y, set, before)
<1> DEFINE below(z) == {w \in set : <<w, z>> \in before}
<1>1. below(x) \cup {x} \subseteq below(y) /\ x \notin below(x)
  BY DEF Strict
<1>2. IsFiniteSet(below(x)) /\ IsFiniteSet(below(y))
  <2>1. below(x) \in SUBSET set /\ below(y) \in SUBSET set
    OBVIOUS
  <2> QED
    BY <2>1, FS_Subset
<1>3. Cardinality(below(x) \cup {x}) = Cardinality(below(x)) + 1
  BY <1>1, <1>2, FS_AddElement
<1>4. Cardinality(below(x) \cup {x}) <= Cardinality(below(y))
  BY <1>1, <1>2, FS_Subset
<1>5. Cardinality(below(x)) \in Nat /\ Cardinality(below(y)) \in Nat
  BY <1>2, FS_CardinalityType
<1> QED
  BY <1>3, <1>4, <1>5 DEF Place

(* Every place is taken, by one thing.                                       *)
LEMMA PlaceTaken ==
  ASSUME NEW set, IsFiniteSet(set), NEW before, Strict(set, before),
         NEW k \in 1 .. Cardinality(set)
  PROVE  \E x \in set : Place(x, set, before) = k - 1
<1> DEFINE place == [x \in set |-> Place(x, set, before) + 1]
           places == 1 .. Cardinality(set)
<1>1. Cardinality(set) \in Nat
  BY FS_CardinalityType
<1>2. place \in [set -> places]
  BY <1>1, PlaceType
<1>3. ASSUME NEW x \in set, NEW y \in set, x # y PROVE place[x] # place[y]
  <2>1. Place(x, set, before) \in Nat /\ Place(y, set, before) \in Nat
    BY <1>1, PlaceType
  <2>2. Place(x, set, before) # Place(y, set, before)
    <3>1. CASE <<x, y>> \in before
      BY <2>1, <3>1, PlaceGrows
    <3>2. CASE <<y, x>> \in before
      BY <2>1, <3>2, PlaceGrows
    <3> QED
      BY <1>3, <3>1, <3>2 DEF Strict
  <2> QED
    BY <2>1, <2>2
<1>4. place \in Injection(set, places)
  BY <1>2, <1>3 DEF Injection, IsInjective
<1>5. IsFiniteSet(places) /\ Cardinality(places) = Cardinality(set)
  BY <1>1, FS_Interval
<1>6. place \in Surjection(set, places)
  <2> HIDE DEF place, places
  <2> QED
    BY <1>4, <1>5, FS_Injection
<1>7. PICK x \in set : place[x] = k
  BY <1>6 DEF Surjection
<1>8. Place(x, set, before) \in Nat
  BY <1>1, PlaceType
<1> QED
  BY <1>7, <1>8

(* The sort lists every thing, once and at its place.                         *)
LEMMA InOrderSorts ==
  ASSUME NEW set, IsFiniteSet(set), NEW before, Strict(set, before)
  PROVE  LET sorted == InOrder(set, before) IN
         /\ Cardinality(set) \in Nat /\ DOMAIN sorted = 1 .. Cardinality(set)
         /\ \A k \in DOMAIN sorted : sorted[k] \in set /\ Place(sorted[k], set, before) = k - 1
         /\ {sorted[k] : k \in DOMAIN sorted} = set
         /\ \A i, j \in DOMAIN sorted : i < j => <<sorted[i], sorted[j]>> \in before
<1> DEFINE sorted == InOrder(set, before)
<1>1. Cardinality(set) \in Nat /\ DOMAIN sorted = 1 .. Cardinality(set)
  BY FS_CardinalityType DEF InOrder
<1>2. ASSUME NEW k \in DOMAIN sorted
      PROVE  sorted[k] \in set /\ Place(sorted[k], set, before) = k - 1
  <2>1. \E x \in set : Place(x, set, before) = k - 1
    BY <1>1, PlaceTaken
  <2>2. sorted[k] = CHOOSE x \in set : Place(x, set, before) = k - 1
    BY <1>1 DEF InOrder
  <2> QED
    BY <2>1, <2>2
<1>3. ASSUME NEW i \in DOMAIN sorted, NEW j \in DOMAIN sorted, i < j
      PROVE  <<sorted[i], sorted[j]>> \in before
  <2>1. i \in Int /\ j \in Int
    BY <1>1
  <2>2. sorted[i] # sorted[j]
    BY <1>2, <1>3, <2>1
  <2>3. ASSUME <<sorted[j], sorted[i]>> \in before PROVE FALSE
    <3>1. Place(sorted[j], set, before) < Place(sorted[i], set, before)
      BY <1>2, <2>3, PlaceGrows
    <3> QED
      BY <1>2, <1>3, <2>1, <3>1
  <2> QED
    BY <1>2, <2>2, <2>3 DEF Strict
<1>4. ASSUME NEW x \in set PROVE \E k \in DOMAIN sorted : sorted[k] = x
  <2>1. Place(x, set, before) \in 0 .. Cardinality(set) - 1
    BY PlaceType
  <2>2. PICK k \in DOMAIN sorted : k - 1 = Place(x, set, before) /\ k \in Int
    <3>1. Place(x, set, before) + 1 \in DOMAIN sorted
      BY <1>1, <2>1
    <3> QED
      BY <1>1, <2>1, <3>1
  <2>3. sorted[k] \in set /\ Place(sorted[k], set, before) = Place(x, set, before)
    BY <1>2, <2>2
  <2>4. <<x, sorted[k]>> \notin before /\ <<sorted[k], x>> \notin before
    <3>1. Place(x, set, before) \in Int
      BY <1>1, <2>1
    <3>2. ~(Place(x, set, before) < Place(sorted[k], set, before))
      BY <2>3, <3>1
    <3> QED
      BY <2>3, <3>1, <3>2, PlaceGrows
  <2> QED
    BY <2>2, <2>3, <2>4 DEF Strict
<1> HIDE DEF sorted
<1>5. {sorted[k] : k \in DOMAIN sorted} = set
  BY <1>2, <1>4
<1> QED
  BY <1>1, <1>2, <1>3, <1>5 DEF sorted

(* What is in order stays as it is.                                          *)
LEMMA InOrderStays ==
  ASSUME NEW n \in Nat, NEW before,
         \A i, j \in 1 .. n : <<i, j>> \in before <=> i < j
  PROVE  InOrder(1 .. n, before) = [k \in 1 .. n |-> k]
<1>1. IsFiniteSet(1 .. n) /\ Cardinality(1 .. n) = n
  BY FS_Interval
<1>2. ASSUME NEW x \in 1 .. n PROVE Place(x, 1 .. n, before) = x - 1
  <2>1. {y \in 1 .. n : <<y, x>> \in before} = 1 .. x - 1
    OBVIOUS
  <2>2. Cardinality(1 .. x - 1) = x - 1
    BY FS_Interval
  <2> QED
    BY <2>1, <2>2 DEF Place
<1>3. ASSUME NEW k \in 1 .. n
      PROVE  (CHOOSE x \in 1 .. n : Place(x, 1 .. n, before) = k - 1) = k
  <2>1. \A x \in 1 .. n : Place(x, 1 .. n, before) = k - 1 <=> x = k
    BY <1>2
  <2> QED
    BY <2>1
<1> QED
  BY <1>1, <1>3 DEF InOrder

(* A set of naturals has a least.                                            *)
LEMMA LeastExists ==
  ASSUME NEW set, set # {}, set \subseteq Nat
  PROVE  \E x \in set : \A y \in set : x <= y
<1>1. IsWellFoundedOn(OpToRel(<, Nat), Nat)
  BY NatLessThanWellFounded
<1>2. PICK x \in set : \A y \in set : ~(<<y, x>> \in OpToRel(<, Nat))
  BY <1>1, WFMin
<1>3. \A y \in set : ~(y < x)
  BY <1>2 DEF OpToRel
<1> QED
  BY <1>3

(* Two things make two.                                                     *)
LEMMA TwoElements ==
  ASSUME NEW set, IsFiniteSet(set), NEW x \in set, NEW y \in set, x # y
  PROVE  Cardinality(set) > 1
<1>1. IsFiniteSet({x}) /\ Cardinality({x}) = 1
  BY FS_Singleton
<1>2. Cardinality({x} \cup {y}) = 2 /\ IsFiniteSet({x} \cup {y})
  BY <1>1, FS_AddElement
<1>3. Cardinality({x} \cup {y}) <= Cardinality(set) /\ Cardinality(set) \in Nat
  BY FS_Subset, FS_CardinalityType
<1> QED
  BY <1>2, <1>3

(* A set has two things exactly when its size says so.                       *)
LEMMA SomeTwo ==
  ASSUME NEW set, IsFiniteSet(set)
  PROVE  Cardinality(set) >= 2 <=> \E x, y \in set : x # y
<1>1. ASSUME NEW x \in set, NEW y \in set, x # y PROVE Cardinality(set) >= 2
  BY <1>1, TwoElements, FS_CardinalityType
<1>2. ASSUME Cardinality(set) >= 2 PROVE \E x, y \in set : x # y
  <2>1. PICK x : x \in set
    BY <1>2, FS_EmptySet
  <2>2. set # {x}
    BY <1>2, FS_Singleton
  <2> QED
    BY <2>1, <2>2
<1> QED
  BY <1>1, <1>2

(* A finite set of numbers has a greatest.                                   *)
LEMMA GreatestExists ==
  ASSUME NEW set, IsFiniteSet(set), set # {}, set \subseteq Nat
  PROVE  \E x \in set : \A y \in set : x >= y
<1> DEFINE less == {p \in set \X set : p[1] < p[2]}
           sorted == InOrder(set, less)
           n == Cardinality(set)
<1>1. Strict(set, less)
  BY DEF Strict
<1>2. /\ n \in Nat /\ DOMAIN sorted = 1 .. n /\ {sorted[k] : k \in DOMAIN sorted} = set
      /\ \A i, j \in DOMAIN sorted : i < j => <<sorted[i], sorted[j]>> \in less
  <2> HIDE DEF less
  <2> QED
    BY <1>1, InOrderSorts
<1>3. n # 0
  BY FS_EmptySet
<1>4. n \in DOMAIN sorted /\ sorted[n] \in set
  <2> HIDE DEF sorted, n
  <2> QED
    BY <1>2, <1>3
<1>5. ASSUME NEW y \in set PROVE sorted[n] >= y
  <2> HIDE DEF sorted, n
  <2>1. PICK k \in DOMAIN sorted : sorted[k] = y
    BY <1>2
  <2>2. sorted[n] \in Nat /\ y \in Nat
    BY <1>4
  <2>3. CASE k = n
    BY <2>2, <2>1, <2>3
  <2>4. CASE k # n
    <3>1. k < n
      BY <1>2, <2>4
    <3>2. <<sorted[k], sorted[n]>> \in less
      BY <1>2, <1>4, <3>1
    <3> QED
      BY <2>2, <2>1, <3>2
  <2> QED
    BY <2>3, <2>4
<1> QED
  BY <1>4, <1>5

(* The image of a finite set.                                                *)
LEMMA ImageFinite ==
  ASSUME NEW set, IsFiniteSet(set), NEW f, DOMAIN f = set
  PROVE  IsFiniteSet({f[x] : x \in set})
<1> DEFINE image == {f[x] : x \in set}
           g == [x \in set |-> f[x]]
<1>1. g \in Surjection(set, image)
  BY DEF Surjection
<1> HIDE DEF image, g
<1>2. IsFiniteSet(image)
  BY <1>1, FS_Surjection
<1> QED
  BY <1>2 DEF image

-----------------------------------------------------------------------------
(***************************************************************************)
(* Change impact: the loop, which follows one file at a time and in any     *)
(* order, ends with what is downstream.                                     *)
(***************************************************************************)

(* The edges that the loop follows.                                          *)
Edges == Kept(graph)

(* What has been followed is closed up to the files that wait, and nothing     *)
(* but what is downstream has been visited.                                 *)
Explored ==
  /\ direct = Consumers(graph.changed, Edges) \ graph.changed
  /\ transitive \cap (graph.changed \cup direct) = {}
  /\ followed \cap waiting = {}
  /\ followed \cup waiting = direct \cup transitive
  /\ \A e \in Edges : e.dependency \in Visited \ waiting => e.consumer \in Visited
  /\ \A set \in SUBSET File :
       graph.changed \subseteq set /\ Closed(set, Edges) => Visited \subseteq set

(* The report on what was visited.                                           *)
TheReport ==
  [covered |-> graph.covered, changed |-> graph.changed,
   edges |-> Kept(graph), direct |-> direct, transitive |-> transitive,
   all |-> Visited, gaps |-> Gaps(graph), whole |-> graph.whole,
   failed |-> graph.failed, trusted |-> Trusted(graph.snapshot),
   completeness |-> CompletenessOf(Gaps(graph))]

(* The invariant of the steps of change impact.                              *)
ImpactInv ==
  /\ graph \in Graph
  /\ stage = "direct" => direct = {} /\ transitive = {} /\ followed = {} /\ waiting = {}
  /\ stage # "direct" => Explored
  /\ Reported => waiting = {} /\ impact = TheReport
  /\ stage = "done" => (accepted <=> Verified(impact))

(* Every step keeps the variables in their types.                           *)
LEMMA ImpactTypeStep == ImpactTypeOK /\ [ImpactNext]_impactVars => ImpactTypeOK'
<1> SUFFICES ASSUME ImpactTypeOK, [ImpactNext]_impactVars PROVE ImpactTypeOK'
  OBVIOUS
<1>1. CASE Direct
  BY <1>1 DEF Direct, ImpactTypeOK, Consumers
<1>2. CASE Follow
  BY <1>2 DEF Follow, ImpactTypeOK, Consumers
<1>3. CASE Report
  BY <1>3 DEF Report, ImpactTypeOK
<1>4. CASE Check
  <2>1. accepted' \in BOOLEAN
    BY <1>4 DEF Check, Verified
  <2> QED
    BY <1>4, <2>1 DEF Check, ImpactTypeOK
<1>5. CASE UNCHANGED impactVars
  BY <1>5 DEF impactVars, ImpactTypeOK
<1> QED
  BY <1>1, <1>2, <1>3, <1>4, <1>5 DEF ImpactNext

(* The parts of the impact are sets of files, and the queue is empty but for    *)
(* the loop.                                                                *)
THEOREM ImpactTypes == ImpactSpec => []ImpactTypeOK
<1>1. ImpactInit => ImpactTypeOK
  BY DEF ImpactInit, ImpactTypeOK
<1> QED
  BY <1>1, ImpactTypeStep, PTL DEF ImpactSpec

(* The consumers of the changed files are all that waits at first.            *)
LEMMA DirectExplores ==
  ASSUME ImpactTypeOK, ImpactInv, Direct
  PROVE  Explored'
<1>1. /\ transitive' = {} /\ followed' = {} /\ graph' = graph
      /\ direct' = Consumers(graph.changed, Edges) \ graph.changed
      /\ waiting' = direct'
  BY DEF Direct, ImpactInv, Edges
<1>2. Edges' = Edges
  BY <1>1 DEF Edges, Kept
<1>3. graph.changed \subseteq File /\ Edges \subseteq Edge
  BY GraphAssumption DEF ImpactInv, Edges, Kept
<1>4. Visited' = graph.changed \cup direct'
  BY <1>1 DEF Visited
<1>5. ASSUME NEW e \in Edges, e.dependency \in Visited' \ waiting'
      PROVE  e.consumer \in Visited'
  BY <1>1, <1>3, <1>4, <1>5 DEF Consumers, Edge
<1>6. ASSUME NEW set \in SUBSET File, graph.changed \subseteq set, Closed(set, Edges)
      PROVE  Visited' \subseteq set
  BY <1>1, <1>4, <1>6 DEF Consumers, Closed
<1>7. Consumers(graph.changed, Edges)' = Consumers(graph.changed, Edges)
  BY <1>1, <1>2 DEF Consumers
<1>8. \A set \in SUBSET File : Closed(set, Edges)' <=> Closed(set, Edges)
  BY <1>2 DEF Closed
<1> QED
  BY <1>1, <1>2, <1>5, <1>6, <1>7, <1>8 DEF Explored

(* A file that is followed brings in its consumers that were not visited.      *)
LEMMA FollowExplores ==
  ASSUME ImpactTypeOK, ImpactInv, Follow
  PROVE  Explored'
<1> DEFINE New(f) == Consumers({f}, Edges) \ Visited
<1>1. PICK f \in waiting : /\ transitive' = transitive \cup New(f)
                           /\ waiting' = (waiting \ {f}) \cup New(f)
                           /\ followed' = followed \cup {f}
  BY DEF Follow, Edges
<1>2. graph' = graph /\ direct' = direct /\ Edges' = Edges /\ Explored
  BY DEF Follow, ImpactInv, Edges, Kept
<1>3. graph.changed \subseteq File /\ Edges \subseteq Edge
  BY GraphAssumption DEF ImpactInv, Edges, Kept
<1>4. Visited' = Visited \cup New(f)
  BY <1>1, <1>2 DEF Visited
<1>5. f \in Visited /\ waiting \subseteq Visited
  BY <1>2 DEF Explored, Visited
<1>6. /\ transitive' \cap (graph.changed \cup direct) = {}
      /\ followed' \cap waiting' = {}
      /\ followed' \cup waiting' = direct \cup transitive'
  BY <1>1, <1>2, <1>5 DEF Explored, Visited
<1>7. ASSUME NEW e \in Edges, e.dependency \in Visited' \ waiting'
      PROVE  e.consumer \in Visited'
  <2>1. CASE e.dependency = f
    <3>1. e.consumer \in Consumers({f}, Edges)
      BY <1>3, <2>1 DEF Consumers, Edge
    <3> QED
      BY <1>4, <3>1
  <2>2. CASE e.dependency # f
    BY <1>1, <1>2, <1>4, <1>7, <2>2 DEF Explored
  <2> QED
    BY <2>1, <2>2
<1>8. ASSUME NEW set \in SUBSET File, graph.changed \subseteq set, Closed(set, Edges)
      PROVE  Visited' \subseteq set
  <2>1. Visited \subseteq set
    BY <1>2, <1>8 DEF Explored
  <2>2. New(f) \subseteq set
    BY <1>5, <1>8, <2>1 DEF Consumers, Closed
  <2> QED
    BY <1>4, <2>1, <2>2
<1>9. Consumers(graph.changed, Edges)' = Consumers(graph.changed, Edges)
  BY <1>2 DEF Consumers
<1>10. \A set \in SUBSET File : Closed(set, Edges)' <=> Closed(set, Edges)
  BY <1>2 DEF Closed
<1> QED
  BY <1>2, <1>6, <1>7, <1>8, <1>9, <1>10 DEF Explored

(* That depends on these variables alone.                                    *)
LEMMA ExploredStays ==
  ASSUME Explored, UNCHANGED <<graph, direct, transitive, followed, waiting>>
  PROVE  Explored'
<1>1. /\ graph' = graph /\ direct' = direct /\ transitive' = transitive
      /\ followed' = followed /\ waiting' = waiting
  OBVIOUS
<1>2. Edges' = Edges /\ Visited' = Visited
  BY <1>1 DEF Edges, Kept, Visited
<1>3. \A set \in SUBSET File : Closed(set, Edges)' <=> Closed(set, Edges)
  BY <1>2 DEF Closed
<1>4. Consumers(graph.changed, Edges)' = Consumers(graph.changed, Edges)
  BY <1>1, <1>2 DEF Consumers
<1> QED
  BY <1>1, <1>2, <1>3, <1>4 DEF Explored

(* So does the report.                                                      *)
LEMMA ReportStays ==
  ASSUME UNCHANGED <<graph, direct, transitive>>
  PROVE  TheReport' = TheReport
<1>1. graph' = graph /\ direct' = direct /\ transitive' = transitive
  OBVIOUS
<1>2. /\ Gaps(graph)' = Gaps(graph) /\ Kept(graph)' = Kept(graph) /\ Visited' = Visited
      /\ Trusted(graph.snapshot)' = Trusted(graph.snapshot)
  BY <1>1 DEF Gaps, Kept, Visited, Trusted, Uncovered, IdentityGaps, StaleEvidence,
              DeclaredOf, Contradicted, Missing
<1>3. CompletenessOf(Gaps(graph))' = CompletenessOf(Gaps(graph))
  BY <1>2 DEF CompletenessOf
<1> QED
  BY <1>1, <1>2, <1>3 DEF TheReport

(* Every step keeps the invariant.                                           *)
LEMMA ImpactStep == ImpactTypeOK /\ ImpactInv /\ [ImpactNext]_impactVars => ImpactInv'
<1> SUFFICES ASSUME ImpactTypeOK, ImpactInv, [ImpactNext]_impactVars PROVE ImpactInv'
  OBVIOUS
<1>1. CASE Direct
  BY <1>1, DirectExplores DEF Direct, ImpactInv, Reported
<1>2. CASE Follow
  BY <1>2, FollowExplores DEF Follow, ImpactInv, Reported
<1>3. CASE Report
  <2>1. /\ stage = "follow" /\ stage' = "verify" /\ waiting = {} /\ impact' = TheReport
        /\ UNCHANGED <<graph, direct, transitive, followed, waiting>>
    BY <1>3 DEF Report, TheReport
  <2>2. Explored' /\ TheReport' = TheReport
    BY <2>1, ExploredStays, ReportStays DEF ImpactInv
  <2> QED
    BY <2>1, <2>2 DEF ImpactInv, Reported
<1>4. CASE Check
  <2>1. /\ stage = "verify" /\ stage' = "done" /\ impact' = impact
        /\ accepted' = Verified(impact)
        /\ UNCHANGED <<graph, direct, transitive, followed, waiting>>
    BY <1>4 DEF Check
  <2>2. Explored' /\ TheReport' = TheReport
    BY <2>1, ExploredStays, ReportStays DEF ImpactInv
  <2>3. Verified(impact)' <=> Verified(impact)
    BY <2>1 DEF Verified, Downstream, Consumers, Closed
  <2> QED
    BY <2>1, <2>2, <2>3 DEF ImpactInv, Reported
<1>5. CASE UNCHANGED impactVars
  <2>1. /\ stage' = stage /\ impact' = impact /\ accepted' = accepted
        /\ UNCHANGED <<graph, direct, transitive, followed, waiting>>
    BY <1>5 DEF impactVars
  <2>2. (stage # "direct" => Explored') /\ TheReport' = TheReport
    BY <2>1, ExploredStays, ReportStays DEF ImpactInv
  <2>3. Verified(impact)' <=> Verified(impact)
    BY <2>1 DEF Verified, Downstream, Consumers, Closed
  <2> QED
    BY <2>1, <2>2, <2>3 DEF ImpactInv, Reported
<1> QED
  BY <1>1, <1>2, <1>3, <1>4, <1>5 DEF ImpactNext

(* What the loop has visited and what it still has to follow, at every stage:  *)
(* the invariant from which the other results follow.                       *)
THEOREM ImpactInvariant == ImpactSpec => [](ImpactTypeOK /\ ImpactInv)
<1>1. ImpactInit => ImpactTypeOK /\ ImpactInv
  BY DEF ImpactInit, ImpactTypeOK, ImpactInv, Reported
<1>2. (ImpactTypeOK /\ ImpactInv) /\ [ImpactNext]_impactVars
        => (ImpactTypeOK /\ ImpactInv)'
  BY ImpactTypeStep, ImpactStep
<1> QED
  BY <1>1, <1>2, PTL DEF ImpactSpec

(* Once nothing waits, what has been visited is what is downstream.           *)
LEMMA VisitedIsDownstream ==
  ASSUME ImpactTypeOK, graph \in Graph, Explored, waiting = {}
  PROVE  Visited = Downstream(graph.changed, Edges)
<1>1. graph.changed \subseteq File /\ Edges \subseteq Edge
  BY GraphAssumption DEF Edges, Kept
<1>2. Visited \in SUBSET File /\ graph.changed \subseteq Visited
  BY <1>1 DEF Visited, ImpactTypeOK
<1>3. Closed(Visited, Edges)
  BY DEF Closed, Explored
<1>4. ASSUME NEW f \in Downstream(graph.changed, Edges) PROVE f \in Visited
  BY <1>2, <1>3 DEF Downstream
<1>5. ASSUME NEW f \in Visited PROVE f \in Downstream(graph.changed, Edges)
  BY <1>2, <1>5 DEF Downstream, Explored
<1> QED
  BY <1>4, <1>5

(* What an impact report holds, field by field.                              *)
LEMMA ReportFields ==
  ASSUME ImpactInv, Reported
  PROVE  /\ graph \in Graph /\ Explored /\ waiting = {}
         /\ impact.covered = graph.covered /\ impact.changed = graph.changed
         /\ impact.edges = Edges /\ impact.direct = direct
         /\ impact.transitive = transitive /\ impact.all = Visited
         /\ impact.gaps = Gaps(graph) /\ impact.whole = graph.whole
         /\ impact.failed = graph.failed
         /\ impact.trusted = Trusted(graph.snapshot)
         /\ impact.completeness = CompletenessOf(Gaps(graph))
BY DEF ImpactInv, Reported, TheReport, Edges

(* Once the queue is empty what was visited is what is downstream.            *)
LEMMA ImpactExact == ImpactTypeOK /\ ImpactInv => ImpactExactly
<1>1. ImpactInv => followed \cap waiting = {}
  BY DEF ImpactInv, Explored
<1> SUFFICES ASSUME ImpactTypeOK, ImpactInv, Reported
             PROVE  /\ impact.all = Downstream(graph.changed, Kept(graph))
                    /\ impact.direct = Consumers(graph.changed, Kept(graph)) \ graph.changed
                    /\ impact.transitive = impact.all \ (graph.changed \cup impact.direct)
  BY <1>1 DEF ImpactExactly
<1>2. Visited = Downstream(graph.changed, Edges)
  BY ReportFields, VisitedIsDownstream
<1>3. transitive = Visited \ (graph.changed \cup direct)
  BY ReportFields DEF Visited, Explored
<1> QED
  BY <1>2, <1>3, ReportFields DEF Explored, Edges

(* Whatever the graph, with its cycles and diamonds, no file is followed twice, *)
(* and the report lists exactly what depends on the changed files, each under   *)
(* the right heading.                                                       *)
THEOREM ImpactIsDownstream == ImpactSpec => []ImpactExactly
BY ImpactExact, ImpactInvariant, PTL

(* Without a hard gap every edge has both ends covered, and every file changed. *)
LEMMA NoHardGap ==
  ASSUME CompletenessOf(Gaps(graph)) # "INCOMPLETE"
  PROVE  Uncovered(graph) = {} /\ graph.changed \subseteq graph.covered
<1>1. Gaps(graph) \cap HardGap = {}
  BY DEF CompletenessOf
<1>2. ASSUME Uncovered(graph) # {} PROVE FALSE
  <2>1. "dependency edge not covered by graph" \in Gaps(graph) \cap HardGap
    BY <1>2 DEF Gaps, HardGap
  <2> QED
    BY <1>1, <2>1
<1>3. ASSUME ~(graph.changed \subseteq graph.covered) PROVE FALSE
  <2>1. "changed file not covered by graph" \in Gaps(graph) \cap HardGap
    BY <1>3 DEF Gaps, HardGap
  <2> QED
    BY <1>1, <2>1
<1> QED
  BY <1>2, <1>3

(* An edge from a file to itself, which is not kept, leads nowhere new.        *)
LEMMA SelfEdges ==
  ASSUME Uncovered(graph) = {}, NEW set
  PROVE  Closed(set, graph.edges) <=> Closed(set, Edges)
<1>1. Edges \subseteq graph.edges
  BY DEF Edges, Kept
<1>2. ASSUME NEW e \in graph.edges PROVE e \in Edges \/ e.consumer = e.dependency
  BY DEF Edges, Kept, Uncovered
<1> QED
  BY <1>1, <1>2 DEF Closed

(* Without a hard gap every edge that was given is kept, or leads to itself.   *)
LEMMA ImpactWhole == ImpactTypeOK /\ ImpactInv => NothingDropped
<1> SUFFICES ASSUME ImpactTypeOK, ImpactInv, Reported,
                    CompletenessOf(Gaps(graph)) # "INCOMPLETE"
             PROVE  /\ impact.all = Downstream(graph.changed, graph.edges)
                    /\ graph.changed \subseteq graph.covered
  BY ReportFields DEF NothingDropped
<1>1. impact.all = Downstream(graph.changed, Edges)
  BY ReportFields, VisitedIsDownstream
<1>2. Downstream(graph.changed, Edges) = Downstream(graph.changed, graph.edges)
  BY NoHardGap, SelfEdges DEF Downstream
<1> QED
  BY <1>1, <1>2, NoHardGap

(* A report that is not INCOMPLETE is about the whole graph that was given,     *)
(* for any graph.                                                           *)
THEOREM ImpactNothingDropped == ImpactSpec => []NothingDropped
BY ImpactWhole, ImpactInvariant, PTL

(* A report without gaps has nothing that the verifier holds against COMPLETE.  *)
LEMMA CompleteIsClean ==
  ASSUME CompletenessOf(Gaps(graph)) = "COMPLETE"
  PROVE  Gaps(graph) = {} /\ ~graph.failed /\ graph.whole /\ Trusted(graph.snapshot)
<1>1. Gaps(graph) = {}
  BY DEF CompletenessOf
<1>2. ~graph.failed
  <2>1. graph.failed => "graph_error" \in Gaps(graph)
    BY DEF Gaps, SoftGap
  <2> QED
    BY <1>1, <2>1
<1>3. graph.whole
  <2>1. ~graph.whole => "graph_incomplete" \in Gaps(graph)
    BY DEF Gaps, SoftGap
  <2> QED
    BY <1>1, <2>1
<1>4. ~StaleEvidence(graph.snapshot)
  <2>1. StaleEvidence(graph.snapshot) => "stale identity evidence" \in Gaps(graph)
    BY DEF Gaps, HardGap
  <2> QED
    BY <1>1, <2>1
<1>5. IdentityGaps(graph.snapshot) = {}
  BY <1>1 DEF Gaps
<1> QED
  BY <1>1, <1>2, <1>3, <1>4, <1>5 DEF Trusted

(* What is compared agrees but for the coverage of the changed files.         *)
LEMMA ImpactVerified == ImpactTypeOK /\ ImpactInv => ImpactAccepted
<1> SUFFICES ASSUME ImpactTypeOK, ImpactInv, stage = "done"
             PROVE  Verified(impact) <=> graph.changed \subseteq graph.covered
  BY DEF ImpactAccepted, ImpactInv
<1>1. Reported
  BY DEF Reported
<1>2. impact.all = Downstream(impact.changed, impact.edges)
  BY <1>1, ReportFields, VisitedIsDownstream
<1>3. impact.direct = Consumers(impact.changed, impact.edges) \ impact.changed
  BY <1>1, ReportFields DEF Explored
<1>4. impact.transitive
        = impact.all \ (impact.changed \cup Consumers(impact.changed, impact.edges))
  BY <1>1, ReportFields DEF Explored, Visited
<1>5. \A e \in impact.edges : e.consumer \in impact.covered /\ e.dependency \in impact.covered
  BY <1>1, ReportFields DEF Edges, Kept
<1>6. impact.completeness = "COMPLETE"
        => impact.gaps = {} /\ ~impact.failed /\ impact.whole /\ impact.trusted
  BY <1>1, ReportFields, CompleteIsClean
<1>7. impact.changed \subseteq impact.covered <=> graph.changed \subseteq graph.covered
  BY <1>1, ReportFields
<1> QED
  BY <1>2, <1>3, <1>4, <1>5, <1>6, <1>7 DEF Verified

(* The verifier accepts a report of the engine exactly if the graph covers the  *)
(* changed files, for any graph.                                            *)
THEOREM ImpactAcceptance == ImpactSpec => []ImpactAccepted
BY ImpactVerified, ImpactInvariant, PTL

-----------------------------------------------------------------------------
(***************************************************************************)
(* Knowledge applicability.                                                 *)
(***************************************************************************)

(* The sort of the module instance is the sort of Ordering.                   *)
LEMMA KnowledgeOrder ==
  \A set, before : K!InOrder(set, before) = InOrder(set, before)
BY DEF K!InOrder, InOrder, K!Place, Place, K!Cardinality, Cardinality

(* What a knowledge report holds, field by field.                            *)
LEMMA KnowledgeFields ==
  ASSUME NEW data
  PROVE
    LET r == K!Analyze(data)
        changed == K!ChangedPaths(data.changes)
        doubt == r.gaps \ {"IN_SCOPE_MISSING"} # {}
        claimed == UNION {K!Claimed(r.artifacts[i], changed) : i \in DOMAIN r.artifacts}
    IN /\ r.identity = K!Identity(data.snapshot)
       /\ r.artifacts = K!NormaliseArtifacts(data.artifacts)
       /\ r.changes = data.changes /\ r.observed = data.observed /\ r.scope = data.scope
       /\ r.complete = data.complete
       /\ r.errors = data.errors \cup K!Problems(data)
       /\ r.gaps = K!EvidenceGaps(data, r.errors)
       /\ r.relations = [i \in DOMAIN r.artifacts |->
                           [artifact |-> r.artifacts[i],
                            status |-> K!Status(r.artifacts[i], data, doubt),
                            affected |-> K!Affected(r.artifacts[i], data)]]
       /\ r.uncovered = IF K!InventoryComplete(data)
                        THEN (changed \cap K!Covered(data.scope)) \ claimed ELSE {}
       /\ r.whole <=> r.gaps = {} /\ \A i \in DOMAIN r.relations : r.relations[i].status # "UNKNOWN"
BY DEF K!Analyze

(* An artifact that claims a changed path answers for it.                     *)
LEMMA ClaimAnswered ==
  ASSUME NEW a, NEW data, NEW doubt, NEW path \in K!ChangedPaths(data.changes),
         path \in K!Claimed(a, K!ChangedPaths(data.changes))
  PROVE  /\ a.id # 0 /\ a.path # 0
         /\ \/ path \in K!Affected(a, data)
            \/ \E ref \in a.refs :
                 /\ ref.source = path
                 /\ K!Status(a, data, doubt) = "UNKNOWN" \/ data.observed[path] = ref.hash
<1>1. /\ K!Eligible(a)
      /\ path \in K!Sources(a) \/ path \in K!Covered(a.covers)
  BY DEF K!Claimed
<1>2. CASE path \in K!Sources(a) /\ path \notin K!Affected(a, data)
  <2>1. PICK ref \in a.refs : ref.source = path
    BY <1>2 DEF K!Sources
  <2>2. path \notin K!Outdated(a, data)
    BY <1>2 DEF K!Affected
  <2>3. path \notin K!RemovedOrRenamed(data.changes) /\ data.observed[path] \in {"", ref.hash}
    BY <1>2, <2>1, <2>2 DEF K!Outdated
  <2>4. ASSUME data.observed[path] = "" PROVE K!Status(a, data, doubt) = "UNKNOWN"
    <3>1. path \in K!Unobserved(a, data)
      BY <1>2, <2>3, <2>4 DEF K!Unobserved
    <3> QED
      BY <3>1 DEF K!Status
  <2> QED
    BY <1>1, <2>1, <2>3, <2>4 DEF K!Eligible
<1>3. CASE path \notin K!Sources(a)
  BY <1>1, <1>3 DEF K!Affected, K!Eligible
<1> QED
  BY <1>1, <1>2, <1>3 DEF K!Eligible

(* A changed path in scope is uncovered, or the artifact that claims it      *)
(* answers for it.                                                           *)
LEMMA ChangeAnswered ==
  ASSUME NEW data, K!Input(data), K!InventoryComplete(data),
         NEW c \in data.changes,
         NEW path \in {c.path} \cup (IF c.kind \in {"DELETE", "RENAME"} THEN {c.old} ELSE {}),
         path \in K!Covered(data.scope)
  PROVE  LET r == K!Analyze(data) IN
         \/ path \in r.uncovered
         \/ \E i \in DOMAIN r.relations :
              LET relation == r.relations[i] IN
                /\ relation.artifact.id # 0 /\ relation.artifact.path # 0
                /\ \/ path \in relation.affected
                   \/ \E ref \in relation.artifact.refs :
                        /\ ref.source = path
                        /\ \/ relation.status = "UNKNOWN"
                           \/ data.observed[path] = ref.hash
<1> DEFINE r == K!Analyze(data)
           changed == K!ChangedPaths(data.changes)
           doubt == r.gaps \ {"IN_SCOPE_MISSING"} # {}
<1>1. path # ""
  BY MatchedAssumption DEF K!Input, K!Covered
<1>2. path \in changed
  BY <1>1 DEF K!ChangedPaths, K!RemovedOrRenamed
<1>3. CASE path \notin r.uncovered
  <2> DEFINE claimed == UNION {K!Claimed(r.artifacts[i], changed) : i \in DOMAIN r.artifacts}
  <2>1. r.uncovered = (changed \cap K!Covered(data.scope)) \ claimed
    BY KnowledgeFields
  <2>2. path \in claimed
    BY <1>2, <1>3, <2>1
  <2>3. PICK i \in DOMAIN r.artifacts : path \in K!Claimed(r.artifacts[i], changed)
    BY <2>2
  <2>4. r.relations = [k \in DOMAIN r.artifacts |->
                         [artifact |-> r.artifacts[k],
                          status |-> K!Status(r.artifacts[k], data, doubt),
                          affected |-> K!Affected(r.artifacts[k], data)]]
    BY KnowledgeFields
  <2> HIDE DEF r, claimed
  <2>5. /\ i \in DOMAIN r.relations /\ r.relations[i].artifact = r.artifacts[i]
        /\ r.relations[i].status = K!Status(r.artifacts[i], data, doubt)
        /\ r.relations[i].affected = K!Affected(r.artifacts[i], data)
    BY <2>3, <2>4
  <2> HIDE DEF changed, doubt
  <2>6. /\ r.artifacts[i].id # 0 /\ r.artifacts[i].path # 0
        /\ \/ path \in K!Affected(r.artifacts[i], data)
           \/ \E ref \in r.artifacts[i].refs :
                /\ ref.source = path
                /\ \/ K!Status(r.artifacts[i], data, doubt) = "UNKNOWN"
                   \/ data.observed[path] = ref.hash
    BY <1>2, <2>3, ClaimAnswered DEF changed
  <2>7. \E k \in DOMAIN r.relations :
          /\ r.relations[k].artifact.id # 0 /\ r.relations[k].artifact.path # 0
          /\ \/ path \in r.relations[k].affected
             \/ \E ref \in r.relations[k].artifact.refs :
                  /\ ref.source = path
                  /\ \/ r.relations[k].status = "UNKNOWN"
                     \/ data.observed[path] = ref.hash
    BY <2>5, <2>6
  <2> QED
    BY <2>7 DEF r
<1> QED
  BY <1>3

(* What normalising leaves of an artifact, field by field.                   *)
LEMMA NormalisedFields ==
  ASSUME NEW a, a \in K!Artifact
  PROVE  LET b == K!Normalised(a) IN
         /\ b = [id |-> a.id, path |-> a.path, refs |-> b.refs, covers |-> b.covers,
                 shape |-> "whole"]
         /\ b.id = a.id /\ b.path = a.path /\ b.shape = "whole"
         /\ b.covers = a.covers \ {""}
         /\ b.refs = {ref \in a.refs : a.shape = "whole" /\ ref.source # "" /\ ref.hash # ""}
         /\ a.id \in Nat /\ a.path \in Nat
<1> DEFINE refs == {ref \in a.refs : a.shape = "whole" /\ ref.source # "" /\ ref.hash # ""}
           covers == a.covers \ {""}
<1>1. K!Normalised(a) = [a EXCEPT !.refs = refs, !.covers = covers, !.shape = "whole"]
  BY DEF K!Normalised
<1>2. /\ a = [id |-> a.id, path |-> a.path, refs |-> a.refs, covers |-> a.covers,
              shape |-> a.shape]
      /\ a.id \in Nat /\ a.path \in Nat
  BY DEF K!Artifact
<1> HIDE DEF refs, covers
<1>3. K!Normalised(a) = [id |-> a.id, path |-> a.path, refs |-> refs, covers |-> covers,
                         shape |-> "whole"]
  BY <1>1, <1>2
<1>4. LET b == K!Normalised(a) IN
      /\ b = [id |-> a.id, path |-> a.path, refs |-> b.refs, covers |-> b.covers,
              shape |-> "whole"]
      /\ b.id = a.id /\ b.path = a.path /\ b.shape = "whole"
      /\ b.covers = covers /\ b.refs = refs
  BY <1>3
<1> QED
  BY <1>2, <1>4 DEF refs, covers

(* Normalising twice is normalising once.                                    *)
LEMMA NormalisedStays ==
  ASSUME NEW a, a \in K!Artifact
  PROVE  K!Normalised(K!Normalised(a)) = K!Normalised(a)
<1> DEFINE b == K!Normalised(a)
<1>1. /\ b = [id |-> a.id, path |-> a.path, refs |-> b.refs, covers |-> b.covers,
              shape |-> "whole"]
      /\ b.covers = a.covers \ {""} /\ b.shape = "whole"
      /\ b.refs = {ref \in a.refs : a.shape = "whole" /\ ref.source # "" /\ ref.hash # ""}
  BY NormalisedFields
<1> HIDE DEF b
<1>2. /\ b.refs = {ref \in b.refs : b.shape = "whole" /\ ref.source # "" /\ ref.hash # ""}
      /\ b.covers = b.covers \ {""}
  BY <1>1
<1>3. K!Normalised(b) = [b EXCEPT !.refs = b.refs, !.covers = b.covers, !.shape = "whole"]
  BY <1>2 DEF K!Normalised
<1>4. K!Normalised(b) = b
  <2> DEFINE refs == b.refs
             covers == b.covers
  <2>1. b = [id |-> a.id, path |-> a.path, refs |-> refs, covers |-> covers, shape |-> "whole"]
    BY <1>1
  <2>2. K!Normalised(b) = [b EXCEPT !.refs = refs, !.covers = covers, !.shape = "whole"]
    BY <1>3
  <2> HIDE DEF refs, covers
  <2> QED
    BY <2>1, <2>2
<1> QED
  BY <1>4 DEF b

(* The positions that are kept are strictly ordered.                         *)
LEMMA ArtifactsOrdered ==
  ASSUME NEW artifacts, artifacts \in Seq(K!Artifact), NEW kept, kept \subseteq DOMAIN artifacts
  PROVE  /\ IsFiniteSet(kept) /\ Strict(kept, K!Before(artifacts, kept))
         /\ \A i, j \in kept : <<i, j>> \in K!Before(artifacts, kept) <=>
              \/ artifacts[i].id < artifacts[j].id
              \/ artifacts[i].id = artifacts[j].id /\ artifacts[i].path < artifacts[j].path
              \/ artifacts[i].id = artifacts[j].id /\ artifacts[i].path = artifacts[j].path /\ i < j
<1>1. /\ \A i \in kept : i \in Nat /\ artifacts[i] \in K!Artifact
      /\ Len(artifacts) \in Nat /\ kept \in SUBSET (1 .. Len(artifacts))
  OBVIOUS
<1>2. \A i \in kept : i \in Nat /\ artifacts[i].id \in Nat /\ artifacts[i].path \in Nat
  BY <1>1 DEF K!Artifact
<1>3. IsFiniteSet(kept)
  BY <1>1, FS_Interval, FS_Subset
<1>4. \A i, j \in kept : <<i, j>> \in K!Before(artifacts, kept) <=>
        \/ artifacts[i].id < artifacts[j].id
        \/ artifacts[i].id = artifacts[j].id /\ artifacts[i].path < artifacts[j].path
        \/ artifacts[i].id = artifacts[j].id /\ artifacts[i].path = artifacts[j].path /\ i < j
  BY DEF K!Before
<1> DEFINE id == [i \in kept |-> artifacts[i].id]
           path == [i \in kept |-> artifacts[i].path]
<1>5. /\ id \in [kept -> Nat] /\ path \in [kept -> Nat] /\ kept \subseteq Nat
      /\ \A i, j \in kept : <<i, j>> \in K!Before(artifacts, kept) <=>
           \/ id[i] < id[j]
           \/ id[i] = id[j] /\ path[i] < path[j]
           \/ id[i] = id[j] /\ path[i] = path[j] /\ i < j
  BY <1>2, <1>4
<1> HIDE DEF id, path
<1>6. \A i \in kept : i \in Nat /\ id[i] \in Nat /\ path[i] \in Nat
  BY <1>5
<1>7. Strict(kept, K!Before(artifacts, kept))
  <2> DEFINE before == K!Before(artifacts, kept)
             less(x, y) == \/ id[x] < id[y]
                           \/ id[x] = id[y] /\ path[x] < path[y]
                           \/ id[x] = id[y] /\ path[x] = path[y] /\ x < y
  <2>1. \A x, y \in kept : less(x, y) => ~less(y, x)
    BY <1>6
  <2>2. \A x, y \in kept : x = y \/ less(x, y) \/ less(y, x)
    BY <1>6
  <2>3. \A x, y, z \in kept : less(x, y) /\ less(y, z) => less(x, z)
    BY <1>6
  <2>4. \A x, y \in kept : <<x, y>> \in before <=> less(x, y)
    BY <1>5
  <2> HIDE DEF before, less
  <2>5. Strict(kept, before)
    BY <2>1, <2>2, <2>3, <2>4 DEF Strict
  <2> QED
    BY <2>5 DEF before
<1> QED
  BY <1>3, <1>4, <1>7

(* Artifacts that were normalised are sorted: normalising keeps them.         *)
LEMMA ArtifactsStay ==
  ASSUME NEW artifacts, artifacts \in Seq(K!Artifact)
  PROVE  LET normal == K!NormaliseArtifacts(artifacts) IN
         /\ normal \in Seq(K!Artifact) /\ \A k \in DOMAIN normal : normal[k].shape = "whole"
         /\ K!NormaliseArtifacts(normal) = normal
<1> DEFINE kept == {i \in DOMAIN artifacts : artifacts[i].shape # "no mapping"}
           before == K!Before(artifacts, kept)
           sorted == InOrder(kept, before)
           normal == K!NormaliseArtifacts(artifacts)
           n == Cardinality(kept)
<1>1. kept \subseteq DOMAIN artifacts /\ \A i \in kept : artifacts[i] \in K!Artifact
  <2>1. \A i \in DOMAIN artifacts : artifacts[i] \in K!Artifact
    OBVIOUS
  <2> QED
    BY <2>1
<1>2. normal = [k \in DOMAIN sorted |-> K!Normalised(artifacts[sorted[k]])]
  BY KnowledgeOrder DEF K!NormaliseArtifacts
<1>3. IsFiniteSet(kept) /\ Strict(kept, before)
  BY <1>1, ArtifactsOrdered
<1>4. /\ n \in Nat /\ DOMAIN sorted = 1 .. n
      /\ \A k \in DOMAIN sorted : sorted[k] \in kept
      /\ \A i, j \in DOMAIN sorted : i < j => <<sorted[i], sorted[j]>> \in before
  <2> HIDE DEF kept, before
  <2> QED
    BY <1>3, InOrderSorts
<1> HIDE DEF sorted, normal, n
<1>5. /\ DOMAIN normal = 1 .. n
      /\ \A k \in 1 .. n : /\ sorted[k] \in kept /\ artifacts[sorted[k]] \in K!Artifact
                           /\ normal[k] = K!Normalised(artifacts[sorted[k]])
  <2> HIDE DEF kept, before
  <2> QED
    BY <1>1, <1>2, <1>4
<1>6. \A k \in 1 .. n : /\ normal[k].id = artifacts[sorted[k]].id
                        /\ normal[k].path = artifacts[sorted[k]].path
                        /\ normal[k].shape = "whole" /\ normal[k] \in K!Artifact
                        /\ K!Normalised(normal[k]) = normal[k]
  <2> SUFFICES ASSUME NEW k \in 1 .. n
               PROVE  /\ normal[k].id = artifacts[sorted[k]].id
                      /\ normal[k].path = artifacts[sorted[k]].path
                      /\ normal[k].shape = "whole" /\ normal[k] \in K!Artifact
                      /\ K!Normalised(normal[k]) = normal[k]
    OBVIOUS
  <2>1. PICK a \in K!Artifact : a = artifacts[sorted[k]] /\ normal[k] = K!Normalised(a)
    BY <1>5
  <2>2. K!Normalised(a) \in K!Artifact
    BY DEF K!Normalised, K!Artifact
  <2> QED
    BY <2>1, <2>2, NormalisedFields, NormalisedStays
<1>7. normal \in Seq(K!Artifact)
  <2>1. normal = [k \in 1 .. n |-> normal[k]]
    BY <1>2, <1>5
  <2>2. n \in Nat /\ \A k \in 1 .. n : normal[k] \in K!Artifact
    BY <1>4, <1>6
  <2> QED
    BY <2>1, <2>2
<1> DEFINE again == K!Before(normal, 1 .. n)
<1>8. /\ Strict(1 .. n, again)
      /\ \A i, j \in 1 .. n : <<i, j>> \in again <=>
           \/ normal[i].id < normal[j].id
           \/ normal[i].id = normal[j].id /\ normal[i].path < normal[j].path
           \/ normal[i].id = normal[j].id /\ normal[i].path = normal[j].path /\ i < j
  BY <1>5, <1>7, ArtifactsOrdered
<1>9. \A i, j \in 1 .. n : i < j => <<i, j>> \in again
  <2> SUFFICES ASSUME NEW i \in 1 .. n, NEW j \in 1 .. n, i < j PROVE <<i, j>> \in again
    OBVIOUS
  <2>1. <<sorted[i], sorted[j]>> \in before
    BY <1>4
  <2>2. \/ artifacts[sorted[i]].id < artifacts[sorted[j]].id
        \/ artifacts[sorted[i]].id = artifacts[sorted[j]].id
             /\ artifacts[sorted[i]].path <= artifacts[sorted[j]].path
    <3>1. /\ sorted[i] \in kept /\ sorted[j] \in kept
          /\ artifacts[sorted[i]].path \in Nat /\ artifacts[sorted[j]].path \in Nat
      BY <1>5, NormalisedFields
    <3> HIDE DEF kept
    <3>2. \/ artifacts[sorted[i]].id < artifacts[sorted[j]].id
          \/ artifacts[sorted[i]].id = artifacts[sorted[j]].id
               /\ artifacts[sorted[i]].path < artifacts[sorted[j]].path
          \/ artifacts[sorted[i]].id = artifacts[sorted[j]].id
               /\ artifacts[sorted[i]].path = artifacts[sorted[j]].path
      BY <1>1, <2>1, <3>1, ArtifactsOrdered
    <3> QED
      BY <3>1, <3>2
  <2>3. /\ normal[i].id = artifacts[sorted[i]].id /\ normal[j].id = artifacts[sorted[j]].id
        /\ normal[i].path = artifacts[sorted[i]].path
        /\ normal[j].path = artifacts[sorted[j]].path
    BY <1>6
  <2>4. normal[i].path \in Nat /\ normal[j].path \in Nat
    BY <1>6 DEF K!Artifact
  <2> HIDE DEF again
  <2>5. \/ normal[i].id < normal[j].id
        \/ normal[i].id = normal[j].id /\ normal[i].path < normal[j].path
        \/ normal[i].id = normal[j].id /\ normal[i].path = normal[j].path
    BY <2>2, <2>3, <2>4
  <2> QED
    BY <1>8, <2>5
<1> HIDE DEF again
<1>10. \A i, j \in 1 .. n : <<i, j>> \in again <=> i < j
  <2> SUFFICES ASSUME NEW i \in 1 .. n, NEW j \in 1 .. n, <<i, j>> \in again PROVE i < j
    BY <1>9
  <2>1. <<j, i>> \notin again /\ i # j
    BY <1>8 DEF Strict
  <2>2. n \in Nat
    BY <1>4
  <2>3. ~(j < i) /\ i \in Int /\ j \in Int
    BY <1>9, <2>1, <2>2
  <2> QED
    BY <2>1, <2>3
<1>11. InOrder(1 .. n, again) = [k \in 1 .. n |-> k]
  BY <1>4, <1>10, InOrderStays
<1>12. K!NormaliseArtifacts(normal) = normal
  <2>1. {i \in DOMAIN normal : normal[i].shape # "no mapping"} = 1 .. n
    BY <1>5, <1>6
  <2>2. K!NormaliseArtifacts(normal) =
          LET inOrder == InOrder(1 .. n, again) IN
          [k \in DOMAIN inOrder |-> K!Normalised(normal[inOrder[k]])]
    BY <2>1, KnowledgeOrder DEF K!NormaliseArtifacts, again
  <2>3. K!NormaliseArtifacts(normal) = [k \in 1 .. n |-> K!Normalised(normal[k])]
    BY <1>11, <2>2
  <2>4. normal = [k \in 1 .. n |-> normal[k]]
    BY <1>2, <1>5
  <2> QED
    BY <1>6, <2>3, <2>4
<1> QED
  BY <1>5, <1>6, <1>7, <1>12 DEF normal

(* The identity of a report is rebuilt: of the texts nothing changes, while     *)
(* the declared revisions that are missing come back as None.                *)
LEMMA RevisionAgain ==
  ASSUME NEW s \in Snapshot
  PROVE  LET again == Rebuilt(Identity(s)) IN
           /\ IdentityGaps(again) = IdentityGaps(s)
           /\ StaleEvidence(again) <=> StaleEvidence(s)
           /\ Identity(again) = Identity(s) <=> FoundAgain(s)
<1> DEFINE again == Rebuilt(Identity(s))
           said == DeclaredOf(s)
<1>1. /\ s.declared \in [Sides -> MaybeText] /\ s.legacy \in [Sides -> MaybeText]
      /\ Sides = {"base", "head", "main"}
  BY DEF Snapshot, Sides
<1>2. said \in [Sides -> MaybeText]
  BY <1>1 DEF DeclaredOf
<1>3. /\ again.repository = IF s.repository = None THEN "None" ELSE s.repository
      /\ again.number = s.number /\ again.base = TextOf(s.base)
      /\ again.head = TextOf(s.head) /\ again.main = TextOf(s.main)
      /\ again.declared = said /\ again.legacy = Nothing /\ again.mapping
      /\ again.mergeBase = "UNKNOWN"
  BY DEF Rebuilt, Identity
<1>4. DeclaredOf(again) = [side \in Sides |-> IF said[side] \in Missing THEN None ELSE said[side]]
  BY <1>3 DEF DeclaredOf, Nothing
<1> HIDE DEF again, said
<1>5. IdentityGaps(again) = IdentityGaps(s) /\ StaleBase(again) = StaleBase(s)
  BY <1>3, MissingAssumption DEF IdentityGaps, StaleBase, TextOf, Missing
<1>6. StaleEvidence(again) <=> StaleEvidence(s)
  <2>1. /\ DeclaredOf(again).base = IF said.base \in Missing THEN None ELSE said.base
        /\ DeclaredOf(again).head = IF said.head \in Missing THEN None ELSE said.head
        /\ DeclaredOf(again).main = IF said.main \in Missing THEN None ELSE said.main
    BY <1>1, <1>4
  <2> QED
    BY <1>3, <2>1, MissingAssumption
       DEF StaleEvidence, Contradicted, Missing, TextOf, said
<1>7. DeclaredOf(again) = said <=> \A side \in Sides : said[side] # ""
  <2>1. ASSUME DeclaredOf(again) = said, NEW side \in Sides PROVE said[side] # ""
    BY <1>4, <2>1, MissingAssumption DEF Missing
  <2>2. ASSUME \A side \in Sides : said[side] # "" PROVE DeclaredOf(again) = said
    <3>1. \A side \in Sides : (IF said[side] \in Missing THEN None ELSE said[side]) = said[side]
      BY <2>2 DEF Missing
    <3>2. said = [side \in Sides |-> said[side]]
      BY <1>2
    <3> QED
      BY <1>4, <3>1, <3>2
  <2> QED
    BY <2>1, <2>2
<1>8. /\ Identity(s).repository = again.repository /\ Identity(again).repository = again.repository
      /\ TextOf(again.base) = TextOf(s.base) /\ TextOf(again.head) = TextOf(s.head)
      /\ TextOf(again.main) = TextOf(s.main)
  BY <1>3, MissingAssumption DEF Identity, TextOf
<1>9. Identity(again) = Identity(s) <=> DeclaredOf(again) = said /\ s.mergeBase # "NONE"
  <2>1. /\ Identity(again).declared = DeclaredOf(again) /\ Identity(s).declared = said
        /\ ~Identity(again).noUniqueMergeBase
        /\ Identity(s).noUniqueMergeBase <=> s.mergeBase = "NONE"
    BY <1>3 DEF Identity, said
  <2>2. ASSUME DeclaredOf(again) = said, s.mergeBase # "NONE" PROVE Identity(again) = Identity(s)
    <3>1. StaleEvidence(again) = StaleEvidence(s)
      BY <1>6 DEF StaleEvidence, Contradicted
    <3>2. (again.mergeBase = "NONE") = (s.mergeBase = "NONE")
      BY <1>3, <2>2
    <3>3. /\ Identity(again) = [repository |-> Identity(again).repository, number |-> again.number,
                               base |-> TextOf(again.base), head |-> TextOf(again.head),
                               main |-> TextOf(again.main), declared |-> DeclaredOf(again),
                               staleBase |-> StaleBase(again),
                               staleEvidence |-> StaleEvidence(again),
                               gaps |-> IdentityGaps(again),
                               noUniqueMergeBase |-> again.mergeBase = "NONE"]
          /\ Identity(s) = [repository |-> Identity(s).repository, number |-> s.number,
                           base |-> TextOf(s.base), head |-> TextOf(s.head),
                           main |-> TextOf(s.main), declared |-> DeclaredOf(s),
                           staleBase |-> StaleBase(s), staleEvidence |-> StaleEvidence(s),
                           gaps |-> IdentityGaps(s),
                           noUniqueMergeBase |-> s.mergeBase = "NONE"]
      BY DEF Identity
    <3>4. Identity(again).repository = Identity(s).repository /\ again.number = s.number
      BY <1>3, <1>8
    <3> QED
      BY <1>5, <1>8, <2>2, <3>1, <3>2, <3>3, <3>4 DEF said
  <2> QED
    BY <2>1, <2>2
<1> QED
  BY <1>5, <1>6, <1>7, <1>9 DEF again, said, FoundAgain

(* So it is in the instances of the analyzers.                               *)
LEMMA KnowledgeRebuilt ==
  ASSUME NEW s \in K!Snapshot
  PROVE  /\ K!Trusted(K!Rebuilt(K!Identity(s))) <=> K!Trusted(s)
         /\ K!Identity(K!Rebuilt(K!Identity(s))) = K!Identity(s) <=> FoundAgain(s)
<1>1. K!Snapshot = Snapshot
  BY DEF K!Snapshot, Snapshot, K!MaybeText, MaybeText, K!Sides, Sides
<1>2. \A d : /\ K!Identity(d) = Identity(d) /\ K!IdentityGaps(d) = IdentityGaps(d)
             /\ K!StaleEvidence(d) <=> StaleEvidence(d)
             /\ K!Rebuilt(d) = Rebuilt(d)
  BY DEF K!Identity, Identity,
         K!IdentityGaps, IdentityGaps,
         K!IdentityGap, IdentityGap,
         K!StaleEvidence, StaleEvidence,
         K!StaleBase, StaleBase,
         K!DeclaredOf, DeclaredOf,
         K!Contradicted, Contradicted,
         K!Missing, Missing,
         K!TextOf, TextOf,
         K!Sides, Sides,
         K!Rebuilt, Rebuilt,
         K!Nothing, Nothing
<1> QED
  BY <1>1, <1>2, RevisionAgain DEF K!Trusted, Trusted

(* Without a problem every artifact is whole.                                *)
LEMMA NoProblemWhole ==
  ASSUME NEW data, K!Input(data), K!Problems(data) = {}
  PROVE  /\ data.odd = {}
         /\ \A i \in DOMAIN data.artifacts : data.artifacts[i].shape = "whole"
<1>1. K!ArtifactProblems(data.artifacts) = {} /\ data.odd \X {1} = {}
  BY DEF K!Problems
<1>2. data.odd = {}
  <2>1. \A x \in data.odd : <<x, 1>> \in data.odd \X {1}
    OBVIOUS
  <2> QED
    BY <1>1, <2>1
<1>3. ASSUME NEW i \in DOMAIN data.artifacts, data.artifacts[i].shape # "whole" PROVE FALSE
  <2>1. data.artifacts[i] \in K!Artifact
    BY DEF K!Input
  <2>2. data.artifacts[i].shape \in {"no list", "no mapping"}
    BY <1>3, <2>1 DEF K!Artifact
  <2>3. CASE data.artifacts[i].shape = "no list"
    <3>1. <<"SOURCE_REFS_INVALID", i>> \in K!ArtifactProblems(data.artifacts)
      BY <2>3 DEF K!ArtifactProblems, K!ArtifactProblem
    <3> QED
      BY <1>1, <3>1
  <2>4. CASE data.artifacts[i].shape = "no mapping"
    <3>1. <<"KNOWLEDGE_ARTIFACT_INVALID", i>> \in K!ArtifactProblems(data.artifacts)
      BY <2>4 DEF K!ArtifactProblems, K!ArtifactProblem
    <3> QED
      BY <1>1, <3>1
  <2> QED
    BY <2>2, <2>3, <2>4
<1> QED
  BY <1>2, <1>3

(* What the verifier analyses again, field by field.                          *)
LEMMA KnowledgeAgain ==
  ASSUME NEW data, K!Input(data)
  PROVE
    LET r == K!Analyze(data)
        again == K!Neutral(r)
    IN /\ again.snapshot = K!Rebuilt(K!Identity(data.snapshot))
       /\ again.changes = data.changes /\ again.observed = data.observed
       /\ again.scope = data.scope /\ again.complete = data.complete
       /\ again.errors = r.errors /\ again.artifacts = r.artifacts
       /\ K!NormaliseArtifacts(again.artifacts) = r.artifacts
       /\ again.errors \cup K!Problems(again) = r.errors \cup K!ArtifactProblems(r.artifacts)
       /\ K!InventoryComplete(again) <=>
            K!Trusted(data.snapshot) /\ data.complete /\ r.errors = {}
<1> DEFINE r == K!Analyze(data)
           again == K!Neutral(r)
<1>1. /\ r.identity = K!Identity(data.snapshot)
      /\ r.artifacts = K!NormaliseArtifacts(data.artifacts)
      /\ r.changes = data.changes /\ r.observed = data.observed /\ r.scope = data.scope
      /\ r.complete = data.complete
      /\ r.errors = data.errors \cup K!Problems(data)
  BY KnowledgeFields
<1> HIDE DEF r
<1>2. /\ again.snapshot = K!Rebuilt(r.identity) /\ again.artifacts = r.artifacts
      /\ again.changes = r.changes /\ again.observed = r.observed /\ again.scope = r.scope
      /\ again.complete = r.complete /\ again.errors = r.errors /\ again.odd = {}
  BY DEF K!Neutral
<1> HIDE DEF again
<1>3. /\ K!NormaliseArtifacts(r.artifacts) = r.artifacts
      /\ \A k \in DOMAIN r.artifacts : r.artifacts[k].shape = "whole"
  BY <1>1, ArtifactsStay DEF K!Input
<1>4. again.errors \cup K!Problems(again) = r.errors \cup K!ArtifactProblems(r.artifacts)
  <2>1. K!Problems(again) = K!ArtifactProblems(r.artifacts) \cup K!ChangeProblems(data.changes)
    BY <1>1, <1>2 DEF K!Problems
  <2>2. K!ChangeProblems(data.changes) \subseteq r.errors
    BY <1>1 DEF K!Problems
  <2> QED
    BY <1>2, <2>1, <2>2
<1>5. K!InventoryComplete(again) <=> K!Trusted(data.snapshot) /\ data.complete /\ r.errors = {}
  <2>1. K!Trusted(again.snapshot) <=> K!Trusted(data.snapshot)
    BY <1>1, <1>2, KnowledgeRebuilt DEF K!Input
  <2> QED
    BY <1>1, <1>2, <1>3, <2>1 DEF K!InventoryComplete
<1> QED
  BY <1>1, <1>2, <1>3, <1>4, <1>5 DEF again, r

(* When the verifier, which analyses the report again, finds the same: its   *)
(* artifacts are sorted by then, and its errors are those of the report.     *)
LEMMA KnowledgeVerified ==
  ASSUME NEW data, K!Input(data)
  PROVE  LET r == K!Analyze(data) IN
         K!Verify(r) <=> /\ FoundAgain(data.snapshot)
                         /\ K!Problems(data) = {} \/ r.uncovered = {}
                         /\ K!ArtifactProblems(r.artifacts) \subseteq r.errors
<1> DEFINE r == K!Analyze(data)
           again == K!Neutral(r)
           q == K!Analyze(again)
           changed == K!ChangedPaths(data.changes)
           claimed == UNION {K!Claimed(r.artifacts[i], changed) : i \in DOMAIN r.artifacts}
           open == (changed \cap K!Covered(data.scope)) \ claimed
<1>1. /\ again.snapshot = K!Rebuilt(K!Identity(data.snapshot))
      /\ again.changes = data.changes /\ again.observed = data.observed
      /\ again.scope = data.scope /\ again.complete = data.complete
      /\ again.errors = r.errors /\ again.artifacts = r.artifacts
      /\ K!NormaliseArtifacts(again.artifacts) = r.artifacts
      /\ again.errors \cup K!Problems(again) = r.errors \cup K!ArtifactProblems(r.artifacts)
      /\ K!InventoryComplete(again) <=>
           K!Trusted(data.snapshot) /\ data.complete /\ r.errors = {}
  BY KnowledgeAgain
<1>2. /\ r.identity = K!Identity(data.snapshot)
      /\ r.errors = data.errors \cup K!Problems(data)
      /\ r.gaps = K!EvidenceGaps(data, r.errors)
      /\ r.uncovered = IF K!InventoryComplete(data) THEN open ELSE {}
  BY KnowledgeFields
<1>3. /\ q.identity = K!Identity(again.snapshot)
      /\ q.errors = again.errors \cup K!Problems(again)
      /\ q.uncovered = IF K!InventoryComplete(again) THEN open ELSE {}
  <2> HIDE DEF again, r
  <2>1. /\ q.identity = K!Identity(again.snapshot) /\ q.artifacts = K!NormaliseArtifacts(again.artifacts)
        /\ q.errors = again.errors \cup K!Problems(again)
        /\ q.uncovered =
             LET paths == K!ChangedPaths(again.changes)
                 taken == UNION {K!Claimed(q.artifacts[i], paths) : i \in DOMAIN q.artifacts}
             IN IF K!InventoryComplete(again)
                THEN (paths \cap K!Covered(again.scope)) \ taken ELSE {}
    BY KnowledgeFields
  <2> HIDE DEF q
  <2>2. q.artifacts = r.artifacts
    BY <1>1, <2>1
  <2> QED
    BY <1>1, <2>1, <2>2
<1> HIDE DEF open, claimed
<1>4. ASSUME q.identity = r.identity, q.errors = r.errors, q.uncovered = r.uncovered
      PROVE  q = r
  <2>1. /\ K!Trusted(again.snapshot) <=> K!Trusted(data.snapshot)
    BY <1>1, KnowledgeRebuilt DEF K!Input
  <2>2. K!EvidenceGaps(again, again.errors \cup K!Problems(again))
          = K!EvidenceGaps(data, data.errors \cup K!Problems(data))
    BY <1>1, <1>2, <1>3, <1>4, <2>1 DEF K!EvidenceGaps
  <2>3. \A a, doubt : /\ K!Status(a, again, doubt) = K!Status(a, data, doubt)
                      /\ K!Affected(a, again) = K!Affected(a, data)
    <3> HIDE DEF again
    <3>1. \A a : /\ K!Outdated(a, again) = K!Outdated(a, data)
                 /\ K!Unobserved(a, again) = K!Unobserved(a, data)
      BY <1>1 DEF K!Outdated, K!Unobserved
    <3>2. \A a : K!Affected(a, again) = K!Affected(a, data)
      BY <1>1, <3>1 DEF K!Affected
    <3> QED
      BY <3>1, <3>2 DEF K!Status
  <2>4. r.artifacts = K!NormaliseArtifacts(data.artifacts)
    BY KnowledgeFields
  <2> DEFINE doubt == r.gaps \ {"IN_SCOPE_MISSING"} # {}
             relations == [i \in DOMAIN r.artifacts |->
                             [artifact |-> r.artifacts[i],
                              status |-> K!Status(r.artifacts[i], data, doubt),
                              affected |-> K!Affected(r.artifacts[i], data)]]
             answer == [identity |-> r.identity, artifacts |-> r.artifacts,
                        changes |-> data.changes, observed |-> data.observed,
                        scope |-> data.scope, complete |-> data.complete, errors |-> r.errors,
                        relations |-> relations, uncovered |-> r.uncovered, gaps |-> r.gaps,
                        whole |-> r.gaps = {}
                                    /\ \A i \in DOMAIN relations : relations[i].status # "UNKNOWN"]
  <2>5. r = answer
    BY DEF K!Analyze
  <2>6. q = answer
    <3>1. q.gaps = r.gaps
      BY <2>2 DEF K!Analyze
    <3>2. q.artifacts = r.artifacts
      BY <1>1 DEF K!Analyze
    <3>3. q.relations = [i \in DOMAIN q.artifacts |->
                           [artifact |-> q.artifacts[i],
                            status |-> K!Status(q.artifacts[i], again, q.gaps \ {"IN_SCOPE_MISSING"} # {}),
                            affected |-> K!Affected(q.artifacts[i], again)]]
      <4> HIDE DEF again
      <4> QED
        BY KnowledgeFields
    <3>4. q = [identity |-> q.identity, artifacts |-> q.artifacts,
               changes |-> again.changes, observed |-> again.observed,
               scope |-> again.scope, complete |-> again.complete, errors |-> q.errors,
               relations |-> q.relations, uncovered |-> q.uncovered, gaps |-> q.gaps,
               whole |-> q.gaps = {}
                           /\ \A i \in DOMAIN q.relations : q.relations[i].status # "UNKNOWN"]
      <4> HIDE DEF again
      <4> QED
        BY DEF K!Analyze
    <3> HIDE DEF q, again, r
    <3>5. q.relations = relations
      BY <2>3, <3>1, <3>2, <3>3
    <3> HIDE DEF relations
    <3> QED
      BY <1>1, <1>4, <3>1, <3>2, <3>4, <3>5
  <2> QED
    BY <2>5, <2>6
<1>5. K!Verify(r) <=> q = r
  BY DEF K!Verify
<1> HIDE DEF q, again, r
<1>6. q.identity = r.identity <=> FoundAgain(data.snapshot)
  BY <1>1, <1>2, <1>3, KnowledgeRebuilt DEF K!Input
<1>7. q.errors = r.errors <=> K!ArtifactProblems(r.artifacts) \subseteq r.errors
  BY <1>1, <1>3
<1>8. q.uncovered = r.uncovered <=> K!Problems(data) = {} \/ r.uncovered = {}
  <2>1. CASE r.errors = {}
    <3>1. K!Problems(data) = {} /\ data.errors = {}
      BY <1>2, <2>1
    <3>2. K!InventoryComplete(data) <=> K!Trusted(data.snapshot) /\ data.complete
      BY <3>1, NoProblemWhole DEF K!InventoryComplete
    <3> QED
      BY <1>1, <1>2, <1>3, <2>1, <3>1, <3>2
  <2>2. CASE r.errors # {}
    <3>1. q.uncovered = {}
      BY <1>1, <1>3, <2>2
    <3>2. ASSUME K!Problems(data) = {} PROVE r.uncovered = {}
      <4>1. data.errors # {}
        BY <1>2, <2>2, <3>2
      <4>2. ~K!InventoryComplete(data)
        BY <4>1 DEF K!InventoryComplete
      <4> QED
        BY <1>2, <4>2
    <3> QED
      BY <3>1, <3>2
  <2> QED
    BY <2>1, <2>2
<1>9. q = r <=> /\ q.identity = r.identity /\ q.errors = r.errors
                /\ q.uncovered = r.uncovered
  BY <1>4
<1>10. K!Verify(r) <=> /\ FoundAgain(data.snapshot)
                       /\ K!Problems(data) = {} \/ r.uncovered = {}
                       /\ K!ArtifactProblems(r.artifacts) \subseteq r.errors
  BY <1>5, <1>6, <1>7, <1>8, <1>9
<1> QED
  BY <1>10 DEF r

-----------------------------------------------------------------------------
(***************************************************************************)
(* The semantic delta of a guard.                                           *)
(***************************************************************************)

(* What a guard report says follows from its gaps, tightenings, loosenings   *)
(* and unknown reasons.                                                      *)
LEMMA GuardFields ==
  ASSUME NEW data
  PROVE  LET r == G!Analyze(data) IN
           /\ r.whole <=> r.gaps = {} /\ G!UnknownReasons(data) = {}
           /\ r.tightening = G!Tightening(data) /\ r.loosening = G!Loosening(data)
           /\ r.unknown = G!UnknownReasons(data)
           /\ r.classification =
                IF r.gaps # {} \/ r.unknown # {} THEN "UNKNOWN"
                ELSE IF r.tightening # {} /\ r.loosening # {} THEN "MIXED"
                ELSE IF r.tightening # {} THEN "TIGHTENS"
                ELSE IF r.loosening # {} THEN "LOOSENS"
                ELSE "UNCHANGED"
BY DEF G!Analyze

(* Where nothing is added on the way to a guard, it demands no more than the *)
(* other did.                                                                *)
LEMMA NothingAdded ==
  ASSUME NEW from, NEW to, NEW known, G!Added(from, to, known) = {}
  PROVE  /\ \A f \in G!SetField : to.sets[f] \subseteq from.sets[f]
         /\ G!Triggered(to, known) \subseteq G!Triggered(from, known)
<1>1. ASSUME NEW f \in G!SetField, NEW x \in to.sets[f], x \notin from.sets[f] PROVE FALSE
  <2>1. <<f, x>> \in G!Added(from, to, known)
    BY <1>1 DEF G!Added
  <2> QED
    BY <2>1
<1>2. ASSUME NEW x \in G!Triggered(to, known), x \notin G!Triggered(from, known) PROVE FALSE
  <2>1. <<"trigger", x>> \in G!Added(from, to, known)
    BY <1>2 DEF G!Added
  <2> QED
    BY <2>1
<1> QED
  BY <1>1, <1>2

(* b demands what a demands, and no witness is newly of the decision.          *)
Within(a, b, data, decision) ==
  /\ \A f \in G!SetField : a.sets[f] \subseteq b.sets[f]
  /\ G!Triggered(a, data.known) \subseteq G!Triggered(b, data.known)
  /\ \A w \in data.witnesses : w.old = w.new \/ w.new # decision

(* The direction a whole report names is that of the guards and of the       *)
(* witnesses. With no witness of a direction the hashes must agree.          *)
LEMMA DirectionOf ==
  ASSUME NEW data, G!Input(data), G!Analyze(data).whole
  PROVE
    LET classification == G!Analyze(data).classification
        old == data.old.guard
        new == data.new.guard
    IN /\ classification \in {"TIGHTENS", "UNCHANGED"} => Within(old, new, data, "ALLOW")
       /\ classification \in {"LOOSENS", "UNCHANGED"} => Within(new, old, data, "DENY")
       /\ classification = "UNCHANGED" => old.hashes = new.hashes
<1> DEFINE r == G!Analyze(data)
           old == data.old.guard
           new == data.new.guard
<1>1. r.gaps = {} /\ r.unknown = {} /\ G!UnknownReasons(data) = {}
  BY GuardFields
<1>2. /\ r.classification \in {"TIGHTENS", "UNCHANGED"} => G!Loosening(data) = {}
      /\ r.classification \in {"LOOSENS", "UNCHANGED"} => G!Tightening(data) = {}
  BY <1>1, GuardFields
<1>3. ASSUME G!Loosening(data) = {} PROVE Within(old, new, data, "ALLOW")
  <2>1. G!Added(new, old, data.known) = {}
    BY <1>3 DEF G!Loosening
  <2>2. \A w \in data.witnesses : ~(w.old = "DENY" /\ w.new = "ALLOW")
    BY <1>3 DEF G!Loosening
  <2>3. \A w \in data.witnesses : w.old = w.new \/ w.new # "ALLOW"
    BY <2>2 DEF G!Input
  <2> HIDE DEF old, new
  <2> QED
    BY <2>1, <2>3, NothingAdded DEF Within
<1>4. ASSUME G!Tightening(data) = {} PROVE Within(new, old, data, "DENY")
  <2>1. G!Added(old, new, data.known) = {}
    BY <1>4 DEF G!Tightening
  <2>2. \A w \in data.witnesses : ~(w.old = "ALLOW" /\ w.new = "DENY")
    BY <1>4 DEF G!Tightening
  <2>3. \A w \in data.witnesses : w.old = w.new \/ w.new # "DENY"
    BY <2>2 DEF G!Input
  <2> HIDE DEF old, new
  <2> QED
    BY <2>1, <2>3, NothingAdded DEF Within
<1>5. ASSUME Within(old, new, data, "ALLOW"), Within(new, old, data, "DENY")
      PROVE  old.hashes = new.hashes
  <2>1. ~G!Directed(data)
    BY <1>5 DEF G!Directed, G!Input, Within
  <2>2. \A field \in G!HashField : ~G!Changed(data, field)
    <3>1. /\ ~G!Changed(data, "implementation_sha256") /\ ~G!Changed(data, "self_test_sha256")
          /\ ~G!Changed(data, "wording_sha256")
      BY <1>1, <2>1 DEF G!UnknownReasons
    <3> QED
      BY <3>1 DEF G!HashField
  <2> QED
    BY <2>2 DEF G!Changed, G!Input
<1> HIDE DEF r, old, new
<1>6. /\ r.classification \in {"TIGHTENS", "UNCHANGED"} => Within(old, new, data, "ALLOW")
      /\ r.classification \in {"LOOSENS", "UNCHANGED"} => Within(new, old, data, "DENY")
      /\ r.classification = "UNCHANGED" => old.hashes = new.hashes
  BY <1>2, <1>3, <1>4, <1>5
<1> QED
  BY <1>6 DEF r, old, new

(* So it is in the instances of the analyzers.                               *)
LEMMA GuardRebuilt ==
  ASSUME NEW s \in G!Snapshot
  PROVE  /\ G!Trusted(G!Rebuilt(G!Identity(s))) <=> G!Trusted(s)
         /\ G!Identity(G!Rebuilt(G!Identity(s))) = G!Identity(s) <=> FoundAgain(s)
<1>1. G!Snapshot = Snapshot
  BY DEF G!Snapshot, Snapshot, G!MaybeText, MaybeText, G!Sides, Sides
<1>2. \A d : /\ G!Identity(d) = Identity(d) /\ G!IdentityGaps(d) = IdentityGaps(d)
             /\ G!StaleEvidence(d) <=> StaleEvidence(d)
             /\ G!Rebuilt(d) = Rebuilt(d)
  BY DEF G!Identity, Identity,
         G!IdentityGaps, IdentityGaps,
         G!IdentityGap, IdentityGap,
         G!StaleEvidence, StaleEvidence,
         G!StaleBase, StaleBase,
         G!DeclaredOf, DeclaredOf,
         G!Contradicted, Contradicted,
         G!Missing, Missing,
         G!TextOf, TextOf,
         G!Sides, Sides,
         G!Rebuilt, Rebuilt,
         G!Nothing, Nothing
<1> QED
  BY <1>1, <1>2, RevisionAgain DEF G!Trusted, Trusted

(* Analysing again what a guard report keeps gives that report, unless one   *)
(* of its identities is not found again.                                    *)
LEMMA GuardVerified ==
  ASSUME NEW data, G!Input(data)
  PROVE  G!Verify(G!Analyze(data)) <=>
           FoundAgain(data.old.snapshot) /\ FoundAgain(data.new.snapshot)
<1> DEFINE r == G!Analyze(data)
           again == G!Neutral(r)
           s == data.old.snapshot
           t == data.new.snapshot
           errors == data.errors \cup data.odd
<1>0. s \in G!Snapshot /\ t \in G!Snapshot
  BY DEF G!Input
<1>1. /\ again.old.snapshot = G!Rebuilt(G!Identity(s)) /\ again.old.guard = data.old.guard
      /\ again.new.snapshot = G!Rebuilt(G!Identity(t)) /\ again.new.guard = data.new.guard
      /\ again.known = data.known /\ again.witnesses = data.witnesses
      /\ again.complete = data.complete /\ again.errors \cup again.odd = errors
  BY DEF G!Neutral, G!Analyze
<1>2. /\ G!Tightening(again) = G!Tightening(data) /\ G!Loosening(again) = G!Loosening(data)
      /\ G!UnknownReasons(again) = G!UnknownReasons(data)
  BY <1>1 DEF G!Tightening, G!Loosening, G!UnknownReasons, G!Changed, G!Directed
<1>3. G!EvidenceGaps(again, errors) = G!EvidenceGaps(data, errors)
  BY <1>1, <1>0, GuardRebuilt DEF G!EvidenceGaps
<1> HIDE DEF again, r
<1>4. G!Verify(r) <=> G!Analyze(again) = G!Analyze(data)
  BY DEF G!Verify, again, r
<1>5. /\ G!Analyze(again).oldIdentity = G!Identity(again.old.snapshot)
      /\ G!Analyze(again).newIdentity = G!Identity(again.new.snapshot)
      /\ G!Analyze(data).oldIdentity = G!Identity(s)
      /\ G!Analyze(data).newIdentity = G!Identity(t)
  BY DEF G!Analyze
<1>6. ASSUME G!Identity(again.old.snapshot) = G!Identity(s),
             G!Identity(again.new.snapshot) = G!Identity(t)
      PROVE  G!Analyze(again) = G!Analyze(data)
  <2>1. G!EvidenceGaps(again, again.errors \cup again.odd) = G!EvidenceGaps(data, errors)
    BY <1>1, <1>3
  <2> QED
    BY <1>1, <1>2, <1>6, <2>1 DEF G!Analyze
<1>7. G!Analyze(again) = G!Analyze(data) <=>
        /\ G!Identity(again.old.snapshot) = G!Identity(s)
        /\ G!Identity(again.new.snapshot) = G!Identity(t)
  BY <1>5, <1>6
<1> QED
  BY <1>0, <1>1, <1>4, <1>7, GuardRebuilt DEF r

-----------------------------------------------------------------------------
(***************************************************************************)
(* Structured facts.                                                        *)
(***************************************************************************)

(* What a facts report holds, field by field.                                *)
LEMMA FactsFields ==
  ASSUME NEW data
  PROVE  LET r == F!Analyze(data)
             given == r.given
         IN /\ r.identity = F!Identity(data.snapshot) /\ r.detector = data.detector
            /\ r.facts = F!Facts(given) /\ r.completeness = F!Completeness(given)
            /\ r.whole <=> F!Completeness(given) = "COMPLETE"
            /\ r.gaps = F!IdentityGaps(data.snapshot) \cup F!InvalidKinds(given)
                          \cup (IF F!StaleEvidence(data.snapshot)
                                THEN {"stale identity evidence"} ELSE {})
            /\ given.snapshot = data.snapshot /\ given.language = data.language
            /\ given.covered = data.covered /\ given.changed = data.snapshotChanged
            /\ given.requested = data.requested /\ given.supported = data.supported
            /\ given.declared = data.declared
            /\ given.errors = F!CollectionErrors(data)
            /\ given.complete <=> data.complete /\ F!CollectionErrors(data) = {}
            /\ given.observations = {o \in data.observations : o.kind # ""}
BY DEF F!Analyze

(* Where the identity, the language and the collection leave nothing open,     *)
(* every observation has a kind, and is kept.                                *)
LEMMA NothingUnresolved ==
  ASSUME NEW data, NEW given, given = F!Analyze(data).given, F!Unresolved(given) = ""
  PROVE  /\ F!Trusted(data.snapshot)
         /\ F!CollectionErrors(data) = {}
         /\ given.observations = data.observations
         /\ \A o \in data.observations : o.kind # ""
<1>1. /\ given.snapshot = data.snapshot /\ (given.complete => F!CollectionErrors(data) = {})
      /\ given.observations = {o \in data.observations : o.kind # ""}
  BY FactsFields
<1>2. /\ F!IdentityGaps(given.snapshot) = {} /\ ~F!StaleEvidence(given.snapshot)
      /\ given.complete
  BY DEF F!Unresolved
<1>3. F!CollectionErrors(data) = {} /\ F!Trusted(data.snapshot)
  BY <1>1, <1>2 DEF F!Trusted
<1>4. ASSUME NEW o \in data.observations, o.kind = "" PROVE FALSE
  <2>1. "observation has unknown fact_kind" \in F!CollectionErrors(data)
    BY <1>4 DEF F!CollectionErrors
  <2> QED
    BY <1>3, <2>1
<1>5. given.observations = data.observations
  BY <1>1, <1>4
<1> QED
  BY <1>3, <1>4, <1>5

(* The valid observations of a kind are all that were given, unless the kind    *)
(* is reported as invalid.                                                  *)
LEMMA EvidenceIsAll ==
  ASSUME NEW given, NEW kind, kind \notin F!InvalidKinds(given)
  PROVE  F!Evidence(kind, given) = {o \in given.observations : o.kind = kind}
<1>1. \A o \in given.observations : o.kind = kind => F!Valid(o, given.covered)
  BY DEF F!InvalidKinds
<1> QED
  BY <1>1 DEF F!Evidence

(* Of the kinds a detector observes: what a fact says.                        *)
LEMMA FactCases ==
  ASSUME NEW kind, NEW given, kind # F!Related
  PROVE  /\ F!Fact(kind, given).status = "NOT_OBSERVED" =>
              /\ F!Unresolved(given) = "" /\ kind \notin F!InvalidKinds(given)
              /\ F!Evidence(kind, given) = {}
         /\ F!Unresolved(given) = "" /\ kind \notin F!InvalidKinds(given)
              /\ kind \in given.supported
              => F!Fact(kind, given).evidence = F!Evidence(kind, given)
BY DEF F!Fact

(* What the facts say of a kind is all that was observed of it.              *)
LEMMA FactsKept ==
  ASSUME NEW data, NEW kind \in DOMAIN F!Analyze(data).facts \ {F!Related}
  PROVE
    LET r == F!Analyze(data)
        given == {o \in data.observations : o.kind = kind}
    IN /\ r.facts[kind].status = "NOT_OBSERVED" =>
            given = {} /\ \A o \in data.observations : o.kind # ""
       /\ r.whole /\ kind \in data.supported => r.facts[kind].evidence = given
<1> DEFINE r == F!Analyze(data)
           observed == {o \in data.observations : o.kind = kind}
<1>1. /\ r.facts = F!Facts(r.given) /\ r.given.supported = data.supported
      /\ r.whole <=> F!Completeness(r.given) = "COMPLETE"
  BY FactsFields
<1>2. ASSUME F!Unresolved(r.given) = "", kind \notin F!InvalidKinds(r.given)
      PROVE  /\ F!Evidence(kind, r.given) = observed
             /\ \A o \in data.observations : o.kind # ""
  <2>1. /\ r.given.observations = data.observations
        /\ \A o \in data.observations : o.kind # ""
    BY <1>2, NothingUnresolved
  <2> HIDE DEF r
  <2>2. F!Evidence(kind, r.given) = {o \in r.given.observations : o.kind = kind}
    BY <1>2, EvidenceIsAll
  <2> QED
    BY <2>1, <2>2
<1>3. kind # F!Related
  OBVIOUS
<1> HIDE DEF r, observed
<1>4. r.facts[kind] = F!Fact(kind, r.given)
  BY <1>1 DEF F!Facts, r
<1>5. ASSUME r.whole
      PROVE  F!Unresolved(r.given) = "" /\ kind \notin F!InvalidKinds(r.given)
  BY <1>1, <1>5 DEF F!Completeness
<1>6. ASSUME r.facts[kind].status = "NOT_OBSERVED"
      PROVE  observed = {} /\ \A o \in data.observations : o.kind # ""
  <2>1. /\ F!Unresolved(r.given) = "" /\ kind \notin F!InvalidKinds(r.given)
        /\ F!Evidence(kind, r.given) = {}
    BY <1>3, <1>4, <1>6, FactCases
  <2> QED
    BY <1>2, <2>1
<1>7. ASSUME r.whole, kind \in data.supported PROVE r.facts[kind].evidence = observed
  <2>1. F!Unresolved(r.given) = "" /\ kind \notin F!InvalidKinds(r.given)
    BY <1>5, <1>7
  <2>2. F!Fact(kind, r.given).evidence = F!Evidence(kind, r.given)
    BY <1>3, <1>1, <1>7, <2>1, FactCases
  <2> QED
    BY <1>2, <1>4, <2>1, <2>2
<1> QED
  BY <1>6, <1>7 DEF r, observed

(* So it is in the instances of the analyzers.                               *)
LEMMA FactsRebuilt ==
  ASSUME NEW s \in F!Snapshot
  PROVE  /\ F!IdentityGaps(F!Rebuilt(F!Identity(s))) = F!IdentityGaps(s)
         /\ F!StaleEvidence(F!Rebuilt(F!Identity(s))) <=> F!StaleEvidence(s)
         /\ F!Identity(F!Rebuilt(F!Identity(s))) = F!Identity(s) <=> FoundAgain(s)
<1>1. F!Snapshot = Snapshot
  BY DEF F!Snapshot, Snapshot, F!MaybeText, MaybeText, F!Sides, Sides
<1>2. \A d : /\ F!Identity(d) = Identity(d) /\ F!IdentityGaps(d) = IdentityGaps(d)
             /\ F!StaleEvidence(d) <=> StaleEvidence(d)
             /\ F!Rebuilt(d) = Rebuilt(d)
  BY DEF F!Identity, Identity,
         F!IdentityGaps, IdentityGaps,
         F!IdentityGap, IdentityGap,
         F!StaleEvidence, StaleEvidence,
         F!StaleBase, StaleBase,
         F!DeclaredOf, DeclaredOf,
         F!Contradicted, Contradicted,
         F!Missing, Missing,
         F!TextOf, TextOf,
         F!Sides, Sides,
         F!Rebuilt, Rebuilt,
         F!Nothing, Nothing
<1> QED
  BY <1>1, <1>2, RevisionAgain

(* What the verifier classifies again is what was classified.                 *)
LEMMA FactsAgain ==
  ASSUME NEW first, NEW given, first.snapshot \in F!Snapshot,
         given.snapshot = F!Rebuilt(F!Identity(first.snapshot)),
         given.language = first.language, given.covered = first.covered,
         given.changed = first.changed, given.requested = first.requested,
         given.supported = first.supported, given.declared = first.declared,
         given.errors = first.errors, given.observations = first.observations,
         given.complete <=> first.complete
  PROVE  F!Facts(given) = F!Facts(first) /\ F!Completeness(given) = F!Completeness(first)
<1>1. F!Unresolved(given) = F!Unresolved(first)
  <2>1. /\ F!IdentityGaps(given.snapshot) = F!IdentityGaps(first.snapshot)
        /\ F!StaleEvidence(given.snapshot) <=> F!StaleEvidence(first.snapshot)
    BY FactsRebuilt
  <2> QED
    BY <2>1 DEF F!Unresolved
<1>2. F!InvalidKinds(given) = F!InvalidKinds(first)
  BY DEF F!InvalidKinds
<1>3. ASSUME NEW kind PROVE F!Fact(kind, given) = F!Fact(kind, first)
  <2>1. F!Evidence(kind, given) = F!Evidence(kind, first)
    BY DEF F!Evidence
  <2> QED
    BY <1>1, <1>2, <2>1 DEF F!Fact
<1>4. F!Facts(given) = F!Facts(first)
  BY <1>3 DEF F!Facts
<1> QED
  BY <1>1, <1>2, <1>4 DEF F!Completeness

(* Classifying again what a facts report keeps gives that report where its     *)
(* identity is found again, and the verifier asks for a detector version.     *)
LEMMA FactsVerified ==
  ASSUME NEW data, F!Input(data)
  PROVE  F!Verify(F!Analyze(data)) <=> FoundAgain(data.snapshot) /\ data.detector # ""
<1> DEFINE r == F!Analyze(data)
           again == F!Rebuilt(r.identity)
           given == [r.given EXCEPT !.snapshot = again, !.complete = @ /\ r.given.errors = {}]
<1>1. /\ given.snapshot = F!Rebuilt(F!Identity(data.snapshot))
      /\ given.language = r.given.language /\ given.covered = r.given.covered
      /\ given.changed = r.given.changed /\ given.requested = r.given.requested
      /\ given.supported = r.given.supported /\ given.declared = r.given.declared
      /\ given.errors = r.given.errors /\ given.observations = r.given.observations
      /\ given.complete <=> r.given.complete
  BY DEF F!Analyze
<1>2. F!Facts(given) = F!Facts(r.given) /\ F!Completeness(given) = F!Completeness(r.given)
  <2>1. r.given.snapshot = data.snapshot
    BY FactsFields
  <2> HIDE DEF given, r
  <2> QED
    BY <1>1, <2>1, FactsAgain DEF F!Input
<1>3. r.whole => r.gaps = {}
  <2>1. ASSUME r.whole
        PROVE  F!Unresolved(r.given) = "" /\ F!InvalidKinds(r.given) = {}
    <3>1. F!Completeness(r.given) = "COMPLETE"
      BY <2>1, FactsFields
    <3> QED
      BY <3>1 DEF F!Completeness
  <2>2. r.gaps = F!IdentityGaps(data.snapshot) \cup F!InvalidKinds(r.given)
                   \cup (IF F!StaleEvidence(data.snapshot)
                         THEN {"stale identity evidence"} ELSE {})
    BY FactsFields
  <2>3. F!Unresolved(r.given) = "" => F!Trusted(data.snapshot)
    BY NothingUnresolved
  <2> HIDE DEF r
  <2> QED
    BY <2>1, <2>2, <2>3 DEF F!Trusted
<1>4. F!Verify(r) <=>
        /\ F!Identity(again) = r.identity
        /\ r.detector # ""
        /\ r.facts = F!Facts(given)
        /\ r.completeness = F!Completeness(given)
        /\ r.whole <=> F!Completeness(given) = "COMPLETE"
        /\ r.whole => r.gaps = {}
  BY DEF F!Verify
<1>5. /\ r.facts = F!Facts(r.given) /\ r.completeness = F!Completeness(r.given)
      /\ r.whole <=> F!Completeness(r.given) = "COMPLETE"
      /\ r.detector = data.detector /\ r.identity = F!Identity(data.snapshot)
  BY FactsFields
<1>6. F!Identity(again) = r.identity <=> FoundAgain(data.snapshot)
  BY <1>5, FactsRebuilt DEF F!Input
<1> HIDE DEF given, r, again
<1>7. F!Verify(r) <=> FoundAgain(data.snapshot) /\ data.detector # ""
  BY <1>2, <1>3, <1>4, <1>5, <1>6
<1> QED
  BY <1>7 DEF r

-----------------------------------------------------------------------------
(***************************************************************************)
(* Retrieval: what is settled, and what is accepted.                        *)
(***************************************************************************)

(* The sizes of the module instance are those of FiniteSets.                 *)
LEMMA RetrievalCardinality ==
  \A set : R!Cardinality(set) = Cardinality(set)
BY DEF R!Cardinality, Cardinality

(* What a query report holds, field by field.                                *)
LEMMA QueryFields ==
  ASSUME NEW data
  PROVE  LET r == R!Analyze(data) IN
         /\ r.source = data /\ r.kept = R!Kept(data) /\ r.fused = R!Fused(data)
         /\ r.resolution = R!Resolution(data)[1] /\ r.reason = R!Resolution(data)[2]
         /\ r.gaps = R!Gaps(data)
         /\ r.whole => r.resolution \in R!Resolved
BY DEF R!Analyze

(* A query report is accepted when it was settled, or when it found nothing  *)
(* and says so.                                                              *)
LEMMA QueryVerified ==
  ASSUME NEW data
  PROVE  R!Verify(R!Analyze(data)) <=>
           \/ R!Resolution(data)[1] # "INSUFFICIENT_EVIDENCE"
           \/ R!Resolution(data)[2] = "EMPTY_RETRIEVAL_NOT_ABSENCE"
<1> DEFINE r == R!Analyze(data)
<1>1. /\ r.source = data /\ r.resolution = R!Resolution(data)[1]
      /\ r.reason = R!Resolution(data)[2]
  BY QueryFields
<1> HIDE DEF r
<1>2. R!Verify(r) <=> /\ r = R!Analyze(data)
                      /\ r.resolution = "INSUFFICIENT_EVIDENCE"
                           => r.reason = "EMPTY_RETRIEVAL_NOT_ABSENCE"
  BY <1>1 DEF R!Verify
<1> QED
  BY <1>1, <1>2 DEF r

(* A query that is settled, or found nothing, has passed every other test.     *)
LEMMA SettledQuery ==
  ASSUME NEW data,
         \/ R!Resolution(data)[1] # "INSUFFICIENT_EVIDENCE"
         \/ R!Resolution(data)[2] = "EMPTY_RETRIEVAL_NOT_ABSENCE"
  PROVE  LET runs == {data.retrievers[i] : i \in R!Runs(data)} IN
         /\ R!Gaps(data) = {}
         /\ ~(Cardinality({R!Effective(r, data).revision : r \in runs}) > 1)
         /\ \A r \in runs : r.complete /\ ~r.failed
<1> DEFINE gaps == R!Gaps(data)
           kept == R!Kept(data)
           runs == {data.retrievers[i] : i \in R!Runs(data)}
           revisions == {R!Effective(r, data).revision : r \in runs}
           several == R!Cardinality(revisions) > 1
           result == R!Resolution(data)
<1>1. \/ result[1] # "INSUFFICIENT_EVIDENCE"
      \/ result[2] = "EMPTY_RETRIEVAL_NOT_ABSENCE"
  OBVIOUS
<1>2. ~several
  <2> SUFFICES ASSUME several PROVE FALSE
    OBVIOUS
  <2>1. \E reason \in {"INVALID_REVISION_IDENTITY", "STALE_REVISION_EVIDENCE", "QUERY_ID_MISSING",
                       "QUERY_DIGEST_MISSING", "RETRIEVER_REVISION_MISMATCH"} :
          result = <<"INSUFFICIENT_EVIDENCE", reason>>
    BY DEF R!Resolution
  <2> HIDE DEF result
  <2> QED
    BY <1>1, <2>1
<1>3. gaps = {}
  <2> SUFFICES ASSUME gaps # {} PROVE FALSE
    OBVIOUS
  <2>1. \E reason \in {"INVALID_REVISION_IDENTITY", "STALE_REVISION_EVIDENCE", "QUERY_ID_MISSING",
                       "QUERY_DIGEST_MISSING", "RETRIEVER_REVISION_MISMATCH",
                       "RETRIEVER_INDEX_MISMATCH", "RETRIEVER_ID_COLLISION", "NO_RETRIEVERS",
                       "CANDIDATE_RANK_INVALID", "CANDIDATE_DUPLICATE", "RETRIEVER_INCOMPLETE",
                       "RETRIEVER_ERROR", "EVIDENCE_INCOMPLETE"} :
          result = <<"INSUFFICIENT_EVIDENCE", reason>>
    BY DEF R!Resolution
  <2> HIDE DEF result
  <2> QED
    BY <1>1, <2>1
<1>4. ~(\E r \in runs : ~r.complete) /\ ~(\E r \in runs : r.failed)
  <2> SUFFICES ASSUME (\E r \in runs : ~r.complete) \/ (\E r \in runs : r.failed) PROVE FALSE
    OBVIOUS
  <2>1. \E reason \in {"INVALID_REVISION_IDENTITY", "STALE_REVISION_EVIDENCE", "QUERY_ID_MISSING",
                       "QUERY_DIGEST_MISSING", "RETRIEVER_REVISION_MISMATCH",
                       "RETRIEVER_INDEX_MISMATCH", "RETRIEVER_ID_COLLISION", "NO_RETRIEVERS",
                       "CANDIDATE_RANK_INVALID", "CANDIDATE_DUPLICATE", "RETRIEVER_INCOMPLETE",
                       "RETRIEVER_ERROR", "EVIDENCE_INCOMPLETE"} :
          result = <<"INSUFFICIENT_EVIDENCE", reason>>
    BY DEF R!Resolution
  <2> HIDE DEF result
  <2> QED
    BY <1>1, <2>1
<1>5. ~(Cardinality(revisions) > 1)
  <2> HIDE DEF revisions
  <2> QED
    BY <1>2, RetrievalCardinality
<1> QED
  BY <1>3, <1>4, <1>5

(* Such a query rests on all the retrievers of the input.                     *)
LEMMA SettledRetrievers ==
  ASSUME NEW data, data.retrievers \in Seq(R!Retriever),
         \/ R!Resolution(data)[1] # "INSUFFICIENT_EVIDENCE"
         \/ R!Resolution(data)[2] = "EMPTY_RETRIEVAL_NOT_ABSENCE"
  PROVE  /\ R!Runs(data) = DOMAIN data.retrievers
         /\ \A i, j \in DOMAIN data.retrievers :
              LET r == data.retrievers[i]
                  s == data.retrievers[j] IN
                /\ r.complete /\ ~r.failed
                /\ i # j => r.id # s.id
                /\ R!Effective(r, data).revision = R!Effective(s, data).revision
<1> DEFINE runs == {data.retrievers[i] : i \in R!Runs(data)}
           revision == [i \in DOMAIN data.retrievers |->
                          R!Effective(data.retrievers[i], data).revision]
<1>1. /\ R!Gaps(data) = {}
      /\ ~(Cardinality({R!Effective(r, data).revision : r \in runs}) > 1)
      /\ \A r \in runs : r.complete /\ ~r.failed
  BY SettledQuery
<1>2. \A i \in DOMAIN data.retrievers : R!RunProblem(i, data) = ""
  <2> SUFFICES ASSUME NEW i \in DOMAIN data.retrievers, R!RunProblem(i, data) # "" PROVE FALSE
    OBVIOUS
  <2>1. R!RunProblem(i, data) \in {R!RunProblem(k, data) : k \in DOMAIN data.retrievers} \ {""}
    OBVIOUS
  <2>2. R!RunProblem(i, data) \in R!Gaps(data)
    BY <2>1 DEF R!Gaps
  <2> QED
    BY <1>1, <2>2
<1>3. R!Runs(data) = DOMAIN data.retrievers
  BY <1>2 DEF R!Runs
<1>4. \A i \in DOMAIN data.retrievers :
        R!Identified(data.retrievers[i], data) /\ ~R!Collides(i, data)
  BY <1>2 DEF R!RunProblem
<1>5. ASSUME NEW i \in DOMAIN data.retrievers, NEW j \in DOMAIN data.retrievers, j < i
      PROVE  data.retrievers[i].id # data.retrievers[j].id
  <2>1. j \in 1 .. i - 1
    BY <1>5
  <2> QED
    BY <1>4, <2>1 DEF R!Collides
<1>6. ASSUME NEW i \in DOMAIN data.retrievers, NEW j \in DOMAIN data.retrievers, i # j
      PROVE  data.retrievers[i].id # data.retrievers[j].id
  <2>1. i < j \/ j < i
    BY <1>6
  <2> QED
    BY <1>5, <2>1
<1>7. {R!Effective(r, data).revision : r \in runs} = {revision[i] : i \in DOMAIN data.retrievers}
  BY <1>3
<1>8. IsFiniteSet(DOMAIN data.retrievers)
  <2>1. Len(data.retrievers) \in Nat /\ DOMAIN data.retrievers = 1 .. Len(data.retrievers)
    OBVIOUS
  <2> QED
    BY <2>1, FS_Interval
<1>9. \A i, j \in DOMAIN data.retrievers : revision[i] = revision[j]
  <2> SUFFICES ASSUME NEW i \in DOMAIN data.retrievers, NEW j \in DOMAIN data.retrievers,
                      revision[i] # revision[j]
               PROVE  FALSE
    OBVIOUS
  <2> DEFINE revisions == {revision[k] : k \in DOMAIN data.retrievers}
  <2>1. IsFiniteSet(revisions)
    <3>1. DOMAIN revision = DOMAIN data.retrievers
      OBVIOUS
    <3> HIDE DEF revision
    <3> QED
      BY <1>8, <3>1, ImageFinite
  <2>2. ~(Cardinality(revisions) > 1)
    BY <1>1, <1>7
  <2>3. revision[i] \in revisions /\ revision[j] \in revisions
    OBVIOUS
  <2> HIDE DEF revisions
  <2>4. Cardinality(revisions) >= 2 /\ Cardinality(revisions) \in Nat
    BY <2>1, <2>3, SomeTwo, FS_CardinalityType
  <2> QED
    BY <2>2, <2>4
<1>10. \A i \in DOMAIN data.retrievers :
         data.retrievers[i].complete /\ ~data.retrievers[i].failed
  BY <1>1, <1>3
<1> QED
  BY <1>3, <1>6, <1>9, <1>10

(* A context that was normalised is normal, and has no gap.                  *)
LEMMA ContextNormal ==
  ASSUME NEW context, context.weights \in [DOMAIN context.weights -> Nat]
  PROVE  LET normal == R!NormaliseContext(context) IN
         /\ R!NormaliseContext(normal) = normal
         /\ R!ContextGaps(normal) = {}
<1> DEFINE role == IF context.role = "" THEN "general_localization" ELSE context.role
           policy == IF context.policy = "" THEN "rrf_k60_uniform" ELSE context.policy
           given == {id \in DOMAIN context.weights : context.weights[id] # 0}
           weights == IF policy = "rrf_k60_uniform" THEN <<>>
                      ELSE IF given = {} THEN R!DefaultWeights(role)
                      ELSE [id \in given |-> context.weights[id]]
           normal == R!NormaliseContext(context)
<1>1. normal = [role |-> role, policy |-> policy, shadow |-> context.shadow, weights |-> weights]
  BY DEF R!NormaliseContext
<1>2. role # "" /\ policy # ""
  OBVIOUS
<1>3. /\ weights = [id \in DOMAIN weights |-> weights[id]]
      /\ \A id \in DOMAIN weights : weights[id] # 0
      /\ policy = "rrf_k60_uniform" <=> DOMAIN weights = {}
  <2>1. CASE policy = "rrf_k60_uniform"
    <3>1. weights = <<>>
      BY <2>1
    <3>2. DOMAIN <<>> = {} /\ <<>> = [id \in {} |-> <<>>[id]]
      OBVIOUS
    <3> HIDE DEF weights, policy
    <3> QED
      BY <2>1, <3>1, <3>2
  <2>2. CASE policy # "rrf_k60_uniform" /\ given = {}
    <3>1. weights = R!DefaultWeights(role)
      BY <2>2
    <3> HIDE DEF weights, policy, role
    <3> QED
      BY <2>2, <3>1 DEF R!DefaultWeights
  <2>3. CASE policy # "rrf_k60_uniform" /\ given # {}
    <3>1. weights = [id \in given |-> context.weights[id]]
      BY <2>3
    <3>2. \A id \in given : context.weights[id] # 0
      OBVIOUS
    <3> HIDE DEF weights, policy, given
    <3> QED
      BY <2>3, <3>1, <3>2
  <2> QED
    BY <2>1, <2>2, <2>3
<1> HIDE DEF role, policy, given, weights, normal
<1>4. R!ContextGaps(normal) = {}
  BY <1>1, <1>2, <1>3 DEF R!ContextGaps
<1>5. {id \in DOMAIN normal.weights : normal.weights[id] # 0} = DOMAIN weights
  BY <1>1, <1>3
<1>6. R!NormaliseContext(normal) =
        [role |-> role, policy |-> policy, shadow |-> context.shadow,
         weights |-> IF policy = "rrf_k60_uniform" THEN <<>>
                     ELSE IF DOMAIN weights = {} THEN R!DefaultWeights(role)
                     ELSE [id \in DOMAIN weights |-> weights[id]]]
  BY <1>1, <1>2, <1>5 DEF R!NormaliseContext
<1>7. (IF policy = "rrf_k60_uniform" THEN <<>>
       ELSE IF DOMAIN weights = {} THEN R!DefaultWeights(role)
       ELSE [id \in DOMAIN weights |-> weights[id]]) = weights
  BY <1>3 DEF weights
<1>8. R!NormaliseContext(normal) = normal
  BY <1>1, <1>6, <1>7
<1> QED
  BY <1>4, <1>8 DEF normal

(* Nothing but the order looks at the context of the task.                    *)
LEMMA ContextApart ==
  ASSUME NEW data, NEW other, other.snapshot = data.snapshot, other.query = data.query,
         other.digest = data.digest, other.index = data.index,
         other.indexRevision = data.indexRevision, other.retrievers = data.retrievers,
         other.required = data.required, other.complete = data.complete,
         other.errors = data.errors, other.odd = data.odd
  PROVE  /\ R!Runs(other) = R!Runs(data) /\ R!Gaps(other) = R!Gaps(data)
         /\ \A weights : R!WeightedOrder(other, weights) = R!WeightedOrder(data, weights)
<1>1. \A r : R!Effective(r, other) = R!Effective(r, data)
             /\ (R!Identified(r, other) <=> R!Identified(r, data))
  BY DEF R!Effective, R!Identified, R!Declared
<1>2. \A i : R!RunProblem(i, other) = R!RunProblem(i, data)
  <2>1. \A i : R!Collides(i, other) <=> R!Collides(i, data)
    BY <1>1 DEF R!Collides
  <2> QED
    BY <1>1, <2>1 DEF R!RunProblem, R!Declared
<1>3. R!Runs(other) = R!Runs(data)
  BY <1>2 DEF R!Runs
<1>4. R!Kept(other) = R!Kept(data)
  BY <1>3 DEF R!Kept
<1>5. R!Gaps(other) = R!Gaps(data)
  <2>1. {R!RunProblem(i, other) : i \in DOMAIN other.retrievers}
          = {R!RunProblem(i, data) : i \in DOMAIN data.retrievers}
    BY <1>2
  <2> DEFINE problems(d) ==
               UNION {LET cs == d.retrievers[i].candidates IN
                        {R!CandidateProblem(j, cs) : j \in DOMAIN cs} : i \in R!Runs(d)}
             runs(d) == {R!RunProblem(i, d) : i \in DOMAIN d.retrievers}
             rest(d) ==
               {k \in {"stale identity evidence", "query_id missing or invalid",
                       "query_digest missing or invalid",
                       "required_candidates must be a positive int", "collection_incomplete"} :
                  \/ k = "stale identity evidence" /\ R!StaleEvidence(d.snapshot)
                  \/ k = "query_id missing or invalid" /\ d.query = ""
                  \/ k = "query_digest missing or invalid" /\ d.digest = ""
                  \/ k = "required_candidates must be a positive int" /\ d.required = 0
                  \/ k = "collection_incomplete" /\ ~d.complete}
  <2>2. problems(other) = problems(data)
    BY <1>3
  <2>3. rest(other) = rest(data)
    OBVIOUS
  <2>4. ASSUME NEW d
        PROVE  R!Gaps(d) = R!IdentityGaps(d.snapshot) \cup d.errors \cup d.odd
                             \cup (runs(d) \ {""}) \cup (problems(d) \ {""}) \cup rest(d)
    BY Zenon DEF R!Gaps
  <2> HIDE DEF problems, runs, rest
  <2>5. runs(other) = runs(data)
    BY <2>1 DEF runs
  <2> QED
    BY <2>2, <2>3, <2>4, <2>5
<1>6. R!Required(other) = R!Required(data)
  BY DEF R!Required
<1>7. \A weights : R!WeightedOrder(other, weights) = R!WeightedOrder(data, weights)
  BY <1>4, <1>6 DEF R!WeightedOrder
<1> QED
  BY <1>3, <1>5, <1>7

(* What a task report holds, field by field.                                 *)
LEMMA TaskFields ==
  ASSUME NEW data
  PROVE  LET r == R!AnalyzeTask(data)
             context == R!NormaliseContext(data.context)
         IN r = [query |-> R!Analyze(data), context |-> context,
                 order |-> IF context.policy = "rrf_k60_weighted"
                           THEN R!WeightedOrder(data, context.weights) ELSE <<>>,
                 missing |-> DOMAIN context.weights \ {data.retrievers[i].id : i \in R!Runs(data)},
                 gaps |-> R!Gaps(data) \cup R!ContextGaps(data.context)
                            \cup (IF context.role = "test_selection" /\ ~context.shadow
                                  THEN {"test_selection requires shadow_mode"} ELSE {})]
BY DEF R!AnalyzeTask

(* A whole task is accepted when its context has no gap, and no other        *)
(* context is ever accepted.                                                 *)
LEMMA TaskVerified ==
  ASSUME NEW data, R!Input(data)
  PROVE  LET r == R!AnalyzeTask(data) IN
         /\ r.query.whole /\ R!ContextGaps(data.context) = {} => R!VerifyTask(r)
         /\ R!VerifyTask(r) => R!ContextGaps(data.context) = {}
<1> DEFINE r == R!AnalyzeTask(data)
           context == R!NormaliseContext(data.context)
           other == [data EXCEPT !.context = context]
           q == R!AnalyzeTask(other)
           order == IF context.policy = "rrf_k60_weighted"
                    THEN R!WeightedOrder(data, context.weights) ELSE <<>>
           missing == DOMAIN context.weights \ {data.retrievers[i].id : i \in R!Runs(data)}
           late == IF context.role = "test_selection" /\ ~context.shadow
                   THEN {"test_selection requires shadow_mode"} ELSE {}
           gaps == R!Gaps(data)
           missed == R!ContextGaps(data.context)
           query == R!Analyze(data)
<1>1. r = [query |-> query, context |-> context, order |-> order, missing |-> missing,
           gaps |-> gaps \cup missed \cup late]
  BY TaskFields
<1>2. /\ R!NormaliseContext(context) = context /\ R!ContextGaps(context) = {}
  BY ContextNormal DEF R!Input
<1>3. /\ other.snapshot = data.snapshot /\ other.query = data.query
      /\ other.digest = data.digest /\ other.index = data.index
      /\ other.indexRevision = data.indexRevision /\ other.retrievers = data.retrievers
      /\ other.required = data.required /\ other.complete = data.complete
      /\ other.errors = data.errors /\ other.odd = data.odd /\ other.context = context
  <2> HIDE DEF context
  <2> QED
    BY DEF R!Input
<1> HIDE DEF other, context
<1>4. /\ R!Runs(other) = R!Runs(data) /\ R!Gaps(other) = gaps
      /\ \A weights : R!WeightedOrder(other, weights) = R!WeightedOrder(data, weights)
  BY <1>3, ContextApart
<1>5. q = [query |-> R!Analyze(other), context |-> context, order |-> order,
           missing |-> missing, gaps |-> gaps \cup late]
  <2>1. q = [query |-> R!Analyze(other), context |-> R!NormaliseContext(other.context),
             order |-> IF R!NormaliseContext(other.context).policy = "rrf_k60_weighted"
                       THEN R!WeightedOrder(other, R!NormaliseContext(other.context).weights)
                       ELSE <<>>,
             missing |-> DOMAIN R!NormaliseContext(other.context).weights
                           \ {other.retrievers[i].id : i \in R!Runs(other)},
             gaps |-> R!Gaps(other) \cup R!ContextGaps(other.context)
                        \cup (IF R!NormaliseContext(other.context).role = "test_selection"
                                   /\ ~R!NormaliseContext(other.context).shadow
                              THEN {"test_selection requires shadow_mode"} ELSE {})]
    BY TaskFields
  <2>2. {other.retrievers[i].id : i \in R!Runs(other)}
          = {data.retrievers[i].id : i \in R!Runs(data)}
    BY <1>3, <1>4
  <2> QED
    BY <1>2, <1>3, <1>4, <2>1, <2>2
<1>6. query.source = data
  BY QueryFields
<1> HIDE DEF order, missing, late, gaps, missed, query, q, r
<1>7. /\ r.query = query /\ r.context = context
      /\ [q EXCEPT !.query = r.query] = r <=> gaps \cup late = gaps \cup missed \cup late
  <2>1. [q EXCEPT !.query = r.query] =
          [query |-> query, context |-> context, order |-> order, missing |-> missing,
           gaps |-> gaps \cup late]
    BY <1>1, <1>5
  <2> QED
    BY <1>1, <2>1
<1>8. R!VerifyTask(r) <=> R!Verify(query) /\ gaps \cup late = gaps \cup missed \cup late
  <2>1. [r.query.source EXCEPT !.context = r.context] = other
    BY <1>6, <1>7 DEF other
  <2>2. R!AnalyzeTask([r.query.source EXCEPT !.context = r.context]) = q
    BY <2>1 DEF q
  <2>3. R!VerifyTask(r) <=> /\ R!Verify(r.query)
                            /\ R!ContextGaps(r.context) = {}
                            /\ R!NormaliseContext(r.context) = r.context
                            /\ [q EXCEPT !.query = r.query] = r
    BY <2>2 DEF R!VerifyTask
  <2> QED
    BY <1>2, <1>7, <2>3
<1>9. query.whole => R!Verify(query)
  <2>1. query.whole => R!Resolution(data)[1] # "INSUFFICIENT_EVIDENCE"
    BY QueryFields DEF R!Resolved, query
  <2> QED
    BY <2>1, QueryVerified DEF query
<1>10. R!Verify(query) => gaps = {}
  BY QueryVerified, SettledQuery DEF query, gaps
<1>11. missed \cap late = {}
  BY DEF missed, late, R!ContextGaps
<1>12. /\ r.query.whole /\ missed = {} => R!VerifyTask(r)
       /\ R!VerifyTask(r) => missed = {}
  BY <1>7, <1>8, <1>9, <1>10, <1>11
<1> QED
  BY <1>12 DEF r, missed

-----------------------------------------------------------------------------
(***************************************************************************)
(* Retrieval: the order of the candidates, and its bound.                   *)
(***************************************************************************)

(* The sort of the module instance is the sort of Ordering.                  *)
LEMMA RetrievalOrder ==
  /\ \A set, before : R!InOrder(set, before) = InOrder(set, before)
  /\ \A x, set, before : R!Place(x, set, before) = Place(x, set, before)
BY DEF R!InOrder, InOrder, R!Place, Place, R!Cardinality, Cardinality

(* The values of a recursion over the first n numbers.                        *)
Recursion(f, n, set, start, step) ==
  /\ f \in [0 .. n -> set]
  /\ f[0] = start
  /\ \A i \in 1 .. n : f[i] = step[i][f[i - 1]]

(* Such a function exists.                                                   *)
LEMMA RecursionExists ==
  ASSUME NEW n \in Nat, NEW set, NEW start \in set, NEW step \in [1 .. n -> [set -> set]]
  PROVE  \E f : Recursion(f, n, set, start, step)
<1> USE DEF Recursion
<1> DEFINE is(m, f) == Recursion(f, m, set, start, step)
           bad == {m \in 0 .. n : ~\E f : is(m, f)}
<1>1. ASSUME bad # {} PROVE FALSE
  <2>1. PICK m \in bad : \A k \in bad : m <= k
    <3>1. bad \subseteq Nat
      OBVIOUS
    <3> HIDE DEF bad
    <3> QED
      BY <1>1, <3>1, LeastExists
  <2>2. m \in 0 .. n /\ ~\E f : is(m, f)
    BY <2>1
  <2>3. CASE m = 0
    <3> DEFINE first == [i \in 0 .. 0 |-> start]
    <3>1. is(0, first)
      OBVIOUS
    <3> QED
      BY <2>2, <2>3, <3>1
  <2>4. CASE m # 0
    <3>1. m - 1 \in 0 .. n
      BY <2>2, <2>4
    <3>2. PICK f : is(m - 1, f)
      <4>1. m - 1 \notin bad
        <5> HIDE DEF bad
        <5> QED
          BY <2>1, <2>2, <3>1
      <4> HIDE DEF is
      <4> QED
        BY <3>1, <4>1
    <3> DEFINE next == [i \in 0 .. m |-> IF i = m THEN step[m][f[m - 1]] ELSE f[i]]
    <3>3. next \in [0 .. m -> set]
      <4>1. f[m - 1] \in set /\ step[m] \in [set -> set]
        BY <2>2, <2>4, <3>2
      <4>2. ASSUME NEW i \in 0 .. m PROVE next[i] \in set
        BY <2>2, <2>4, <3>2, <4>1
      <4> QED
        BY <4>2
    <3>4. next[0] = start
      BY <2>2, <2>4, <3>2
    <3>5. ASSUME NEW i \in 1 .. m
          PROVE  next[i] = step[i][next[i - 1]]
      <4>1. CASE i = m
        <5>1. m - 1 \in 0 .. m /\ m - 1 # m /\ next[m - 1] = f[m - 1]
          BY <2>2, <2>4
        <5> QED
          BY <2>4, <4>1, <5>1
      <4>2. CASE i # m
        <5>1. i \in 1 .. m - 1 /\ i - 1 # m /\ i - 1 \in 0 .. m
          BY <2>2, <4>2
        <5>2. f[i] = step[i][f[i - 1]]
          BY <3>2, <5>1
        <5> QED
          BY <4>2, <5>1, <5>2
      <4> QED
        BY <4>1, <4>2
    <3>6. is(m, next)
      BY <3>3, <3>4, <3>5
    <3> QED
      BY <2>2, <3>6
  <2> QED
    BY <2>3, <2>4
<1>2. n \notin bad
  <2> HIDE DEF bad
  <2> QED
    BY <1>1
<1>3. \E f : is(n, f)
  <2> HIDE DEF is
  <2> QED
    BY <1>2
<1> QED
  BY <1>3

(* A recursive sum exists, and is an integer.                                *)
LEMMA SumExists ==
  ASSUME NEW n \in Nat, NEW share, \A i \in 1 .. n : share[i] \in Int
  PROVE  \E sum \in [0 .. n -> Int] :
           sum = [i \in 0 .. n |-> IF i = 0 THEN 0 ELSE sum[i - 1] + share[i]]
<1> DEFINE step == [i \in 1 .. n |-> [s \in Int |-> s + share[i]]]
<1>1. step \in [1 .. n -> [Int -> Int]] /\ 0 \in Int
  OBVIOUS
<1>2. \A i \in 1 .. n, s \in Int : step[i][s] = s + share[i]
  OBVIOUS
<1> HIDE DEF step
<1>3. PICK sum : Recursion(sum, n, Int, 0, step)
  BY <1>1, RecursionExists
<1>4. /\ sum \in [0 .. n -> Int]
      /\ sum[0] = 0 /\ \A i \in 1 .. n : sum[i] = step[i][sum[i - 1]]
  BY <1>3 DEF Recursion
<1>5. ASSUME NEW i \in 0 .. n
      PROVE  sum[i] = IF i = 0 THEN 0 ELSE sum[i - 1] + share[i]
  <2>1. CASE i = 0
    BY <1>4, <2>1
  <2>2. CASE i # 0
    <3>1. i \in 1 .. n /\ i - 1 \in 0 .. n /\ sum[i - 1] \in Int
      BY <1>4, <2>2
    <3>2. sum[i] = step[i][sum[i - 1]]
      BY <1>4, <3>1
    <3> QED
      BY <1>2, <2>2, <3>1, <3>2
  <2> QED
    BY <2>1, <2>2
<1>6. sum = [i \in 0 .. n |-> sum[i]]
  BY <1>4
<1> QED
  BY <1>4, <1>5, <1>6

(* Such a sum is an integer.                                                 *)
LEMMA SumType ==
  ASSUME NEW n \in Nat, NEW share, \A i \in 1 .. n : share[i] \in Int,
         NEW sum, sum = [i \in 0 .. n |-> IF i = 0 THEN 0 ELSE sum[i - 1] + share[i]]
  PROVE  sum[n] \in Int
<1> DEFINE bad == {m \in 0 .. n : sum[m] \notin Int}
<1>1. ASSUME bad # {} PROVE FALSE
  <2>1. PICK m \in bad : \A k \in bad : m <= k
    <3>1. bad \subseteq Nat
      OBVIOUS
    <3> HIDE DEF bad
    <3> QED
      BY <1>1, <3>1, LeastExists
  <2>2. m \in 0 .. n /\ sum[m] \notin Int
    BY <2>1
  <2>3. sum[m] = IF m = 0 THEN 0 ELSE sum[m - 1] + share[m]
    BY <2>2
  <2>4. m # 0 /\ m - 1 \in 0 .. n
    BY <2>2, <2>3
  <2>5. sum[m - 1] \in Int
    BY <2>1, <2>2, <2>4
  <2> QED
    BY <2>2, <2>3, <2>4, <2>5
<1> QED
  BY <1>1

(* The kept candidates are of the runs and the weights numbers.               *)
KeptOf(kept, weight) ==
  /\ IsFiniteSet(kept) /\ weight \in Seq(Nat)
  /\ \A c \in kept : c.run \in DOMAIN weight /\ c.ref \in Nat /\ c.rank \in Nat

(* The score of a ref is an integer: two of them can be compared.            *)
LEMMA ScoreType ==
  ASSUME NEW kept, NEW weight, KeptOf(kept, weight), NEW ref
  PROVE  R!Score(ref, kept, weight) \in Int
<1> DEFINE named(i) == {c \in kept : c.run = i /\ c.ref = ref}
           share(i) == IF named(i) = {} THEN 0
                       ELSE R!Share(CHOOSE c \in named(i) : TRUE, weight[i])
           n == Len(weight)
           shares == [i \in 1 .. n |-> share(i)]
           sum == CHOOSE f : f = [i \in 0 .. n |-> IF i = 0 THEN 0 ELSE f[i - 1] + share(i)]
<1>1. n \in Nat /\ \A i \in 1 .. n : weight[i] \in Nat
  BY DEF KeptOf
<1>2. ASSUME NEW i \in 1 .. n PROVE share(i) \in Int
  <2>1. CASE named(i) = {}
    BY <2>1
  <2>2. CASE named(i) # {}
    <3> DEFINE c == CHOOSE d \in named(i) : TRUE
    <3>1. c \in named(i)
      BY <2>2
    <3>2. c \in kept
      BY <3>1
    <3> HIDE DEF c, named
    <3>3. c.rank \in Nat /\ weight[i] \in Nat
      BY <1>1, <3>2 DEF KeptOf
    <3>4. (61 * 62 * 63) \div (60 + c.rank) \in Int
      BY <3>3
    <3>5. R!Share(c, weight[i]) \in Int
      BY <3>3, <3>4 DEF R!Share
    <3> QED
      BY <2>2, <3>5 DEF c
  <2> QED
    BY <2>1, <2>2
<1>3. R!Score(ref, kept, weight) = sum[n]
  BY DEF R!Score
<1> HIDE DEF share
<1>4. \A i \in 1 .. n : shares[i] \in Int /\ shares[i] = share(i)
  BY <1>2
<1> HIDE DEF shares, n
<1>5. ASSUME NEW f
      PROVE  [i \in 0 .. n |-> IF i = 0 THEN 0 ELSE f[i - 1] + share(i)]
               = [i \in 0 .. n |-> IF i = 0 THEN 0 ELSE f[i - 1] + shares[i]]
  BY <1>1, <1>4
<1>6. PICK f : f = [i \in 0 .. n |-> IF i = 0 THEN 0 ELSE f[i - 1] + shares[i]]
  BY <1>1, <1>4, SumExists
<1>7. f = [i \in 0 .. n |-> IF i = 0 THEN 0 ELSE f[i - 1] + share(i)]
  BY <1>5, <1>6
<1>8. sum = [i \in 0 .. n |-> IF i = 0 THEN 0 ELSE sum[i - 1] + share(i)]
  BY <1>7
<1> HIDE DEF sum
<1>9. sum = [i \in 0 .. n |-> IF i = 0 THEN 0 ELSE sum[i - 1] + shares[i]]
  BY <1>5, <1>8
<1>10. sum[n] \in Int
  BY <1>1, <1>4, <1>9, SumType
<1> QED
  BY <1>3, <1>10

(* The order of the refs: those of first first, the others by their score.     *)
LEMMA RefsOrdered ==
  ASSUME NEW kept, NEW weight, KeptOf(kept, weight), NEW first
  PROVE  LET before == R!Before(kept, weight, first) IN
         /\ Strict(R!Refs(kept), before)
         /\ \A a, b \in R!Refs(kept) : <<a, b>> \in before =>
              /\ b \in first => a \in first
              /\ (a \in first <=> b \in first) =>
                   R!Score(a, kept, weight) >= R!Score(b, kept, weight)
         /\ \A a, b \in R!Refs(kept) : a \in first /\ b \notin first => <<a, b>> \in before
<1> DEFINE refs == R!Refs(kept)
           score == [ref \in refs |-> R!Score(ref, kept, weight)]
           before == R!Before(kept, weight, first)
           less(a, b) == IF (a \in first) # (b \in first) THEN a \in first
                         ELSE score[a] > score[b] \/ (score[a] = score[b] /\ a < b)
<1>1. \A a, b \in refs : <<a, b>> \in before <=> less(a, b)
  BY DEF R!Before
<1>2. \A a \in refs : a \in Nat /\ score[a] \in Int /\ score[a] = R!Score(a, kept, weight)
  <2>1. \A a \in refs : a \in Nat
    BY DEF R!Refs, KeptOf
  <2> HIDE DEF refs
  <2> QED
    BY <2>1, ScoreType
<1> HIDE DEF refs, score, before
<1>3. \A a, b \in refs : less(a, b) => ~less(b, a)
  BY <1>2
<1>4. \A a, b \in refs : a = b \/ less(a, b) \/ less(b, a)
  BY <1>2
<1>5. \A a, b, c \in refs : less(a, b) /\ less(b, c) => less(a, c)
  BY <1>2
<1>6. \A a, b \in refs : less(a, b) => /\ b \in first => a \in first
                                       /\ (a \in first <=> b \in first) => score[a] >= score[b]
  BY <1>2
<1>7. \A a, b \in refs : a \in first /\ b \notin first => less(a, b)
  OBVIOUS
<1> HIDE DEF less
<1>8. Strict(refs, before)
  BY <1>1, <1>3, <1>4, <1>5 DEF Strict
<1> QED
  BY <1>1, <1>2, <1>6, <1>7, <1>8 DEF refs, before

(* A part of what is strictly ordered is.                                    *)
LEMMA StrictSubset ==
  ASSUME NEW set, NEW before, Strict(set, before), NEW part, part \subseteq set
  PROVE  Strict(part, before)
BY DEF Strict

(* The items of a list.                                                      *)
Items(list) == {list[i] : i \in DOMAIN list}

(* What the list of candidates is after n of them.                           *)
BoundedAfter(n, list, order, exact, required) ==
  /\ Len(list) <= n
  /\ IF n <= required THEN Len(list) = n ELSE Len(list) >= required
  /\ Items(list) = {order[k] : k \in {i \in 1 .. n : order[i] \in exact \/ i <= required}}

(* The loop over the candidates, one after the other: until as many as are     *)
(* required were met, each is appended, so the list is short just until then. *)
LEMMA BoundedList ==
  ASSUME NEW set, NEW order \in Seq(set), NEW exact, NEW required \in Nat
  PROVE  BoundedAfter(Len(order), R!Bounded(order, exact, required), order, exact, required)
<1> DEFINE n == Len(order)
           step == [i \in 1 .. n |->
                      [list \in Seq(set) |-> R!Appended(list, order[i], exact, required)]]
           bounded == CHOOSE f :
                        f = [i \in 0 .. n |-> IF i = 0 THEN <<>>
                               ELSE R!Appended(f[i - 1], order[i], exact, required)]
<1>1. n \in Nat /\ \A i \in 1 .. n : order[i] \in set
  OBVIOUS
<1>2. R!Bounded(order, exact, required) = bounded[n]
  BY DEF R!Bounded
<1> HIDE DEF n
<1>3. \A i \in 1 .. n, list \in Seq(set) :
        step[i][list] = R!Appended(list, order[i], exact, required)
  OBVIOUS
<1>4. step \in [1 .. n -> [Seq(set) -> Seq(set)]]
  <2>1. ASSUME NEW i \in 1 .. n, NEW list \in Seq(set)
        PROVE  R!Appended(list, order[i], exact, required) \in Seq(set)
    <3>1. Append(list, order[i]) \in Seq(set)
      BY <1>1
    <3> QED
      BY <3>1 DEF R!Appended
  <2> QED
    BY <2>1
<1> HIDE DEF step
<1>5. PICK f : Recursion(f, n, Seq(set), <<>>, step)
  <2>1. <<>> \in Seq(set)
    OBVIOUS
  <2> QED
    BY <1>1, <1>4, <2>1, RecursionExists
<1>6. /\ f \in [0 .. n -> Seq(set)]
      /\ f[0] = <<>> /\ \A i \in 1 .. n : f[i] = step[i][f[i - 1]]
  BY <1>5 DEF Recursion
<1>7. ASSUME NEW i \in 1 .. n
      PROVE  step[i][f[i - 1]] = R!Appended(f[i - 1], order[i], exact, required)
  <2>1. f[i - 1] \in Seq(set)
    BY <1>1, <1>6
  <2> QED
    BY <1>3, <2>1
<1>8. f = [i \in 0 .. n |-> IF i = 0 THEN <<>>
             ELSE R!Appended(f[i - 1], order[i], exact, required)]
  <2>1. ASSUME NEW i \in 0 .. n
        PROVE  f[i] = IF i = 0 THEN <<>> ELSE R!Appended(f[i - 1], order[i], exact, required)
    <3>1. i = 0 \/ i \in 1 .. n
      BY <1>1
    <3> QED
      BY <1>6, <1>7, <3>1
  <2>2. f = [i \in 0 .. n |-> f[i]]
    BY <1>6
  <2> QED
    BY <2>1, <2>2
<1>9. bounded = [i \in 0 .. n |-> IF i = 0 THEN <<>>
                   ELSE R!Appended(bounded[i - 1], order[i], exact, required)]
  BY <1>8
<1> HIDE DEF bounded
<1>10. ASSUME NEW m \in 1 .. n, bounded[m - 1] \in Seq(set),
             BoundedAfter(m - 1, bounded[m - 1], order, exact, required)
      PROVE  bounded[m] \in Seq(set) /\ BoundedAfter(m, bounded[m], order, exact, required)
  <2> DEFINE list == bounded[m - 1]
             met(k) == {order[j] : j \in {i \in 1 .. k : order[i] \in exact \/ i <= required}}
  <2>1. bounded[m] = R!Appended(list, order[m], exact, required)
    BY <1>1, <1>9
  <2>2. Len(list) \in Nat /\ order[m] \in set
    BY <1>1, <1>10
  <2>3. Items(list) = met(m - 1) /\ Len(list) <= m - 1
        /\ IF m - 1 <= required THEN Len(list) = m - 1 ELSE Len(list) >= required
    BY <1>10 DEF BoundedAfter
  <2>4. BoundedAfter(m, bounded[m], order, exact, required)
          <=> /\ Len(bounded[m]) <= m
              /\ IF m <= required THEN Len(bounded[m]) = m ELSE Len(bounded[m]) >= required
              /\ Items(bounded[m]) = met(m)
    BY DEF BoundedAfter
  <2>5. Len(list) < required <=> m <= required
    BY <1>1, <2>2, <2>3
  <2>6. CASE order[m] \in exact \/ m <= required
    <3>1. bounded[m] = Append(list, order[m])
      BY <2>1, <2>5, <2>6 DEF R!Appended
    <3>2. bounded[m] \in Seq(set) /\ Len(bounded[m]) = Len(list) + 1
      BY <1>10, <2>2, <3>1
    <3>3. Items(bounded[m]) = Items(list) \cup {order[m]}
      <4>1. DOMAIN list = 1 .. Len(list) /\ DOMAIN bounded[m] = 1 .. Len(list) + 1
        BY <1>10, <3>2
      <4>2. /\ \A i \in 1 .. Len(list) : bounded[m][i] = list[i]
            /\ bounded[m][Len(list) + 1] = order[m]
        BY <1>10, <2>2, <3>1
      <4>3. 1 .. Len(list) + 1 = (1 .. Len(list)) \cup {Len(list) + 1}
        BY <2>2
      <4> HIDE DEF list
      <4> QED
        BY <4>1, <4>2, <4>3 DEF Items
    <3>4. met(m) = met(m - 1) \cup {order[m]}
      <4>1. 1 .. m = (1 .. m - 1) \cup {m}
        BY <1>1
      <4> QED
        BY <2>6, <4>1
    <3> HIDE DEF met, list
    <3> QED
      BY <1>1, <2>2, <2>3, <2>5, <2>4, <3>2, <3>3, <3>4
  <2>7. CASE ~(order[m] \in exact \/ m <= required)
    <3>1. bounded[m] = list
      BY <2>1, <2>5, <2>7 DEF R!Appended
    <3>2. met(m) = met(m - 1)
      <4>1. 1 .. m = (1 .. m - 1) \cup {m}
        BY <1>1
      <4> QED
        BY <2>7, <4>1
    <3> HIDE DEF met
    <3> QED
      BY <1>1, <1>10, <2>2, <2>3, <2>7, <2>4, <3>1, <3>2
  <2> QED
    BY <2>6, <2>7
<1> DEFINE good(m) == /\ bounded[m] \in Seq(set)
                      /\ BoundedAfter(m, bounded[m], order, exact, required)
           bad == {m \in 0 .. n : ~good(m)}
<1>11. good(0)
  <2>1. bounded[0] = <<>>
    BY <1>1, <1>9
  <2>2. Items(<<>>) = {} /\ Len(<<>>) = 0 /\ <<>> \in Seq(set)
    BY DEF Items
  <2>3. {order[k] : k \in {i \in 1 .. 0 : order[i] \in exact \/ i <= required}} = {}
    OBVIOUS
  <2> QED
    BY <2>1, <2>2, <2>3 DEF BoundedAfter
<1>12. ASSUME bad # {} PROVE FALSE
  <2>1. PICK m \in bad : \A k \in bad : m <= k
    <3>1. bad \subseteq Nat
      OBVIOUS
    <3> HIDE DEF bad
    <3> QED
      BY <1>12, <3>1, LeastExists
  <2>2. m \in 0 .. n /\ ~good(m)
    BY <2>1
  <2>3. m # 0
    BY <1>11, <2>2
  <2>4. m - 1 \in 0 .. n /\ m \in 1 .. n /\ ~(m <= m - 1)
    BY <1>1, <2>2, <2>3
  <2>5. good(m - 1)
    <3> HIDE DEF good
    <3> QED
      BY <2>1, <2>4
  <2> QED
    BY <1>10, <2>2, <2>4, <2>5
<1>13. n \in 0 .. n
  BY <1>1
<1>14. good(n)
  <2> HIDE DEF good
  <2> QED
    BY <1>12, <1>13
<1> QED
  BY <1>2, <1>14 DEF n

(* In terms of places: the list has the exact refs, and the first ones.         *)
LEMMA BoundedIs ==
  ASSUME NEW refs, IsFiniteSet(refs), NEW before, Strict(refs, before),
         NEW exact, exact \subseteq refs, NEW required \in Nat
  PROVE  Items(R!Bounded(InOrder(refs, before), exact, required))
           = {x \in refs : x \in exact \/ Place(x, refs, before) < required}
<1> DEFINE order == InOrder(refs, before)
           n == Cardinality(refs)
<1>1. /\ n \in Nat /\ DOMAIN order = 1 .. n
      /\ \A k \in 1 .. n : order[k] \in refs /\ Place(order[k], refs, before) = k - 1
      /\ Items(order) = refs
  BY InOrderSorts DEF Items
<1>2. order \in Seq(refs) /\ Len(order) = n
  <2>1. order = [k \in 1 .. n |-> order[k]]
    BY DEF InOrder
  <2> HIDE DEF order, n
  <2>2. order \in [1 .. n -> refs]
    BY <1>1, <2>1
  <2> QED
    BY <1>1, <2>2
<1> HIDE DEF order, n
<1>3. Items(R!Bounded(order, exact, required))
        = {order[k] : k \in {i \in 1 .. n : order[i] \in exact \/ i <= required}}
  BY <1>2, BoundedList DEF BoundedAfter
<1>4. \A k \in 1 .. n : k <= required <=> Place(order[k], refs, before) < required
  BY <1>1
<1>5. \A x \in refs : \E k \in 1 .. n : x = order[k]
  BY <1>1 DEF Items
<1>6. {order[k] : k \in {i \in 1 .. n : order[i] \in exact \/ i <= required}}
        = {x \in refs : x \in exact \/ Place(x, refs, before) < required}
  BY <1>1, <1>4, <1>5
<1> QED
  BY <1>3, <1>6 DEF order

(* What the bound leaves: the exact refs, and of the others the first, as many  *)
(* as are required.                                                        *)
LEMMA BoundedKeeps ==
  ASSUME NEW refs, IsFiniteSet(refs), NEW before, Strict(refs, before),
         NEW exact, exact \subseteq refs, NEW required \in Nat
  PROVE  LET kept == Items(R!Bounded(InOrder(refs, before), exact, required)) IN
         /\ exact \subseteq kept /\ kept \subseteq refs
         /\ Cardinality(kept \ exact) <= required
         /\ \A a \in kept \ exact, b \in refs \ kept : <<a, b>> \in before
         /\ Cardinality(refs) <= required => kept = refs
<1> DEFINE kept == Items(R!Bounded(InOrder(refs, before), exact, required))
           low == {x \in refs : Place(x, refs, before) < required}
<1>1. kept = {x \in refs : x \in exact \/ x \in low}
  BY BoundedIs
<1> HIDE DEF kept
<1>2. \A x \in refs : Place(x, refs, before) \in 0 .. Cardinality(refs) - 1
  BY PlaceType
<1>3. Cardinality(refs) \in Nat
  BY FS_CardinalityType
<1>4. Cardinality(low) <= required /\ Cardinality(low) \in Nat /\ IsFiniteSet(low)
  <2> DEFINE place == [x \in low |-> Place(x, refs, before) + 1]
  <2>1. place \in [low -> 1 .. required]
    BY <1>2, <1>3
  <2>2. ASSUME NEW x \in low, NEW y \in low, x # y PROVE place[x] # place[y]
    <3>1. Place(x, refs, before) \in Nat /\ Place(y, refs, before) \in Nat
      BY <1>2, <1>3
    <3>2. Place(x, refs, before) < Place(y, refs, before)
            \/ Place(y, refs, before) < Place(x, refs, before)
      BY <2>2, PlaceGrows DEF Strict
    <3> QED
      BY <3>1, <3>2
  <2>3. place \in Injection(low, 1 .. required)
    BY <2>1, <2>2 DEF Injection, IsInjective
  <2>4. IsFiniteSet(1 .. required) /\ Cardinality(1 .. required) = required
    BY FS_Interval
  <2> HIDE DEF low, place
  <2>5. IsFiniteSet(low) /\ Cardinality(low) <= required
    BY <2>3, <2>4, FS_Injection
  <2> QED
    BY <2>5, FS_CardinalityType
<1>5. Cardinality(kept \ exact) <= required
  <2>1. kept \ exact \in SUBSET low
    BY <1>1
  <2>2. Cardinality(kept \ exact) <= Cardinality(low) /\ Cardinality(kept \ exact) \in Nat
    <3> HIDE DEF low, kept
    <3> QED
      BY <1>4, <2>1, FS_Subset, FS_CardinalityType
  <2> QED
    BY <1>4, <2>2
<1>6. ASSUME NEW a \in kept \ exact, NEW b \in refs \ kept PROVE <<a, b>> \in before
  <2>1. /\ a \in refs /\ b \in refs /\ Place(a, refs, before) < required
        /\ ~(Place(b, refs, before) < required) /\ a # b
    BY <1>1
  <2>2. Place(a, refs, before) \in Int /\ Place(b, refs, before) \in Int
    BY <1>2, <1>3, <2>1
  <2>3. ~(Place(b, refs, before) < Place(a, refs, before))
    BY <2>1, <2>2
  <2>4. <<b, a>> \notin before
    BY <2>1, <2>3, PlaceGrows
  <2> QED
    BY <2>1, <2>4 DEF Strict
<1>7. ASSUME Cardinality(refs) <= required PROVE kept = refs
  <2>1. \A x \in refs : Place(x, refs, before) < required
    BY <1>2, <1>3, <1>7
  <2> QED
    BY <1>1, <2>1
<1> QED
  BY <1>1, <1>5, <1>6, <1>7 DEF kept

(* Those of first have the first places.                                     *)
LEMMA FirstPlaces ==
  ASSUME NEW set, IsFiniteSet(set), NEW before, Strict(set, before), NEW first,
         first \subseteq set,
         \A a, b \in set : a \in first /\ b \notin first => <<a, b>> \in before,
         NEW x \in first
  PROVE  Place(x, set, before) < Cardinality(first)
<1> DEFINE below == {y \in set : <<y, x>> \in before}
<1>1. below \in SUBSET (first \ {x})
  <2>1. \A y \in below : y \in first /\ y # x
    BY DEF Strict
  <2> QED
    BY <2>1
<1>2. IsFiniteSet(first)
  BY FS_Subset
<1>3. IsFiniteSet(first \ {x}) /\ Cardinality(first \ {x}) = Cardinality(first) - 1
  BY <1>2, FS_RemoveElement
<1>4. Cardinality(below) <= Cardinality(first) - 1 /\ IsFiniteSet(below)
  <2> HIDE DEF below
  <2> QED
    BY <1>1, <1>3, FS_Subset
<1>5. Cardinality(below) \in Nat /\ Cardinality(first) \in Nat
  BY <1>2, <1>4, FS_CardinalityType
<1> QED
  BY <1>4, <1>5 DEF Place

(* The items of a sequence.                                                  *)
LEMMA SequenceItems ==
  ASSUME NEW set, NEW s, s \in Seq(set)
  PROVE  /\ \A i \in DOMAIN s : s[i] \in set
         /\ IsFiniteSet(DOMAIN s)
<1>1. Len(s) \in Nat /\ DOMAIN s = 1 .. Len(s)
  OBVIOUS
<1>2. IsFiniteSet(1 .. Len(s))
  BY <1>1, FS_Interval
<1> QED
  BY <1>1, <1>2

(* The candidates that the retrievers named.                                  *)
Named(data) ==
  UNION {{data.retrievers[i].candidates[j] : j \in DOMAIN data.retrievers[i].candidates} :
           i \in DOMAIN data.retrievers}

(* The candidates that are kept are of the runs, and finite in number.       *)
LEMMA KeptType ==
  ASSUME NEW data, data.retrievers \in Seq(R!Retriever),
         NEW weight, weight \in Seq(Nat), DOMAIN weight = DOMAIN data.retrievers
  PROVE  /\ KeptOf(R!Kept(data), weight)
         /\ IsFiniteSet(R!Refs(R!Kept(data)))
         /\ R!ExactRefs(R!Kept(data)) \subseteq R!Refs(R!Kept(data))
<1> DEFINE kept == R!Kept(data)
           valid(i) == {k \in DOMAIN data.retrievers[i].candidates :
                          R!CandidateProblem(k, data.retrievers[i].candidates) = ""}
           item(i) == [j \in valid(i) |->
                         [run |-> i, ref |-> data.retrievers[i].candidates[j].ref,
                          rank |-> data.retrievers[i].candidates[j].rank,
                          exact |-> data.retrievers[i].candidates[j].exact]]
           items == [i \in R!Runs(data) |-> {item(i)[j] : j \in valid(i)}]
<1>1. kept = UNION {items[i] : i \in R!Runs(data)}
  <2> DEFINE set(i) == {[run |-> i, ref |-> data.retrievers[i].candidates[j].ref,
                         rank |-> data.retrievers[i].candidates[j].rank,
                         exact |-> data.retrievers[i].candidates[j].exact] : j \in valid(i)}
  <2>1. kept = UNION {set(i) : i \in R!Runs(data)}
    BY DEF R!Kept
  <2>2. \A i \in R!Runs(data) : items[i] = set(i)
    <3> HIDE DEF valid
    <3> QED
      OBVIOUS
  <2> HIDE DEF set, items, kept
  <2> QED
    BY <2>1, <2>2
<1>2. \A i \in DOMAIN data.retrievers :
        /\ data.retrievers[i] \in R!Retriever
        /\ data.retrievers[i].candidates \in Seq(R!Candidate)
  <2>1. \A i \in DOMAIN data.retrievers : data.retrievers[i] \in R!Retriever
    BY SequenceItems
  <2> QED
    BY <2>1 DEF R!Retriever
<1>3. R!Runs(data) \subseteq DOMAIN data.retrievers /\ IsFiniteSet(R!Runs(data))
  <2>1. IsFiniteSet(DOMAIN data.retrievers)
    BY SequenceItems
  <2>2. R!Runs(data) \in SUBSET DOMAIN data.retrievers
    BY DEF R!Runs
  <2> QED
    BY <2>1, <2>2, FS_Subset
<1>4. ASSUME NEW i \in R!Runs(data) PROVE IsFiniteSet(items[i])
  <2> DEFINE cs == data.retrievers[i].candidates
  <2>1. cs \in Seq(R!Candidate)
    BY <1>2, <1>3
  <2>2. IsFiniteSet(DOMAIN cs)
    <3> HIDE DEF cs
    <3> QED
      BY <2>1, SequenceItems
  <2>3. valid(i) \in SUBSET DOMAIN cs
    OBVIOUS
  <2>4. IsFiniteSet(valid(i))
    <3> HIDE DEF cs, valid
    <3> QED
      BY <2>2, <2>3, FS_Subset
  <2> DEFINE f == item(i)
  <2>5. DOMAIN f = valid(i)
    OBVIOUS
  <2> HIDE DEF f, valid
  <2>6. IsFiniteSet({f[j] : j \in valid(i)})
    BY <2>4, <2>5, ImageFinite
  <2> QED
    BY <2>6 DEF f
<1>5. ASSUME NEW c \in kept
      PROVE  c.run \in R!Runs(data) /\ c.ref \in Nat /\ c.rank \in Nat
  <2>1. PICK i \in R!Runs(data) : c \in items[i]
    BY <1>1
  <2>2. PICK j \in valid(i) :
               c = [run |-> i, ref |-> data.retrievers[i].candidates[j].ref,
                    rank |-> data.retrievers[i].candidates[j].rank,
                    exact |-> data.retrievers[i].candidates[j].exact]
    BY <2>1
  <2> DEFINE cs == data.retrievers[i].candidates
  <2>3. cs \in Seq(R!Candidate) /\ j \in DOMAIN cs
    BY <1>2, <1>3
  <2>4. cs[j] \in R!Candidate
    <3> HIDE DEF cs
    <3> QED
      BY <2>3, SequenceItems
  <2>5. cs[j].ref \in Nat /\ cs[j].rank \in Nat
    <3> HIDE DEF cs
    <3> QED
      BY <2>4 DEF R!Candidate
  <2> QED
    BY <2>2, <2>5
<1> HIDE DEF items
<1>6. IsFiniteSet(kept)
  <2>1. DOMAIN items = R!Runs(data)
    BY DEF items
  <2>2. IsFiniteSet({items[i] : i \in R!Runs(data)})
    BY <1>3, <2>1, ImageFinite
  <2>3. \A set \in {items[i] : i \in R!Runs(data)} : IsFiniteSet(set)
    BY <1>4
  <2>4. IsFiniteSet(UNION {items[i] : i \in R!Runs(data)})
    BY <2>2, <2>3, FS_UNION
  <2> QED
    BY <1>1, <2>4
<1> HIDE DEF kept
<1>7. KeptOf(kept, weight)
  BY <1>3, <1>5, <1>6 DEF KeptOf
<1>8. IsFiniteSet(R!Refs(kept))
  <2> DEFINE ref == [c \in kept |-> c.ref]
  <2>1. DOMAIN ref = kept /\ {ref[c] : c \in kept} = R!Refs(kept)
    BY DEF R!Refs
  <2> HIDE DEF ref
  <2> QED
    BY <1>6, <2>1, ImageFinite
<1>9. R!ExactRefs(kept) \subseteq R!Refs(kept)
  BY DEF R!ExactRefs, R!Refs
<1> QED
  BY <1>7, <1>8, <1>9 DEF kept

(* Without a gap every candidate that was named is kept.                      *)
LEMMA NamedKept ==
  ASSUME NEW data, R!Gaps(data) = {}, R!Runs(data) = DOMAIN data.retrievers
  PROVE  /\ R!Refs(R!Kept(data)) = {c.ref : c \in Named(data)}
         /\ R!ExactRefs(R!Kept(data)) = {c.ref : c \in {d \in Named(data) : d.exact}}
<1> DEFINE kept == R!Kept(data)
           cs(i) == data.retrievers[i].candidates
<1>1. \A i \in DOMAIN data.retrievers : \A j \in DOMAIN cs(i) : R!CandidateProblem(j, cs(i)) = ""
  <2> SUFFICES ASSUME NEW i \in DOMAIN data.retrievers, NEW j \in DOMAIN cs(i),
                      R!CandidateProblem(j, cs(i)) # ""
               PROVE  FALSE
    OBVIOUS
  <2>1. R!CandidateProblem(j, cs(i)) \in
          UNION {{R!CandidateProblem(k, cs(h)) : k \in DOMAIN cs(h)} : h \in R!Runs(data)}
    <3> DEFINE problems(h) == {R!CandidateProblem(k, cs(h)) : k \in DOMAIN cs(h)}
    <3>1. R!CandidateProblem(j, cs(i)) \in problems(i) /\ i \in R!Runs(data)
      OBVIOUS
    <3>2. R!CandidateProblem(j, cs(i)) \in UNION {problems(h) : h \in R!Runs(data)}
      <4> HIDE DEF problems
      <4> QED
        BY <3>1
    <3> QED
      BY <3>2
  <2>2. R!CandidateProblem(j, cs(i)) \in R!Gaps(data)
    BY <2>1 DEF R!Gaps
  <2> QED
    BY <2>2
<1>2. \A i \in DOMAIN data.retrievers :
        {k \in DOMAIN cs(i) : R!CandidateProblem(k, cs(i)) = ""} = DOMAIN cs(i)
  BY <1>1
<1> DEFINE items(i) == {[run |-> i, ref |-> cs(i)[j].ref, rank |-> cs(i)[j].rank,
                          exact |-> cs(i)[j].exact] :
                           j \in {k \in DOMAIN cs(i) : R!CandidateProblem(k, cs(i)) = ""}}
<1>3. kept = UNION {items(i) : i \in DOMAIN data.retrievers}
  BY DEF R!Kept
<1>4. \A c : c \in kept <=>
        \E i \in DOMAIN data.retrievers : \E j \in DOMAIN cs(i) :
          c = [run |-> i, ref |-> cs(i)[j].ref, rank |-> cs(i)[j].rank, exact |-> cs(i)[j].exact]
  <2>1. \A i \in DOMAIN data.retrievers : \A c : c \in items(i) <=>
          \E j \in DOMAIN cs(i) : c = [run |-> i, ref |-> cs(i)[j].ref, rank |-> cs(i)[j].rank,
                                     exact |-> cs(i)[j].exact]
    <3> HIDE DEF cs
    <3> QED
      BY <1>2
  <2> HIDE DEF items, kept, cs
  <2> QED
    BY <1>3, <2>1
<1>5. \A c : c \in Named(data) <=>
        \E i \in DOMAIN data.retrievers : \E j \in DOMAIN cs(i) : c = cs(i)[j]
  BY DEF Named
<1> HIDE DEF kept, cs
<1>6. ASSUME NEW c \in kept
      PROVE  \E d \in Named(data) : d.ref = c.ref /\ (d.exact = c.exact)
  <2>1. PICK i \in DOMAIN data.retrievers : \E j \in DOMAIN cs(i) :
          c = [run |-> i, ref |-> cs(i)[j].ref, rank |-> cs(i)[j].rank, exact |-> cs(i)[j].exact]
    BY <1>4
  <2>2. PICK j \in DOMAIN cs(i) :
          c = [run |-> i, ref |-> cs(i)[j].ref, rank |-> cs(i)[j].rank, exact |-> cs(i)[j].exact]
    BY <2>1
  <2>3. cs(i)[j] \in Named(data)
    BY <1>5
  <2> QED
    BY <2>2, <2>3
<1>7. ASSUME NEW d \in Named(data)
      PROVE  \E c \in kept : d.ref = c.ref /\ (d.exact = c.exact)
  <2>1. PICK i \in DOMAIN data.retrievers : \E j \in DOMAIN cs(i) : d = cs(i)[j]
    BY <1>5
  <2>2. PICK j \in DOMAIN cs(i) : d = cs(i)[j]
    BY <2>1
  <2> DEFINE c == [run |-> i, ref |-> cs(i)[j].ref, rank |-> cs(i)[j].rank, exact |-> cs(i)[j].exact]
  <2>3. c \in kept
    BY <1>4
  <2>4. c.ref = d.ref /\ c.exact = d.exact
    BY <2>2
  <2> QED
    BY <2>3, <2>4
<1>8. R!Refs(kept) = {c.ref : c \in Named(data)}
  BY <1>6, <1>7 DEF R!Refs
<1>9. R!ExactRefs(kept) = {c.ref : c \in {d \in Named(data) : d.exact}}
  BY <1>6, <1>7 DEF R!ExactRefs
<1> QED
  BY <1>8, <1>9 DEF kept

(* What the list of candidates of a query keeps: see CandidatesKept.           *)
QueryKeeps(query, data) ==
  LET kept == query.kept
      fused == {query.fused[i] : i \in DOMAIN query.fused}
      exact == R!ExactRefs(kept)
      score(ref) == R!Score(ref, kept, [i \in DOMAIN data.retrievers |-> 2])
  IN /\ exact \subseteq fused
     /\ Cardinality(fused \ exact) <= R!Required(data)
     /\ \A a \in fused \ exact, b \in R!Refs(kept) \ fused : score(a) >= score(b)
     /\ query.resolution = "BOUNDED_CANDIDATES" => fused = {c.ref : c \in Named(data)}
     /\ query.resolution = "EXACT_RESOLUTION" =>
          /\ {c.ref : c \in {d \in Named(data) : d.exact}} = exact
          /\ Cardinality(exact) = 1

(* The query lists its exact matches and, of the others, the best.             *)
LEMMA CandidatesOf ==
  ASSUME NEW data, R!Input(data), NEW query, query = R!Analyze(data)
  PROVE  QueryKeeps(query, data)
<1> DEFINE kept == R!Kept(data)
           fused == {query.fused[i] : i \in DOMAIN query.fused}
           refs == R!Refs(kept)
           exact == R!ExactRefs(kept)
           weight == [i \in DOMAIN data.retrievers |-> 2]
           before == R!Before(kept, weight, {})
           required == R!Required(data)
           list == R!Bounded(InOrder(refs, before), exact, required)
           bounded == Items(list)
           result == R!Resolution(data)
<1>1. /\ query.kept = kept /\ query.fused = R!Fused(data) /\ query.resolution = result[1]
  BY QueryFields
<1>2. weight \in Seq(Nat) /\ data.retrievers \in Seq(R!Retriever) /\ required \in Nat
  <2>1. data.retrievers \in Seq(R!Retriever) /\ data.required \in Nat
    BY DEF R!Input
  <2>2. Len(data.retrievers) \in Nat /\ DOMAIN data.retrievers = 1 .. Len(data.retrievers)
    BY <2>1
  <2>3. weight \in Seq(Nat)
    BY <2>2
  <2> QED
    BY <2>1, <2>3 DEF R!Required, R!DefaultRequired
<1>3. KeptOf(kept, weight) /\ IsFiniteSet(refs) /\ exact \subseteq refs
  <2> DOMAIN weight = DOMAIN data.retrievers
    OBVIOUS
  <2> HIDE DEF weight
  <2> QED
    BY <1>2, KeptType
<1> HIDE DEF weight
<1>4. /\ Strict(refs, before)
      /\ \A a, b \in refs : <<a, b>> \in before =>
           R!Score(a, kept, weight) >= R!Score(b, kept, weight)
  <2> HIDE DEF kept
  <2> QED
    BY <1>3, RefsOrdered
<1>5. /\ exact \subseteq bounded /\ bounded \subseteq refs
      /\ Cardinality(bounded \ exact) <= required
      /\ \A a \in bounded \ exact, b \in refs \ bounded : <<a, b>> \in before
      /\ Cardinality(refs) <= required => bounded = refs
  <2> HIDE DEF refs, before, exact, required
  <2> QED
    BY <1>2, <1>3, <1>4, BoundedKeeps
<1>6. R!Fused(data) = list
  BY RetrievalOrder DEF R!Fused, weight
<1>7. fused = bounded
  BY <1>1, <1>6 DEF Items
<1> HIDE DEF kept, refs, exact, before, required, list, bounded, result
<1>8. \A a \in fused \ exact, b \in refs \ fused :
        R!Score(a, kept, weight) >= R!Score(b, kept, weight)
  BY <1>4, <1>5, <1>7
<1>9. ASSUME result[1] \in {"BOUNDED_CANDIDATES", "EXACT_RESOLUTION"}
      PROVE  /\ refs = {c.ref : c \in Named(data)}
             /\ exact = {c.ref : c \in {d \in Named(data) : d.exact}}
  <2>1. result[1] # "INSUFFICIENT_EVIDENCE"
    BY <1>9
  <2>2. R!Gaps(data) = {} /\ R!Runs(data) = DOMAIN data.retrievers
    BY <1>2, <2>1, SettledQuery, SettledRetrievers DEF result
  <2> QED
    BY <2>2, NamedKept DEF refs, exact, kept
<1>10. ASSUME result[1] = "BOUNDED_CANDIDATES" PROVE fused = refs
  <2>1. ~(R!Cardinality(refs) > required)
    <3> SUFFICES ASSUME R!Cardinality(refs) > required PROVE FALSE
      OBVIOUS
    <3>1. result[1] \in {"INSUFFICIENT_EVIDENCE", "AMBIGUOUS_RETRIEVAL", "EXACT_RESOLUTION"}
      BY DEF R!Resolution, result, refs, required, kept
    <3> QED
      BY <1>10, <3>1
  <2>2. Cardinality(refs) \in Nat /\ ~(Cardinality(refs) > required)
    BY <1>3, <2>1, RetrievalCardinality, FS_CardinalityType
  <2> QED
    BY <1>2, <1>5, <1>7, <2>2
<1>11. ASSUME result[1] = "EXACT_RESOLUTION" PROVE Cardinality(exact) = 1
  <2>1. R!Cardinality(exact) = 1
    <3> SUFFICES ASSUME R!Cardinality(exact) # 1 PROVE FALSE
      OBVIOUS
    <3>1. result[1] \in {"INSUFFICIENT_EVIDENCE", "AMBIGUOUS_RETRIEVAL", "BOUNDED_CANDIDATES"}
      BY DEF R!Resolution, result, exact, kept
    <3> QED
      BY <1>11, <3>1
  <2> QED
    BY <2>1, RetrievalCardinality
<1>12. /\ exact \subseteq fused
       /\ Cardinality(fused \ exact) <= required
       /\ result[1] = "BOUNDED_CANDIDATES" => fused = {c.ref : c \in Named(data)}
       /\ result[1] = "EXACT_RESOLUTION" =>
            /\ {c.ref : c \in {d \in Named(data) : d.exact}} = exact
            /\ Cardinality(exact) = 1
  BY <1>5, <1>7, <1>9, <1>10, <1>11
<1> QED
  BY <1>1, <1>8, <1>12 DEF QueryKeeps, exact, refs, required, weight

(* The order of a task, cut off at its limit, still has every exact match.   *)
LEMMA OrderOf ==
  ASSUME NEW data, R!Input(data), NEW order, order = R!AnalyzeTask(data).order, order # <<>>
  PROVE  R!ExactRefs(R!Kept(data)) \subseteq {order[i] : i \in DOMAIN order}
<1> DEFINE context == R!NormaliseContext(data.context)
           weights == context.weights
           kept == R!Kept(data)
           refs == R!Refs(kept)
           exact == R!ExactRefs(kept)
           weight == [i \in DOMAIN data.retrievers |->
                        LET id == data.retrievers[i].id IN
                        IF id \in DOMAIN weights THEN weights[id] ELSE 2]
           before == R!Before(kept, weight, exact)
           full == InOrder(refs, before)
           limit == IF R!Required(data) < R!Cardinality(exact) THEN R!Cardinality(exact)
                    ELSE R!Required(data)
<1>1. order = [k \in {i \in DOMAIN full : i <= limit} |-> full[k]]
  <2>1. order = R!WeightedOrder(data, weights)
    BY DEF R!AnalyzeTask
  <2> HIDE DEF weights
  <2> QED
    BY <2>1, RetrievalOrder DEF R!WeightedOrder
<1>2. /\ data.retrievers \in Seq(R!Retriever) /\ R!Required(data) \in Nat
      /\ data.context.weights \in [DOMAIN data.context.weights -> Nat]
  BY DEF R!Input, R!Required, R!DefaultRequired
<1>3. \A id \in DOMAIN weights : weights[id] \in Nat
  <2> DEFINE role == IF data.context.role = "" THEN "general_localization" ELSE data.context.role
             given == {id \in DOMAIN data.context.weights : data.context.weights[id] # 0}
  <2>1. \/ weights = <<>> \/ weights = R!DefaultWeights(role)
        \/ weights = [id \in given |-> data.context.weights[id]]
    BY DEF R!NormaliseContext
  <2>2. \A id \in DOMAIN R!DefaultWeights(role) : R!DefaultWeights(role)[id] \in Nat
    BY DEF R!DefaultWeights
  <2>3. DOMAIN <<>> = {}
    OBVIOUS
  <2> HIDE DEF weights, role
  <2> QED
    BY <1>2, <2>1, <2>2, <2>3
<1>4. weight \in Seq(Nat) /\ DOMAIN weight = DOMAIN data.retrievers
  <2> HIDE DEF weights
  <2>1. Len(data.retrievers) \in Nat /\ DOMAIN data.retrievers = 1 .. Len(data.retrievers)
    BY <1>2
  <2>2. \A i \in DOMAIN data.retrievers : weight[i] \in Nat
    BY <1>3
  <2>3. DOMAIN weight = DOMAIN data.retrievers
    OBVIOUS
  <2>4. weight = [i \in 1 .. Len(data.retrievers) |-> weight[i]]
    BY <2>1
  <2> HIDE DEF weight
  <2> QED
    BY <2>1, <2>2, <2>3, <2>4
<1> HIDE DEF weight
<1>5. KeptOf(kept, weight) /\ IsFiniteSet(refs) /\ exact \subseteq refs
  BY <1>2, <1>4, KeptType
<1>6. /\ Strict(refs, before)
      /\ \A a, b \in refs : a \in exact /\ b \notin exact => <<a, b>> \in before
  <2> HIDE DEF kept, exact
  <2> QED
    BY <1>5, RefsOrdered
<1> HIDE DEF kept, refs, exact, before
<1>7. /\ DOMAIN full = 1 .. Cardinality(refs) /\ {full[k] : k \in DOMAIN full} = refs
      /\ \A k \in DOMAIN full : Place(full[k], refs, before) = k - 1
      /\ Cardinality(refs) \in Nat
  BY <1>5, <1>6, InOrderSorts
<1> HIDE DEF full
<1>8. IsFiniteSet(exact) /\ Cardinality(exact) \in Nat /\ limit \in Nat /\ limit >= Cardinality(exact)
  <2>1. IsFiniteSet(exact) /\ Cardinality(exact) \in Nat
    BY <1>5, FS_Subset, FS_CardinalityType
  <2>2. R!Cardinality(exact) = Cardinality(exact)
    BY RetrievalCardinality
  <2> QED
    BY <1>2, <2>1, <2>2
<1> HIDE DEF limit
<1>9. ASSUME NEW x \in exact PROVE \E i \in DOMAIN order : order[i] = x
  <2>1. PICK k \in DOMAIN full : full[k] = x
    BY <1>5, <1>7
  <2>2. k \in Nat /\ Place(x, refs, before) = k - 1
    BY <1>7, <2>1
  <2>3. Place(x, refs, before) < Cardinality(exact)
    BY <1>5, <1>6, FirstPlaces
  <2>4. k <= limit
    BY <1>8, <2>2, <2>3
  <2> QED
    BY <1>1, <2>1, <2>4
<1> QED
  BY <1>9 DEF exact, kept

-----------------------------------------------------------------------------
(***************************************************************************)
(* Check roles.                                                             *)
(***************************************************************************)

(* The sizes of the module instance are those of FiniteSets.                 *)
LEMMA RoleCardinality == \A set : C!Cardinality(set) = Cardinality(set)
BY DEF C!Cardinality, Cardinality

(* What is finite there is finite here.                                      *)
LEMMA RoleFinite == \A set : C!IsFiniteSet(set) <=> IsFiniteSet(set)
BY DEF C!IsFiniteSet, IsFiniteSet

(* A row whose role is not unknown is the only one of its name.               *)
LEMMA RoleBound ==
  ASSUME NEW rows, IsFiniteSet(rows), NEW policy, NEW row \in rows,
         C!Role(row, rows, policy)[1] # "UNKNOWN_POLICY_ROLE"
  PROVE  /\ row.name # "" /\ C!Role(row, rows, policy)[1] = policy[row.name]
         /\ \A other \in rows : other.name = row.name => other = row
<1>1. /\ row.name # "" /\ C!Role(row, rows, policy)[1] = policy[row.name]
      /\ ~(Cardinality(C!Named(row, rows)) > 1)
  BY RoleCardinality DEF C!Role
<1>2. row \in C!Named(row, rows) /\ C!Named(row, rows) \in SUBSET rows
  BY DEF C!Named
<1>3. IsFiniteSet(C!Named(row, rows))
  BY <1>2, FS_Subset
<1>4. ASSUME NEW other \in rows, other.name = row.name PROVE other = row
  <2>1. other \in C!Named(row, rows)
    BY <1>4 DEF C!Named
  <2> QED
    BY <1>1, <1>2, <1>3, <2>1, TwoElements
<1> QED
  BY <1>1, <1>4

(* With no blocker, no unknown role and the names that were seen before,     *)
(* each required gate of those has its one row, and that succeeded.          *)
LEMMA GatesOf ==
  ASSUME NEW data, C!Input(data),
         C!Classify(data).gate = "CLEAR", C!Classify(data).disposition = "ADVISORY_COMPLETE",
         NEW name \in data.previous, data.policy[name] = "REQUIRED_GATE"
  PROVE  \E row \in data.rows :
           /\ row.name = name /\ row.status \in C!Success /\ row.head = data.head
           /\ \A other \in data.rows : other.name = name => other = row
<1> DEFINE role(row) == C!Role(row, data.rows, data.policy)
           blockers == {r \in data.rows : role(r)[1] = "REQUIRED_GATE"
                                            /\ ~C!Successful(r, data.head)}
           unknown == {r \in data.rows : role(r)[1] = "UNKNOWN_POLICY_ROLE"}
           names == {r.name : r \in data.rows} \ {""}
<1>1. blockers = {}
  BY DEF C!Classify
<1>2. unknown = {} /\ data.previous = names
  BY DEF C!Classify
<1>3. PICK row \in data.rows : row.name = name
  BY <1>2
<1>4. role(row)[1] # "UNKNOWN_POLICY_ROLE"
  BY <1>2
<1>5. /\ role(row)[1] = "REQUIRED_GATE"
      /\ \A other \in data.rows : other.name = name => other = row
  BY <1>3, <1>4, RoleBound, RoleFinite DEF C!Input
<1>6. C!Successful(row, data.head)
  BY <1>1, <1>5
<1> QED
  BY <1>3, <1>5, <1>6 DEF C!Successful

(* Classifying the rows of a report again gives that report.                 *)
LEMMA RolesVerified ==
  ASSUME NEW data
  PROVE  C!Verify(C!Classify(data), data.policy)
<1> DEFINE r == C!Classify(data)
           check(x) == [row |-> x, role |-> C!Role(x, data.rows, data.policy),
                        successful |-> C!Successful(x, data.head),
                        observer |-> C!ObserverState(x, C!Role(x, data.rows, data.policy)[1],
                                                     data.head)]
<1>1. /\ r.head = data.head /\ r.previous = data.previous
      /\ r.checks = {check(x) : x \in data.rows}
  BY DEF C!Classify
<1>2. \A x : check(x).row = x
  OBVIOUS
<1> HIDE DEF r, check
<1>3. {c.row : c \in r.checks} = data.rows
  BY <1>1, <1>2
<1>4. C!Classify([head |-> data.head, rows |-> data.rows, policy |-> data.policy,
                  previous |-> data.previous]) = C!Classify(data)
  BY DEF C!Classify
<1> QED
  BY <1>1, <1>3, <1>4 DEF C!Verify, r

-----------------------------------------------------------------------------
(***************************************************************************)
(* Systemic failures.                                                       *)
(***************************************************************************)

(* The finite sets and the sizes of the module instance are those of         *)
(* FiniteSets.                                                               *)
LEMMA SystemicCardinality ==
  \A set : S!Cardinality(set) = Cardinality(set) /\ (S!IsFiniteSet(set) <=> IsFiniteSet(set))
BY DEF S!Cardinality, Cardinality, S!IsFiniteSet, IsFiniteSet

(* The greatest of a finite set of numbers bounds them.                      *)
LEMMA MaxBounds ==
  ASSUME NEW set, IsFiniteSet(set), set # {}, set \subseteq Nat
  PROVE  S!Max(set) \in set /\ \A y \in set : y <= S!Max(set)
<1>1. PICK x \in set : \A y \in set : x >= y
  BY GreatestExists
<1>2. S!Max(set) \in set /\ \A y \in set : S!Max(set) >= y
  BY <1>1 DEF S!Max
<1> QED
  BY <1>2

(* Of one check at most one latest run succeeded, as run ids differ.         *)
LEMMA LatestOne ==
  ASSUME NEW runs, S!RunsOf(runs), NEW check
  PROVE  LET successes == S!Successes(S!Latest(runs), check) IN
         /\ successes \subseteq runs
         /\ \A r, s \in successes : r = s
<1> DEFINE successes == S!Successes(S!Latest(runs), check)
<1>1. \A r \in successes : r \in runs /\ r.check = check /\ \A s \in runs : s.check = check => s = r \/ S!Later(r, s)
  BY DEF S!Successes, S!Latest
<1>2. \A r \in runs : {r.row, r.id, r.at, r.ended, r.started} \subseteq Nat
  BY DEF S!RunsOf
<1> HIDE DEF successes
<1>3. ASSUME NEW r \in successes, NEW s \in successes PROVE r = s
  <2>1. /\ r \in runs /\ s \in runs
        /\ s = r \/ S!Later(r, s)
        /\ r = s \/ S!Later(s, r)
    BY <1>1
  <2>2. /\ r.row \in Nat /\ r.id \in Nat /\ r.ended \in Nat /\ r.started \in Nat
        /\ s.row \in Nat /\ s.id \in Nat /\ s.ended \in Nat /\ s.started \in Nat
    BY <1>2, <2>1
  <2> QED
    BY <2>1, <2>2 DEF S!Later
<1> QED
  BY <1>1, <1>3 DEF successes

(* The latest run of the check in pull request k succeeded, at t or later.     *)
SucceededSince(k, check, t, data) ==
  \E s \in data.prs[k] :
    /\ s.check = check /\ s.status = "success" /\ s.at >= t
    /\ \A r \in data.prs[k] : r.check = check => r = s \/ S!Later(s, r)

(* The second newest of the successes of a check is at t or later exactly    *)
(* when two pull requests have one that is.                                  *)
LEMMA SecondNewestIs ==
  ASSUME NEW data, S!Input(data), NEW check, NEW t \in Nat \ {0}
  PROVE  /\ S!SecondNewest(check, S!PerPr(data)) \in Nat
         /\ t <= S!SecondNewest(check, S!PerPr(data)) <=>
              \E m, n \in DOMAIN data.prs :
                m # n /\ \A k \in {m, n} : SucceededSince(k, check, t, data)
<1> DEFINE perPr == S!PerPr(data)
           found(n) == S!Successes(perPr[n], check)
           some == {m \in DOMAIN perPr : found(m) # {}}
           time == [n \in some |-> (CHOOSE r \in found(n) : TRUE).at]
           newest == CHOOSE n \in DOMAIN time : \A m \in DOMAIN time : time[m] <= time[n]
           others == {time[n] : n \in DOMAIN time \ {newest}}
           second == S!SecondNewest(check, perPr)
<1>1. DOMAIN perPr = DOMAIN data.prs /\ \A n \in DOMAIN data.prs : perPr[n] = S!Latest(data.prs[n])
  BY DEF S!PerPr
<1>2. IsFiniteSet(DOMAIN data.prs) /\ \A n \in DOMAIN data.prs : S!RunsOf(data.prs[n])
  BY SystemicCardinality DEF S!Input
<1>3. IsFiniteSet(some)
  <2>1. some \in SUBSET DOMAIN data.prs
    BY <1>1
  <2> QED
    BY <1>2, <2>1, FS_Subset
<1>4. second = IF Cardinality(some) < 2 THEN 0 ELSE S!Max(others)
  BY SystemicCardinality DEF S!SecondNewest
<1>5. ASSUME NEW n \in some
      PROVE  /\ time[n] \in Nat /\ n \in DOMAIN data.prs
             /\ t <= time[n] => SucceededSince(n, check, t, data)
  <2>1. n \in DOMAIN data.prs /\ found(n) # {} /\ time[n] = (CHOOSE r \in found(n) : TRUE).at
    BY <1>1
  <2>2. PICK r \in found(n) : time[n] = r.at
    BY <2>1
  <2>3. r \in data.prs[n] /\ r.check = check /\ r.status = "success"
        /\ \A s \in data.prs[n] : s.check = check => s = r \/ S!Later(r, s)
    BY <1>1, <2>1 DEF S!Successes, S!Latest
  <2>4. r.at \in Nat
    BY <1>2, <2>1, <2>3 DEF S!RunsOf
  <2> QED
    BY <2>1, <2>2, <2>3, <2>4 DEF SucceededSince
<1>6. ASSUME NEW n \in DOMAIN data.prs, SucceededSince(n, check, t, data)
      PROVE  n \in some /\ t <= time[n]
  <2>1. PICK s \in data.prs[n] :
          /\ s.check = check /\ s.status = "success" /\ s.at >= t
          /\ \A r \in data.prs[n] : r.check = check => r = s \/ S!Later(s, r)
    BY <1>6 DEF SucceededSince
  <2>2. s.at \in Nat /\ s.at # 0
    BY <1>2, <2>1 DEF S!RunsOf
  <2>3. s \in found(n)
    BY <1>1, <2>1, <2>2 DEF S!Successes, S!Latest
  <2>4. \A r \in found(n) : r = s
    BY <1>1, <1>2, <2>3, LatestOne
  <2>5. n \in some /\ (CHOOSE r \in found(n) : TRUE) = s
    BY <1>1, <2>3, <2>4
  <2> QED
    BY <2>1, <2>2, <2>5
<1> HIDE DEF second, time, some, found, perPr
<1>7. DOMAIN time = some
  BY DEF time
<1>8. CASE Cardinality(some) < 2
  <2>1. second = 0
    BY <1>4, <1>8
  <2>2. ~\E m, n \in some : m # n
    BY <1>3, <1>8, SomeTwo, FS_CardinalityType
  <2>3. ~(t <= second) /\ second \in Nat
    BY <2>1
  <2> QED
    BY <1>6, <2>2, <2>3 DEF second, perPr
<1>9. CASE ~(Cardinality(some) < 2)
  <2>1. Cardinality(some) >= 2
    BY <1>3, <1>9, FS_CardinalityType
  <2>2. PICK x, y \in some : x # y
    BY <1>3, <2>1, SomeTwo
  <2>3. newest \in some /\ \A m \in some : time[m] <= time[newest]
    <3> DEFINE times == {time[n] : n \in some}
    <3>1. IsFiniteSet(times) /\ times # {} /\ times \subseteq Nat
      BY <1>3, <1>5, <1>7, <2>2, ImageFinite
    <3>2. PICK v \in times : \A w \in times : v >= w
      <4> HIDE DEF times
      <4> QED
        BY <3>1, GreatestExists
    <3>3. PICK n \in some : time[n] = v
      BY <3>2
    <3>4. \A m \in DOMAIN time : time[m] <= time[n]
      BY <1>5, <1>7, <3>2, <3>3
    <3> QED
      BY <1>7, <3>3, <3>4
  <2> HIDE DEF newest
  <2>4. IsFiniteSet(others) /\ others # {} /\ others \subseteq Nat
    <3> DEFINE rest == some \ {newest}
               restTime == [n \in rest |-> time[n]]
    <3>1. IsFiniteSet(rest)
      BY <1>3, FS_RemoveElement
    <3>2. IsFiniteSet({restTime[n] : n \in rest})
      <4> HIDE DEF rest
      <4> QED
        BY <3>1, ImageFinite
    <3>3. {restTime[n] : n \in rest} = others
      BY <1>7
    <3>4. others # {} /\ others \subseteq Nat
      BY <1>5, <1>7, <2>2
    <3> QED
      BY <3>2, <3>3, <3>4
  <2>5. second = S!Max(others)
    BY <1>4, <1>9
  <2>6. second \in others /\ \A v \in others : v <= second
    <3> HIDE DEF others
    <3> QED
      BY <2>4, <2>5, MaxBounds
  <2>7. ASSUME t <= second
        PROVE  \E m, n \in DOMAIN data.prs :
                 m # n /\ \A k \in {m, n} : SucceededSince(k, check, t, data)
    <3>1. PICK n \in some \ {newest} : second = time[n]
      BY <1>7, <2>6
    <3>2. t <= time[n] /\ t <= time[newest]
      BY <1>5, <2>3, <2>7, <3>1
    <3> QED
      BY <1>5, <2>3, <3>1, <3>2
  <2>8. ASSUME NEW m \in DOMAIN data.prs, NEW n \in DOMAIN data.prs, m # n,
               \A k \in {m, n} : SucceededSince(k, check, t, data)
        PROVE  t <= second
    <3>1. PICK k \in {m, n} : k # newest
      BY <2>8
    <3>2. k \in some /\ t <= time[k]
      BY <1>6, <2>8
    <3>3. time[k] \in others /\ time[k] \in Nat
      BY <1>5, <1>7, <3>1, <3>2
    <3>4. second \in Nat /\ time[k] <= second
      <4> HIDE DEF others
      <4> QED
        BY <2>4, <2>6, <3>3
    <3> QED
      BY <3>2, <3>3, <3>4
  <2>9. second \in Nat
    BY <2>4, <2>6
  <2> QED
    BY <2>7, <2>8, <2>9 DEF second, perPr
<1> QED
  BY <1>8, <1>9

(* What a failure at t must be later than.                                   *)
FixedSince(check, t, data) ==
  \/ \E s \in data.main : s.check = check /\ s.status = "success" /\ s.at >= t
  \/ \E c \in data.workflowChanged : c.path = check[1] /\ c.at >= t
  \/ \E m, n \in DOMAIN data.prs :
       m # n /\ \A k \in {m, n} : SucceededSince(k, check, t, data)

(* The cutoff of a check is at t or later exactly when one of the three      *)
(* signs of its working again is.                                            *)
LEMMA CutoffIs ==
  ASSUME NEW data, S!Input(data), NEW check, NEW t \in Nat \ {0}
  PROVE  t <= S!Cutoff(check, data) <=> FixedSince(check, t, data)
<1> DEFINE second == S!SecondNewest(check, S!PerPr(data))
           main == S!Successes(data.main, check)
           mainTimes == {r.at : r \in main}
           changes == {c \in data.workflowChanged : c.path = check[1]}
           changeTimes == {c.at : c \in changes}
           times == {0, second} \cup mainTimes \cup changeTimes
<1>1. IsFiniteSet(mainTimes) /\ mainTimes \subseteq Nat
  <2>1. main \in SUBSET data.main /\ IsFiniteSet(data.main) /\ \A r \in main : r.at \in Nat
    BY SystemicCardinality DEF S!Successes, S!Input, S!RunsOf
  <2>2. IsFiniteSet(main)
    BY <2>1, FS_Subset
  <2> DEFINE at == [r \in main |-> r.at]
  <2>3. IsFiniteSet({at[r] : r \in main})
    <3> HIDE DEF main
    <3> QED
      BY <2>2, ImageFinite
  <2>4. {at[r] : r \in main} = mainTimes
    OBVIOUS
  <2> QED
    BY <2>1, <2>3, <2>4
<1>2. IsFiniteSet(changeTimes) /\ changeTimes \subseteq Nat
  <2>1. /\ changes \in SUBSET data.workflowChanged /\ IsFiniteSet(data.workflowChanged)
        /\ \A c \in changes : c.at \in Nat
    BY SystemicCardinality DEF S!Input
  <2>2. IsFiniteSet(changes)
    BY <2>1, FS_Subset
  <2> DEFINE at == [c \in changes |-> c.at]
  <2>3. IsFiniteSet({at[c] : c \in changes})
    <3> HIDE DEF changes
    <3> QED
      BY <2>2, ImageFinite
  <2>4. {at[c] : c \in changes} = changeTimes
    OBVIOUS
  <2> QED
    BY <2>1, <2>3, <2>4
<1>3. second \in Nat
  BY SecondNewestIs
<1>4. S!Cutoff(check, data) = S!Max(times)
  BY DEF S!Cutoff
<1>5. IsFiniteSet(times) /\ times # {} /\ times \subseteq Nat
  <2> HIDE DEF second, mainTimes, changeTimes
  <2>1. IsFiniteSet({0} \cup {second})
    BY FS_Singleton, FS_AddElement
  <2>2. IsFiniteSet(({0} \cup {second}) \cup mainTimes)
    BY <1>1, <2>1, FS_Union
  <2>3. IsFiniteSet((({0} \cup {second}) \cup mainTimes) \cup changeTimes)
    BY <1>2, <2>2, FS_Union
  <2>4. (({0} \cup {second}) \cup mainTimes) \cup changeTimes = times
    OBVIOUS
  <2>5. 0 \in times /\ times \subseteq Nat
    BY <1>1, <1>2, <1>3
  <2> QED
    BY <2>3, <2>4, <2>5
<1>6. S!Cutoff(check, data) \in times /\ \A v \in times : v <= S!Cutoff(check, data)
  <2> HIDE DEF times
  <2> QED
    BY <1>4, <1>5, MaxBounds
<1>7. t <= S!Cutoff(check, data) <=> \E v \in times : t <= v
  <2>1. S!Cutoff(check, data) \in Nat /\ t \in Nat
    BY <1>5, <1>6
  <2>2. ASSUME NEW v \in times, t <= v PROVE t <= S!Cutoff(check, data)
    <3>1. v \in Nat /\ v <= S!Cutoff(check, data)
      BY <1>5, <1>6
    <3> QED
      BY <2>1, <2>2, <3>1
  <2> QED
    BY <1>6, <2>2
<1>8. (\E v \in mainTimes : t <= v)
        <=> \E s \in data.main : s.check = check /\ s.status = "success" /\ s.at >= t
  <2>1. \A s \in data.main : s.at \in Nat
    BY DEF S!Input, S!RunsOf
  <2> QED
    BY <2>1 DEF S!Successes
<1>9. (\E v \in changeTimes : t <= v)
        <=> \E c \in data.workflowChanged : c.path = check[1] /\ c.at >= t
  <2>1. \A c \in data.workflowChanged : c.at \in Nat
    BY DEF S!Input
  <2> QED
    BY <2>1
<1>10. t <= second <=> \E m, n \in DOMAIN data.prs :
                         m # n /\ \A k \in {m, n} : SucceededSince(k, check, t, data)
  BY SecondNewestIs
<1> HIDE DEF second, mainTimes, changeTimes
<1>11. (\E v \in times : t <= v)
         <=> t <= second \/ (\E v \in mainTimes : t <= v) \/ (\E v \in changeTimes : t <= v)
  <2>1. ~(t <= 0)
    OBVIOUS
  <2>2. \A v : v \in times <=> v = 0 \/ v = second \/ v \in mainTimes \/ v \in changeTimes
    OBVIOUS
  <2> HIDE DEF times
  <2> QED
    BY <2>1, <2>2
<1> QED
  BY <1>7, <1>8, <1>9, <1>10, <1>11 DEF FixedSince

(* The pull requests on which a check fails in its latest run, in the window,   *)
(* and after every sign that it works again.                                 *)
FailsOn(check, data) ==
  {n \in DOMAIN data.prs : \E r \in data.prs[n] :
     /\ r.check = check /\ r.status \in S!Failure
     /\ \A s \in data.prs[n] : s.check = r.check => s = r \/ S!Later(r, s)
     /\ r.at # 0 /\ S!InWindow(r.at, data) /\ ~FixedSince(r.check, r.at, data)}

(* What is left of the failing runs after those that were suppressed: the    *)
(* failures after every sign that the check works again.                     *)
LEMMA FailingIs ==
  ASSUME NEW data, S!Input(data), NEW n \in DOMAIN data.prs, NEW check
  PROVE  (\E r \in S!Failing(n, data) \ S!Suppressed(n, data) : r.check = check)
           <=> n \in FailsOn(check, data)
<1>1. S!PerPr(data)[n] = S!Latest(data.prs[n])
  BY DEF S!PerPr
<1>2. \A r \in data.prs[n] : r.at \in Nat
  BY DEF S!Input, S!RunsOf
<1>3. ASSUME NEW r
      PROVE  r \in S!Failing(n, data) <=>
               /\ r \in data.prs[n] /\ r.status \in S!Failure
               /\ \A s \in data.prs[n] : s.check = r.check => s = r \/ S!Later(r, s)
               /\ r.at # 0 /\ S!InWindow(r.at, data)
  BY <1>1 DEF S!Failing, S!Latest
<1>4. ASSUME NEW r \in S!Failing(n, data)
      PROVE  r \in S!Suppressed(n, data) <=> FixedSince(r.check, r.at, data)
  <2>1. r.at \in Nat \ {0}
    BY <1>2, <1>3
  <2>2. r.at <= S!Cutoff(r.check, data) <=> FixedSince(r.check, r.at, data)
    BY <2>1, CutoffIs
  <2> QED
    BY <2>2 DEF S!Suppressed
<1> QED
  BY <1>3, <1>4 DEF FailsOn

(* The checks that are reported are those that fail on enough pull requests. *)
LEMMA SystemicOf ==
  ASSUME NEW data, S!Input(data), data.observed # 0
  PROVE  S!Analyze(data).systemic =
           {[check |-> c, prs |-> FailsOn(c, data)] :
              c \in {d \in UNION {{r.check : r \in data.prs[n]} : n \in DOMAIN data.prs} :
                     Cardinality(FailsOn(d, data)) >= data.least}}
<1> DEFINE failing == S!Analyze(data).failing
           on(c) == {n \in DOMAIN failing : c \in failing[n]}
           left(n) == S!Failing(n, data) \ S!Suppressed(n, data)
           seen == UNION {failing[n] : n \in DOMAIN failing}
           checks == UNION {{r.check : r \in data.prs[n]} : n \in DOMAIN data.prs}
<1>1. failing = [n \in {m \in DOMAIN data.prs : left(m) # {}} |-> {r.check : r \in left(n)}]
  BY DEF S!Analyze
<1> HIDE DEF failing
<1>2. ASSUME NEW c PROVE on(c) = FailsOn(c, data)
  <2>1. \A n : n \in on(c) <=> n \in DOMAIN data.prs /\ \E r \in left(n) : r.check = c
    <3> HIDE DEF left
    <3> QED
      BY <1>1
  <2>2. \A n : n \in FailsOn(c, data) => n \in DOMAIN data.prs
    BY DEF FailsOn
  <2> HIDE DEF on
  <2> QED
    BY <2>1, <2>2, FailingIs
<1>3. ASSUME NEW c, Cardinality(FailsOn(c, data)) >= data.least
      PROVE  c \in seen /\ c \in checks
  <2>1. FailsOn(c, data) \in SUBSET DOMAIN data.prs /\ IsFiniteSet(DOMAIN data.prs)
    BY SystemicCardinality DEF FailsOn, S!Input
  <2>2. FailsOn(c, data) # {}
    BY <1>3, FS_EmptySet DEF S!Input
  <2>3. PICK n : n \in FailsOn(c, data)
    BY <2>2
  <2>4. n \in on(c)
    BY <1>2, <2>3
  <2>5. c \in seen
    BY <2>4
  <2>6. c \in checks
    BY <2>3 DEF FailsOn
  <2> QED
    BY <2>5, <2>6
<1>4. S!SystemicFrom(failing, data.least)
        = {[check |-> c, prs |-> on(c)] : c \in {d \in seen : Cardinality(on(d)) >= data.least}}
  BY SystemicCardinality DEF S!SystemicFrom
<1> HIDE DEF on, seen
<1>5. {d \in seen : Cardinality(on(d)) >= data.least}
        = {d \in checks : Cardinality(FailsOn(d, data)) >= data.least}
  BY <1>2, <1>3
<1>6. S!SystemicFrom(failing, data.least)
        = {[check |-> c, prs |-> FailsOn(c, data)] :
             c \in {d \in checks : Cardinality(FailsOn(d, data)) >= data.least}}
  BY <1>2, <1>4, <1>5
<1>7. S!Analyze(data).systemic
        = IF DOMAIN data.prs = {} THEN {} ELSE S!SystemicFrom(failing, data.least)
  BY DEF S!Analyze, failing
<1>8. DOMAIN data.prs = {} => checks = {}
  OBVIOUS
<1> QED
  BY <1>6, <1>7, <1>8

(* The verifier computes the systemic failures from the same map.            *)
LEMMA SystemicVerified ==
  ASSUME NEW data
  PROVE  S!Verify(S!Analyze(data))
BY DEF S!Verify, S!Analyze

-----------------------------------------------------------------------------
(***************************************************************************)
(* CI failures: evidence, plan and bundles.                                 *)
(***************************************************************************)

(* The finite sets and the sizes of the module instance are those of         *)
(* FiniteSets.                                                               *)
LEMMA FailureFinite ==
  \A set : (E!IsFiniteSet(set) <=> IsFiniteSet(set)) /\ E!Cardinality(set) = Cardinality(set)
BY DEF E!IsFiniteSet, IsFiniteSet, E!Cardinality, Cardinality

(* The two instances of Revision agree on an identity.                       *)
LEMMA FailureIdentity ==
  ASSUME NEW s
  PROVE  /\ E!IdentityGaps(s) = K!IdentityGaps(s)
         /\ E!StaleEvidence(s) <=> K!StaleEvidence(s)
BY DEF E!IdentityGaps, K!IdentityGaps, E!IdentityGap, K!IdentityGap, E!StaleEvidence,
       K!StaleEvidence, E!DeclaredOf, K!DeclaredOf, E!Contradicted, K!Contradicted, E!Missing,
       K!Missing, E!Sides, K!Sides

(* The head under review, when the identity names it.                        *)
ReviewedHead(input) == IF E!IdentityGaps(input.snapshot) = {} THEN input.snapshot.head ELSE ""

(* The effective rows that failed.                                           *)
FailedRuns(input) == {c \in E!Effective(input) : E!Normal(c) /\ c.status \in E!Failure}

(* What failure evidence holds, field by field.                              *)
LEMMA EvidenceFields ==
  ASSUME NEW input
  PROVE  LET e == E!Fingerprint(input) IN
         /\ e.identity = E!Identity(input.snapshot)
         /\ e.expected = {c \in FailedRuns(input) : c.expected \/ input.expected}
         /\ e.unexpected = FailedRuns(input) \ e.expected
         /\ e.whole <=> e.gaps = {}
         /\ e.gaps = E!IdentityGaps(input.snapshot) \cup input.errors
                       \cup (UNION {E!CheckGaps(c, ReviewedHead(input)) : c \in E!Effective(input)})
                       \cup {k \in {"collection_incomplete", "no_check_evidence_provided",
                                    "foreign check identity"} :
                               \/ k = "collection_incomplete" /\ ~input.complete
                               \/ k = "no_check_evidence_provided" /\ input.checks = {}
                               \/ /\ k = "foreign check identity" /\ input.wanted # 0
                                  /\ \E c \in FailedRuns(input) : c.run # input.wanted}
         /\ e.ignored = E!Ignored(input) /\ e.self = input.self /\ e.wanted = input.wanted
<1> DEFINE e == E!Fingerprint(input)
           counted == {c \in E!Effective(input) : E!Normal(c)}
           failures == {c \in counted : c.status \in E!Failure}
           expected == {c \in failures : c.expected \/ input.expected}
           head == IF E!Identity(input.snapshot).gaps = {} THEN E!Identity(input.snapshot).head
                   ELSE ""
<1>1. failures = FailedRuns(input)
  BY DEF FailedRuns
<1>2. head = ReviewedHead(input)
  BY DEF E!Identity, ReviewedHead, E!IdentityGaps, E!IdentityGap, E!Missing, E!TextOf
<1>3. E!Identity(input.snapshot).gaps = E!IdentityGaps(input.snapshot)
  BY DEF E!Identity
<1>4. /\ e.identity = E!Identity(input.snapshot)
      /\ e.expected = expected /\ e.unexpected = failures \ expected
      /\ e.whole <=> e.gaps = {}
      /\ e.ignored = E!Ignored(input) /\ e.self = input.self /\ e.wanted = input.wanted
  BY DEF E!Fingerprint
<1>5. e.gaps = E!Identity(input.snapshot).gaps \cup input.errors
                 \cup (UNION {E!CheckGaps(c, head) : c \in E!Effective(input)})
                 \cup {k \in {"collection_incomplete", "no_check_evidence_provided",
                              "foreign check identity"} :
                         \/ k = "collection_incomplete" /\ ~input.complete
                         \/ k = "no_check_evidence_provided" /\ input.checks = {}
                         \/ /\ k = "foreign check identity" /\ input.wanted # 0
                            /\ \E c \in failures : c.run # input.wanted}
  BY DEF E!Fingerprint
<1>6. {k \in {"collection_incomplete", "no_check_evidence_provided", "foreign check identity"} :
         \/ k = "collection_incomplete" /\ ~input.complete
         \/ k = "no_check_evidence_provided" /\ input.checks = {}
         \/ /\ k = "foreign check identity" /\ input.wanted # 0
            /\ \E c \in failures : c.run # input.wanted}
      = {k \in {"collection_incomplete", "no_check_evidence_provided", "foreign check identity"} :
           \/ k = "collection_incomplete" /\ ~input.complete
           \/ k = "no_check_evidence_provided" /\ input.checks = {}
           \/ /\ k = "foreign check identity" /\ input.wanted # 0
              /\ \E c \in FailedRuns(input) : c.run # input.wanted}
  <2> HIDE DEF failures
  <2> QED
    BY <1>1
<1>7. UNION {E!CheckGaps(c, head) : c \in E!Effective(input)}
        = UNION {E!CheckGaps(c, ReviewedHead(input)) : c \in E!Effective(input)}
  BY <1>2
<1>8. /\ e.expected = {c \in FailedRuns(input) : c.expected \/ input.expected}
      /\ e.unexpected = FailedRuns(input) \ e.expected
  <2> HIDE DEF e, failures
  <2> QED
    BY <1>1, <1>4
<1> HIDE DEF e, failures, head, expected
<1> QED
  BY <1>3, <1>4, <1>5, <1>6, <1>7, <1>8 DEF e

(* What a failure report holds, field by field.                              *)
LEMMA FailureReportFields ==
  ASSUME NEW input
  PROVE  LET r == E!Analyze(input)
             e == E!Fingerprint(input)
         IN r = [identity |-> e.identity, evidence |-> e, status |-> E!Triage(e),
                 eligible |-> E!Triage(e) = "UNEXPECTED_FAILURE_OBSERVED",
                 names |-> {c.name : c \in e.unexpected \cup e.expected},
                 gaps |-> e.gaps]
BY DEF E!Analyze

(* The newest run that supersedes one is newer.                               *)
LEMMA NewestSupersedes ==
  ASSUME NEW input, E!Input(input), NEW c \in input.checks, E!Superseded(c, input)
  PROVE  LET newer == E!NewerRuns(c, input)
             newest == CHOOSE n \in newer : \A m \in newer : m <= n
         IN
         /\ newest > c.run /\ newest \in newer /\ \A m \in newer : m <= newest
         /\ c.status = "cancelled" /\ c.run # 0 /\ c.workflow # 0 /\ c.app # ""
<1> DEFINE newer == E!NewerRuns(c, input)
           later == {d \in input.checks : E!Supersedes(d, c)}
           run == [d \in later |-> d.run]
<1>1. newer = {run[d] : d \in later} /\ newer # {}
  BY DEF E!NewerRuns, E!Superseded
<1>2. IsFiniteSet(later)
  <2>1. later \in SUBSET input.checks /\ IsFiniteSet(input.checks)
    BY FailureFinite DEF E!Input
  <2> QED
    BY <2>1, FS_Subset
<1>3. IsFiniteSet(newer)
  <2> DOMAIN run = later
    OBVIOUS
  <2> HIDE DEF later, run, newer
  <2> QED
    BY <1>1, <1>2, ImageFinite
<1>4. \A d \in later : d.run \in Nat /\ d.run > c.run /\ E!Identified(c)
  BY DEF E!Supersedes, E!Input, E!Check
<1>5. newer \subseteq Nat /\ \A n \in newer : n > c.run
  BY <1>1, <1>4
<1>6. E!Identified(c)
  BY <1>1, <1>4
<1> HIDE DEF newer
<1>7. PICK x \in newer : \A y \in newer : x >= y
  BY <1>1, <1>3, <1>5, GreatestExists
<1>8. \A m \in newer : m <= x
  BY <1>5, <1>7
<1>9. LET newest == CHOOSE n \in newer : \A m \in newer : m <= n IN
        newest \in newer /\ \A m \in newer : m <= newest
  BY <1>7, <1>8
<1> QED
  BY <1>5, <1>6, <1>9 DEF newer, E!Identified, E!Superseded

(* The evidence of a genuine report is coherent unless a check that was left *)
(* out has None for a name, or the id of a failure.                          *)
LEMMA CoherentReport ==
  ASSUME NEW input, E!Input(input)
  PROVE  LET e == E!Fingerprint(input)
             left == {i.check : i \in e.ignored}
             failures == e.unexpected \cup e.expected
         IN E!Coherent(e) <=>
              \A c \in left : c.name # None /\ (c.run = 0 \/ \A d \in failures : d.run # c.run)
<1> DEFINE e == E!Fingerprint(input)
           left == {i.check : i \in e.ignored}
           failures == e.unexpected \cup e.expected
           of(c) == CHOOSE n \in E!NewerRuns(c, input) : \A m \in E!NewerRuns(c, input) : m <= n
<1>1. e.ignored = E!Ignored(input) /\ e.self = input.self
  BY EvidenceFields
<1>2. ASSUME NEW i \in E!Ignored(input)
      PROVE  CASE i.reason = "SELF_WORKFLOW" -> i.check.suite \in input.self
               [] i.reason = "SUPERSEDED_CANCELLED" ->
                    /\ i.check.status = "cancelled" /\ i.check.run # 0 /\ i.check.workflow # 0
                    /\ i.check.app # "" /\ i.by > i.check.run
  <2>1. \/ \E c \in input.checks : E!OfSelf(c, input)
                 /\ i = [check |-> c, reason |-> "SELF_WORKFLOW", by |-> 0]
        \/ \E c \in input.checks : E!Superseded(c, input)
                 /\ i = [check |-> c, reason |-> "SUPERSEDED_CANCELLED", by |-> of(c)]
    BY DEF E!Ignored
  <2> HIDE DEF of
  <2>2. CASE \E c \in input.checks : E!OfSelf(c, input)
                 /\ i = [check |-> c, reason |-> "SELF_WORKFLOW", by |-> 0]
    BY <2>2 DEF E!OfSelf
  <2>3. CASE \E c \in input.checks : E!Superseded(c, input)
                 /\ i = [check |-> c, reason |-> "SUPERSEDED_CANCELLED", by |-> of(c)]
    <3>1. PICK c \in input.checks : E!Superseded(c, input)
                 /\ i = [check |-> c, reason |-> "SUPERSEDED_CANCELLED", by |-> of(c)]
      BY <2>3
    <3>2. /\ of(c) > c.run /\ c.status = "cancelled" /\ c.run # 0 /\ c.workflow # 0
          /\ c.app # ""
      BY <3>1, NewestSupersedes DEF of
    <3> QED
      BY <3>1, <3>2
  <2> QED
    BY <2>1, <2>2, <2>3
<1> HIDE DEF e
<1>3. E!Coherent(e) <=>
        \A i \in e.ignored :
          /\ i.check.name # None /\ (i.check.run # 0 => \A d \in failures : d.run # i.check.run)
          /\ CASE i.reason = "SELF_WORKFLOW" -> i.check.suite \in e.self
               [] i.reason = "SUPERSEDED_CANCELLED" ->
                    /\ i.check.status = "cancelled" /\ i.check.run # 0 /\ i.check.workflow # 0
                    /\ i.check.app # "" /\ i.by > i.check.run
  BY DEF E!Coherent
<1>4. E!Coherent(e) <=>
        \A i \in e.ignored :
          i.check.name # None /\ (i.check.run # 0 => \A d \in failures : d.run # i.check.run)
  BY <1>1, <1>2, <1>3
<1>5. (\A i \in e.ignored :
         i.check.name # None /\ (i.check.run # 0 => \A d \in failures : d.run # i.check.run))
      <=> \A c \in left : c.name # None /\ (c.run = 0 \/ \A d \in failures : d.run # c.run)
  OBVIOUS
<1> QED
  BY <1>4, <1>5 DEF e

(* Evidence without a gap anchors every failure to the head under review.      *)
LEMMA WholeAnchored ==
  ASSUME NEW input, E!Fingerprint(input).gaps = {}, NEW c \in FailedRuns(input)
  PROVE  /\ c.head = input.snapshot.head /\ c.head \notin E!Missing
         /\ input.wanted # 0 => c.run = input.wanted
<1>1. /\ E!IdentityGaps(input.snapshot) = {}
      /\ \A d \in E!Effective(input) : E!CheckGaps(d, ReviewedHead(input)) = {}
      /\ ~(input.wanted # 0 /\ \E d \in FailedRuns(input) : d.run # input.wanted)
  <2> DEFINE foreign == input.wanted # 0 /\ \E d \in FailedRuns(input) : d.run # input.wanted
             rest == {k \in {"collection_incomplete", "no_check_evidence_provided",
                             "foreign check identity"} :
                        \/ k = "collection_incomplete" /\ ~input.complete
                        \/ k = "no_check_evidence_provided" /\ input.checks = {}
                        \/ /\ k = "foreign check identity" /\ input.wanted # 0
                           /\ \E d \in FailedRuns(input) : d.run # input.wanted}
  <2>1. foreign => "foreign check identity" \in rest
    OBVIOUS
  <2>2. E!Fingerprint(input).gaps =
          E!IdentityGaps(input.snapshot) \cup input.errors
            \cup (UNION {E!CheckGaps(d, ReviewedHead(input)) : d \in E!Effective(input)}) \cup rest
    BY EvidenceFields
  <2> HIDE DEF rest
  <2>3. \A d \in E!Effective(input) :
          E!CheckGaps(d, ReviewedHead(input)) \subseteq E!Fingerprint(input).gaps
    BY <2>2
  <2>4. rest = {} /\ E!IdentityGaps(input.snapshot) = {}
    BY <2>2
  <2> QED
    BY <2>1, <2>3, <2>4
<1>2. ReviewedHead(input) = input.snapshot.head /\ input.snapshot.head # ""
  BY <1>1 DEF ReviewedHead, E!IdentityGaps, E!IdentityGap, E!Missing
<1>3. c \in E!Effective(input) /\ E!Normal(c) /\ c.status \in E!Failure
  BY DEF FailedRuns
<1>4. E!CheckGaps(c, input.snapshot.head) = {}
  BY <1>1, <1>2, <1>3
<1>5. /\ "check head_sha mismatches PR head_sha" \notin E!CheckGaps(c, input.snapshot.head)
      /\ "terminal check missing head_sha" \notin E!CheckGaps(c, input.snapshot.head)
  BY <1>4
<1>6. c.head \in {"", input.snapshot.head} /\ c.head # ""
  BY <1>2, <1>3, <1>5 DEF E!CheckGaps
<1>7. input.snapshot.head \notin E!Missing
  BY <1>1 DEF E!IdentityGaps, E!IdentityGap
<1> QED
  BY <1>1, <1>2, <1>6, <1>7

(* The verifier of a failure report accepts it when its evidence is          *)
(* coherent: all the rest holds of a genuine report.                         *)
LEMMA FailuresVerified ==
  ASSUME NEW input, E!Input(input)
  PROVE  LET r == E!Analyze(input)
             left == {i.check : i \in r.evidence.ignored}
             failures == r.evidence.unexpected \cup r.evidence.expected
         IN E!Verify(r) <=>
              \A c \in left : c.name # None /\ (c.run = 0 \/ \A d \in failures : d.run # c.run)
<1> DEFINE r == E!Analyze(input)
           e == E!Fingerprint(input)
<1>1. r = [identity |-> e.identity, evidence |-> e, status |-> E!Triage(e),
           eligible |-> E!Triage(e) = "UNEXPECTED_FAILURE_OBSERVED",
           names |-> {c.name : c \in e.unexpected \cup e.expected}, gaps |-> e.gaps]
  BY FailureReportFields
<1>2. /\ e.identity = E!Identity(input.snapshot) /\ e.wanted = input.wanted
      /\ e.unexpected \cup e.expected = FailedRuns(input) /\ (e.whole <=> e.gaps = {})
  <2>1. /\ e.expected = {c \in FailedRuns(input) : c.expected \/ input.expected}
        /\ e.unexpected = FailedRuns(input) \ e.expected
    BY EvidenceFields
  <2>2. e.unexpected \cup e.expected = FailedRuns(input)
    <3> HIDE DEF e
    <3> QED
      BY <2>1
  <2> QED
    BY <2>2, EvidenceFields
<1>3. e.identity.head = E!TextOf(input.snapshot.head)
  BY <1>2 DEF E!Identity
<1>4. e.gaps = {} => \A c \in FailedRuns(input) : /\ c.head = E!TextOf(input.snapshot.head)
                                                  /\ input.wanted # 0 => c.run = input.wanted
  BY WholeAnchored DEF E!TextOf, E!Missing
<1>5. \A c \in FailedRuns(input) : c.status \in E!Failure
  BY DEF FailedRuns
<1> HIDE DEF e, r
<1>6. E!VerifyEvidence(e) <=> E!Coherent(e)
  BY <1>2, <1>3, <1>4 DEF E!VerifyEvidence
<1>7. E!Verify(r) <=> E!Coherent(e)
  <2>1. /\ r.evidence = e /\ r.identity = e.identity /\ r.status = E!Triage(e)
        /\ r.eligible <=> E!Triage(e) = "UNEXPECTED_FAILURE_OBSERVED"
        /\ r.names = {c.name : c \in e.unexpected \cup e.expected} /\ r.gaps = e.gaps
    BY <1>1
  <2> QED
    BY <1>2, <1>5, <1>6, <2>1 DEF E!Verify
<1>8. r.evidence = e
  BY <1>1
<1>9. E!Coherent(e) <=>
        \A c \in {i.check : i \in e.ignored} :
          c.name # None /\ (c.run = 0 \/ \A d \in e.unexpected \cup e.expected : d.run # c.run)
  BY CoherentReport DEF e
<1> QED
  BY <1>7, <1>8, <1>9 DEF r

(* A report is planned on only with the status that is its own.               *)
LEMMA GivenOwn ==
  ASSUME NEW input, E!Input(input), ~E!Refused(input)
  PROVE  E!Given(input) = E!Analyze(input)
<1> DEFINE r == E!Analyze(input)
           e == E!Fingerprint(input)
<1>1. CASE input.claimed = ""
  BY <1>1 DEF E!Given
<1>2. CASE input.claimed # ""
  <2>1. E!Verify(E!Given(input))
    BY <1>2 DEF E!Refused, E!Input
  <2>2. r = [identity |-> e.identity, evidence |-> e, status |-> E!Triage(e),
             eligible |-> E!Triage(e) = "UNEXPECTED_FAILURE_OBSERVED",
             names |-> {c.name : c \in e.unexpected \cup e.expected}, gaps |-> e.gaps]
    BY FailureReportFields
  <2>3. E!Given(input) = [r EXCEPT !.status = input.claimed,
                                   !.eligible = input.claimed = "UNEXPECTED_FAILURE_OBSERVED"]
    BY <1>2 DEF E!Given
  <2> HIDE DEF e, r
  <2>4. /\ E!Given(input).evidence = e /\ E!Given(input).status = input.claimed
    BY <2>2, <2>3
  <2>5. input.claimed = E!Triage(e)
    BY <2>1, <2>4 DEF E!Verify
  <2> DEFINE names == {c.name : c \in e.unexpected \cup e.expected}
             status == E!Triage(e)
  <2>6. /\ r = [identity |-> e.identity, evidence |-> e, status |-> status,
                eligible |-> status = "UNEXPECTED_FAILURE_OBSERVED",
                names |-> names, gaps |-> e.gaps]
        /\ E!Given(input) = [r EXCEPT !.status = status,
                                      !.eligible = status = "UNEXPECTED_FAILURE_OBSERVED"]
    BY <2>2, <2>3, <2>5
  <2> HIDE DEF names, status
  <2>7. E!Given(input) = r
    BY <2>6
  <2> QED
    BY <2>7 DEF r
<1> QED
  BY <1>1, <1>2

(* What is planned on a genuine report.                                      *)
LEMMA Planned ==
  ASSUME NEW input
  PROVE  LET r == E!Analyze(input)
             p == E!Plan(r)
             stale == E!StaleBase(input.snapshot) \/ E!StaleEvidence(input.snapshot)
         IN /\ p.identity = [E!Identity(input.snapshot) EXCEPT !.noUniqueMergeBase = FALSE]
            /\ p.reference = r /\ p.key = E!Key(p.identity, p.action, r)
            /\ p.identity.gaps = E!IdentityGaps(input.snapshot)
            /\ p.identity.staleBase <=> E!StaleBase(input.snapshot)
            /\ p.identity.staleEvidence <=> E!StaleEvidence(input.snapshot)
            /\ \/ /\ stale /\ p.decision = "BLOCKED" /\ p.action = "NONE"
                  /\ p.reason = "IDENTITY_STALE_FOR_AUTOMATION"
                  /\ "identity_stale_for_automation" \in p.gaps
               \/ /\ ~stale /\ r.status = "UNEXPECTED_FAILURE_OBSERVED" /\ p.decision = "READY"
                  /\ p.action = "CI_FAILURE_DIAGNOSIS" /\ p.gaps = {}
                  /\ p.reason = "UNEXPECTED_FAILURE_WITH_COMPLETE_EVIDENCE"
               \/ /\ ~stale /\ r.status \in {"NO_TERMINAL_FAILURE", "EXPECTED_FAILURE_ONLY"}
                  /\ p.decision = "NO_ACTION" /\ p.action = "NONE" /\ p.gaps = {}
                  /\ p.reason = r.status
               \/ /\ ~stale /\ r.status = "INSUFFICIENT_EVIDENCE" /\ p.decision = "BLOCKED"
                  /\ p.action = "NONE" /\ p.reason = "EVIDENCE_INSUFFICIENT_FOR_AUTOMATION"
                  /\ p.gaps # {}
<1> DEFINE r == E!Analyze(input)
           p == E!Plan(r)
           e == E!Fingerprint(input)
           identity == [E!Identity(input.snapshot) EXCEPT !.noUniqueMergeBase = FALSE]
           stale == E!StaleBase(input.snapshot) \/ E!StaleEvidence(input.snapshot)
<1>1. /\ r.identity = E!Identity(input.snapshot) /\ r.status = E!Triage(e)
      /\ r.eligible <=> r.status = "UNEXPECTED_FAILURE_OBSERVED"
      /\ r.gaps = e.gaps
  <2>1. e.identity = E!Identity(input.snapshot)
    BY EvidenceFields
  <2> HIDE DEF e
  <2>2. r = [identity |-> e.identity, evidence |-> e, status |-> E!Triage(e),
             eligible |-> E!Triage(e) = "UNEXPECTED_FAILURE_OBSERVED",
             names |-> {c.name : c \in e.unexpected \cup e.expected}, gaps |-> e.gaps]
    BY FailureReportFields DEF e
  <2> HIDE DEF r
  <2> QED
    BY <2>1, <2>2
<1>2. /\ r.status \in {"INSUFFICIENT_EVIDENCE", "UNEXPECTED_FAILURE_OBSERVED",
                       "EXPECTED_FAILURE_ONLY", "NO_TERMINAL_FAILURE"}
      /\ r.status = "INSUFFICIENT_EVIDENCE" => r.gaps # {}
  <2>1. e.whole <=> e.gaps = {}
    BY EvidenceFields
  <2> HIDE DEF e, r
  <2> QED
    BY <1>1, <2>1 DEF E!Triage
<1>3. /\ identity.gaps = E!IdentityGaps(input.snapshot)
      /\ identity.staleBase <=> E!StaleBase(input.snapshot)
      /\ identity.staleEvidence <=> E!StaleEvidence(input.snapshot)
  BY DEF E!Identity
<1> HIDE DEF identity, r, p
<1> DEFINE envelope(decision, action, reason, gaps) ==
             [identity |-> identity, decision |-> decision, action |-> action, reason |-> reason,
              gaps |-> gaps, reference |-> r, key |-> E!Key(identity, action, r)]
<1>4. p = IF identity.staleBase \/ identity.staleEvidence
          THEN envelope("BLOCKED", "NONE", "IDENTITY_STALE_FOR_AUTOMATION",
                        r.gaps \cup {"identity_stale_for_automation"})
          ELSE IF r.status = "UNEXPECTED_FAILURE_OBSERVED" /\ r.eligible
          THEN envelope("READY", "CI_FAILURE_DIAGNOSIS",
                        "UNEXPECTED_FAILURE_WITH_COMPLETE_EVIDENCE", {})
          ELSE IF r.status \in {"NO_TERMINAL_FAILURE", "EXPECTED_FAILURE_ONLY"}
          THEN envelope("NO_ACTION", "NONE", r.status, {})
          ELSE envelope("BLOCKED", "NONE", "EVIDENCE_INSUFFICIENT_FOR_AUTOMATION", r.gaps)
  <2>1. identity = [r.identity EXCEPT !.noUniqueMergeBase = FALSE]
    BY <1>1 DEF identity
  <2> QED
    BY <2>1 DEF E!Plan, p
<1>5. \E d, a, w, g : p = envelope(d, a, w, g)
  BY <1>4
<1>6. p.identity = identity /\ p.reference = r /\ p.key = E!Key(p.identity, p.action, r)
  BY <1>5
<1>7. \/ /\ stale /\ p = envelope("BLOCKED", "NONE", "IDENTITY_STALE_FOR_AUTOMATION",
                                  r.gaps \cup {"identity_stale_for_automation"})
      \/ /\ ~stale /\ r.status = "UNEXPECTED_FAILURE_OBSERVED"
         /\ p = envelope("READY", "CI_FAILURE_DIAGNOSIS",
                         "UNEXPECTED_FAILURE_WITH_COMPLETE_EVIDENCE", {})
      \/ /\ ~stale /\ r.status \in {"NO_TERMINAL_FAILURE", "EXPECTED_FAILURE_ONLY"}
         /\ p = envelope("NO_ACTION", "NONE", r.status, {})
      \/ /\ ~stale /\ r.status = "INSUFFICIENT_EVIDENCE" /\ r.gaps # {}
         /\ p = envelope("BLOCKED", "NONE", "EVIDENCE_INSUFFICIENT_FOR_AUTOMATION", r.gaps)
  <2> HIDE DEF envelope
  <2> QED
    BY <1>1, <1>2, <1>3, <1>4
<1>8. \/ /\ stale /\ p.decision = "BLOCKED" /\ p.action = "NONE"
         /\ p.reason = "IDENTITY_STALE_FOR_AUTOMATION"
         /\ "identity_stale_for_automation" \in p.gaps
      \/ /\ ~stale /\ r.status = "UNEXPECTED_FAILURE_OBSERVED" /\ p.decision = "READY"
         /\ p.action = "CI_FAILURE_DIAGNOSIS" /\ p.gaps = {}
         /\ p.reason = "UNEXPECTED_FAILURE_WITH_COMPLETE_EVIDENCE"
      \/ /\ ~stale /\ r.status \in {"NO_TERMINAL_FAILURE", "EXPECTED_FAILURE_ONLY"}
         /\ p.decision = "NO_ACTION" /\ p.action = "NONE" /\ p.gaps = {}
         /\ p.reason = r.status
      \/ /\ ~stale /\ r.status = "INSUFFICIENT_EVIDENCE" /\ p.decision = "BLOCKED"
         /\ p.action = "NONE" /\ p.reason = "EVIDENCE_INSUFFICIENT_FOR_AUTOMATION"
         /\ p.gaps # {}
  <2> HIDE DEF stale
  <2> QED
    BY <1>7
<1>9. /\ p.identity.gaps = E!IdentityGaps(input.snapshot)
      /\ p.identity.staleBase <=> E!StaleBase(input.snapshot)
      /\ p.identity.staleEvidence <=> E!StaleEvidence(input.snapshot)
  BY <1>3, <1>6
<1> QED
  BY <1>6, <1>8, <1>9 DEF p, r, identity

(* An envelope is accepted exactly when the identity of its report is valid. *)
LEMMA EnvelopeVerified ==
  ASSUME NEW input
  PROVE  E!VerifyEnvelope(E!Plan(E!Analyze(input))) <=> K!IdentityGaps(input.snapshot) = {}
<1> DEFINE r == E!Analyze(input)
           p == E!Plan(r)
           stale == E!StaleBase(input.snapshot) \/ E!StaleEvidence(input.snapshot)
<1>1. /\ p.key = E!Key(p.identity, p.action, p.reference)
      /\ p.identity.gaps = E!IdentityGaps(input.snapshot)
      /\ (p.identity.staleBase \/ p.identity.staleEvidence) <=> stale
  BY Planned
<1>2. \/ /\ stale /\ p.decision = "BLOCKED" /\ p.action = "NONE"
         /\ p.reason = "IDENTITY_STALE_FOR_AUTOMATION"
         /\ "identity_stale_for_automation" \in p.gaps
      \/ /\ ~stale /\ p.decision = "READY"
         /\ p.action = "CI_FAILURE_DIAGNOSIS" /\ p.gaps = {}
         /\ p.reason = "UNEXPECTED_FAILURE_WITH_COMPLETE_EVIDENCE"
      \/ /\ ~stale /\ p.decision = "NO_ACTION" /\ p.action = "NONE" /\ p.gaps = {}
         /\ p.reason \in {"NO_TERMINAL_FAILURE", "EXPECTED_FAILURE_ONLY"}
      \/ /\ ~stale /\ p.decision = "BLOCKED"
         /\ p.action = "NONE" /\ p.reason = "EVIDENCE_INSUFFICIENT_FOR_AUTOMATION"
         /\ p.gaps # {}
  <2> HIDE DEF stale
  <2> QED
    BY Planned DEF stale
<1> HIDE DEF p, stale
<1>3. E!VerifyEnvelope(p) <=> p.identity.gaps = {}
  BY <1>1, <1>2 DEF E!VerifyEnvelope
<1> QED
  BY <1>1, <1>3, FailureIdentity DEF p

(* What is left of the declared revisions when "" is as good as none.         *)
Plainly(d) == [side \in E!Sides |-> IF d[side] = "" THEN None ELSE d[side]]

(* Both ways to read what a mapping declares give the same texts where they     *)
(* agree.                                                                  *)
LEMMA DeclaredAgree ==
  ASSUME NEW s \in E!Snapshot, s.mapping
  PROVE  /\ Plainly(E!DeclaredOf(s)) = Plainly(E!Coerce(s).declared) <=> AgreedOn(s)
         /\ AgreedOn(s) => \A d : E!Contradicted(E!DeclaredOf(s), d)
                                    <=> E!Contradicted(E!Coerce(s).declared, d)
<1> DEFINE one == E!DeclaredOf(s)
           other == E!Coerce(s).declared
<1>1. /\ one = [side \in E!Sides |->
                  IF s.declared[side] \in E!Missing THEN s.legacy[side] ELSE s.declared[side]]
      /\ other = [side \in E!Sides |->
                    IF s.declared[side] = None THEN s.legacy[side] ELSE s.declared[side]]
  BY DEF E!DeclaredOf, E!Coerce, E!Snapshot
<1> HIDE DEF one, other
<1>2. ASSUME NEW side \in E!Sides
      PROVE  Plainly(one)[side] = Plainly(other)[side]
               <=> (s.declared[side] = "" => s.legacy[side] \in Missing)
  BY <1>1, MissingAssumption DEF E!Missing, Missing, Plainly
<1>3. E!Sides = Sides
  BY DEF E!Sides, Sides
<1>4. Plainly(one) = Plainly(other) <=> AgreedOn(s)
  <2>1. Plainly(one) = Plainly(other) <=> \A side \in E!Sides : Plainly(one)[side] = Plainly(other)[side]
    BY DEF Plainly
  <2> QED
    BY <1>2, <1>3, <2>1 DEF AgreedOn
<1>5. ASSUME AgreedOn(s), NEW d
      PROVE  E!Contradicted(one, d) <=> E!Contradicted(other, d)
  <2>1. \A side \in E!Sides : one[side] = other[side] \/ {one[side], other[side]} \subseteq Missing
    BY <1>1, <1>3, <1>5 DEF AgreedOn, E!Missing, Missing
  <2>2. {"base", "head", "main"} \subseteq E!Sides
    BY DEF E!Sides
  <2> QED
    BY <2>1, <2>2 DEF E!Contradicted, E!Missing, Missing
<1> QED
  BY <1>4, <1>5 DEF one, other

(* A bundle, which is made only of a report that is accepted, is accepted       *)
(* exactly when the identity is valid and its readers agree.                 *)
LEMMA BundleVerified ==
  ASSUME NEW input, E!Input(input), input.snapshot.mapping, E!Verify(E!Analyze(input))
  PROVE  E!VerifyBundle(E!Bundle(input))
           <=> K!IdentityGaps(input.snapshot) = {} /\ AgreedOn(input.snapshot)
<1> DEFINE s == input.snapshot
           b == E!Bundle(input)
           p == E!Plan(E!Analyze(input))
           whole == E!Identity(s)
           made == E!Identity(E!Coerce(s))
           blind == [whole EXCEPT !.noUniqueMergeBase = FALSE]
<1>1. b.revision = whole /\ b.readiness = made /\ b.cfi = E!Analyze(input) /\ b.eia = p
  BY DEF E!Bundle
<1>2. b.cfi.identity = whole /\ p.identity = blind
  <2>1. E!Analyze(input).identity = whole
    BY EvidenceFields, FailureReportFields
  <2> QED
    BY <1>1, <2>1, Planned
<1>3. E!VerifyEnvelope(p) <=> K!IdentityGaps(s) = {}
  BY EnvelopeVerified
<1>4. s \in E!Snapshot /\ s.mapping
  BY DEF E!Input
<1>5. ASSUME E!VerifyBundle(b) PROVE K!IdentityGaps(s) = {} /\ AgreedOn(s)
  <2>1. E!Plain(whole) = E!Plain(made)
    BY <1>1, <1>2, <1>5 DEF E!VerifyBundle
  <2>2. /\ whole.declared = E!DeclaredOf(s)
        /\ made.declared = E!Coerce(s).declared
    BY <1>4 DEF E!Identity, E!DeclaredOf, E!Coerce, E!Snapshot
  <2>3. /\ E!Plain(whole).declared = Plainly(whole.declared)
        /\ E!Plain(made).declared = Plainly(made.declared)
    BY DEF E!Plain, E!Identity, Plainly
  <2>4. AgreedOn(s)
    <3> HIDE DEF whole, made
    <3> QED
      BY <1>4, <2>1, <2>2, <2>3, DeclaredAgree
  <2> QED
    BY <1>1, <1>3, <1>5, <2>4 DEF E!VerifyBundle
<1>6. ASSUME K!IdentityGaps(s) = {}, AgreedOn(s) PROVE E!VerifyBundle(b)
  <2> DEFINE c == E!Coerce(s)
  <2>1. s.main \notin E!Missing
    BY <1>6 DEF K!IdentityGaps, K!IdentityGap, K!Missing, E!Missing
  <2>2. /\ c.repository = s.repository /\ c.number = s.number /\ c.base = s.base
        /\ c.head = s.head /\ c.main = s.main /\ c.mergeBase = s.mergeBase /\ ~c.mapping
    BY <1>4, <2>1 DEF E!Coerce, E!Snapshot
  <2>3. E!DeclaredOf(c) = c.declared
    BY <2>2 DEF E!DeclaredOf
  <2>4. E!StaleEvidence(c) <=> E!StaleEvidence(s)
    <3> HIDE DEF c
    <3>1. E!Contradicted(c.declared, c) <=> E!Contradicted(c.declared, s)
      BY <2>2 DEF E!Contradicted
    <3>2. E!Contradicted(c.declared, s) <=> E!Contradicted(E!DeclaredOf(s), s)
      BY <1>4, <1>6, DeclaredAgree DEF c
    <3> QED
      BY <2>3, <3>1, <3>2 DEF E!StaleEvidence
  <2>5. Plainly(whole.declared) = Plainly(made.declared)
    <3>1. whole.declared = E!DeclaredOf(s) /\ made.declared = c.declared
      BY <2>3 DEF E!Identity
    <3> HIDE DEF whole, made, c
    <3> QED
      BY <1>4, <1>6, <3>1, DeclaredAgree DEF c
  <2>6. made = [whole EXCEPT !.declared = made.declared]
    <3> HIDE DEF c
    <3>1. E!IdentityGaps(c) = E!IdentityGaps(s) /\ (E!StaleBase(c) <=> E!StaleBase(s))
      BY <2>2 DEF E!IdentityGaps, E!StaleBase
    <3>2. E!StaleEvidence(c) = E!StaleEvidence(s) /\ E!StaleBase(c) = E!StaleBase(s)
      BY <2>4, <3>1 DEF E!StaleEvidence, E!StaleBase, E!Contradicted
    <3> QED
      BY <2>2, <3>1, <3>2 DEF E!Identity, c
  <2> HIDE DEF c
  <2>7. E!Plain(whole) = E!Plain(made)
    <3>1. /\ E!Plain(whole) = [whole EXCEPT !.declared = Plainly(whole.declared)]
          /\ E!Plain(made) = [made EXCEPT !.declared = Plainly(made.declared)]
      BY DEF E!Plain, E!Identity, Plainly
    <3>2. whole = [whole EXCEPT !.declared = whole.declared]
      BY DEF E!Identity
    <3> DEFINE m == made.declared
    <3>3. made = [whole EXCEPT !.declared = m]
      BY <2>6
    <3>4. DOMAIN whole = DOMAIN [whole EXCEPT !.declared = Plainly(m)]
      BY DEF E!Identity
    <3> HIDE DEF whole, made, m
    <3> QED
      BY <2>5, <3>1, <3>3 DEF m
  <2>8. E!Plain(blind) = [E!Plain(whole) EXCEPT !.noUniqueMergeBase = FALSE]
    BY DEF E!Plain, E!Identity
  <2>9. /\ \A id \in {made, blind} :
             /\ id.repository = whole.repository /\ id.number = whole.number
             /\ id.head = whole.head /\ id.base = whole.base /\ id.main = whole.main
    <3>1. /\ blind.repository = whole.repository /\ blind.number = whole.number
          /\ blind.head = whole.head /\ blind.base = whole.base /\ blind.main = whole.main
      BY DEF E!Identity
    <3>2. /\ made.repository = whole.repository /\ made.number = whole.number
          /\ made.head = whole.head /\ made.base = whole.base /\ made.main = whole.main
      BY <2>2 DEF E!Identity, c
    <3> QED
      BY <3>1, <3>2
  <2>10. E!Verify(b.cfi) /\ E!VerifyEnvelope(b.eia)
    BY <1>1, <1>3, <1>6
  <2> HIDE DEF whole, made, blind, b, s
  <2> QED
    BY <1>1, <1>2, <2>7, <2>8, <2>9, <2>10 DEF E!VerifyBundle
<1> QED
  BY <1>5, <1>6

(* A terminal bundle, made of a bundle that is accepted, is accepted.        *)
LEMMA TerminalVerified ==
  ASSUME NEW input, E!Input(input), E!Waited(input), E!VerifyBundle(E!Bundle(input))
  PROVE  E!VerifyTerminalBundle(E!TerminalBundle(input))
<1> DEFINE t == E!TerminalBundle(input)
<1>1. /\ t.bundle = E!Bundle(input) /\ t.head = input.snapshot.head /\ t.run = input.current
      /\ t.observed = E!External(input)
  BY DEF E!TerminalBundle
<1>2. t.bundle.revision.head = input.snapshot.head
  <2>1. E!VerifyEnvelope(E!Plan(E!Analyze(input)))
    BY DEF E!VerifyBundle, E!Bundle
  <2>2. input.snapshot.head \notin E!Missing
    BY <2>1, EnvelopeVerified, FailureIdentity DEF E!IdentityGaps, E!IdentityGap
  <2>3. E!TextOf(input.snapshot.head) = input.snapshot.head
    BY <2>2 DEF E!TextOf, E!Missing
  <2>4. E!Bundle(input).revision.head = E!TextOf(input.snapshot.head)
    BY DEF E!Bundle, E!Identity
  <2> QED
    BY <1>1, <2>3, <2>4
<1>3. \A c \in E!External(input) :
        c.head = input.snapshot.head /\ c.status \in E!Ended /\ c.actions # input.current
  BY DEF E!Waited, E!External
<1> HIDE DEF t
<1>4. E!VerifyTerminalBundle(t)
  BY <1>1, <1>2, <1>3 DEF E!VerifyTerminalBundle, E!Waited
<1> QED
  BY <1>4 DEF t

-----------------------------------------------------------------------------
(***************************************************************************)
(* CI failures: rows that are listed again.                                 *)
(***************************************************************************)

(* The row d makes the row c superfluous: it was listed before with the same *)
(* status, or it is what c became when its run ended.                        *)
Repeats(c, d, head) ==
  /\ d = [c EXCEPT !.row = d.row, !.status = d.status]
  /\ \/ c.status = d.status /\ c.row > d.row
     \/ /\ c.status = "in_progress" /\ d.status # c.status /\ c.run # 0
        /\ c.head \in {"", head}

(* The rows that remain without the repetitions.                             *)
Once(input) == {c \in input.checks : ~\E d \in input.checks : Repeats(c, d, input.snapshot.head)}

(* The rows that say of c what it says, but for the status.                   *)
Alike(c, d) ==
  /\ c.name = d.name /\ c.run = d.run /\ c.suite = d.suite /\ c.workflow = d.workflow
  /\ c.app = d.app /\ c.head = d.head /\ c.expected = d.expected /\ c.located = d.located
  /\ c.actions = d.actions

(* A row that differs at most in its place and status is alike.              *)
LEMMA AlikeExcept ==
  ASSUME NEW c \in E!Check, NEW d \in E!Check
  PROVE  d = [c EXCEPT !.row = d.row, !.status = d.status] <=> Alike(c, d)
BY DEF E!Check, Alike

(* Of rows that are alike and of one status the first is no repetition of one   *)
(* with that status.                                                       *)
LEMMA FirstRow ==
  ASSUME NEW checks, checks \subseteq E!Check, NEW c \in checks
  PROVE  \E d \in checks : /\ Alike(c, d) /\ d.status = c.status
                           /\ \A e \in checks : Alike(c, e) /\ e.status = c.status
                                                  => e.row >= d.row
<1> DEFINE rows == {d.row : d \in {e \in checks : Alike(c, e) /\ e.status = c.status}}
<1>1. rows \subseteq Nat /\ c.row \in rows
  BY DEF E!Check, Alike
<1>2. PICK n \in rows : \A m \in rows : n <= m
  <2> HIDE DEF rows
  <2> QED
    BY <1>1, LeastExists
<1> QED
  BY <1>2

(* Each row has one among those that remain that says the same of the run.     *)
LEMMA Represented ==
  ASSUME NEW input, input.checks \subseteq E!Check, NEW c \in input.checks
  PROVE  \E d \in Once(input) :
           /\ Alike(c, d)
           /\ \/ d.status = c.status
              \/ /\ c.status = "in_progress" /\ c.run # 0
                 /\ c.head \in {"", input.snapshot.head}
<1> DEFINE head == input.snapshot.head
<1>1. ASSUME NEW e \in input.checks, Alike(c, e),
             \/ e.status # "in_progress"
             \/ \A x \in input.checks :
                  Alike(e, x) => x.status = e.status \/ e.run = 0 \/ e.head \notin {"", head}
      PROVE  \E d \in Once(input) : Alike(c, d) /\ d.status = e.status
  <2>1. PICK d \in input.checks : /\ Alike(e, d) /\ d.status = e.status
                                  /\ \A x \in input.checks : Alike(e, x) /\ x.status = e.status
                                                               => x.row >= d.row
    BY FirstRow
  <2>2. ASSUME NEW x \in input.checks, Repeats(d, x, head) PROVE FALSE
    <3>1. d \in E!Check /\ x \in E!Check
      OBVIOUS
    <3>2. Alike(d, x)
      BY <2>2, <3>1, AlikeExcept DEF Repeats
    <3>3. Alike(e, x) /\ d.run = e.run /\ d.head = e.head
      BY <2>1, <3>2 DEF Alike
    <3>4. CASE d.status = x.status /\ d.row > x.row
      <4>1. d.row \in Nat /\ x.row \in Nat
        BY <3>1 DEF E!Check
      <4> QED
        BY <2>1, <3>3, <3>4, <4>1
    <3>5. CASE d.status = "in_progress" /\ x.status # d.status /\ d.run # 0 /\ d.head \in {"", head}
      BY <1>1, <2>1, <3>3, <3>5
    <3> QED
      BY <2>2, <3>4, <3>5 DEF Repeats
  <2>3. d \in Once(input) /\ Alike(c, d)
    BY <1>1, <2>1, <2>2 DEF Once, Alike
  <2> QED
    BY <2>1, <2>3
<1>2. CASE c.status # "in_progress" \/ c.run = 0 \/ c.head \notin {"", head}
  BY <1>1, <1>2 DEF Alike
<1>3. CASE c.status = "in_progress" /\ c.run # 0 /\ c.head \in {"", head}
  <2>1. CASE \E e \in input.checks : Alike(c, e) /\ e.status # "in_progress"
    BY <1>1, <1>3, <2>1
  <2>2. CASE ~\E e \in input.checks : Alike(c, e) /\ e.status # "in_progress"
    BY <1>1, <1>3, <2>2 DEF Alike
  <2> QED
    BY <2>1, <2>2
<1> QED
  BY <1>2, <1>3

(* The rows that remain are effective and failed as they were.                *)
LEMMA OnceEffective ==
  ASSUME NEW input, E!Input(input), NEW other, other.checks = Once(input), other.self = input.self
  PROVE  /\ E!Effective(other) = E!Effective(input) \cap Once(input)
         /\ FailedRuns(other) = FailedRuns(input) \cap Once(input)
<1>1. ASSUME NEW c PROVE E!NewerRuns(c, other) = E!NewerRuns(c, input)
  <2>1. ASSUME NEW d \in input.checks, E!Supersedes(d, c)
        PROVE  \E e \in Once(input) : E!Supersedes(e, c) /\ e.run = d.run
    <3>1. PICK e \in Once(input) : Alike(d, e)
      BY Represented DEF E!Input
    <3> QED
      BY <2>1, <3>1 DEF E!Supersedes, E!Identified, Alike
  <2>2. Once(input) \subseteq input.checks
    BY DEF Once
  <2> QED
    BY <2>1, <2>2 DEF E!NewerRuns
<1>2. ASSUME NEW c PROVE /\ E!OfSelf(c, other) <=> E!OfSelf(c, input)
                         /\ E!Superseded(c, other) <=> E!Superseded(c, input)
  BY <1>1 DEF E!OfSelf, E!Superseded
<1>3. E!Effective(other) = E!Effective(input) \cap Once(input)
  BY <1>2 DEF E!Effective, Once
<1> QED
  BY <1>3 DEF FailedRuns

(* A failed row is represented by a failed row.                              *)
LEMMA FailureRepresented ==
  ASSUME NEW input, E!Input(input), NEW c \in FailedRuns(input)
  PROVE  \E d \in FailedRuns(input) \cap Once(input) : Alike(c, d) /\ d.status = c.status
<1>1. c \in input.checks /\ c.status # "in_progress"
  BY DEF FailedRuns, E!Effective, E!Failure
<1>2. PICK d \in Once(input) : Alike(c, d) /\ d.status = c.status
  BY <1>1, Represented DEF E!Input
<1>3. E!NewerRuns(d, input) = E!NewerRuns(c, input)
  BY <1>2 DEF E!NewerRuns, E!Supersedes, E!Identified, Alike
<1>4. d \in FailedRuns(input)
  BY <1>2, <1>3 DEF FailedRuns, E!Effective, E!OfSelf, E!Superseded, E!Normal, Alike, Once
<1> QED
  BY <1>2, <1>4

(* What is wrong with a row is wrong with one that remains.                    *)
LEMMA GapRepresented ==
  ASSUME NEW input, E!Input(input), NEW c \in E!Effective(input),
         E!CheckGaps(c, ReviewedHead(input)) # {}
  PROVE  \E d \in E!Effective(input) \cap Once(input) : E!CheckGaps(d, ReviewedHead(input)) # {}
<1>1. c \in input.checks /\ ~E!OfSelf(c, input) /\ ~E!Superseded(c, input)
  BY DEF E!Effective
<1>2. PICK d \in Once(input) :
             /\ Alike(c, d)
             /\ \/ d.status = c.status
                \/ /\ c.status = "in_progress" /\ c.run # 0
                   /\ c.head \in {"", input.snapshot.head}
  BY <1>1, Represented DEF E!Input
<1>3. /\ E!NewerRuns(d, input) = E!NewerRuns(c, input)
      /\ E!OfSelf(d, input) <=> E!OfSelf(c, input)
      /\ d \in input.checks
  BY <1>2 DEF E!NewerRuns, E!Supersedes, E!Identified, E!OfSelf, Alike, Once
<1>4. CASE d.status = c.status
  <2>1. d \in E!Effective(input)
    BY <1>1, <1>3, <1>4 DEF E!Effective, E!Superseded, E!OfSelf
  <2>2. E!CheckGaps(d, ReviewedHead(input)) = E!CheckGaps(c, ReviewedHead(input))
    BY <1>2, <1>4 DEF E!CheckGaps, E!Normal, Alike
  <2> QED
    BY <2>1, <2>2
<1>5. CASE /\ c.status = "in_progress" /\ c.run # 0
           /\ c.head \in {"", input.snapshot.head}
  <2>1. ReviewedHead(input) \in {"", input.snapshot.head}
    BY DEF ReviewedHead
  <2>2. c.name \in E!Missing
    BY <1>5, <2>1 DEF E!CheckGaps, E!Normal, E!Failure
  <2>3. d.name \in E!Missing
    BY <1>2, <2>2 DEF Alike
  <2>4. E!NewerRuns(d, input) = {}
    BY <2>3 DEF E!NewerRuns, E!Supersedes, E!Identified
  <2>5. d \in E!Effective(input)
    BY <1>1, <1>3, <2>4 DEF E!Effective, E!Superseded
  <2>6. "check name missing or invalid" \in E!CheckGaps(d, ReviewedHead(input))
    BY <2>3 DEF E!CheckGaps
  <2> QED
    BY <1>2, <2>5, <2>6
<1> QED
  BY <1>2, <1>4, <1>5

(* The triage has the outcome it has without the repetitions.                 *)
LEMMA TriageOnce ==
  ASSUME NEW input, E!Input(input)
  PROVE  LET other == [input EXCEPT !.checks = Once(input)] IN
         E!Triage(E!Fingerprint(other)) = E!Triage(E!Fingerprint(input))
<1> DEFINE other == [input EXCEPT !.checks = Once(input)]
           e == E!Fingerprint(input)
           f == E!Fingerprint(other)
<1>1. /\ other.snapshot = input.snapshot /\ other.checks = Once(input) /\ other.self = input.self
      /\ other.complete = input.complete /\ other.errors = input.errors
      /\ other.expected = input.expected /\ other.wanted = input.wanted
  BY DEF E!Input
<1> HIDE DEF other
<1>2. /\ E!Effective(other) = E!Effective(input) \cap Once(input)
      /\ FailedRuns(other) = FailedRuns(input) \cap Once(input)
  BY <1>1, OnceEffective
<1>3. /\ e.expected = {c \in FailedRuns(input) : c.expected \/ input.expected}
      /\ e.unexpected = FailedRuns(input) \ e.expected
      /\ f.expected = {c \in FailedRuns(other) : c.expected \/ other.expected}
      /\ f.unexpected = FailedRuns(other) \ f.expected
      /\ (e.whole <=> e.gaps = {}) /\ (f.whole <=> f.gaps = {})
  BY EvidenceFields
<1> DEFINE open(d) ==
             \/ E!IdentityGaps(d.snapshot) # {} \/ d.errors # {} \/ ~d.complete
             \/ d.checks = {}
             \/ \E c \in E!Effective(d) : E!CheckGaps(c, ReviewedHead(d)) # {}
             \/ d.wanted # 0 /\ \E c \in FailedRuns(d) : c.run # d.wanted
<1>4. ASSUME NEW d PROVE E!Fingerprint(d).gaps # {} <=> open(d)
  <2> DEFINE rest == {k \in {"collection_incomplete", "no_check_evidence_provided",
                             "foreign check identity"} :
                        \/ k = "collection_incomplete" /\ ~d.complete
                        \/ k = "no_check_evidence_provided" /\ d.checks = {}
                        \/ /\ k = "foreign check identity" /\ d.wanted # 0
                           /\ \E c \in FailedRuns(d) : c.run # d.wanted}
             gaps == UNION {E!CheckGaps(c, ReviewedHead(d)) : c \in E!Effective(d)}
  <2>1. E!Fingerprint(d).gaps = E!IdentityGaps(d.snapshot) \cup d.errors \cup gaps \cup rest
    BY EvidenceFields
  <2>2. rest # {} <=> \/ ~d.complete \/ d.checks = {}
                      \/ d.wanted # 0 /\ \E c \in FailedRuns(d) : c.run # d.wanted
    <3>1. /\ "collection_incomplete" \in rest <=> ~d.complete
          /\ "no_check_evidence_provided" \in rest <=> d.checks = {}
          /\ "foreign check identity" \in rest <=>
               d.wanted # 0 /\ \E c \in FailedRuns(d) : c.run # d.wanted
      OBVIOUS
    <3>2. rest # {} <=> \/ "collection_incomplete" \in rest
                        \/ "no_check_evidence_provided" \in rest
                        \/ "foreign check identity" \in rest
      OBVIOUS
    <3> HIDE DEF rest
    <3> QED
      BY <3>1, <3>2
  <2>3. gaps # {} <=> \E c \in E!Effective(d) : E!CheckGaps(c, ReviewedHead(d)) # {}
    <3>1. ASSUME NEW c \in E!Effective(d), E!CheckGaps(c, ReviewedHead(d)) # {} PROVE gaps # {}
      <4>1. PICK g : g \in E!CheckGaps(c, ReviewedHead(d))
        BY <3>1
      <4>2. g \in gaps
        BY <4>1
      <4> QED
        BY <4>2
    <3>2. ASSUME gaps # {} PROVE \E c \in E!Effective(d) : E!CheckGaps(c, ReviewedHead(d)) # {}
      <4>1. PICK g : g \in gaps
        BY <3>2
      <4>2. PICK c \in E!Effective(d) : g \in E!CheckGaps(c, ReviewedHead(d))
        BY <4>1
      <4> QED
        BY <4>2
    <3> HIDE DEF gaps
    <3> QED
      BY <3>1, <3>2
  <2> HIDE DEF rest, gaps
  <2> QED
    BY <2>1, <2>2, <2>3
<1>5. open(other) <=> open(input)
  <2>1. ReviewedHead(other) = ReviewedHead(input)
    BY <1>1 DEF ReviewedHead
  <2>2. Once(input) = {} <=> input.checks = {}
    <3>1. Once(input) \subseteq input.checks
      BY DEF Once
    <3>2. ASSUME NEW c \in input.checks PROVE Once(input) # {}
      BY Represented DEF E!Input
    <3> QED
      BY <3>1, <3>2
  <2>3. (\E c \in E!Effective(other) : E!CheckGaps(c, ReviewedHead(other)) # {})
          <=> \E c \in E!Effective(input) : E!CheckGaps(c, ReviewedHead(input)) # {}
    BY <1>2, <2>1, GapRepresented
  <2>4. (\E c \in FailedRuns(other) : c.run # input.wanted)
          <=> \E c \in FailedRuns(input) : c.run # input.wanted
    BY <1>2, FailureRepresented DEF Alike
  <2> QED
    BY <1>1, <2>2, <2>3, <2>4
<1>6. f.expected = {} <=> e.expected = {}
  <2>1. f.expected \subseteq e.expected
    BY <1>1, <1>2, <1>3
  <2>2. ASSUME NEW c \in e.expected PROVE f.expected # {}
    <3>1. c \in FailedRuns(input) /\ (c.expected \/ input.expected)
      BY <1>3
    <3>2. PICK d \in FailedRuns(other) : Alike(c, d)
      BY <1>2, <3>1, FailureRepresented
    <3>3. d.expected \/ other.expected
      BY <1>1, <3>1, <3>2 DEF Alike
    <3>4. d \in f.expected
      BY <1>3, <3>2, <3>3
    <3> QED
      BY <3>4
  <2> QED
    BY <2>1, <2>2
<1>7. f.unexpected = {} <=> e.unexpected = {}
  <2>1. /\ \A c : c \in e.unexpected <=> c \in FailedRuns(input) /\ ~c.expected /\ ~input.expected
        /\ \A c : c \in f.unexpected <=> c \in FailedRuns(other) /\ ~c.expected /\ ~other.expected
    BY <1>3
  <2>2. f.unexpected \subseteq e.unexpected
    BY <1>1, <1>2, <2>1
  <2>3. ASSUME NEW c \in e.unexpected PROVE f.unexpected # {}
    <3>1. c \in FailedRuns(input) /\ ~c.expected /\ ~input.expected
      BY <2>1
    <3>2. PICK d \in FailedRuns(other) : Alike(c, d)
      BY <1>2, <3>1, FailureRepresented
    <3>3. ~d.expected /\ ~other.expected
      BY <1>1, <3>1, <3>2 DEF Alike
    <3>4. d \in f.unexpected
      BY <2>1, <3>2, <3>3
    <3> QED
      BY <3>4
  <2> QED
    BY <2>2, <2>3
<1>8. f.gaps = {} <=> e.gaps = {}
  <2> HIDE DEF open
  <2> QED
    BY <1>4, <1>5
<1> HIDE DEF e, f
<1>9. E!Triage(f) = E!Triage(e)
  BY <1>3, <1>6, <1>7, <1>8 DEF E!Triage
<1> QED
  BY <1>9 DEF e, f, other

(* The decision rests on the rows without the repetitions. READY and         *)
(* NO_ACTION rest on a whole snapshot of a trusted revision, and NO_ACTION   *)
(* on every failed check being accounted for.                                *)
LEMMA EnvelopeDecided ==
  ASSUME NEW input, E!Input(input)
  PROVE
    LET p == E!Plan(E!Analyze(input))
        other == [input EXCEPT !.checks = Once(input)]
    IN /\ p.decision = E!Plan(E!Analyze(other)).decision
       /\ p.decision # "BLOCKED" =>
            /\ K!Trusted(input.snapshot) /\ input.snapshot.base = input.snapshot.main
            /\ input.complete /\ Once(input) # {}
       /\ p.decision = "NO_ACTION" =>
            \A c \in input.checks :
              \/ c.suite # 0 /\ c.suite \in input.self
              \/ c.status \notin E!Failure \cup {""} \/ c.expected \/ input.expected
              \/ /\ c.status = "cancelled"
                 /\ \E d \in input.checks :
                      /\ d.run > c.run /\ d.name = c.name /\ d.workflow = c.workflow
                      /\ \/ d.head \in {"", input.snapshot.head}
                         \/ d.suite # 0 /\ d.suite \in input.self
<1> DEFINE p == E!Plan(E!Analyze(input))
           other == [input EXCEPT !.checks = Once(input)]
           q == E!Plan(E!Analyze(other))
           e == E!Fingerprint(input)
           stale == E!StaleBase(input.snapshot) \/ E!StaleEvidence(input.snapshot)
<1>1. other.snapshot = input.snapshot
  BY DEF E!Input
<1>2. E!Analyze(other).status = E!Analyze(input).status /\ E!Analyze(input).status = E!Triage(e)
  <2>1. \A d : E!Analyze(d).status = E!Triage(E!Fingerprint(d))
    BY DEF E!Analyze
  <2> QED
    BY <2>1, TriageOnce
<1> HIDE DEF other
<1> DEFINE decides(d, status, decision) ==
             LET old == E!StaleBase(d.snapshot) \/ E!StaleEvidence(d.snapshot) IN
             \/ old /\ decision = "BLOCKED"
             \/ ~old /\ status = "UNEXPECTED_FAILURE_OBSERVED" /\ decision = "READY"
             \/ ~old /\ status \in {"NO_TERMINAL_FAILURE", "EXPECTED_FAILURE_ONLY"}
                  /\ decision = "NO_ACTION"
             \/ ~old /\ status = "INSUFFICIENT_EVIDENCE" /\ decision = "BLOCKED"
<1>3. decides(input, E!Analyze(input).status, p.decision)
  BY Planned
<1>4. decides(other, E!Analyze(other).status, q.decision)
  BY Planned
<1> HIDE DEF p, q, stale
<1>5. p.decision = q.decision
  BY <1>1, <1>2, <1>3, <1>4
<1>6. ASSUME p.decision # "BLOCKED"
      PROVE  /\ ~stale /\ e.gaps = {}
             /\ p.decision = "NO_ACTION" => e.unexpected = {}
  <2>1. /\ ~stale /\ E!Triage(e) # "INSUFFICIENT_EVIDENCE"
        /\ p.decision = "NO_ACTION" => E!Triage(e) # "UNEXPECTED_FAILURE_OBSERVED"
    BY <1>2, <1>3, <1>6 DEF stale
  <2>2. e.whole <=> e.gaps = {}
    BY EvidenceFields
  <2> HIDE DEF e
  <2> QED
    BY <2>1, <2>2 DEF E!Triage
<1>7. ASSUME e.gaps = {}
      PROVE  /\ K!IdentityGaps(input.snapshot) = {} /\ input.complete /\ input.checks # {}
             /\ \A c \in E!Effective(input) : E!CheckGaps(c, ReviewedHead(input)) = {}
  <2> DEFINE rest == {k \in {"collection_incomplete", "no_check_evidence_provided",
                             "foreign check identity"} :
                        \/ k = "collection_incomplete" /\ ~input.complete
                        \/ k = "no_check_evidence_provided" /\ input.checks = {}
                        \/ /\ k = "foreign check identity" /\ input.wanted # 0
                           /\ \E c \in FailedRuns(input) : c.run # input.wanted}
  <2>1. e.gaps = E!IdentityGaps(input.snapshot) \cup input.errors
                   \cup (UNION {E!CheckGaps(c, ReviewedHead(input)) : c \in E!Effective(input)}) \cup rest
    BY EvidenceFields
  <2>2. /\ ~input.complete => "collection_incomplete" \in rest
        /\ input.checks = {} => "no_check_evidence_provided" \in rest
    OBVIOUS
  <2> HIDE DEF rest, e
  <2>3. /\ E!IdentityGaps(input.snapshot) = {} /\ rest = {}
        /\ \A c \in E!Effective(input) : E!CheckGaps(c, ReviewedHead(input)) = {}
    BY <1>7, <2>1
  <2> QED
    BY <2>2, <2>3, FailureIdentity
<1>8. /\ e.expected = {c \in FailedRuns(input) : c.expected \/ input.expected}
      /\ e.unexpected = FailedRuns(input) \ e.expected
  BY EvidenceFields
<1> HIDE DEF e
<1>9. ASSUME p.decision # "BLOCKED"
      PROVE  /\ K!Trusted(input.snapshot) /\ input.snapshot.base = input.snapshot.main
             /\ input.complete /\ Once(input) # {}
  <2>1. /\ K!IdentityGaps(input.snapshot) = {} /\ input.complete /\ input.checks # {}
        /\ ~E!StaleBase(input.snapshot) /\ ~E!StaleEvidence(input.snapshot)
    BY <1>6, <1>7, <1>9 DEF stale
  <2>2. K!Trusted(input.snapshot)
    BY <2>1, FailureIdentity DEF K!Trusted
  <2>3. input.snapshot.base \notin E!Missing /\ input.snapshot.main \notin E!Missing
    BY <2>1 DEF K!IdentityGaps, K!IdentityGap, K!Missing, E!Missing
  <2>4. input.snapshot.base = input.snapshot.main
    BY <2>1, <2>3 DEF E!StaleBase
  <2>5. Once(input) # {}
    BY <2>1, Represented DEF E!Input
  <2> QED
    BY <2>1, <2>2, <2>4, <2>5
<1>10. ASSUME p.decision = "NO_ACTION", NEW c \in input.checks
       PROVE  \/ c.suite # 0 /\ c.suite \in input.self
              \/ c.status \notin E!Failure \cup {""} \/ c.expected \/ input.expected
              \/ /\ c.status = "cancelled"
                 /\ \E d \in input.checks :
                      /\ d.run > c.run /\ d.name = c.name /\ d.workflow = c.workflow
                      /\ \/ d.head \in {"", input.snapshot.head}
                         \/ d.suite # 0 /\ d.suite \in input.self
  <2>1. CASE E!OfSelf(c, input)
    BY <2>1 DEF E!OfSelf
  <2>2. CASE E!Superseded(c, input)
    <3>1. c.status = "cancelled" /\ E!NewerRuns(c, input) # {}
      BY <2>2 DEF E!Superseded
    <3> DEFINE newer == E!NewerRuns(c, input)
               newest == CHOOSE n \in newer : \A m \in newer : m <= n
    <3>2. newest \in newer /\ \A m \in newer : m <= newest
      BY <2>2, NewestSupersedes
    <3>3. PICK d \in input.checks : E!Supersedes(d, c) /\ d.run = newest
      BY <3>2 DEF E!NewerRuns
    <3>4. ~E!Superseded(d, input)
      <4>1. SUFFICES ASSUME NEW f \in input.checks, E!Supersedes(f, d) PROVE FALSE
        BY DEF E!Superseded, E!NewerRuns
      <4>2. /\ f.run \in Nat /\ d.run \in Nat /\ c.run \in Nat
        BY DEF E!Input, E!Check
      <4>3. E!Supersedes(f, c) /\ f.run > d.run
        BY <3>3, <4>1, <4>2 DEF E!Supersedes
      <4>4. f.run \in newer
        BY <4>3 DEF E!NewerRuns
      <4> HIDE DEF newer, newest
      <4> QED
        BY <3>2, <3>3, <4>2, <4>3, <4>4
    <3>5. d.run > c.run /\ d.name = c.name /\ d.workflow = c.workflow /\ E!Identified(d)
      BY <3>3 DEF E!Supersedes
    <3>6. CASE E!OfSelf(d, input)
      BY <3>1, <3>5, <3>6 DEF E!OfSelf
    <3>7. CASE ~E!OfSelf(d, input)
      <4>1. d \in E!Effective(input)
        BY <3>4, <3>7 DEF E!Effective
      <4>2. e.gaps = {}
        BY <1>6, <1>10
      <4>3. E!CheckGaps(d, ReviewedHead(input)) = {}
        BY <1>7, <4>1, <4>2
      <4>4. ReviewedHead(input) = input.snapshot.head /\ input.snapshot.head # ""
        BY <1>7, <4>2, FailureIdentity DEF ReviewedHead, E!IdentityGaps, E!IdentityGap, E!Missing
      <4>5. /\ "check status missing or invalid" \notin E!CheckGaps(d, ReviewedHead(input))
            /\ "check head_sha mismatches PR head_sha" \notin E!CheckGaps(d, ReviewedHead(input))
        BY <4>3
      <4>6. E!Normal(d)
        BY <3>5, <4>5 DEF E!CheckGaps, E!Normal, E!Identified
      <4>7. d.head \in {"", input.snapshot.head}
        BY <4>4, <4>5, <4>6 DEF E!CheckGaps
      <4> QED
        BY <3>1, <3>5, <4>7
    <3> QED
      BY <3>6, <3>7
  <2>3. CASE ~E!OfSelf(c, input) /\ ~E!Superseded(c, input)
    <3>1. c \in E!Effective(input)
      BY <2>3 DEF E!Effective
    <3>2. e.gaps = {} /\ e.unexpected = {}
      BY <1>6, <1>10
    <3>3. E!CheckGaps(c, ReviewedHead(input)) = {}
      BY <1>7, <3>1, <3>2
    <3>4. /\ "check name missing or invalid" \notin E!CheckGaps(c, ReviewedHead(input))
          /\ "check status missing or invalid" \notin E!CheckGaps(c, ReviewedHead(input))
      BY <3>3
    <3>5. E!Normal(c)
      BY <3>4 DEF E!CheckGaps, E!Normal
    <3>6. CASE c.status \in E!Failure
      <4>1. c \in FailedRuns(input)
        BY <3>1, <3>5, <3>6 DEF FailedRuns
      <4> QED
        BY <1>8, <3>2, <4>1
    <3> QED
      BY <3>5, <3>6 DEF E!Normal
  <2> QED
    BY <2>1, <2>2, <2>3
<1> QED
  BY <1>5, <1>9, <1>10 DEF p, q, other

-----------------------------------------------------------------------------
(***************************************************************************)
(* The machine.                                                             *)
(***************************************************************************)

(* What has been emitted is the analysis of an input of the operation, which    *)
(* did not raise, and the verdict is that of its verifier.                     *)
AdvisoriesInv ==
  /\ op \in Operation
  /\ IF op = "impact" /\ form = "object" THEN ImpactTypeOK /\ ImpactInv ELSE NoImpact
  /\ op # "impact" /\ form = "object" => evidence \in Inputs[op]
  /\ pc = "impact" => op = "impact" /\ form = "object"
  /\ pc \in {"printed", "done"} =>
       /\ op # "impact" /\ form = "object" /\ ~Raises(op, evidence)
       /\ report = Analyzed(op, evidence)
  /\ pc = "done" => (verdict <=> VerdictOn(op, report, evidence))

(* It holds at first.                                                        *)
LEMMA AdvisoriesInvInit == Init => AdvisoriesInv
<1> SUFFICES ASSUME Init PROVE AdvisoriesInv
  OBVIOUS
<1>1. ImpactInit => ImpactTypeOK /\ ImpactInv
  BY DEF ImpactInit, ImpactTypeOK, ImpactInv, Reported
<1> QED
  BY <1>1 DEF Init, AdvisoriesInv

(* The steps of change impact keep what the proofs about it need; no other *)
(* step touches its variables.                                               *)
LEMMA ImpactPartStep ==
  ASSUME AdvisoriesInv, [AnalyzeImpact]_impactVars, op' = op, form' = form
  PROVE  IF op' = "impact" /\ form' = "object"
         THEN (ImpactTypeOK /\ ImpactInv)' ELSE NoImpact'
<1>1. CASE op = "impact" /\ form = "object"
  <2>1. ImpactTypeOK /\ ImpactInv /\ [ImpactNext]_impactVars
    BY <1>1 DEF AdvisoriesInv, AnalyzeImpact
  <2> QED
    BY <1>1, <2>1, ImpactTypeStep, ImpactStep
<1>2. CASE ~(op = "impact" /\ form = "object")
  <2>1. NoImpact /\ UNCHANGED impactVars
    BY <1>2 DEF AdvisoriesInv, AnalyzeImpact
  <2> QED
    BY <1>2, <2>1 DEF NoImpact, impactVars
<1> QED
  BY <1>1, <1>2

(* Every step keeps it.                                                      *)
LEMMA AdvisoriesInvStep == AdvisoriesInv /\ [Next]_advisoriesVars => AdvisoriesInv'
<1> SUFFICES ASSUME AdvisoriesInv, [Next]_advisoriesVars PROVE AdvisoriesInv'
  OBVIOUS
<1>1. op' = op /\ form' = form /\ evidence' = evidence /\ [AnalyzeImpact]_impactVars
  BY DEF Next, Refuse, Analyze, AnalyzeImpact, Verify, advisoriesVars
<1>2. IF op' = "impact" /\ form' = "object"
      THEN (ImpactTypeOK /\ ImpactInv)' ELSE NoImpact'
  BY <1>1, ImpactPartStep
<1>3. CASE Refuse
  BY <1>1, <1>2, <1>3 DEF Refuse, AdvisoriesInv
<1>4. CASE Analyze
  BY <1>1, <1>2, <1>4 DEF Analyze, AdvisoriesInv
<1>5. CASE AnalyzeImpact
  BY <1>1, <1>2, <1>5 DEF AnalyzeImpact, AdvisoriesInv
<1>6. CASE Verify
  BY <1>1, <1>2, <1>6 DEF Verify, AdvisoriesInv
<1>7. CASE UNCHANGED advisoriesVars
  BY <1>1, <1>2, <1>7 DEF advisoriesVars, AdvisoriesInv
<1> QED
  BY <1>3, <1>4, <1>5, <1>6, <1>7 DEF Next

(* What is emitted is the analysis of an input of its operation, and the     *)
(* verdict is what the verifier of the operation says of it.                 *)
THEOREM AdvisoriesInvariant == Spec => []AdvisoriesInv
BY AdvisoriesInvInit, AdvisoriesInvStep, PTL DEF Spec

(* What is emitted is the analysis of a proper input.                        *)
LEMMA EmittedIs ==
  ASSUME AdvisoriesInv, pc \in {"printed", "done"}
  PROVE  /\ Proper(op, evidence) /\ ~Raises(op, evidence)
         /\ report = Analyzed(op, evidence)
<1>1. /\ op \in Operation \ {"impact"} /\ evidence \in Inputs[op]
      /\ ~Raises(op, evidence) /\ report = Analyzed(op, evidence)
  BY DEF AdvisoriesInv
<1> QED
  BY <1>1, InputAssumption

(* Change impact as it is run here keeps its properties; before it begins, and  *)
(* in the other operations, its variables are at rest.                        *)
THEOREM ImpactHolds ==
  Spec => [](ImpactTypeOK /\ ImpactExactly /\ NothingDropped /\ ImpactAccepted)
<1>1. NoImpact => ImpactTypeOK /\ ImpactExactly /\ NothingDropped /\ ImpactAccepted
  BY DEF NoImpact, ImpactTypeOK, ImpactExactly, NothingDropped, ImpactAccepted, Reported
<1>2. ImpactTypeOK /\ ImpactInv
        => ImpactTypeOK /\ ImpactExactly /\ NothingDropped /\ ImpactAccepted
  BY ImpactExact, ImpactWhole, ImpactVerified
<1>3. AdvisoriesInv => ImpactTypeOK /\ ImpactExactly /\ NothingDropped /\ ImpactAccepted
  BY <1>1, <1>2 DEF AdvisoriesInv
<1> QED
  BY <1>3, AdvisoriesInvariant, PTL

(* The impact operation runs the machine of Impact: it starts as that does, and *)
(* each of its steps is one of Impact or leaves its variables alone.           *)
THEOREM ImpactImplemented ==
  Spec => (op = "impact" /\ form = "object" => ImpactSpec)
<1>1. Init /\ op = "impact" /\ form = "object" => ImpactInit
  BY DEF Init
<1>2. [Next]_advisoriesVars => [ImpactNext]_impactVars
  BY DEF Next, Refuse, Analyze, AnalyzeImpact, Verify, advisoriesVars
<1> QED
  BY <1>1, <1>2, PTL DEF Spec, ImpactSpec

(* For any number of changes and artifacts, a changed path in scope is never *)
(* passed over by a knowledge report.                                        *)
THEOREM NothingSilent == Spec => []NoChangeSilent
<1>1. AdvisoriesInv => NoChangeSilent
  <2> SUFFICES ASSUME AdvisoriesInv, Emitted("knowledge") PROVE NoChangeSilent
    BY DEF NoChangeSilent
  <2>1. K!Input(evidence) /\ report = K!Analyze(evidence)
    BY EmittedIs DEF Emitted, Proper, Analyzed
  <2> QED
    BY <2>1, ChangeAnswered DEF NoChangeSilent
<1> QED
  BY <1>1, AdvisoriesInvariant, PTL

(* For any two guards and any witnesses, the direction of a guard delta is   *)
(* that of all that was observed.                                            *)
THEOREM DirectionHolds == Spec => []GuardDirection
<1>1. AdvisoriesInv => GuardDirection
  <2> SUFFICES ASSUME AdvisoriesInv, Emitted("guard-delta") PROVE GuardDirection
    BY DEF GuardDirection
  <2>1. G!Input(evidence) /\ report = G!Analyze(evidence)
    BY EmittedIs DEF Emitted, Proper, Analyzed
  <2> QED
    BY <2>1, DirectionOf DEF GuardDirection, Within
<1> QED
  BY <1>1, AdvisoriesInvariant, PTL

(* For any observations, NOT_OBSERVED is not said of what was observed, and  *)
(* a complete report keeps it all.                                           *)
THEOREM ObservationsHold == Spec => []ObservationsKept
<1>1. AdvisoriesInv => ObservationsKept
  <2> SUFFICES ASSUME AdvisoriesInv, Emitted("facts") PROVE ObservationsKept
    BY DEF ObservationsKept
  <2>1. report = F!Analyze(evidence)
    BY EmittedIs DEF Emitted, Analyzed
  <2>2. ASSUME NEW kind \in DOMAIN report.facts \ {F!Related}
        PROVE  LET given == {o \in evidence.observations : o.kind = kind} IN
               /\ report.facts[kind].status = "NOT_OBSERVED" =>
                    given = {} /\ \A o \in evidence.observations : o.kind # ""
               /\ report.whole /\ kind \in evidence.supported =>
                    report.facts[kind].evidence = given
    BY <2>1, FactsKept
  <2> QED
    BY <2>2 DEF ObservationsKept
<1> QED
  BY <1>1, AdvisoriesInvariant, PTL

(* For any rows and policy, a gate is not CLEAR and complete while a         *)
(* required check that was seen before is missing, twice there or without    *)
(* success.                                                                  *)
THEOREM GatesHold == Spec => []GatesClear
<1>1. AdvisoriesInv => GatesClear
  <2> SUFFICES ASSUME AdvisoriesInv, Emitted("check roles") PROVE GatesClear
    BY DEF GatesClear
  <2>1. C!Input(evidence) /\ report = C!Classify(evidence)
    BY EmittedIs DEF Emitted, Proper, Analyzed
  <2> QED
    BY <2>1, GatesOf DEF GatesClear
<1> QED
  BY <1>1, AdvisoriesInvariant, PTL

(* For any number of pull requests and runs, exactly the checks that fail on *)
(* enough of them are reported as systemic.                                  *)
THEOREM SystemicHolds == Spec => []SystemicExactly
<1>1. AdvisoriesInv => SystemicExactly
  <2> SUFFICES ASSUME AdvisoriesInv, Emitted("systemic"), evidence.observed # 0
               PROVE  SystemicExactly
    BY DEF SystemicExactly
  <2>1. S!Input(evidence) /\ report = S!Analyze(evidence)
    BY EmittedIs DEF Emitted, Proper, Analyzed
  <2>2. report.systemic =
          {[check |-> c, prs |-> FailsOn(c, evidence)] :
             c \in {d \in UNION {{r.check : r \in evidence.prs[n]} : n \in DOMAIN evidence.prs} :
                      Cardinality(FailsOn(d, evidence)) >= evidence.least}}
    BY <2>1, SystemicOf
  <2> DEFINE latest(r, n) ==
               \A s \in evidence.prs[n] : s.check = r.check => s = r \/ S!Later(r, s)
             fixed(r) ==
               \/ \E s \in evidence.main : s.check = r.check /\ s.status = "success" /\ s.at >= r.at
               \/ \E c \in evidence.workflowChanged : c.path = r.check[1] /\ c.at >= r.at
               \/ \E m, n \in DOMAIN evidence.prs :
                    /\ m # n
                    /\ \A k \in {m, n} : \E s \in evidence.prs[k] :
                         s.check = r.check /\ latest(s, k) /\ s.status = "success" /\ s.at >= r.at
             failing(check) ==
               {n \in DOMAIN evidence.prs : \E r \in evidence.prs[n] :
                  /\ r.check = check /\ latest(r, n) /\ r.status \in S!Failure
                  /\ r.at # 0 /\ S!InWindow(r.at, evidence) /\ ~fixed(r)}
             checks == UNION {{r.check : r \in evidence.prs[n]} : n \in DOMAIN evidence.prs}
  <2>3. ASSUME NEW k, NEW s \in evidence.prs[k], NEW check
        PROVE  latest(s, k) /\ s.check = check <=>
                 s.check = check /\ \A r \in evidence.prs[k] : r.check = check => r = s \/ S!Later(s, r)
    OBVIOUS
  <2>4. ASSUME NEW r PROVE fixed(r) <=> FixedSince(r.check, r.at, evidence)
    <3>1. \A k : (\E s \in evidence.prs[k] :
                    s.check = r.check /\ latest(s, k) /\ s.status = "success" /\ s.at >= r.at)
                 <=> SucceededSince(k, r.check, r.at, evidence)
      BY <2>3 DEF SucceededSince
    <3> HIDE DEF latest
    <3> QED
      BY <3>1 DEF FixedSince
  <2> HIDE DEF fixed
  <2>5. ASSUME NEW check PROVE failing(check) = FailsOn(check, evidence)
    BY <2>4 DEF FailsOn
  <2> HIDE DEF failing, latest
  <2>6. {[check |-> c, prs |-> failing(c)] :
           c \in {d \in checks : Cardinality(failing(d)) >= evidence.least}}
          = {[check |-> c, prs |-> FailsOn(c, evidence)] :
               c \in {d \in checks : Cardinality(FailsOn(d, evidence)) >= evidence.least}}
    BY <2>5
  <2>7. report.systemic =
          {[check |-> c, prs |-> failing(c)] :
             c \in {d \in checks : Cardinality(failing(d)) >= evidence.least}}
    BY <2>2, <2>6
  <2> QED
    BY <2>7 DEF SystemicExactly, failing, latest, fixed
<1> QED
  BY <1>1, AdvisoriesInvariant, PTL

(* For any number of retrievers and candidates, the bounded list keeps every *)
(* exact match and the best of the others.                                   *)
THEOREM CandidatesHold == Spec => []CandidatesKept
<1>1. AdvisoriesInv => CandidatesKept
  <2> SUFFICES ASSUME AdvisoriesInv, Emitted("query") \/ Emitted("task query")
               PROVE  CandidatesKept
    BY DEF CandidatesKept
  <2> DEFINE query == IF op = "query" THEN report ELSE report.query
  <2>1. R!Input(evidence)
    BY EmittedIs DEF Emitted, Proper
  <2>2. /\ op = "task query" => report = R!AnalyzeTask(evidence)
        /\ op = "query" => report = R!Analyze(evidence)
    BY EmittedIs DEF Analyzed, Emitted
  <2>3. query = R!Analyze(evidence) /\ query.kept = R!Kept(evidence)
    <3>1. R!AnalyzeTask(evidence).query = R!Analyze(evidence)
      BY DEF R!AnalyzeTask
    <3>2. R!Analyze(evidence).kept = R!Kept(evidence)
      BY DEF R!Analyze
    <3> QED
      BY <2>2, <3>1, <3>2 DEF Emitted
  <2>4. op = "task query" /\ report.order # <<>> =>
          R!ExactRefs(query.kept) \subseteq {report.order[i] : i \in DOMAIN report.order}
    BY <2>1, <2>2, <2>3, OrderOf
  <2> HIDE DEF query
  <2>5. QueryKeeps(query, evidence)
    BY <2>1, <2>3, CandidatesOf
  <2> QED
    BY <2>4, <2>5 DEF CandidatesKept, QueryKeeps, Named, query
<1> QED
  BY <1>1, AdvisoriesInvariant, PTL

(* For any rows, the decision of an envelope is that on the rows without the *)
(* repetitions, and rests on a whole snapshot of a trusted revision.         *)
THEOREM DecisionOfRuns == Spec => []DecidedByRuns
<1>1. AdvisoriesInv => DecidedByRuns
  <2> SUFFICES ASSUME AdvisoriesInv,
                      Emitted("eia") \/ Emitted("cloud bundle") \/ Emitted("terminal cloud bundle")
               PROVE  DecidedByRuns
    BY DEF DecidedByRuns
  <2> DEFINE envelope == CASE op = "eia" -> report
                           [] op = "cloud bundle" -> report.eia
                           [] OTHER -> report.bundle.eia
             repeats(c, d) ==
               /\ d = [c EXCEPT !.row = d.row, !.status = d.status]
               /\ \/ c.status = d.status /\ c.row > d.row
                  \/ /\ c.status = "in_progress" /\ d.status # c.status /\ c.run # 0
                     /\ c.head \in {"", evidence.snapshot.head}
             once == {c \in evidence.checks : ~\E d \in evidence.checks : repeats(c, d)}
  <2>1. E!Input(evidence) /\ ~Raises(op, evidence) /\ report = Analyzed(op, evidence)
    BY EmittedIs DEF Emitted, Proper
  <2>2. envelope = E!Plan(E!Analyze(evidence))
    <3>1. CASE op = "eia"
      BY <2>1, <3>1, GivenOwn DEF Analyzed, Raises
    <3>2. CASE op = "cloud bundle"
      BY <2>1, <3>2 DEF Analyzed, E!Bundle
    <3>3. CASE op = "terminal cloud bundle"
      BY <2>1, <3>3 DEF Analyzed, E!Bundle, E!TerminalBundle
    <3> QED
      BY <3>1, <3>2, <3>3 DEF Emitted
  <2>3. once = Once(evidence)
    BY DEF Once, Repeats
  <2> HIDE DEF once, envelope
  <2>4. /\ envelope.decision = E!Plan(E!Analyze([evidence EXCEPT !.checks = once])).decision
        /\ envelope.decision # "BLOCKED" =>
             /\ K!Trusted(evidence.snapshot) /\ evidence.snapshot.base = evidence.snapshot.main
             /\ evidence.complete /\ once # {}
        /\ envelope.decision = "NO_ACTION" =>
             \A c \in evidence.checks :
               \/ c.suite # 0 /\ c.suite \in evidence.self
               \/ c.status \notin E!Failure \cup {""} \/ c.expected \/ evidence.expected
               \/ /\ c.status = "cancelled"
                  /\ \E d \in evidence.checks :
                       /\ d.run > c.run /\ d.name = c.name /\ d.workflow = c.workflow
                       /\ \/ d.head \in {"", evidence.snapshot.head}
                          \/ d.suite # 0 /\ d.suite \in evidence.self
    BY <2>1, <2>2, <2>3, EnvelopeDecided
  <2> QED
    BY <2>4 DEF DecidedByRuns, once, envelope
<1> QED
  BY <1>1, AdvisoriesInvariant, PTL

(* For any input, the verifier of each operation accepts exactly the genuine *)
(* reports that AcceptedExactly describes.                                   *)
THEOREM AcceptedGenuine == Spec => []AcceptedExactly
<1>1. AdvisoriesInv => AcceptedExactly
  <2> SUFFICES ASSUME AdvisoriesInv, pc = "done" PROVE AcceptedExactly
    BY DEF AcceptedExactly
  <2>1. /\ Proper(op, evidence) /\ ~Raises(op, evidence) /\ report = Analyzed(op, evidence)
        /\ verdict <=> VerdictOn(op, report, evidence)
        /\ op \in Operation \ {"impact"}
    BY EmittedIs DEF AdvisoriesInv
  <2>2. CASE op = "knowledge"
    <3>1. K!Input(evidence) /\ report = K!Analyze(evidence) /\ (verdict <=> K!Verify(report))
      BY <2>1, <2>2 DEF Proper, Analyzed, VerdictOn
    <3>2. verdict <=> /\ FoundAgain(evidence.snapshot)
                      /\ K!Problems(evidence) = {} \/ report.uncovered = {}
                      /\ K!ArtifactProblems(report.artifacts) \subseteq report.errors
      BY <3>1, KnowledgeVerified
    <3> QED
      BY <2>2, <3>2 DEF AcceptedExactly
  <2>3. CASE op = "guard-delta"
    <3>1. G!Input(evidence) /\ report = G!Analyze(evidence) /\ (verdict <=> G!Verify(report))
      BY <2>1, <2>3 DEF Proper, Analyzed, VerdictOn
    <3> QED
      BY <2>3, <3>1, GuardVerified DEF AcceptedExactly
  <2>4. CASE op = "facts"
    <3>1. F!Input(evidence) /\ report = F!Analyze(evidence) /\ (verdict <=> F!Verify(report))
      BY <2>1, <2>4 DEF Proper, Analyzed, VerdictOn
    <3> QED
      BY <2>4, <3>1, FactsVerified DEF AcceptedExactly
  <2>5. CASE op = "query"
    <3>1. R!Input(evidence) /\ report = R!Analyze(evidence) /\ (verdict <=> R!Verify(report))
      BY <2>1, <2>5 DEF Proper, Analyzed, VerdictOn
    <3>2. report.whole => verdict
      BY <3>1, QueryFields, QueryVerified DEF R!Resolved
    <3>3. ASSUME verdict, NEW i \in DOMAIN evidence.retrievers, NEW j \in DOMAIN evidence.retrievers
          PROVE  LET r == evidence.retrievers[i]
                     s == evidence.retrievers[j] IN
                   /\ r.complete /\ ~r.failed
                   /\ i # j => r.id # s.id
                   /\ R!Effective(r, evidence).revision = R!Effective(s, evidence).revision
      BY <3>1, <3>3, QueryVerified, SettledRetrievers DEF R!Input
    <3> QED
      BY <2>5, <3>2, <3>3 DEF AcceptedExactly
  <2>6. CASE op = "task query"
    <3>1. R!Input(evidence) /\ report = R!AnalyzeTask(evidence)
          /\ (verdict <=> R!VerifyTask(report))
      BY <2>1, <2>6 DEF Proper, Analyzed, VerdictOn
    <3> QED
      BY <2>6, <3>1, TaskVerified DEF AcceptedExactly
  <2>7. CASE op = "cfi"
    <3>1. E!Input(evidence) /\ report = E!Analyze(evidence) /\ (verdict <=> E!Verify(report))
      BY <2>1, <2>7 DEF Proper, Analyzed, VerdictOn
    <3>2. LET left == {i.check : i \in report.evidence.ignored}
              failures == report.evidence.unexpected \cup report.evidence.expected
          IN verdict <=> \A c \in left :
                           c.name # None /\ (c.run = 0 \/ \A d \in failures : d.run # c.run)
      BY <3>1, FailuresVerified
    <3> QED
      BY <2>7, <3>2 DEF AcceptedExactly
  <2>8. CASE op = "eia"
    <3>1. /\ E!Given(evidence) = E!Analyze(evidence) /\ report = E!Plan(E!Given(evidence))
          /\ verdict <=> E!VerifyEnvelope(report)
      BY <2>1, <2>8, GivenOwn DEF Proper, Analyzed, VerdictOn, Raises
    <3>2. report.reference = E!Analyze(evidence)
      BY <3>1, Planned
    <3> QED
      BY <2>8, <3>1, <3>2, EnvelopeVerified DEF AcceptedExactly
  <2>9. CASE op = "cloud bundle"
    <3>1. E!Input(evidence) /\ evidence.snapshot.mapping /\ E!Verify(E!Analyze(evidence))
          /\ report = E!Bundle(evidence) /\ (verdict <=> E!VerifyBundle(report))
      BY <2>1, <2>9 DEF Proper, Analyzed, VerdictOn, Raises
    <3> QED
      BY <2>9, <3>1, BundleVerified DEF AcceptedExactly
  <2>10. CASE op = "terminal cloud bundle"
    <3>1. E!Input(evidence) /\ E!Waited(evidence) /\ E!VerifyBundle(E!Bundle(evidence))
          /\ report = E!TerminalBundle(evidence) /\ (verdict <=> E!VerifyTerminalBundle(report))
      BY <2>1, <2>10 DEF Proper, Analyzed, VerdictOn, Raises
    <3> QED
      BY <2>10, <3>1, TerminalVerified DEF AcceptedExactly
  <2>11. CASE op = "check roles"
    <3>1. report = C!Classify(evidence) /\ (verdict <=> C!Verify(report, evidence.policy))
      BY <2>1, <2>11 DEF Analyzed, VerdictOn
    <3> QED
      BY <2>11, <3>1, RolesVerified DEF AcceptedExactly
  <2>12. CASE op = "systemic"
    <3>1. report = S!Analyze(evidence) /\ (verdict <=> S!Verify(report))
      BY <2>1, <2>12 DEF Analyzed, VerdictOn
    <3> QED
      BY <2>12, <3>1, SystemicVerified DEF AcceptedExactly
  <2> QED
    BY <2>1, <2>2, <2>3, <2>4, <2>5, <2>6, <2>7, <2>8, <2>9, <2>10, <2>11, <2>12
       DEF Operation, Commands
<1> QED
  BY <1>1, AdvisoriesInvariant, PTL
=============================================================================
