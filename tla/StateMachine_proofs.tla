------------------------- MODULE StateMachine_proofs -------------------------
(***************************************************************************)
(* What the engine's search finds, for every table: _reachable_from        *)
(* returns the smallest set that holds the successors of its start and is  *)
(* closed under them.  From this, what _validate buys: precedence between  *)
(* the statuses of an accepted table is a strict partial order.            *)
(*                                                                         *)
(* The search is a recursive function over 0..N.  Induction is used in a   *)
(* first-order form: a set of naturals that holds 0 and every successor of *)
(* its members holds all of them, because the least one missing would not  *)
(* be missing (WFMin of the library on the order of the naturals).         *)
(***************************************************************************)
EXTENDS StateMachine, TLAPS, WellFoundedInduction, FiniteSetTheorems

Below == {pair \in Nat \X Nat : pair[1] < pair[2]}

(* A set of naturals that is not empty has a least member.                 *)
LEMMA LeastNatural ==
  ASSUME NEW T \in SUBSET Nat, T # {}
  PROVE  \E m \in T : \A n \in T : ~(n < m)
<1>1. IsWellFoundedOn(Below, Nat)
  BY NatLessThanWellFounded DEF OpToRel, Below
<1>2. \E m \in T : \A n \in T : <<n, m>> \notin Below
  BY <1>1, WFMin, T \subseteq Nat
<1>3. QED
  BY <1>2, T \subseteq Nat DEF Below

(* Induction over the naturals, on a set in place of a predicate.          *)
LEMMA InductiveSet ==
  ASSUME NEW T \in SUBSET Nat, 0 \in T, \A n \in T : n + 1 \in T
  PROVE  T = Nat
<1>1. SUFFICES ASSUME Nat \ T # {} PROVE FALSE
  OBVIOUS
<1>2. PICK m \in Nat \ T : \A n \in Nat \ T : ~(n < m)
  BY <1>1, LeastNatural
<1>3. m # 0
  OBVIOUS
<1>4. m - 1 \in Nat /\ m - 1 < m
  BY <1>3
<1>5. m - 1 \in T
  BY <1>2, <1>4
<1>6. QED
  BY <1>2, <1>5

-----------------------------------------------------------------------------
(* The layers of the search.                                               *)

(* layer[k] is what the search has seen after k widenings, up to the n-th. *)
AreLayers(M, start, progressOnly, layer, n) ==
  layer = [k \in 0..n |-> IF k = 0 THEN Successors(M, start, progressOnly)
                          ELSE Widen(M, layer[k - 1], progressOnly)]

LEMMA LayersExist ==
  ASSUME NEW M, NEW start, NEW progressOnly, NEW n \in Nat
  PROVE  \E layer : AreLayers(M, start, progressOnly, layer, n)
<1> DEFINE T == {m \in Nat : \E layer : AreLayers(M, start, progressOnly, layer, m)}
<1>1. 0 \in T
  <2> DEFINE only == [k \in 0..0 |-> Successors(M, start, progressOnly)]
  <2>1. AreLayers(M, start, progressOnly, only, 0)
    BY DEF AreLayers
  <2>2. QED
    BY <2>1
<1>2. ASSUME NEW m \in T PROVE m + 1 \in T
  <2>1. PICK layer : AreLayers(M, start, progressOnly, layer, m)
    BY <1>2
  <2> DEFINE longer == [k \in 0..(m + 1) |-> IF k \in 0..m THEN layer[k]
                                             ELSE Widen(M, layer[m], progressOnly)]
  <2>2. ASSUME NEW k \in 0..(m + 1)
        PROVE  longer[k] = IF k = 0 THEN Successors(M, start, progressOnly)
                           ELSE Widen(M, longer[k - 1], progressOnly)
    <3>1. CASE k \in 0..m
      BY <2>1, <3>1 DEF AreLayers
    <3>2. CASE k = m + 1
      BY <2>1, <3>2 DEF AreLayers
    <3>3. QED
      BY <3>1, <3>2
  <2> HIDE DEF longer
  <2>3. longer = [k \in 0..(m + 1) |-> longer[k]]
    BY DEF longer
  <2>4. AreLayers(M, start, progressOnly, longer, m + 1)
    BY <2>2, <2>3 DEF AreLayers
  <2>5. QED
    BY <2>4
<1> HIDE DEF T
<1>3. T = Nat
  <2>1. T \in SUBSET Nat
    BY DEF T
  <2>2. QED
    BY <1>1, <1>2, <2>1, InductiveSet
<1>4. QED
  BY <1>3 DEF T

(* The search returns the last layer.                                      *)
LEMMA SearchIsLastLayer ==
  ASSUME NEW M, NEW start, NEW progressOnly, Cardinality(M.states) \in Nat
  PROVE  \E layer :
            /\ AreLayers(M, start, progressOnly, layer, Cardinality(M.states))
            /\ ReachableFrom(M, start, progressOnly) = layer[Cardinality(M.states)]
<1>1. \E layer : AreLayers(M, start, progressOnly, layer, Cardinality(M.states))
  BY LayersExist
<1>2. QED
  BY <1>1, Zenon DEF ReachableFrom, AreLayers

-----------------------------------------------------------------------------
(* What the search finds.                                                  *)

(* A table whose search can be reasoned about: finitely many states (the   *)
(* code holds them in a tuple) that the rules stay inside.                 *)
Sound(M) == IsFiniteSet(M.states) /\ RulesStayInside(M)

(* Every successor of a member is a member.                                *)
ClosedUnder(M, progressOnly, seen) ==
  \A s \in seen : Successors(M, s, progressOnly) \subseteq seen

LEMMA SuccessorsInside ==
  ASSUME NEW M, Sound(M), NEW s, NEW progressOnly
  PROVE  Successors(M, s, progressOnly) \subseteq M.states
BY DEF Sound, RulesStayInside, Successors, ProgressFrom, AllowedFrom

LEMMA WidenGrows ==
  ASSUME NEW M, Sound(M), NEW progressOnly, NEW seen, seen \subseteq M.states
  PROVE  /\ seen \subseteq Widen(M, seen, progressOnly)
         /\ Widen(M, seen, progressOnly) \subseteq M.states
         /\ ClosedUnder(M, progressOnly, seen) => Widen(M, seen, progressOnly) = seen
         /\ Widen(M, seen, progressOnly) = seen => ClosedUnder(M, progressOnly, seen)
<1>1. \A s \in seen : Successors(M, s, progressOnly) \subseteq M.states
  BY SuccessorsInside
<1>2. QED
  BY <1>1 DEF Widen, ClosedUnder

(* As long as the search has not closed its set, every layer is larger     *)
(* than the one before it.                                                 *)
LEMMA LayersGrow ==
  ASSUME NEW M, Sound(M), NEW start, NEW progressOnly, NEW n \in Nat, NEW layer,
         AreLayers(M, start, progressOnly, layer, n)
  PROVE  \A k \in 0..n :
            /\ layer[k] \subseteq M.states
            /\ layer[0] \subseteq layer[k]
            /\ ClosedUnder(M, progressOnly, layer[k]) \/ Cardinality(layer[k]) > k
<1> DEFINE Good(k) == /\ layer[k] \subseteq M.states
                      /\ layer[0] \subseteq layer[k]
                      /\ \/ ClosedUnder(M, progressOnly, layer[k])
                         \/ Cardinality(layer[k]) > k
<1> DEFINE T == {k \in Nat : k \in 0..n => Good(k)}
<1>1. 0 \in T
  <2>1. layer[0] = Successors(M, start, progressOnly)
    BY DEF AreLayers
  <2>2. layer[0] \subseteq M.states
    BY <2>1, SuccessorsInside
  <2>3. IsFiniteSet(layer[0])
    BY <2>2, FS_Subset DEF Sound
  <2>4. CASE layer[0] = {}
    BY <2>2, <2>4 DEF ClosedUnder
  <2>5. CASE layer[0] # {}
    <3>1. Cardinality(layer[0]) \in Nat /\ Cardinality(layer[0]) # 0
      BY <2>3, <2>5, FS_CardinalityType, FS_EmptySet
    <3>2. QED
      BY <2>2, <3>1
  <2>6. QED
    BY <2>4, <2>5
<1>2. ASSUME NEW k \in T PROVE k + 1 \in T
  <2>1. SUFFICES ASSUME k + 1 \in 0..n PROVE Good(k + 1)
    OBVIOUS
  <2>2. k \in 0..n /\ Good(k)
    BY <1>2, <2>1
  <2>3. layer[k + 1] = Widen(M, layer[k], progressOnly)
    BY <2>1 DEF AreLayers
  <2>4. /\ layer[k] \subseteq layer[k + 1]
        /\ layer[k + 1] \subseteq M.states
        /\ ClosedUnder(M, progressOnly, layer[k]) => layer[k + 1] = layer[k]
        /\ layer[k + 1] = layer[k] => ClosedUnder(M, progressOnly, layer[k])
    BY <2>2, <2>3, WidenGrows
  <2>5. CASE ClosedUnder(M, progressOnly, layer[k])
    BY <2>2, <2>4, <2>5
  <2>6. CASE ~ClosedUnder(M, progressOnly, layer[k])
    <3>1. IsFiniteSet(layer[k + 1])
      BY <2>4, FS_Subset DEF Sound
    <3>2. layer[k] # layer[k + 1]
      BY <2>4, <2>6
    <3>3. /\ Cardinality(layer[k]) \in Nat
          /\ Cardinality(layer[k + 1]) \in Nat
          /\ Cardinality(layer[k]) < Cardinality(layer[k + 1])
      BY <2>4, <3>1, <3>2, FS_Subset, FS_CardinalityType
    <3>4. Cardinality(layer[k + 1]) > k + 1
      BY <2>2, <2>6, <3>3
    <3>5. QED
      BY <2>2, <2>4, <3>4
  <2>7. QED
    BY <2>5, <2>6
<1>3. T = Nat
  <2>1. T \in SUBSET Nat
    OBVIOUS
  <2> HIDE DEF T
  <2>2. QED
    BY <1>1, <1>2, <2>1, InductiveSet
<1>4. QED
  BY <1>3

(* The search is complete: what it returns lies inside the table, holds    *)
(* the successors of its start and is closed under successors, whatever    *)
(* the table's size and shape (_reachable_from's queue has drained).       *)
THEOREM SearchIsClosed ==
  ASSUME NEW M, Sound(M), NEW start, NEW progressOnly
  PROVE  /\ ReachableFrom(M, start, progressOnly) \subseteq M.states
         /\ Successors(M, start, progressOnly)
              \subseteq ReachableFrom(M, start, progressOnly)
         /\ ClosedUnder(M, progressOnly, ReachableFrom(M, start, progressOnly))
<1> DEFINE N == Cardinality(M.states)
           found == ReachableFrom(M, start, progressOnly)
<1>1. N \in Nat
  BY FS_CardinalityType DEF Sound
<1>2. PICK layer : AreLayers(M, start, progressOnly, layer, N) /\ found = layer[N]
  BY <1>1, SearchIsLastLayer
<1>3. layer[0] = Successors(M, start, progressOnly)
  BY <1>1, <1>2 DEF AreLayers
<1>4. /\ found \subseteq M.states
      /\ layer[0] \subseteq found
      /\ ClosedUnder(M, progressOnly, found) \/ Cardinality(found) > N
  BY <1>1, <1>2, LayersGrow
<1>5. ~(Cardinality(found) > N)
  <2>1. Cardinality(found) <= N /\ Cardinality(found) \in Nat
    BY <1>4, FS_Subset, FS_CardinalityType DEF Sound
  <2>2. QED
    BY <1>1, <2>1
<1>6. QED
  BY <1>3, <1>4, <1>5

(* The search is exact: it returns nothing that a closed set with the      *)
(* successors of its start could do without (_reachable_from follows       *)
(* rules only).                                                            *)
THEOREM SearchIsLeast ==
  ASSUME NEW M, Sound(M), NEW start, NEW progressOnly, NEW C,
         Successors(M, start, progressOnly) \subseteq C,
         ClosedUnder(M, progressOnly, C)
  PROVE  ReachableFrom(M, start, progressOnly) \subseteq C
<1> DEFINE N == Cardinality(M.states)
<1>1. N \in Nat
  BY FS_CardinalityType DEF Sound
<1>2. PICK layer : /\ AreLayers(M, start, progressOnly, layer, N)
                   /\ ReachableFrom(M, start, progressOnly) = layer[N]
  BY <1>1, SearchIsLastLayer
<1> DEFINE T == {k \in Nat : k \in 0..N => layer[k] \subseteq C}
<1>3. 0 \in T
  BY <1>1, <1>2 DEF AreLayers
<1>4. ASSUME NEW k \in T PROVE k + 1 \in T
  <2>1. SUFFICES ASSUME k + 1 \in 0..N PROVE layer[k + 1] \subseteq C
    OBVIOUS
  <2>2. layer[k] \subseteq C
    BY <1>1, <1>4, <2>1
  <2>3. layer[k + 1] = Widen(M, layer[k], progressOnly)
    BY <1>1, <1>2, <2>1 DEF AreLayers
  <2>4. QED
    BY <2>2, <2>3 DEF Widen, ClosedUnder
<1>5. T = Nat
  <2>1. T \in SUBSET Nat
    OBVIOUS
  <2> HIDE DEF T
  <2>2. QED
    BY <1>3, <1>4, <2>1, InductiveSet
<1>6. QED
  BY <1>1, <1>2, <1>5

(* Whatever is reachable from a reachable status is reachable.             *)
LEMMA ReachabilityIsTransitive ==
  ASSUME NEW M, Sound(M), NEW a, NEW progressOnly,
         NEW b \in ReachableFrom(M, a, progressOnly)
  PROVE  ReachableFrom(M, b, progressOnly) \subseteq ReachableFrom(M, a, progressOnly)
<1>1. ClosedUnder(M, progressOnly, ReachableFrom(M, a, progressOnly))
  BY SearchIsClosed
<1>2. Successors(M, b, progressOnly) \subseteq ReachableFrom(M, a, progressOnly)
  BY <1>1 DEF ClosedUnder
<1>3. QED
  BY <1>1, <1>2, SearchIsLeast

(* What _validate buys: among the statuses of an accepted table, coming    *)
(* later by forward moves is a strict partial order, so that of two        *)
(* statuses at most one is behind the other (ProgressIsAcyclic).           *)
THEOREM PrecedenceIsStrict ==
  ASSUME NEW M, IsFiniteSet(M.states), Valid(M), NEW a \in M.states, NEW b, NEW c
  PROVE  /\ ~CanProgressTo(M, a, a)
         /\ CanProgressTo(M, a, b) => ~CanProgressTo(M, b, a)
         /\ CanProgressTo(M, a, b) /\ CanProgressTo(M, b, c) => CanProgressTo(M, a, c)
<1>1. Sound(M)
  BY DEF Valid, Sound
<1>2. ~CanProgressTo(M, a, a)
  BY DEF Valid, ProgressIsAcyclic
<1>3. CanProgressTo(M, a, b) /\ CanProgressTo(M, b, c) => CanProgressTo(M, a, c)
  BY <1>1, ReachabilityIsTransitive DEF CanProgressTo
<1>4. CanProgressTo(M, a, b) => ~CanProgressTo(M, b, a)
  BY <1>1, <1>2, ReachabilityIsTransitive DEF CanProgressTo
<1>5. QED
  BY <1>2, <1>3, <1>4

(* Nothing comes after a terminal status of an accepted table, by forward  *)
(* moves or any others (TerminalsAreFinal).                                *)
THEOREM TerminalsLeadNowhere ==
  ASSUME NEW M, IsFiniteSet(M.states), Valid(M), NEW s \in M.terminal, NEW progressOnly
  PROVE  ReachableFrom(M, s, progressOnly) = {}
<1>1. Sound(M)
  BY DEF Valid, Sound
<1>2. Successors(M, s, progressOnly) = {}
  BY DEF Valid, TerminalsAreFinal, Successors, ProgressFrom, AllowedFrom
<1>3. ClosedUnder(M, progressOnly, {})
  BY DEF ClosedUnder
<1>4. QED
  BY <1>1, <1>2, <1>3, SearchIsLeast
=============================================================================
