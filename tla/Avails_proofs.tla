---------------------------- MODULE Avails_proofs ----------------------------
(***************************************************************************)
(* What the dialect bridge guarantees for every catalog, volume and budget *)
(* and however many products a search names.                               *)
(***************************************************************************)
EXTENDS AvailsProperties, FiniteSetTheorems, SequenceTheorems,
        WellFoundedInduction, TLAPS

-----------------------------------------------------------------------------
(* What crosses the bridge: a request carried over to the published        *)
(* dialect is read back entry by entry.                                    *)

LEMMA MaxOfOne == ASSUME NEW i \in Nat PROVE Max({i}) = i
BY DEF Max

LEMMA FloatIsExact ==
  ASSUME NEW k \in 0..Exact PROVE AsFloat(k) = k
BY AmountsAssumption DEF AsFloat

LEMMA AmountsAreExact ==
  ASSUME NEW k, k \in Budgets \/ (k \in Volumes /\ k <= Exact)
  PROVE  AsFloat(k) = k
<1>1. CASE k \in Budgets
  BY <1>1, FloatIsExact, AmountsAssumption
<1>2. CASE k \in Volumes /\ k <= Exact
  <2>1. k \in Nat /\ Exact \in Nat /\ k <= Exact
    BY <1>2, AmountsAssumption
  <2> QED
    BY <2>1, FloatIsExact
<1> QED
  BY <1>1, <1>2

LEMMA NoEntryIsRead ==
  ASSUME NEW search, NEW target, Valued(search, target) = {}
  PROVE  Recovered(search, target) = None
BY DEF Recovered

LEMMA OneEntryIsRead ==
  ASSUME NEW search, NEW target, NEW i \in Nat, Valued(search, target) = {i}
  PROVE  Recovered(search, target) = AsFloat(ValueAt(search, i))
<1>1. Max({i}) = i /\ {i} # {}
  BY MaxOfOne
<1> QED
  BY <1>1, Zenon DEF Recovered

LEMMA TwoEntries ==
  ASSUME NEW a, NEW b PROVE <<a>> \o <<b>> = <<a, b>>
<1>1. <<a>> \in Seq({a, b}) /\ <<b>> \in Seq({a, b}) /\ <<a, b>> \in Seq({a, b})
  OBVIOUS
<1>2. Len(<<a>>) = 1 /\ Len(<<b>>) = 1 /\ Len(<<a, b>>) = 2
  OBVIOUS
<1>3. /\ <<a>> \o <<b>> \in Seq({a, b})
      /\ Len(<<a>> \o <<b>>) = 2
      /\ \A i \in 1..2 : (<<a>> \o <<b>>)[i] = <<a, b>>[i]
  BY <1>1, <1>2, ConcatProperties
<1> QED
  BY <1>1, <1>2, <1>3, SeqEqual

LEMMA EntriesAreRead ==
  ASSUME NEW r \in AvailsRequests
  PROVE  /\ Recovered(ToSpec(r), "requestedimpressions") =
              IF r.requested_impressions = None THEN None
              ELSE AsFloat(r.requested_impressions)
         /\ Recovered(ToSpec(r), "budget") =
              IF r.budget = None THEN None ELSE AsFloat(r.budget)
<1> DEFINE volume == [datasource |-> EXTENSION_DATASOURCE,
                      target |-> "requestedimpressions",
                      target_values |-> <<r.requested_impressions>>]
           money == [datasource |-> EXTENSION_DATASOURCE, target |-> "budget",
                     target_values |-> <<r.budget>>]
           S == ToSpec(r)
<1>1. S.product_targeting = Entries(r)
  BY DEF ToSpec
<1>2. CASE r.requested_impressions = None /\ r.budget = None
  <2>1. S.product_targeting = <<>>
    BY <1>1, <1>2 DEF Entries, Minted
  <2>2. Valued(S, "requestedimpressions") = {} /\ Valued(S, "budget") = {}
    BY <2>1 DEF Valued
  <2> QED
    BY <1>2, <2>2, NoEntryIsRead
<1>3. CASE r.requested_impressions # None /\ r.budget = None
  <2>1. S.product_targeting = <<volume>>
    BY <1>1, <1>3 DEF Entries, Minted
  <2>2. Valued(S, "requestedimpressions") = {1} /\ Valued(S, "budget") = {}
    BY <2>1 DEF Valued
  <2>3. ValueAt(S, 1) = r.requested_impressions
    BY <2>1 DEF ValueAt
  <2> QED
    BY <1>3, <2>2, <2>3, OneEntryIsRead, NoEntryIsRead
<1>4. CASE r.requested_impressions = None /\ r.budget # None
  <2>1. S.product_targeting = <<money>>
    BY <1>1, <1>4 DEF Entries, Minted
  <2>2. Valued(S, "requestedimpressions") = {} /\ Valued(S, "budget") = {1}
    <3>1. DOMAIN S.product_targeting = {1} /\ S.product_targeting[1] = money
      BY <2>1
    <3> QED
      BY <3>1 DEF Valued
  <2>3. ValueAt(S, 1) = r.budget
    BY <2>1 DEF ValueAt
  <2> QED
    BY <1>4, <2>2, <2>3, OneEntryIsRead, NoEntryIsRead
<1>5. CASE r.requested_impressions # None /\ r.budget # None
  <2>1. S.product_targeting = <<volume, money>>
    <3>1. S.product_targeting = <<volume>> \o <<money>>
      BY <1>1, <1>5 DEF Entries, Minted
    <3> QED
      BY <3>1, TwoEntries
  <2>2. Valued(S, "requestedimpressions") = {1} /\ Valued(S, "budget") = {2}
    BY <2>1 DEF Valued
  <2>3. ValueAt(S, 1) = r.requested_impressions /\ ValueAt(S, 2) = r.budget
    BY <2>1 DEF ValueAt
  <2> QED
    BY <1>5, <2>2, <2>3, OneEntryIsRead, NoEntryIsRead
<1> QED
  BY <1>2, <1>3, <1>4, <1>5

(* A request with a volume that a float holds comes back as the query of   *)
(* its one product, with its own volume and budget: zero is not taken for  *)
(* absent, and the budget not for the volume (to_spec, to_simplified).     *)
THEOREM AmountsCross ==
  ASSUME NEW r \in AvailsRequests,
         r.requested_impressions = None \/ r.requested_impressions <= Exact
  PROVE  LET queried == Simplified(ToSpec(r))
         IN  /\ DOMAIN queried = {1}
             /\ queried[1].product_id = r.product_id
             /\ queried[1].requested_impressions = r.requested_impressions
             /\ queried[1].budget = r.budget
             /\ Head(queried) = queried[1]
<1> DEFINE S == ToSpec(r)
<1>1. /\ r.requested_impressions \in Volumes \cup {None}
      /\ r.budget \in Budgets \cup {None}
  BY DEF AvailsRequests
<1>2. /\ Recovered(S, "requestedimpressions") = r.requested_impressions
      /\ Recovered(S, "budget") = r.budget
  <2>1. /\ r.requested_impressions # None =>
             AsFloat(r.requested_impressions) = r.requested_impressions
        /\ r.budget # None => AsFloat(r.budget) = r.budget
    BY <1>1, AmountsAreExact
  <2> QED
    BY <2>1, EntriesAreRead, Zenon
<1>3. S.product_ids = <<r.product_id>>
  BY DEF ToSpec
<1>4. DOMAIN S.product_ids = {1} /\ S.product_ids[1] = r.product_id
  BY <1>3
<1> HIDE DEF S
<1>5. /\ DOMAIN Simplified(S) = {1}
      /\ Simplified(S)[1].product_id = r.product_id
      /\ Simplified(S)[1].requested_impressions = r.requested_impressions
      /\ Simplified(S)[1].budget = r.budget
  BY <1>2, <1>4 DEF Simplified
<1>6. Simplified(S) \in Seq({Simplified(S)[1]})
  <2>1. Simplified(S) = [i \in {1} |-> Simplified(S)[1]]
    BY <1>4, Zenon DEF Simplified
  <2>2. 1..1 = {1}
    OBVIOUS
  <2>3. Simplified(S) = [i \in 1..1 |-> Simplified(S)[1]]
    BY <2>1, <2>2, Zenon
  <2> DEFINE q == Simplified(S)[1]
  <2> HIDE DEF q
  <2>4. [i \in 1..1 |-> q] \in Seq({q})
    OBVIOUS
  <2> QED
    BY <2>3, <2>4 DEF q
<1>7. Head(Simplified(S)) = Simplified(S)[1]
  BY <1>6
<1> QED
  BY <1>5, <1>7 DEF S

-----------------------------------------------------------------------------
(* What the seller makes of a request.                                     *)

LEMMA WantedIsVolume ==
  ASSUME NEW r \in AvailsRequests PROVE Wanted(r) \in Nat
<1>1. /\ r.product_id \in Products
      /\ r.requested_impressions \in Volumes \cup {None}
      /\ r.budget \in Budgets \cup {None}
  BY DEF AvailsRequests
<1>2. CASE r.requested_impressions # None
  BY <1>1, <1>2, AmountsAssumption DEF Wanted
<1>3. CASE r.requested_impressions = None /\ r.budget # None
  <2>1. /\ r.budget \in Nat
        /\ Cpm[r.product_id] \in Nat /\ Cpm[r.product_id] > 0
    <3>1. r.budget \in 0..Exact
      BY <1>1, <1>3, AmountsAssumption
    <3>2. Cpm[r.product_id] \in Nat \ {0}
      BY <1>1, CatalogAssumption
    <3> QED
      BY <3>1, <3>2
  <2> DEFINE money == r.budget * 1000
             price == Cpm[r.product_id]
  <2>2. money \in Nat
    BY <2>1
  <2> HIDE DEF money
  <2>3. money \div price \in Nat
    BY <2>1, <2>2
  <2> QED
    BY <1>3, <2>3 DEF Wanted, money
<1>4. CASE r.requested_impressions = None /\ r.budget = None
  BY <1>1, <1>4, CatalogAssumption DEF Wanted
<1> QED
  BY <1>2, <1>3, <1>4

LEMMA PricedIsResponse ==
  ASSUME NEW r \in AvailsRequests PROVE Priced(r) \in AvailsResponses
<1>1. r.product_id \in Products
  BY DEF AvailsRequests
<1>2. Capacity[r.product_id] \in Nat /\ Cpm[r.product_id] \in Nat
  BY <1>1, CatalogAssumption
<1> DEFINE wanted == Wanted(r)
           capacity == Capacity[r.product_id]
           available == CASE wanted < 0 -> 0
                          [] wanted \in 0..capacity -> wanted
                          [] wanted > capacity -> capacity
<1>3. wanted \in Nat
  BY WantedIsVolume
<1>4. available \in Nat
  <2> HIDE DEF wanted, capacity
  <2>1. capacity \in Nat
    BY <1>2 DEF capacity
  <2> QED
    BY <1>3, <2>1
<1>5. Priced(r) = [product_id |-> r.product_id, available_impressions |-> available,
                   guaranteed_impressions |-> available,
                   estimated_cpm |-> Cpm[r.product_id]]
  BY DEF Priced
<1> HIDE DEF available
<1> QED
  BY <1>1, <1>2, <1>4, <1>5 DEF AvailsResponses

LEMMA PricedByAmounts ==
  ASSUME NEW q, NEW r, q.product_id = r.product_id,
         q.requested_impressions = r.requested_impressions, q.budget = r.budget
  PROVE  Priced(q) = Priced(r)
<1>1. Wanted(q) = Wanted(r)
  BY DEF Wanted
<1> QED
  BY <1>1, Zenon DEF Priced

LEMMA AnswerIsRecord ==
  ASSUME NEW response \in AvailsResponses, NEW requested
  PROVE  /\ FromSimplified(response, requested) \in AvailsRecords
         /\ FromSimplified(response, requested).availability # None
         /\ ToSimplified(FromSimplified(response, requested)) =
              [response EXCEPT !.guaranteed_impressions = None]
<1> DEFINE record == FromSimplified(response, requested)
<1>1. /\ response.available_impressions \in Nat
      /\ response.product_id \in Products
      /\ response.estimated_cpm \in Nat
  BY DEF AvailsResponses
<1>2. Status(response.available_impressions, requested)
        \in {"Available", "Partially Available", "Unavailable"}
  BY DEF Status
<1>3. record \in AvailsRecords
  BY <1>1, <1>2 DEF FromSimplified, AvailsRecords
<1>4. record.availability = response.available_impressions
  BY DEF FromSimplified
<1>5. record.availability # None
  BY <1>1, <1>4, NoneAssumption
<1>6. ToSimplified(record) =
        [product_id |-> response.product_id,
         available_impressions |-> response.available_impressions,
         guaranteed_impressions |-> None, estimated_cpm |-> response.estimated_cpm]
  BY <1>4, <1>5 DEF ToSimplified, FromSimplified
<1>7. response \in AvailsResponses
  OBVIOUS
<1> HIDE DEF record
<1>8. ToSimplified(record) = [response EXCEPT !.guaranteed_impressions = None]
  BY <1>6, <1>7 DEF AvailsResponses
<1> QED
  BY <1>3, <1>5, <1>8 DEF record

-----------------------------------------------------------------------------
(* What FlattenSeq makes of a sequence of sequences.  It is a recursive    *)
(* function of the community modules; induction is used in a first-order   *)
(* form, as a set of naturals that holds 0 and every successor of its      *)
(* members.                                                                *)

Below == {p \in Nat \X Nat : p[1] < p[2]}

LEMMA LeastNatural ==
  ASSUME NEW T \in SUBSET Nat, T # {}
  PROVE  \E m \in T : \A n \in T : ~(n < m)
<1>1. IsWellFoundedOn(Below, Nat)
  BY NatLessThanWellFounded DEF OpToRel, Below
<1>2. \E m \in T : \A n \in T : <<n, m>> \notin Below
  BY <1>1, WFMin, T \subseteq Nat
<1> QED
  BY <1>2, T \subseteq Nat DEF Below

(* Induction over the naturals, on a set in place of a predicate.          *)
LEMMA InductiveSet ==
  ASSUME NEW T \in SUBSET Nat, 0 \in T, \A n \in T : n + 1 \in T
  PROVE  T = Nat
<1> SUFFICES ASSUME Nat \ T # {} PROVE FALSE
  OBVIOUS
<1>1. PICK m \in Nat \ T : \A n \in Nat \ T : ~(n < m)
  BY LeastNatural
<1>2. m - 1 \in Nat /\ m - 1 < m
  OBVIOUS
<1>3. m - 1 \in T
  BY <1>1, <1>2
<1> QED
  BY <1>1, <1>3

(* joins[i] is the first i sequences in one, up to the n-th.               *)
AreJoins(seqs, joins, n) ==
  joins = [i \in 1..n |-> IF i = 1 THEN seqs[i] ELSE joins[i - 1] \o seqs[i]]

LEMMA JoinsExist ==
  ASSUME NEW seqs, NEW n \in Nat
  PROVE  \E joins : AreJoins(seqs, joins, n)
<1> DEFINE T == {m \in Nat : \E joins : AreJoins(seqs, joins, m)}
<1>1. 0 \in T
  <2> DEFINE none == [i \in 1..0 |-> seqs[i]]
  <2>1. AreJoins(seqs, none, 0)
    BY DEF AreJoins
  <2> QED
    BY <2>1
<1>2. ASSUME NEW m \in T PROVE m + 1 \in T
  <2>1. PICK joins : AreJoins(seqs, joins, m)
    OBVIOUS
  <2> DEFINE more(i) == IF i = 1 THEN seqs[i] ELSE joins[i - 1] \o seqs[i]
             longer == [i \in 1..(m + 1) |-> IF i \in 1..m THEN joins[i] ELSE more(i)]
  <2>2. ASSUME NEW i \in 1..(m + 1)
        PROVE  longer[i] = IF i = 1 THEN seqs[i] ELSE longer[i - 1] \o seqs[i]
    <3>1. CASE i \in 1..m
      <4>1. longer[i] = joins[i] /\ (i # 1 => longer[i - 1] = joins[i - 1])
        BY <3>1
      <4>2. joins[i] = IF i = 1 THEN seqs[i] ELSE joins[i - 1] \o seqs[i]
        BY <2>1, <3>1 DEF AreJoins
      <4> QED
        BY <4>1, <4>2
    <3>2. CASE i = m + 1
      <4>1. longer[i] = more(i) /\ (i # 1 => longer[i - 1] = joins[i - 1])
        BY <3>2
      <4> QED
        BY <4>1
    <3> QED
      BY <3>1, <3>2
  <2>3. AreJoins(seqs, longer, m + 1)
    <3>1. longer = [i \in 1..(m + 1) |-> longer[i]]
      OBVIOUS
    <3> HIDE DEF longer
    <3> QED
      BY <2>2, <3>1 DEF AreJoins
  <2> QED
    BY <2>3
<1> HIDE DEF T
<1>3. T = Nat
  <2>1. T \in SUBSET Nat
    BY DEF T
  <2> QED
    BY <1>1, <1>2, <2>1, InductiveSet
<1> QED
  BY <1>3 DEF T

LEMMA FlattenIsLastJoin ==
  ASSUME NEW seqs, Len(seqs) \in Nat \ {0}
  PROVE  \E joins : /\ AreJoins(seqs, joins, Len(seqs))
                    /\ FlattenSeq(seqs) = joins[Len(seqs)]
<1>1. \E joins : AreJoins(seqs, joins, Len(seqs))
  BY JoinsExist
<1>2. Len(seqs) # 0
  OBVIOUS
<1> QED
  BY <1>1, <1>2, Zenon DEF FlattenSeq, AreJoins

(* Where join i begins.                                                    *)
StartOf(joins, i) == IF i = 0 THEN 0 ELSE Len(joins[i])

LEMMA JoinsAreSequences ==
  ASSUME NEW S, NEW seqs \in Seq(Seq(S)), NEW joins, AreJoins(seqs, joins, Len(seqs))
  PROVE  \A i \in 1..Len(seqs) : joins[i] \in Seq(S)
<1> DEFINE n == Len(seqs)
           T == {m \in Nat : m + 1 <= n => joins[m + 1] \in Seq(S)}
<1>1. n \in Nat /\ \A i \in 1..n : seqs[i] \in Seq(S)
  OBVIOUS
<1>2. \A i \in 1..n : joins[i] = IF i = 1 THEN seqs[i] ELSE joins[i - 1] \o seqs[i]
  BY DEF AreJoins
<1> HIDE DEF n
<1>3. 0 \in T
  BY <1>1, <1>2
<1>4. ASSUME NEW m \in T PROVE m + 1 \in T
  <2> SUFFICES ASSUME m + 2 <= n PROVE joins[m + 2] \in Seq(S)
    OBVIOUS
  <2>1. /\ joins[m + 1] \in Seq(S) /\ m + 2 \in 1..n /\ m + 2 # 1
        /\ (m + 2) - 1 = m + 1
    BY <1>1
  <2>2. joins[m + 2] = joins[m + 1] \o seqs[m + 2]
    BY <1>2, <2>1
  <2>3. seqs[m + 2] \in Seq(S)
    BY <1>1, <2>1
  <2> QED
    BY <2>1, <2>2, <2>3, ConcatProperties
<1> HIDE DEF T
<1>5. T = Nat
  <2>1. T \in SUBSET Nat
    BY DEF T
  <2> QED
    BY <1>3, <1>4, <2>1, InductiveSet
<1> SUFFICES ASSUME NEW i \in 1..n PROVE joins[i] \in Seq(S)
  BY DEF n
<1>6. i - 1 \in T /\ (i - 1) + 1 = i /\ i <= n
  BY <1>1, <1>5
<1> QED
  BY <1>6 DEF T

(* One join: what the one before held stays where it is, and the next      *)
(* sequence follows.                                                       *)
LEMMA JoinStep ==
  ASSUME NEW S, NEW seqs \in Seq(Seq(S)), NEW joins, AreJoins(seqs, joins, Len(seqs)),
         NEW i \in 1..Len(seqs)
  PROVE  /\ StartOf(joins, i - 1) \in Nat /\ Len(joins[i]) \in Nat
         /\ Len(joins[i]) = StartOf(joins, i - 1) + Len(seqs[i])
         /\ \A p \in 1..StartOf(joins, i - 1) : joins[i][p] = joins[i - 1][p]
         /\ \A k \in 1..Len(seqs[i]) :
              joins[i][StartOf(joins, i - 1) + k] = seqs[i][k]
<1>1. seqs[i] \in Seq(S) /\ joins[i] \in Seq(S)
  BY JoinsAreSequences
<1>2. joins[i] = IF i = 1 THEN seqs[i] ELSE joins[i - 1] \o seqs[i]
  BY DEF AreJoins
<1>3. CASE i = 1
  BY <1>1, <1>2, <1>3 DEF StartOf
<1>4. CASE i # 1
  <2>1. joins[i - 1] \in Seq(S) /\ StartOf(joins, i - 1) = Len(joins[i - 1])
    BY <1>4, JoinsAreSequences DEF StartOf
  <2> DEFINE a == joins[i - 1]
             b == seqs[i]
  <2>2. a \in Seq(S) /\ b \in Seq(S) /\ joins[i] = a \o b
    BY <1>1, <1>2, <1>4, <2>1
  <2> HIDE DEF a, b
  <2>3. /\ Len(a) \in Nat /\ Len(b) \in Nat
        /\ Len(a \o b) = Len(a) + Len(b)
        /\ \A p \in 1..(Len(a) + Len(b)) :
             (a \o b)[p] = IF p <= Len(a) THEN a[p] ELSE b[p - Len(a)]
    BY <2>2, ConcatProperties
  <2>4. \A p \in 1..Len(a) : (a \o b)[p] = a[p]
    BY <2>3
  <2>5. \A k \in 1..Len(b) : (a \o b)[Len(a) + k] = b[k]
    <3> SUFFICES ASSUME NEW k \in 1..Len(b) PROVE (a \o b)[Len(a) + k] = b[k]
      OBVIOUS
    <3>1. /\ Len(a) + k \in 1..(Len(a) + Len(b)) /\ ~(Len(a) + k <= Len(a))
          /\ (Len(a) + k) - Len(a) = k
      BY <2>3
    <3> QED
      BY <2>3, <3>1
  <2>6. StartOf(joins, i - 1) = Len(a) /\ a = joins[i - 1] /\ b = seqs[i]
    BY <2>1 DEF a, b
  <2>7. Len(a \o b) \in Nat
    BY <2>3
  <2> QED
    BY <2>2, <2>3, <2>4, <2>5, <2>6, <2>7, Zenon
<1> QED
  BY <1>3, <1>4

(* Every place of a join belongs to one of the sequences, and holds what   *)
(* that sequence holds there.                                              *)
LEMMA JoinPlaces ==
  ASSUME NEW S, NEW seqs \in Seq(Seq(S)), NEW joins, AreJoins(seqs, joins, Len(seqs)),
         NEW m \in 0..Len(seqs)
  PROVE  /\ \A i \in 1..m : \A k \in 1..Len(seqs[i]) :
              /\ StartOf(joins, i - 1) + k \in 1..StartOf(joins, m)
              /\ joins[m][StartOf(joins, i - 1) + k] = seqs[i][k]
         /\ \A p \in 1..StartOf(joins, m) : \E i \in 1..m :
              p \in (StartOf(joins, i - 1) + 1)..StartOf(joins, i)
<1> DEFINE n == Len(seqs)
           Held(u) == \A i \in 1..u : \A k \in 1..Len(seqs[i]) :
                        /\ StartOf(joins, i - 1) + k \in 1..StartOf(joins, u)
                        /\ joins[u][StartOf(joins, i - 1) + k] = seqs[i][k]
           Covered(u) == \A p \in 1..StartOf(joins, u) : \E i \in 1..u :
                           p \in (StartOf(joins, i - 1) + 1)..StartOf(joins, i)
           T == {u \in Nat : u <= n => Held(u) /\ Covered(u)}
<1>1. n \in Nat
  OBVIOUS
<1>2. 0 \in T
  BY <1>1 DEF StartOf
<1>3. ASSUME NEW u \in T PROVE u + 1 \in T
  <2> DEFINE w == u + 1
  <2> SUFFICES ASSUME w <= n PROVE Held(w) /\ Covered(w)
    OBVIOUS
  <2>1. w \in 1..n /\ w - 1 = u /\ w # 0 /\ u <= n
    <3> HIDE DEF Held, Covered, n
    <3> QED
      BY <1>1
  <2>0. Held(u) /\ Covered(u)
    <3> HIDE DEF Held, Covered, n
    <3> QED
      BY <2>1
  <2>2. /\ StartOf(joins, u) \in Nat
        /\ StartOf(joins, w) = StartOf(joins, u) + Len(seqs[w])
        /\ StartOf(joins, w) \in Nat
        /\ \A p \in 1..StartOf(joins, u) : joins[w][p] = joins[u][p]
        /\ \A k \in 1..Len(seqs[w]) : joins[w][StartOf(joins, u) + k] = seqs[w][k]
    <3>1. StartOf(joins, w) = Len(joins[w])
      BY <2>1 DEF StartOf
    <3> HIDE DEF w
    <3>2. /\ StartOf(joins, w - 1) \in Nat /\ Len(joins[w]) \in Nat
          /\ Len(joins[w]) = StartOf(joins, w - 1) + Len(seqs[w])
          /\ \A p \in 1..StartOf(joins, w - 1) : joins[w][p] = joins[w - 1][p]
          /\ \A k \in 1..Len(seqs[w]) :
               joins[w][StartOf(joins, w - 1) + k] = seqs[w][k]
      BY <2>1, JoinStep
    <3> QED
      BY <2>1, <3>1, <3>2
  <2>3. Len(seqs[w]) \in Nat
    BY <2>1
  <2>4. Held(w)
    <3> SUFFICES ASSUME NEW i \in 1..w, NEW k \in 1..Len(seqs[i])
                 PROVE  /\ StartOf(joins, i - 1) + k \in 1..StartOf(joins, w)
                        /\ joins[w][StartOf(joins, i - 1) + k] = seqs[i][k]
      OBVIOUS
    <3>1. CASE i = w
      BY <2>1, <2>2, <2>3, <3>1
    <3>2. CASE i \in 1..u
      <4>1. /\ StartOf(joins, i - 1) + k \in 1..StartOf(joins, u)
            /\ joins[u][StartOf(joins, i - 1) + k] = seqs[i][k]
        BY <2>0, <3>2
      <4> DEFINE p == StartOf(joins, i - 1) + k
      <4>2. p \in 1..StartOf(joins, u)
        BY <4>1
      <4>3. joins[w][p] = joins[u][p]
        BY <2>2, <4>2
      <4>4. p \in 1..StartOf(joins, w)
        <5> HIDE DEF p, w
        <5> QED
          BY <2>2, <2>3, <4>2
      <4> QED
        BY <4>1, <4>3, <4>4
    <3> QED
      BY <3>1, <3>2
  <2>5. Covered(w)
    <3> SUFFICES ASSUME NEW p \in 1..StartOf(joins, w)
                 PROVE  \E i \in 1..w : p \in (StartOf(joins, i - 1) + 1)..StartOf(joins, i)
      OBVIOUS
    <3>1. CASE p \in 1..StartOf(joins, u)
      BY <2>0, <2>1, <3>1
    <3>2. CASE p \notin 1..StartOf(joins, u)
      <4>1. p \in (StartOf(joins, u) + 1)..StartOf(joins, w)
        BY <2>2, <3>2
      <4>2. w \in 1..w /\ w - 1 = u
        BY <2>1
      <4> QED
        BY <4>1, <4>2
    <3> QED
      BY <3>1, <3>2
  <2> QED
    BY <2>4, <2>5
<1> HIDE DEF T
<1>4. T = Nat
  <2>1. T \in SUBSET Nat
    BY DEF T
  <2> QED
    BY <1>2, <1>3, <2>1, InductiveSet
<1>5. m \in T /\ m <= n
  BY <1>1, <1>4
<1> QED
  BY <1>5 DEF T

(* Where a flattened sequence comes from: place start[i - 1] + k holds     *)
(* what sequence i holds at k, and there are no other places.              *)
Flattens(seqs, flat, start) ==
  /\ start \in [0..Len(seqs) -> Nat]
  /\ \A i \in 1..Len(seqs) : start[i] = start[i - 1] + Len(seqs[i])
  /\ Len(flat) = start[Len(seqs)]
  /\ \A i \in 1..Len(seqs) : \A k \in 1..Len(seqs[i]) :
       /\ start[i - 1] + k \in 1..Len(flat)
       /\ flat[start[i - 1] + k] = seqs[i][k]
  /\ \A p \in 1..Len(flat) : \E i \in 1..Len(seqs) : p \in (start[i - 1] + 1)..start[i]

LEMMA FlattenPlaces ==
  ASSUME NEW S, NEW seqs \in Seq(Seq(S))
  PROVE  /\ FlattenSeq(seqs) \in Seq(S)
         /\ \E start : Flattens(seqs, FlattenSeq(seqs), start)
<1> DEFINE n == Len(seqs)
<1>1. n \in Nat
  OBVIOUS
<1>2. CASE n = 0
  <2>1. seqs = <<>> /\ FlattenSeq(seqs) = <<>>
    BY <1>2, EmptySeq DEF FlattenSeq
  <2> DEFINE start == [i \in 0..0 |-> 0]
  <2>2. Flattens(seqs, <<>>, start)
    BY <1>2, <2>1 DEF Flattens
  <2> QED
    BY <2>1, <2>2
<1>3. CASE n # 0
  <2>1. PICK joins : AreJoins(seqs, joins, n) /\ FlattenSeq(seqs) = joins[n]
    BY <1>1, <1>3, FlattenIsLastJoin
  <2>2. n \in 1..n /\ n \in 0..n
    BY <1>1, <1>3
  <2>3. FlattenSeq(seqs) \in Seq(S)
    BY <2>1, <2>2, JoinsAreSequences
  <2> DEFINE start == [i \in 0..n |-> StartOf(joins, i)]
             flat == FlattenSeq(seqs)
  <2>4. \A i \in 1..n : /\ StartOf(joins, i) \in Nat /\ StartOf(joins, i - 1) \in Nat
                        /\ StartOf(joins, i) = StartOf(joins, i - 1) + Len(seqs[i])
    <3> SUFFICES ASSUME NEW i \in 1..n
                 PROVE  /\ StartOf(joins, i) \in Nat /\ StartOf(joins, i - 1) \in Nat
                        /\ StartOf(joins, i) = StartOf(joins, i - 1) + Len(seqs[i])
      OBVIOUS
    <3>1. StartOf(joins, i) = Len(joins[i])
      BY DEF StartOf
    <3> QED
      BY <2>1, <3>1, JoinStep
  <2>5. StartOf(joins, 0) = 0 /\ StartOf(joins, n) = Len(flat)
    BY <1>3, <2>1 DEF StartOf
  <2>6. /\ \A i \in 1..n : \A k \in 1..Len(seqs[i]) :
             /\ StartOf(joins, i - 1) + k \in 1..Len(flat)
             /\ flat[StartOf(joins, i - 1) + k] = seqs[i][k]
        /\ \A p \in 1..Len(flat) : \E i \in 1..n :
             p \in (StartOf(joins, i - 1) + 1)..StartOf(joins, i)
    <3> HIDE DEF n, flat
    <3>1. /\ \A i \in 1..n : \A k \in 1..Len(seqs[i]) :
               /\ StartOf(joins, i - 1) + k \in 1..StartOf(joins, n)
               /\ joins[n][StartOf(joins, i - 1) + k] = seqs[i][k]
          /\ \A p \in 1..StartOf(joins, n) : \E i \in 1..n :
               p \in (StartOf(joins, i - 1) + 1)..StartOf(joins, i)
      BY <2>1, <2>2, JoinPlaces, Zenon DEF n
    <3>2. joins[n] = flat
      BY <2>1 DEF flat
    <3> QED
      BY <2>5, <3>1, <3>2, Zenon
  <2>7. \A i \in 1..n : start[i] = StartOf(joins, i) /\ start[i - 1] = StartOf(joins, i - 1)
    BY <1>1
  <2>8. start[n] = Len(flat)
    BY <2>2, <2>5
  <2>9. start \in [0..n -> Nat]
    BY <1>1, <2>4, <2>5
  <2> HIDE DEF start
  <2>10. Flattens(seqs, flat, start)
    BY <2>4, <2>6, <2>7, <2>8, <2>9 DEF Flattens
  <2> QED
    BY <2>3, <2>10
<1> QED
  BY <1>2, <1>3

-----------------------------------------------------------------------------
(* What the two sides of the bridge do to a targeting.                     *)

LEMMA NthOfInterval ==
  ASSUME NEW a \in Nat, NEW n \in Nat, NEW k \in 1..n
  PROVE  Nth((a + 1)..(a + n), k) = a + k
<1> DEFINE P == (a + 1)..(a + n)
<1>1. ASSUME NEW i \in P PROVE Cardinality({j \in P : j <= i}) = i - a
  <2>1. {j \in P : j <= i} = (a + 1)..i
    OBVIOUS
  <2>2. a + 1 \in Int /\ i \in Int /\ ~(a + 1 > i) /\ i - (a + 1) + 1 = i - a
    OBVIOUS
  <2> QED
    BY <2>1, <2>2, FS_Interval
<1>2. a + k \in P /\ (a + k) - a = k /\ \A i \in P : i - a = k => i = a + k
  OBVIOUS
<1> HIDE DEF P
<1>3. \A i \in P : Cardinality({j \in P : j <= i}) = k <=> i = a + k
  BY <1>1, <1>2
<1>4. Nth(P, k) = a + k
  BY <1>2, <1>3, Zenon DEF Nth
<1> QED
  BY <1>4 DEF P

(* The values a targeting holds, and what they become.                     *)
ValuesOf(t) == UNION {Range(t[d].values) : d \in DOMAIN t}
SegmentsBy(t) == [i \in DOMAIN Dimensions |-> SegmentsOf(t, Dimensions[i])]

LEMMA DimensionsAreListed ==
  /\ Len(Dimensions) \in Nat /\ DOMAIN Dimensions = 1..Len(Dimensions)
  /\ \A i \in 1..Len(Dimensions) : Dimensions[i] \in Range(Dimensions)
  /\ \A d \in Range(Dimensions) : \E i \in 1..Len(Dimensions) : d = Dimensions[i]
  /\ \A i, j \in 1..Len(Dimensions) : Dimensions[i] = Dimensions[j] => i = j
BY TargetingAssumption DEF Range

LEMMA ValuesAreListed ==
  ASSUME NEW t \in Targetings, NEW d \in DOMAIN t
  PROVE  /\ t[d].values \in Seq(ValuesOf(t)) /\ None \notin ValuesOf(t)
         /\ Len(t[d].values) \in Nat /\ DOMAIN t[d].values = 1..Len(t[d].values)
<1>1. \A e \in DOMAIN t : t[e].values \in Seq(Range(t[e].values))
                          /\ None \notin Range(t[e].values)
  BY TargetingAssumption
<1> DEFINE R == Range(t[d].values)
<1>2. R \subseteq ValuesOf(t)
  BY DEF ValuesOf
<1>3. t[d].values \in Seq(ValuesOf(t))
  <2>1. t[d].values \in Seq(R)
    BY <1>1
  <2> HIDE DEF R
  <2> QED
    BY <1>2, <2>1
<1>4. None \notin ValuesOf(t)
  BY <1>1 DEF ValuesOf
<1> QED
  BY <1>3, <1>4

LEMMA DimensionOfSegments ==
  ASSUME NEW t \in Targetings, NEW d \in Range(Dimensions)
  PROVE  /\ SegmentsOf(t, d) \in Seq([name : Range(Dimensions), value : ValuesOf(t)])
         /\ d \notin DOMAIN t => Len(SegmentsOf(t, d)) = 0
         /\ d \in DOMAIN t =>
              /\ Len(SegmentsOf(t, d)) = Len(t[d].values)
              /\ \A k \in 1..Len(t[d].values) : SegmentsOf(t, d)[k].value = t[d].values[k]
         /\ \A k \in 1..Len(SegmentsOf(t, d)) :
              /\ SegmentsOf(t, d)[k].name = d
<1>1. CASE d \notin DOMAIN t
  <2>1. SegmentsOf(t, d) = <<>>
    BY <1>1 DEF SegmentsOf
  <2> QED
    BY <1>1, <2>1
<1>2. CASE d \in DOMAIN t
  <2> DEFINE values == t[d].values
             n == Len(values)
             sent == [j \in 1..n |-> [name |-> d, value |-> values[j]]]
  <2>1. values \in Seq(ValuesOf(t)) /\ n \in Nat /\ DOMAIN values = 1..n
    BY <1>2, ValuesAreListed
  <2>2. SegmentsOf(t, d) = sent
    BY <1>2, <2>1 DEF SegmentsOf
  <2>3. \A j \in 1..n : values[j] \in ValuesOf(t)
    BY <2>1
  <2> HIDE DEF values, n
  <2>4. sent \in [1..n -> [name : Range(Dimensions), value : ValuesOf(t)]]
    BY <2>3
  <2>5. /\ sent \in Seq([name : Range(Dimensions), value : ValuesOf(t)])
        /\ Len(sent) = n
    BY <2>1, <2>4
  <2> QED
    BY <1>2, <2>2, <2>5 DEF values, n
<1> QED
  BY <1>1, <1>2

LEMMA SegmentsByAreSequences ==
  ASSUME NEW t \in Targetings
  PROVE  /\ SegmentsBy(t) \in Seq(Seq([name : Range(Dimensions), value : ValuesOf(t)]))
         /\ Len(SegmentsBy(t)) = Len(Dimensions)
         /\ \A i \in 1..Len(Dimensions) : SegmentsBy(t)[i] = SegmentsOf(t, Dimensions[i])
<1> DEFINE S == [name : Range(Dimensions), value : ValuesOf(t)]
           n == Len(Dimensions)
<1>1. n \in Nat /\ DOMAIN Dimensions = 1..n
  BY DimensionsAreListed
<1>2. SegmentsBy(t) = [i \in 1..n |-> SegmentsOf(t, Dimensions[i])]
  BY <1>1 DEF SegmentsBy
<1>3. \A i \in 1..n : SegmentsOf(t, Dimensions[i]) \in Seq(S)
  BY DimensionsAreListed, DimensionOfSegments
<1> HIDE DEF S, n
<1>4. SegmentsBy(t) \in [1..n -> Seq(S)]
  BY <1>2, <1>3
<1>5. SegmentsBy(t) \in Seq(Seq(S)) /\ Len(SegmentsBy(t)) = n
  BY <1>1, <1>4
<1>6. \A i \in 1..n : SegmentsBy(t)[i] = SegmentsOf(t, Dimensions[i])
  BY <1>2
<1> QED
  BY <1>5, <1>6, Zenon DEF S, n

(* When each sequence holds one name, the places of a name lie together.   *)
OneNameEach(seqs, names) ==
  /\ Len(seqs) = Len(names) /\ Len(names) \in Nat
  /\ \A i, j \in 1..Len(names) : names[i] = names[j] => i = j
  /\ \A i \in 1..Len(names) :
       /\ Len(seqs[i]) \in Nat
       /\ \A k \in 1..Len(seqs[i]) : seqs[i][k].name = names[i]

LEMMA NameLiesTogether ==
  ASSUME NEW seqs, NEW names, OneNameEach(seqs, names),
         NEW flat, NEW start, Flattens(seqs, flat, start),
         NEW i \in 1..Len(names)
  PROVE  /\ start[i - 1] \in Nat
         /\ {p \in 1..Len(flat) : flat[p].name = names[i]} =
              (start[i - 1] + 1)..(start[i - 1] + Len(seqs[i]))
<1> DEFINE N == Len(names)
<1>0. /\ N \in Nat /\ Len(seqs) = N
      /\ \A h, j \in 1..N : names[h] = names[j] => h = j
      /\ \A h \in 1..N : /\ Len(seqs[h]) \in Nat
                         /\ \A k \in 1..Len(seqs[h]) : seqs[h][k].name = names[h]
  BY DEF OneNameEach
<1>1. /\ start \in [0..N -> Nat]
      /\ \A h \in 1..N : start[h] = start[h - 1] + Len(seqs[h])
      /\ \A h \in 1..N : \A k \in 1..Len(seqs[h]) :
           /\ start[h - 1] + k \in 1..Len(flat)
           /\ flat[start[h - 1] + k] = seqs[h][k]
      /\ \A p \in 1..Len(flat) : \E h \in 1..N : p \in (start[h - 1] + 1)..start[h]
  BY <1>0 DEF Flattens
<1>2. ASSUME NEW h \in 1..N PROVE start[h] \in Nat /\ start[h - 1] \in Nat
  <2>1. h \in 0..N /\ h - 1 \in 0..N
    BY <1>0
  <2> QED
    BY <1>1, <2>1
<1>3. ASSUME NEW h \in 1..N, NEW p \in (start[h - 1] + 1)..start[h]
      PROVE  p \in 1..Len(flat) /\ flat[p].name = names[h]
  <2> DEFINE a == start[h - 1]
             k == p - a
  <2>1. a \in Nat /\ start[h] = a + Len(seqs[h]) /\ p \in (a + 1)..start[h]
        /\ Len(seqs[h]) \in Nat
    BY <1>0, <1>1, <1>2
  <2> HIDE DEF a
  <2>2. k \in 1..Len(seqs[h]) /\ a + k = p
    BY <2>1
  <2> HIDE DEF k
  <2>3. a + k \in 1..Len(flat) /\ flat[a + k] = seqs[h][k]
    BY <1>1, <2>2 DEF a
  <2> QED
    BY <1>0, <2>2, <2>3
<1>4. ASSUME NEW p \in 1..Len(flat), flat[p].name = names[i]
      PROVE  p \in (start[i - 1] + 1)..start[i]
  <2>1. PICK h \in 1..N : p \in (start[h - 1] + 1)..start[h]
    BY <1>1
  <2>2. names[h] = names[i]
    BY <1>3, <1>4, <2>1
  <2>3. h = i
    BY <1>0, <2>2
  <2> QED
    BY <2>1, <2>3
<1>5. start[i] = start[i - 1] + Len(seqs[i]) /\ start[i - 1] \in Nat
  BY <1>1, <1>2
<1> QED
  BY <1>3, <1>4, <1>5

(* The segments of a dimension lie together, in the order of its values.   *)
LEMMA DimensionLiesTogether ==
  ASSUME NEW t \in Targetings, NEW start,
         Flattens(SegmentsBy(t), Segments(t), start),
         NEW i \in 1..Len(Dimensions), Dimensions[i] \in DOMAIN t
  PROVE  LET n == Len(t[Dimensions[i]].values)
         IN  /\ start[i - 1] \in Nat /\ n \in Nat
             /\ {p \in 1..Len(Segments(t)) : Segments(t)[p].name = Dimensions[i]} =
                  (start[i - 1] + 1)..(start[i - 1] + n)
             /\ \A k \in 1..n :
                  Segments(t)[start[i - 1] + k].value = t[Dimensions[i]].values[k]
<1> DEFINE d == Dimensions[i]
           n == Len(t[d].values)
           flat == Segments(t)
           seqs == SegmentsBy(t)
           N == Len(Dimensions)
<1>1. /\ N \in Nat /\ Len(seqs) = N
      /\ \A h \in 1..N : seqs[h] = SegmentsOf(t, Dimensions[h])
      /\ \A h \in 1..N : Dimensions[h] \in Range(Dimensions)
  BY SegmentsByAreSequences, DimensionsAreListed, Zenon
<1>2. ASSUME NEW h \in 1..N
      PROVE  /\ Len(seqs[h]) \in Nat
             /\ \A k \in 1..Len(seqs[h]) : seqs[h][k].name = Dimensions[h]
  <2> DEFINE s == SegmentsOf(t, Dimensions[h])
  <2>1. s \in Seq([name : Range(Dimensions), value : ValuesOf(t)])
        /\ \A k \in 1..Len(s) : s[k].name = Dimensions[h]
    BY <1>1, DimensionOfSegments, Zenon
  <2> HIDE DEF s
  <2>2. Len(s) \in Nat
    BY <2>1, LenProperties
  <2>3. seqs[h] = s
    BY <1>1 DEF s
  <2> QED
    BY <2>1, <2>2, <2>3, Zenon
<1>3. /\ d \in DOMAIN t /\ d \in Range(Dimensions) /\ seqs[i] = SegmentsOf(t, d)
      /\ n \in Nat
  BY <1>1, ValuesAreListed, Zenon
<1>4. /\ Len(seqs[i]) = n
      /\ \A k \in 1..n : seqs[i][k].value = t[d].values[k]
  <2>1. /\ Len(SegmentsOf(t, d)) = Len(t[d].values)
        /\ \A k \in 1..Len(t[d].values) : SegmentsOf(t, d)[k].value = t[d].values[k]
    <3> HIDE DEF d
    <3> QED
      BY <1>3, DimensionOfSegments
  <2> QED
    BY <1>3, <2>1, Zenon
<1>5. /\ start[i - 1] \in Nat
      /\ {p \in 1..Len(flat) : flat[p].name = d} =
           (start[i - 1] + 1)..(start[i - 1] + Len(seqs[i]))
  <2>1. OneNameEach(seqs, Dimensions)
    BY <1>1, <1>2, DimensionsAreListed DEF OneNameEach
  <2> QED
    BY <2>1, NameLiesTogether
<1>6. \A k \in 1..Len(seqs[i]) : flat[start[i - 1] + k] = seqs[i][k]
  BY <1>1, Zenon DEF Flattens
<1> QED
  BY <1>3, <1>4, <1>5, <1>6, Zenon

(* Every place has a dimension that the targeting has.                     *)
LEMMA OwnerOfPlace ==
  ASSUME NEW t \in Targetings, NEW start,
         Flattens(SegmentsBy(t), Segments(t), start),
         NEW p \in 1..Len(Segments(t))
  PROVE  Segments(t)[p].name \in DOMAIN t
<1> DEFINE seqs == SegmentsBy(t)
           flat == Segments(t)
           N == Len(Dimensions)
<1>1. /\ N \in Nat /\ Len(seqs) = N
      /\ \A h \in 1..N : seqs[h] = SegmentsOf(t, Dimensions[h])
      /\ \A h \in 1..N : Dimensions[h] \in Range(Dimensions)
  BY SegmentsByAreSequences, DimensionsAreListed, Zenon
<1>2. PICK h \in 1..N : p \in (start[h - 1] + 1)..start[h]
  BY <1>1 DEF Flattens
<1> DEFINE a == start[h - 1]
           s == SegmentsOf(t, Dimensions[h])
           k == p - a
<1>3. s \in Seq([name : Range(Dimensions), value : ValuesOf(t)])
  BY <1>1, DimensionOfSegments, Zenon
<1>4. Len(s) \in Nat /\ seqs[h] = s
  <2>1. seqs[h] = s
    BY <1>1
  <2> HIDE DEF s
  <2> QED
    BY <1>3, <2>1, LenProperties
<1>5. start[h] = a + Len(s) /\ a \in Nat
  <2>1. h - 1 \in 0..N
    BY <1>1
  <2>2. start \in [0..N -> Nat] /\ start[h] = start[h - 1] + Len(seqs[h])
    BY <1>1, Zenon DEF Flattens
  <2> HIDE DEF seqs, s
  <2> QED
    BY <1>4, <2>1, <2>2
<1>6. k \in 1..Len(s) /\ a + k = p
  <2> HIDE DEF a, s
  <2> QED
    BY <1>2, <1>4, <1>5 DEF a
<1>7. flat[p] = s[k]
  <2>1. \A q \in 1..Len(seqs[h]) : flat[a + q] = seqs[h][q]
    BY <1>1, Zenon DEF Flattens
  <2> HIDE DEF k, a, s, seqs, flat
  <2> QED
    BY <1>4, <1>6, <2>1, Zenon
<1>8. s[k].name = Dimensions[h] /\ Len(s) # 0
  <2> HIDE DEF k
  <2>1. s[k].name = Dimensions[h]
    BY <1>1, <1>6, DimensionOfSegments, Zenon
  <2> HIDE DEF s
  <2> QED
    BY <1>4, <1>6, <2>1
<1>9. Dimensions[h] \in DOMAIN t
  BY <1>1, <1>8, DimensionOfSegments, Zenon
<1> QED
  BY <1>7, <1>8, <1>9, Zenon

LEMMA SegmentsAreWhole ==
  ASSUME NEW t \in Targetings
  PROVE  /\ Segments(t) \in Seq([name : Range(Dimensions), value : ValuesOf(t)])
         /\ DOMAIN Segments(t) = 1..Len(Segments(t))
         /\ \A p \in DOMAIN Segments(t) :
              Segments(t)[p].name # None /\ Segments(t)[p].value # None
         /\ \E start : Flattens(SegmentsBy(t), Segments(t), start)
<1>1. t # None
  BY TargetingAssumption
<1>2. Segments(t) = FlattenSeq(SegmentsBy(t))
  BY <1>1 DEF Segments, SegmentsBy
<1> DEFINE S == [name : Range(Dimensions), value : ValuesOf(t)]
           flat == Segments(t)
<1>3. flat \in Seq(S) /\ \E start : Flattens(SegmentsBy(t), flat, start)
  BY <1>2, SegmentsByAreSequences, FlattenPlaces, Zenon
<1>4. \A s \in S : s.name # None /\ s.value # None
  <2>1. None \notin Range(Dimensions)
    BY TargetingAssumption
  <2>2. None \notin ValuesOf(t)
    BY TargetingAssumption DEF ValuesOf
  <2> QED
    BY <2>1, <2>2
<1> HIDE DEF S, flat
<1>5. DOMAIN flat = 1..Len(flat) /\ \A p \in DOMAIN flat : flat[p] \in S
  BY <1>3
<1> QED
  BY <1>3, <1>4, <1>5, Zenon DEF S, flat

(* What is read back for one dimension: its values, all of them, in order. *)
LEMMA DimensionIsReadBack ==
  ASSUME NEW t \in Targetings, NEW d \in DOMAIN t
  PROVE  LET places == {p \in DOMAIN Segments(t) : Segments(t)[p].name = d}
         IN  /\ places = {} <=> t[d].values = <<>>
             /\ [k \in 1..Cardinality(places) |-> Segments(t)[Nth(places, k)].value]
                  = t[d].values
<1> DEFINE flat == Segments(t)
           values == t[d].values
           n == Len(values)
           places == {p \in DOMAIN flat : flat[p].name = d}
<1>1. PICK i \in 1..Len(Dimensions) : d = Dimensions[i]
  BY TargetingAssumption, DimensionsAreListed
<1>2. PICK start : Flattens(SegmentsBy(t), flat, start)
  BY SegmentsAreWhole
<1> DEFINE a == start[i - 1]
<1>3. /\ a \in Nat /\ n \in Nat
      /\ {p \in 1..Len(flat) : flat[p].name = d} = (a + 1)..(a + n)
      /\ \A k \in 1..n : flat[a + k].value = values[k]
  BY <1>1, <1>2, DimensionLiesTogether
<1>4. DOMAIN flat = 1..Len(flat)
  BY SegmentsAreWhole
<1>5. places = (a + 1)..(a + n)
  BY <1>3, <1>4, Zenon
<1>6. values \in Seq(ValuesOf(t))
  BY ValuesAreListed
<1> HIDE DEF flat, values, places, a, n
<1>7. Cardinality(places) = n
  <2>1. a + 1 \in Int /\ a + n \in Int
    BY <1>3
  <2>2. Cardinality(places) = IF a + 1 > a + n THEN 0 ELSE (a + n) - (a + 1) + 1
    BY <1>5, <2>1, FS_Interval
  <2>3. CASE n = 0
    BY <1>3, <2>2, <2>3
  <2>4. CASE n # 0
    <3>1. ~(a + 1 > a + n) /\ (a + n) - (a + 1) + 1 = n
      BY <1>3, <2>4
    <3> QED
      BY <2>2, <3>1
  <2> QED
    BY <2>3, <2>4
<1>8. \A k \in 1..n : Nth(places, k) = a + k
  BY <1>3, <1>5, NthOfInterval
<1>9. \A k \in 1..n : flat[Nth(places, k)].value = values[k]
  BY <1>3, <1>8
<1>10. values = [k \in 1..n |-> values[k]]
  BY <1>6 DEF n
<1>11. [k \in 1..Cardinality(places) |-> flat[Nth(places, k)].value] = values
  BY <1>7, <1>9, <1>10, Zenon
<1>12. places = {} <=> values = <<>>
  <2>1. places = {} <=> n = 0
    BY <1>3, <1>5
  <2>2. values = <<>> <=> n = 0
    BY <1>6, EmptySeq DEF n
  <2> QED
    BY <2>1, <2>2
<1> QED
  BY <1>11, <1>12 DEF flat, places, values

(* Every targeting crosses the bridge whole: under each dimension that has *)
(* a value the seller reads all of its values, in their order and under no *)
(* other dimension, and one without a value is not mentioned (sorted, the  *)
(* extension of the segments and the regrouping by setdefault).            *)
THEOREM TargetingIsCarried ==
  ASSUME NEW t \in Targetings
  PROVE  Regrouped(Segments(t)) = Listed(t)
<1> DEFINE segments == Segments(t)
           whole == {i \in DOMAIN segments :
                       segments[i].name # None /\ segments[i].value # None}
           Of(d) == {i \in whole : segments[i].name = d}
           read(d) == [k \in 1..Cardinality(Of(d)) |-> segments[Nth(Of(d), k)].value]
           used == {d \in DOMAIN t : t[d].values # <<>>}
<1>1. whole = DOMAIN segments
  BY SegmentsAreWhole
<1>2. \A d \in DOMAIN t : /\ Of(d) = {} <=> t[d].values = <<>>
                          /\ read(d) = t[d].values
  <2> SUFFICES ASSUME NEW d \in DOMAIN t
               PROVE  (Of(d) = {} <=> t[d].values = <<>>) /\ read(d) = t[d].values
    OBVIOUS
  <2> DEFINE places == {p \in DOMAIN segments : segments[p].name = d}
  <2>1. Of(d) = places
    BY <1>1, Zenon
  <2>2. /\ places = {} <=> t[d].values = <<>>
        /\ [k \in 1..Cardinality(places) |-> segments[Nth(places, k)].value] = t[d].values
    BY DimensionIsReadBack, Zenon
  <2> HIDE DEF places, Of, segments
  <2> QED
    BY <2>1, <2>2, Zenon
<1>3. \A p \in whole : segments[p].name \in DOMAIN t
  <2> SUFFICES ASSUME NEW p \in DOMAIN segments PROVE segments[p].name \in DOMAIN t
    BY <1>1
  <2>1. PICK start : Flattens(SegmentsBy(t), segments, start)
    BY SegmentsAreWhole
  <2> QED
    BY <2>1, OwnerOfPlace, SegmentsAreWhole
<1>4. {segments[p].name : p \in whole} = used
  <2>1. ASSUME NEW p \in whole PROVE segments[p].name \in used
    <3>1. Of(segments[p].name) # {}
      <4> HIDE DEF whole
      <4> QED
        BY <2>1
    <3> QED
      BY <1>2, <1>3, <3>1, Zenon
  <2>2. ASSUME NEW d \in used PROVE \E p \in whole : segments[p].name = d
    <3>1. Of(d) # {}
      BY <1>2, Zenon
    <3> HIDE DEF whole
    <3> QED
      BY <3>1
  <2> HIDE DEF whole, segments, used
  <2> QED
    BY <2>1, <2>2
<1>5. whole = {} <=> used = {}
  BY <1>4
<1>6. [d \in {segments[p].name : p \in whole} |-> [list |-> TRUE, values |-> read(d)]]
        = [d \in used |-> [list |-> TRUE, values |-> t[d].values]]
  BY <1>2, <1>4, Zenon
<1>7. Regrouped(segments) =
        IF whole = {} THEN None
        ELSE [d \in {segments[p].name : p \in whole} |-> [list |-> TRUE, values |-> read(d)]]
  BY Zenon DEF Regrouped
<1>8. Listed(t) = IF used = {} THEN None
                  ELSE [d \in used |-> [list |-> TRUE, values |-> t[d].values]]
  BY Zenon DEF Listed
<1> HIDE DEF segments, whole, read, used
<1>9. Regrouped(segments) = Listed(t)
  <2>1. CASE whole = {}
    <3>1. Regrouped(segments) = None /\ Listed(t) = None
      BY <1>5, <1>7, <1>8, <2>1
    <3> QED
      BY <3>1
  <2>2. CASE whole # {}
    <3>1. used # {}
      BY <1>5, <2>2
    <3>2. Regrouped(segments) =
            [d \in {segments[p].name : p \in whole} |-> [list |-> TRUE, values |-> read(d)]]
      BY <1>7, <2>2, Zenon
    <3>3. Listed(t) = [d \in used |-> [list |-> TRUE, values |-> t[d].values]]
      BY <1>8, <3>1, Zenon
    <3> QED
      BY <1>6, <3>2, <3>3, Zenon
  <2> QED
    BY <2>1, <2>2
<1> QED
  BY <1>9 DEF segments

-----------------------------------------------------------------------------
(* The inductive invariant.                                                *)

(* The payload carries the buyer's need, in the dialect that is read.      *)
Carried ==
  /\ need \in AvailsRequests \cup {None}
  /\ phase = "ask" => ~IsSpec
  /\ IsSpec => /\ FromNeed => payload.productids = ToSpec(need)
               /\ payload.productids.product_ids \in Seq(Products) \ {<<>>}
  /\ (FromNeed /\ ~IsSpec /\ phase # "ask") => payload.productid = need

(* The pricing is asked about the need, or, of a seller without the bridge *)
(* or of an unreadable search, not at all.                                 *)
Asked ==
  /\ phase \in {"ask", "asked"} => ~Bridged
  /\ phase = "received" => Bridged
  /\ (Bridged /\ FromNeed) =>
       queries = IF IsSpec THEN Simplified(ToSpec(need)) ELSE <<need>>

(* The answer is the price of the need, in the dialect of the request.     *)
Answered ==
  phase \in {"answered", "read"} =>
    /\ ~Bridged => answer.avails \in Seq(AvailsRecords)
    /\ (Bridged /\ FromNeed /\ Representable) =>
         IF IsSpec
         THEN answer.avails = <<FromSimplified(Priced(need), need.requested_impressions)>>
         ELSE answer.avails = None /\ answer.legacy = Priced(need)

ReadBack ==
  phase = "read" =>
    results = IF answer.avails # None
              THEN [i \in DOMAIN answer.avails |-> ToSimplified(answer.avails[i])]
              ELSE <<answer.legacy>>

IInv == Carried /\ Asked /\ Answered /\ ReadBack

-----------------------------------------------------------------------------
LEMMA SearchNamesProducts ==
  ASSUME NEW r \in AvailsRequests
  PROVE  ToSpec(r).product_ids \in Seq(Products) \ {<<>>}
<1>1. r.product_id \in Products
  BY DEF AvailsRequests
<1>2. ToSpec(r).product_ids = <<r.product_id>>
  BY DEF ToSpec
<1> QED
  BY <1>1, <1>2

LEMMA QueriesAreMade ==
  ASSUME NEW search, search.product_ids \in Seq(Products) \ {<<>>}
  PROVE  Simplified(search) # <<>>
<1>1. DOMAIN Simplified(search) = DOMAIN search.product_ids
  BY DEF Simplified
<1>2. 1 \in DOMAIN search.product_ids
  OBVIOUS
<1>3. 1 \notin DOMAIN <<>>
  OBVIOUS
<1> QED
  BY <1>1, <1>2, <1>3

LEMMA InitEstablishesIInv == Init => IInv
BY DEF Init, IInv, Carried, Asked, Answered, ReadBack, IsSpec, Bridged

LEMMA AskKeepsIInv == IInv /\ Ask => IInv'
<1> SUFFICES ASSUME IInv, Ask PROVE IInv'
  OBVIOUS
<1>1. need \in AvailsRequests /\ need' = need /\ FromNeed /\ FromNeed'
  BY DEF IInv, Carried, Ask, FromNeed
<1>2. ToSpec(need) # None
  BY <1>1, NoneAssumption
<1>3. ~Bridged' /\ phase' = "asked"
  BY DEF IInv, Asked, Ask, Bridged
<1>4. Carried'
  <2>1. \/ payload'.productids = None /\ payload'.productid = need
        \/ payload'.productids = ToSpec(need)
    BY DEF Ask
  <2> QED
    BY <1>1, <1>2, <1>3, <2>1, SearchNamesProducts, Zenon DEF Carried, IsSpec
<1> QED
  BY <1>3, <1>4 DEF IInv, Asked, Answered, ReadBack

LEMMA SearchKeepsIInv == IInv /\ Search => IInv'
<1> SUFFICES ASSUME IInv, Search PROVE IInv'
  OBVIOUS
<1>1. need' = need /\ need = None /\ ~FromNeed'
  BY DEF Search, FromNeed
<1>2. ~Bridged' /\ phase' = "asked"
  BY DEF IInv, Asked, Search, Bridged
<1>3. Carried'
  <2>1. payload'.productids.product_ids \in Seq(Products) \ {<<>>}
    <3>1. PICK ids \in {<<p>> : p \in Products} \cup (Products \X Products) :
            payload'.productids.product_ids = ids
      BY DEF Search
    <3>2. CASE ids \in {<<p>> : p \in Products}
      <4>1. PICK p \in Products : ids = <<p>>
        BY <3>2
      <4> QED
        BY <3>1, <4>1
    <3>3. CASE ids \in Products \X Products
      <4>1. PICK p \in Products, q \in Products : ids = <<p, q>>
        BY <3>3
      <4> QED
        BY <3>1, <4>1
    <3> QED
      BY <3>2, <3>3
  <2> QED
    BY <1>1, <1>2, <2>1 DEF Carried, IsSpec
<1> QED
  BY <1>1, <1>2, <1>3 DEF IInv, Asked, Answered, ReadBack

LEMMA ReceiveKeepsIInv == IInv /\ Receive => IInv'
<1> SUFFICES ASSUME IInv, Receive PROVE IInv'
  OBVIOUS
<1>1. /\ need' = need /\ payload' = payload /\ phase = "asked"
      /\ phase' \in {"received", "refused"}
      /\ (IsSpec' <=> IsSpec) /\ (FromNeed' <=> FromNeed)
  BY DEF Receive, IsSpec, FromNeed
<1>2. Carried'
  BY <1>1 DEF IInv, Carried, IsSpec, FromNeed
<1>3. Asked'
  <2>1. CASE ~IsSpec
    <3>1. queries' = <<payload.productid>> /\ phase' = "received"
      BY <2>1 DEF Receive
    <3>2. Bridged'
      BY <3>1 DEF Bridged
    <3>3. FromNeed => queries' = <<need>>
      BY <1>1, <2>1, <3>1 DEF IInv, Carried
    <3> QED
      BY <1>1, <2>1, <3>1, <3>2, <3>3 DEF Asked
  <2>2. CASE IsSpec /\ Readable(payload.productids)
    <3>1. queries' = Simplified(payload.productids) /\ phase' = "received"
      BY <2>2 DEF Receive
    <3>2. Bridged'
      BY <2>2, <3>1, QueriesAreMade DEF IInv, Carried, Bridged
    <3>3. FromNeed => queries' = Simplified(ToSpec(need))
      BY <2>2, <3>1 DEF IInv, Carried
    <3> QED
      BY <1>1, <2>2, <3>1, <3>2, <3>3 DEF Asked
  <2>3. CASE IsSpec /\ ~Readable(payload.productids)
    <3>1. queries' = <<>> /\ phase' = "refused"
      BY <2>3 DEF Receive
    <3> QED
      BY <3>1 DEF Asked, Bridged
  <2> QED
    BY <2>1, <2>2, <2>3
<1> QED
  BY <1>1, <1>2, <1>3 DEF IInv, Answered, ReadBack

LEMMA RespondKeepsIInv == IInv /\ Respond => IInv'
<1> SUFFICES ASSUME IInv, Respond PROVE IInv'
  OBVIOUS
<1>1. /\ UNCHANGED <<need, payload, queries>> /\ phase = "received" /\ phase' = "answered"
      /\ (IsSpec' <=> IsSpec) /\ (FromNeed' <=> FromNeed) /\ (Bridged' <=> Bridged)
      /\ (Representable' <=> Representable)
  BY DEF Respond, IsSpec, FromNeed, Bridged, Representable
<1>2. Carried' /\ Asked' /\ Bridged
  BY <1>1 DEF IInv, Carried, Asked, IsSpec, FromNeed, Bridged
<1>3. ASSUME FromNeed, Representable, IsSpec
      PROVE  answer'.avails = <<FromSimplified(Priced(need), need.requested_impressions)>>
  <2> DEFINE record == FromSimplified(Priced(need), need.requested_impressions)
  <2>1. need \in AvailsRequests
    BY <1>3 DEF IInv, Carried, FromNeed
  <2>2. queries = Simplified(ToSpec(need))
    BY <1>2, <1>3 DEF IInv, Asked
  <2>3. /\ DOMAIN queries = {1}
        /\ queries[1].product_id = need.product_id
        /\ queries[1].requested_impressions = need.requested_impressions
        /\ queries[1].budget = need.budget
    BY <1>3, <2>1, <2>2, AmountsCross DEF Representable
  <2>4. Priced(queries[1]) = Priced(need)
    BY <2>3, PricedByAmounts, Zenon
  <2>5. answer'.avails =
          [i \in DOMAIN queries |->
             FromSimplified(Priced(queries[i]), queries[i].requested_impressions)]
    BY <1>3 DEF Respond
  <2>6. answer'.avails = [i \in 1..1 |-> record]
    <3>1. 1..1 = {1}
      OBVIOUS
    <3> QED
      BY <2>3, <2>4, <2>5, <3>1, Zenon
  <2> HIDE DEF record
  <2>7. [i \in 1..1 |-> record] = <<record>>
    OBVIOUS
  <2> QED
    BY <2>6, <2>7 DEF record
<1>4. ASSUME FromNeed, ~IsSpec
      PROVE  answer'.avails = None /\ answer'.legacy = Priced(need)
  <2>1. queries = <<need>>
    BY <1>2, <1>4 DEF IInv, Asked
  <2>2. answer' = [avails |-> None, legacy |-> Priced(Head(queries))]
    BY <1>4 DEF Respond
  <2>3. Head(queries) = need
    BY <2>1
  <2> QED
    BY <2>2, <2>3
<1>5. Answered'
  BY <1>1, <1>2, <1>3, <1>4 DEF Answered
<1> QED
  BY <1>1, <1>2, <1>5 DEF IInv, ReadBack

LEMMA RespondNativelyKeepsIInv == IInv /\ RespondNatively => IInv'
<1> SUFFICES ASSUME IInv, RespondNatively PROVE IInv'
  OBVIOUS
<1>1. /\ UNCHANGED <<need, payload, queries>> /\ phase = "asked" /\ phase' = "answered"
      /\ IsSpec
  BY DEF RespondNatively
<1>2. Carried' /\ Asked' /\ ~Bridged'
  BY <1>1 DEF IInv, Carried, Asked, IsSpec, FromNeed, Bridged
<1> DEFINE ids == payload.productids.product_ids
<1>3. ids \in Seq(Products)
  BY <1>1 DEF IInv, Carried
<1>4. PICK silent \in SUBSET DOMAIN ids :
        answer'.avails =
          [i \in DOMAIN ids |->
             [product_id |-> ids[i], status |-> None, reason |-> None,
              availability |-> IF i \in silent THEN None ELSE Capacity[ids[i]],
              price |-> Cpm[ids[i]]]]
  BY DEF RespondNatively
<1> HIDE DEF ids
<1>5. \A i \in DOMAIN ids : answer'.avails[i] \in AvailsRecords
  <2> SUFFICES ASSUME NEW i \in DOMAIN ids PROVE answer'.avails[i] \in AvailsRecords
    OBVIOUS
  <2>1. ids[i] \in Products
    BY <1>3
  <2>2. Capacity[ids[i]] \in Nat /\ Cpm[ids[i]] \in Nat
    BY <2>1, CatalogAssumption
  <2>3. answer'.avails[i] =
          [product_id |-> ids[i], status |-> None, reason |-> None,
           availability |-> IF i \in silent THEN None ELSE Capacity[ids[i]],
           price |-> Cpm[ids[i]]]
    BY <1>4
  <2> QED
    BY <2>1, <2>2, <2>3 DEF AvailsRecords
<1>6. answer'.avails \in Seq(AvailsRecords)
  <2>1. DOMAIN ids = 1..Len(ids) /\ Len(ids) \in Nat
    BY <1>3
  <2>2. answer'.avails = [i \in 1..Len(ids) |-> answer'.avails[i]]
    BY <1>4, <2>1
  <2>3. answer'.avails \in [1..Len(ids) -> AvailsRecords]
    BY <1>5, <2>1, <2>2
  <2> QED
    BY <2>1, <2>3
<1> QED
  BY <1>1, <1>2, <1>6 DEF IInv, Answered, ReadBack

LEMMA ReadKeepsIInv == IInv /\ Read => IInv'
<1> SUFFICES ASSUME IInv, Read PROVE IInv'
  OBVIOUS
<1>1. UNCHANGED <<need, payload, queries, answer>> /\ phase = "answered" /\ phase' = "read"
  BY DEF Read
<1>2. Carried' /\ Asked'
  BY <1>1 DEF IInv, Carried, Asked, IsSpec, FromNeed, Bridged
<1>3. Answered'
  BY <1>1 DEF IInv, Answered, IsSpec, FromNeed, Bridged, Representable
<1>4. ReadBack'
  BY <1>1 DEF Read, ReadBack
<1> QED
  BY <1>2, <1>3, <1>4 DEF IInv

LEMMA NextKeepsIInv == IInv /\ [Next]_vars => IInv'
<1>1. IInv /\ UNCHANGED vars => IInv'
  BY DEF vars, IInv, Carried, Asked, Answered, ReadBack, IsSpec, FromNeed, Bridged,
         Representable
<1> QED
  BY <1>1, AskKeepsIInv, SearchKeepsIInv, ReceiveKeepsIInv, RespondKeepsIInv,
     RespondNativelyKeepsIInv, ReadKeepsIInv DEF Next

LEMMA IInvHolds == Spec => []IInv
BY InitEstablishesIInv, NextKeepsIInv, PTL DEF Spec

-----------------------------------------------------------------------------
(* What the bridge owes to the two sides.                                  *)

LEMMA RecordIsAnswered ==
  ASSUME IInv, phase \in {"answered", "read"}, FromNeed, Bridged, IsSpec, Representable
  PROVE  /\ need \in AvailsRequests /\ Priced(need) \in AvailsResponses
         /\ answer.avails = <<FromSimplified(Priced(need), need.requested_impressions)>>
<1>1. need \in AvailsRequests
  BY DEF IInv, Carried, FromNeed
<1> QED
  BY <1>1, PricedIsResponse DEF IInv, Answered

LEMMA InvariantMakesDealCross == IInv => DealCrosses
<1> SUFFICES ASSUME IInv, phase = "read", FromNeed, Bridged, Representable
             PROVE  results = << IF IsSpec
                                 THEN [Priced(need) EXCEPT !.guaranteed_impressions = None]
                                 ELSE Priced(need) >>
  BY DEF DealCrosses
<1>1. CASE IsSpec
  <2> DEFINE record == FromSimplified(Priced(need), need.requested_impressions)
  <2>1. Priced(need) \in AvailsResponses /\ answer.avails = <<record>>
    BY <1>1, RecordIsAnswered
  <2>2. /\ record \in AvailsRecords
        /\ ToSimplified(record) = [Priced(need) EXCEPT !.guaranteed_impressions = None]
    BY <2>1, AnswerIsRecord
  <2> HIDE DEF record
  <2>3. answer.avails # None
    <3>1. <<record>> \in Seq(AvailsRecords)
      BY <2>2
    <3> QED
      BY <2>1, <3>1, NoneAssumption
  <2>4. results = [i \in DOMAIN answer.avails |-> ToSimplified(answer.avails[i])]
    BY <2>3 DEF IInv, ReadBack
  <2>5. DOMAIN answer.avails = 1..1 /\ answer.avails[1] = record /\ 1..1 = {1}
    BY <2>1
  <2> DEFINE back == ToSimplified(record)
  <2>6. results = [i \in 1..1 |-> back]
    BY <2>4, <2>5, Zenon
  <2> HIDE DEF back
  <2>7. [i \in 1..1 |-> back] = <<back>>
    OBVIOUS
  <2> QED
    BY <1>1, <2>2, <2>6, <2>7 DEF back
<1>2. CASE ~IsSpec
  BY <1>2 DEF IInv, Answered, ReadBack
<1> QED
  BY <1>1, <1>2

(* The volume and the price a buyer ends with do not depend on the dialect *)
(* it asked in, whatever the catalog, for every volume up to Exact and     *)
(* every budget (to_spec, to_simplified, avails_from_simplified and back). *)
THEOREM DealsCross == Spec => []DealCrosses
BY IInvHolds, InvariantMakesDealCross, PTL

LEMMA InvariantKeepsStatusHonest == IInv => StatusIsHonest
<1> SUFFICES ASSUME IInv, phase = "read", FromNeed, Bridged, IsSpec, Representable
             PROVE  LET record == Head(answer.avails)
                        asked == need.requested_impressions
                        some == record.availability > 0
                        all == asked = None \/ record.availability >= asked
                    IN  /\ record.status = "Available" <=> some /\ all
                        /\ record.status = "Unavailable" <=> ~some
                        /\ record.reason = None <=> record.status = "Available"
  BY DEF StatusIsHonest
<1> DEFINE asked == need.requested_impressions
           available == Priced(need).available_impressions
           record == FromSimplified(Priced(need), asked)
<1>1. need \in AvailsRequests /\ Priced(need) \in AvailsResponses
      /\ answer.avails = <<record>>
  BY RecordIsAnswered
<1>2. Head(answer.avails) = record
  <2> HIDE DEF record
  <2> QED
    BY <1>1
<1>3. available \in Nat
  BY <1>1 DEF AvailsResponses
<1>4. asked = None \/ asked \in Nat
  BY <1>1, AmountsAssumption DEF AvailsRequests
<1>5. /\ record.availability = available
      /\ record.status = Status(available, asked)
      /\ record.reason = IF Status(available, asked) = "Available" THEN None ELSE "Booked"
  BY DEF FromSimplified
<1>6. None # "Booked" /\ None \notin Nat
  BY NoneAssumption
<1> HIDE DEF asked, available, record
<1>7. /\ Status(available, asked) = "Available" <=>
           available > 0 /\ (asked = None \/ available >= asked)
      /\ Status(available, asked) = "Unavailable" <=> ~(available > 0)
  <2>1. CASE asked = None
    BY <1>3, <2>1 DEF Status
  <2>2. CASE asked \in Nat
    BY <1>3, <1>6, <2>2 DEF Status
  <2> QED
    BY <1>4, <2>1, <2>2
<1> QED
  BY <1>2, <1>5, <1>6, <1>7 DEF asked

(* The status on every record is true of the volume the buyer asked for,   *)
(* whatever the catalog: no zero is taken for absent and no rounding turns *)
(* an exact fit into a partial one (avails_from_simplified).               *)
THEOREM StatusesAreHonest == Spec => []StatusIsHonest
BY IInvHolds, InvariantKeepsStatusHonest, PTL

LEMMA InvariantFabricatesNothing == IInv => NoVolumeNoRecord
<1> SUFFICES ASSUME IInv, phase = "read", ~Bridged, NEW i \in DOMAIN results
             PROVE  results[i] = None <=> answer.avails[i].availability = None
  BY DEF NoVolumeNoRecord
<1>1. answer.avails \in Seq(AvailsRecords)
  BY DEF IInv, Answered
<1>2. results = [j \in DOMAIN answer.avails |-> ToSimplified(answer.avails[j])]
  BY <1>1, NoneAssumption DEF IInv, ReadBack
<1> DEFINE record == answer.avails[i]
<1>3. results[i] = ToSimplified(record) /\ record \in AvailsRecords
  BY <1>1, <1>2
<1> HIDE DEF record
<1>4. record.availability # None => ToSimplified(record) \in AvailsResponses
  BY <1>3 DEF ToSimplified, AvailsRecords, AvailsResponses
<1>5. record.availability # None => ToSimplified(record) # None
  BY <1>4, NoneAssumption
<1>6. record.availability = None => ToSimplified(record) = None
  BY DEF ToSimplified
<1> QED
  BY <1>3, <1>5, <1>6 DEF record

(* No volume is fabricated, and none lost, whatever a seller of the        *)
(* published dialect leaves out: a record yields a legacy answer just when *)
(* it names a volume (Avails.to_simplified).                               *)
THEOREM NothingIsFabricated == Spec => []NoVolumeNoRecord
BY IInvHolds, InvariantFabricatesNothing, PTL

LEMMA HeadOfQueries ==
  ASSUME NEW r \in AvailsRequests
  PROVE  Head(Simplified(ToSpec(r))).targeting = Regrouped(Segments(r.targeting))
<1> DEFINE S == ToSpec(r)
           query == [product_id |-> r.product_id,
                     requested_impressions |-> Recovered(S, "requestedimpressions"),
                     budget |-> Recovered(S, "budget"),
                     targeting |-> Regrouped(Segments(r.targeting))]
<1>1. S.product_ids = <<r.product_id>> /\ S.targeting = Segments(r.targeting)
  BY DEF ToSpec
<1>2. DOMAIN S.product_ids = 1..1 /\ S.product_ids[1] = r.product_id /\ 1..1 = {1}
  BY <1>1
<1>3. Simplified(S) = [i \in 1..1 |-> query]
  BY <1>1, <1>2, Zenon DEF Simplified
<1>4. query.targeting = Regrouped(Segments(r.targeting))
  OBVIOUS
<1> HIDE DEF query
<1>5. [i \in 1..1 |-> query] = <<query>> /\ Head(<<query>>) = query
  OBVIOUS
<1> QED
  BY <1>3, <1>4, <1>5

LEMMA InvariantMakesTargetingCross == IInv => TargetingCrosses
<1> SUFFICES ASSUME IInv, FromNeed, Bridged, IsSpec
             PROVE  Head(queries).targeting =
                      IF need.targeting = None THEN None ELSE Listed(need.targeting)
  BY DEF TargetingCrosses
<1>1. need \in AvailsRequests /\ queries = Simplified(ToSpec(need))
  BY DEF IInv, Carried, Asked, FromNeed
<1>2. Head(queries).targeting = Regrouped(Segments(need.targeting))
  BY <1>1, HeadOfQueries
<1>3. CASE need.targeting = None
  <2>1. Segments(None) = <<>>
    BY DEF Segments
  <2>2. Regrouped(<<>>) = None
    BY DEF Regrouped
  <2> QED
    BY <1>2, <1>3, <2>1, <2>2
<1>4. CASE need.targeting # None
  <2>1. need.targeting \in Targetings
    BY <1>1, <1>4 DEF AvailsRequests
  <2> QED
    BY <1>2, <1>4, <2>1, TargetingIsCarried
<1> QED
  BY <1>3, <1>4

(* The dialect does not change the deal, whatever the catalog, the volume, *)
(* the budget and the targeting: volume and price cross the bridge, the    *)
(* seller reads every targeting value, and only a record without a volume  *)
(* yields no answer (to_spec, to_simplified, avails_from_simplified).      *)
THEOREM DialectIsHarmless == Spec => []DialectChangesNothing
<1>1. IInv => DialectChangesNothing
  BY InvariantMakesDealCross, InvariantMakesTargetingCross,
     InvariantFabricatesNothing DEF DialectChangesNothing
<1> QED
  BY <1>1, IInvHolds, PTL
=============================================================================
