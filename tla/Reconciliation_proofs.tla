------------------------ MODULE Reconciliation_proofs ------------------------
(***************************************************************************)
(* What reconciliation guarantees for every set of tables with finitely    *)
(* many states, whatever their rules: the verdicts of both agents mirror   *)
(* each other, and an ordinary lag is recognised as one however stale the  *)
(* observation.  The proofs rest on what StateMachine_proofs shows of the  *)
(* engine's search.                                                        *)
(***************************************************************************)
EXTENDS Reconciliation, StateMachine_proofs, SequenceTheorems

-----------------------------------------------------------------------------
(* The inductive invariant.                                                *)

Entries(M) == {Entry(M, from, to, "seller") : from \in M.states, to \in M.states}

(* The seller's audit entries lead from the initial status to its own.     *)
Recorded ==
  /\ trail \in Seq(Entries(machine))
  /\ TrailEnd = seller
  /\ \A i \in DOMAIN trail :
       trail[i].from = IF i = 1 THEN machine.initial ELSE trail[i - 1].to

Tracked ==
  /\ machine \in Machines
  /\ seller \in machine.states
  /\ buyer \in machine.states
  /\ fetched \in machine.states \cup {NotFetched, Foreign}
  /\ ownMove \in BOOLEAN

(* The same status, or a later one by forward moves.                       *)
AtOrAfter(a, b) == a = b \/ CanProgressTo(machine, a, b)

(* While the seller has only progressed and the buyer only synchronised,   *)
(* the buyer is at or before the observation in flight, and that at or     *)
(* before the seller.                                                      *)
Lagging ==
  ~SellerReworked /\ ~ownMove =>
     /\ AtOrAfter(buyer, seller)
     /\ fetched \in machine.states => AtOrAfter(buyer, fetched) /\ AtOrAfter(fetched, seller)

IInv == Tracked /\ Recorded /\ Lagging

-----------------------------------------------------------------------------
(* The precomputed tables.                                                 *)

LEMMA MachinesAreSound ==
  ASSUME NEW M \in Machines
  PROVE  Valid(M) /\ IsFiniteSet(M.states) /\ {NotFetched, Foreign} \cap M.states = {} /\ Sound(M)
BY TablesAssumption DEF Machines, Valid, Sound

LEMMA MemoIsSearch ==
  ASSUME NEW M \in Machines, NEW a \in M.states, NEW progressOnly \in BOOLEAN
  PROVE  Reachability[M][a][progressOnly] = ReachableFrom(M, a, progressOnly)
BY DEF Reachability

LEMMA PrecedesIsProgress ==
  ASSUME NEW M \in Machines, NEW a \in M.states, NEW b
  PROVE  Precedes(M, a, b) <=> CanProgressTo(M, a, b)
BY MemoIsSearch DEF Precedes, CanProgressTo

LEMMA TableIsClassify ==
  ASSUME NEW M \in Machines, NEW a \in M.states, NEW b \in M.states
  PROVE  ComparisonTable[M][a][b] = Classify(M, a, b)
BY DEF ComparisonTable

(* The four verdicts, in terms of forward moves alone.                     *)
LEMMA Verdicts ==
  ASSUME NEW M \in Machines, NEW a \in M.states, NEW b \in M.states
  PROVE  /\ a = b => Classify(M, a, b) = "consistent"
         /\ a # b /\ CanProgressTo(M, a, b) => Classify(M, a, b) = "buyer_behind"
         /\ a # b /\ CanProgressTo(M, b, a) => Classify(M, a, b) = "seller_behind"
         /\ a # b /\ ~CanProgressTo(M, a, b) /\ ~CanProgressTo(M, b, a)
              => Classify(M, a, b) = "divergent"
<1>1. CanProgressTo(M, b, a) => ~CanProgressTo(M, a, b)
  BY MachinesAreSound, PrecedenceIsStrict
<1>2. /\ Precedes(M, a, b) <=> CanProgressTo(M, a, b)
      /\ Precedes(M, b, a) <=> CanProgressTo(M, b, a)
  BY PrecedesIsProgress
<1>3. QED
  BY <1>1, <1>2 DEF Classify

LEMMA VerdictsMirrorEachOther ==
  ASSUME NEW M \in Machines
  PROVE  \A a, b \in M.states :
            ComparisonTable[M][a][b] = Mirror(ComparisonTable[M][b][a])
<1>1. TAKE a, b \in M.states
<1>2. Classify(M, a, b) = Mirror(Classify(M, b, a))
  <2>1. CASE a = b
    BY <2>1, Verdicts DEF Mirror
  <2>2. CASE a # b /\ CanProgressTo(M, a, b)
    BY <2>2, Verdicts DEF Mirror
  <2>3. CASE a # b /\ CanProgressTo(M, b, a)
    BY <2>3, Verdicts DEF Mirror
  <2>4. CASE a # b /\ ~CanProgressTo(M, a, b) /\ ~CanProgressTo(M, b, a)
    BY <2>4, Verdicts DEF Mirror
  <2>5. QED
    BY <2>1, <2>2, <2>3, <2>4
<1>3. QED
  BY <1>2, TableIsClassify

-----------------------------------------------------------------------------
(* The steps.                                                              *)

LEMMA MovesStayInside ==
  ASSUME NEW M \in Machines, NEW from, NEW to, NEW guardHolds \in BOOLEAN,
         CanTransition(M, from, to, guardHolds)
  PROVE  /\ from \in M.states /\ to \in M.states
         /\ ~IsRework(M, from, to) => CanProgressTo(M, from, to)
<1>1. PICK i \in RuleIndices(M) : Rule(M, i).from = from /\ Rule(M, i).to = to
  BY DEF CanTransition
<1>2. from \in M.states /\ to \in M.states
  BY <1>1, MachinesAreSound DEF Valid, RulesStayInside
<1>3. ASSUME ~IsRework(M, from, to) PROVE CanProgressTo(M, from, to)
  <2>1. ~Rule(M, i).rework
    BY <1>1, <1>3 DEF IsRework
  <2>2. to \in Successors(M, from, TRUE)
    BY <1>1, <2>1 DEF Successors, ProgressFrom
  <2>3. QED
    BY <2>2, MachinesAreSound, SearchIsClosed DEF CanProgressTo
<1>4. QED
  BY <1>2, <1>3

(* Forward moves compose.                                                  *)
LEMMA AtOrAfterIsTransitive ==
  ASSUME machine \in Machines, NEW a \in machine.states, NEW b, NEW c,
         AtOrAfter(a, b), AtOrAfter(b, c)
  PROVE  AtOrAfter(a, c)
BY MachinesAreSound, PrecedenceIsStrict DEF AtOrAfter

LEMMA InitIInv == Init => IInv
<1>1. SUFFICES ASSUME Init PROVE IInv
  OBVIOUS
<1>2. Tracked
  BY <1>1, MachinesAreSound DEF Init, Tracked, Valid, KnownInitial
<1>3. Recorded
  BY <1>1, EmptySeq DEF Init, Recorded, TrailEnd
<1>4. Lagging
  BY <1>1, MachinesAreSound DEF Init, Lagging, AtOrAfter
<1>5. QED
  BY <1>2, <1>3, <1>4 DEF IInv

LEMMA SellerMovesKeepsIInv ==
  ASSUME IInv, NEW to \in machine.states, NEW guardHolds \in BOOLEAN,
         SellerMoves(to, guardHolds)
  PROVE  IInv'
<1> DEFINE last == Entry(machine, seller, to, "seller")
<1>1. /\ seller' = to /\ trail' = Append(trail, last)
      /\ machine' = machine /\ buyer' = buyer /\ fetched' = fetched
      /\ ownMove' = ownMove
      /\ CanTransition(machine, seller, to, guardHolds)
  BY DEF SellerMoves
<1>2. machine \in Machines /\ trail \in Seq(Entries(machine))
  BY DEF IInv, Tracked, Recorded
<1>3. Tracked'
  BY <1>1 DEF IInv, Tracked
<1>4. last \in Entries(machine) /\ last.from = seller /\ last.to = to
  BY DEF IInv, Tracked, Entries, Entry
<1>5. /\ trail' \in Seq(Entries(machine))
      /\ DOMAIN trail' = 1..(Len(trail) + 1)
      /\ DOMAIN trail = 1..Len(trail)
      /\ Len(trail) \in Nat
      /\ trail'[Len(trail) + 1] = last
      /\ \A i \in 1..Len(trail) : trail'[i] = trail[i]
      /\ trail' # <<>> /\ Len(trail') = Len(trail) + 1
  <2> HIDE DEF last
  <2>1. QED
    BY <1>1, <1>2, <1>4
<1>6. Recorded'
  <2>1. TrailEnd' = seller'
    BY <1>1, <1>4, <1>5 DEF TrailEnd
  <2>2. ASSUME NEW i \in DOMAIN trail'
        PROVE  trail'[i].from = IF i = 1 THEN machine.initial ELSE trail'[i - 1].to
    <3>1. CASE i \in 1..Len(trail)
      BY <1>5, <3>1 DEF IInv, Recorded
    <3>2. CASE i = Len(trail) + 1
      <4>1. trail'[i].from = TrailEnd
        BY <1>4, <1>5, <3>2 DEF IInv, Recorded
      <4>2. trail = <<>> <=> Len(trail) = 0
        BY <1>2
      <4>3. QED
        BY <1>5, <3>2, <4>1, <4>2 DEF TrailEnd
    <3>3. QED
      BY <1>5, <2>2, <3>1, <3>2
  <2>3. QED
    BY <1>1, <1>5, <2>1, <2>2 DEF Recorded
<1>7. Lagging'
  <2>1. SUFFICES ASSUME ~SellerReworked', ~ownMove
        PROVE  /\ AtOrAfter(buyer, to)
               /\ fetched \in machine.states =>
                    AtOrAfter(buyer, fetched) /\ AtOrAfter(fetched, to)
    BY <1>1 DEF Lagging, AtOrAfter
  <2>2. ~SellerReworked
    BY <1>1, <1>5, <2>1 DEF SellerReworked
  <2>3. ~IsRework(machine, seller, to)
    BY <1>1, <1>4, <1>5, <2>1 DEF SellerReworked
  <2>4. AtOrAfter(seller, to)
    BY <1>1, <1>2, <2>3, MovesStayInside DEF AtOrAfter
  <2>5. AtOrAfter(buyer, to)
    BY <1>2, <2>1, <2>2, <2>4, AtOrAfterIsTransitive DEF IInv, Tracked, Lagging
  <2>6. ASSUME fetched \in machine.states
        PROVE  AtOrAfter(buyer, fetched) /\ AtOrAfter(fetched, to)
    BY <1>2, <2>1, <2>2, <2>4, <2>6, AtOrAfterIsTransitive DEF IInv, Tracked, Lagging
  <2>7. QED
    BY <2>5, <2>6
<1>8. QED
  BY <1>3, <1>6, <1>7 DEF IInv

(* A step that leaves the seller and its audit entries alone.              *)
LEMMA RecordKept ==
  ASSUME Recorded, UNCHANGED <<machine, seller, trail>>
  PROVE  Recorded' /\ (SellerReworked' <=> SellerReworked)
BY DEF Recorded, TrailEnd, Entries, SellerReworked

LEMMA BuyerMovesKeepsIInv ==
  ASSUME IInv, NEW to \in machine.states, NEW guardHolds \in BOOLEAN,
         BuyerMoves(to, guardHolds)
  PROVE  IInv'
<1>1. Recorded'
  BY RecordKept DEF IInv, BuyerMoves
<1>2. Tracked' /\ Lagging'
  BY DEF IInv, Tracked, Lagging, BuyerMoves
<1>3. QED
  BY <1>1, <1>2 DEF IInv

LEMMA FetchKeepsIInv ==
  ASSUME IInv, Fetch
  PROVE  IInv'
<1>1. Recorded' /\ (SellerReworked' <=> SellerReworked)
  BY RecordKept DEF IInv, Fetch
<1>2. Tracked'
  BY DEF IInv, Tracked, Fetch
<1>3. Lagging'
  <2>1. fetched' \in machine.states => fetched' = seller
    BY MachinesAreSound DEF IInv, Tracked, Fetch
  <2>2. QED
    BY <1>1, <2>1 DEF IInv, Lagging, AtOrAfter, Fetch
<1>4. QED
  BY <1>1, <1>2, <1>3 DEF IInv

(* An observation that is at or after the buyer's record is stored, unless *)
(* it is that record already.                                              *)
LEMMA SyncStoresWhatIsAhead ==
  ASSUME Tracked, Sync, fetched \in machine.states, AtOrAfter(buyer, fetched)
  PROVE  buyer' = fetched
<1>1. /\ machine \in Machines /\ buyer \in machine.states
      /\ buyer' = IF Reconcile(machine, buyer, fetched) = "buyer_behind"
                  THEN fetched ELSE buyer
  BY DEF Tracked, Sync
<1>2. Reconcile(machine, buyer, fetched) = Classify(machine, buyer, fetched)
  BY <1>1 DEF Reconcile
<1>3. CASE buyer = fetched
  BY <1>1, <1>3
<1>4. CASE buyer # fetched
  BY <1>1, <1>2, <1>4, Verdicts DEF AtOrAfter
<1>5. QED
  BY <1>3, <1>4

LEMMA SyncKeepsIInv ==
  ASSUME IInv, Sync
  PROVE  IInv'
<1>1. Recorded' /\ (SellerReworked' <=> SellerReworked)
  BY RecordKept DEF IInv, Sync
<1>2. Foreign \notin machine.states /\ NotFetched \notin machine.states
  BY MachinesAreSound DEF IInv, Tracked
<1>3. CASE fetched = Foreign
  <2>1. /\ UNCHANGED <<machine, seller, buyer, ownMove>> /\ fetched' = NotFetched
    BY <1>2, <1>3 DEF Sync, Reconcile
  <2>2. Tracked' /\ Lagging'
    BY <1>1, <1>2, <2>1 DEF IInv, Tracked, Lagging, AtOrAfter
  <2>3. QED
    BY <1>1, <2>2 DEF IInv
<1>4. CASE fetched \in machine.states
  <2>1. Tracked'
    BY <1>4 DEF IInv, Tracked, Sync
  <2>2. ASSUME ~SellerReworked, ~ownMove PROVE AtOrAfter(buyer', seller)
    <3>1. AtOrAfter(buyer, fetched) /\ AtOrAfter(fetched, seller)
      BY <1>4, <2>2 DEF IInv, Lagging
    <3>2. buyer' = fetched
      BY <1>4, <3>1, SyncStoresWhatIsAhead DEF IInv
    <3>3. QED
      BY <3>1, <3>2
  <2>3. Lagging'
    BY <1>1, <1>2, <2>2 DEF Lagging, AtOrAfter, Sync
  <2>4. QED
    BY <1>1, <2>1, <2>3 DEF IInv
<1>5. QED
  BY <1>3, <1>4 DEF IInv, Tracked, Sync

LEMMA NextKeepsIInv == IInv /\ [Next]_vars => IInv'
<1>1. SUFFICES ASSUME IInv, [Next]_vars PROVE IInv'
  OBVIOUS
<1>2. CASE \E to \in machine.states, guardHolds \in BOOLEAN : SellerMoves(to, guardHolds)
  BY <1>1, <1>2, SellerMovesKeepsIInv
<1>3. CASE \E to \in machine.states, guardHolds \in BOOLEAN : BuyerMoves(to, guardHolds)
  BY <1>1, <1>3, BuyerMovesKeepsIInv
<1>4. CASE Fetch
  BY <1>1, <1>4, FetchKeepsIInv
<1>5. CASE Sync
  BY <1>1, <1>5, SyncKeepsIInv
<1>6. CASE UNCHANGED vars
  <2>1. Recorded' /\ (SellerReworked' <=> SellerReworked)
    BY <1>1, <1>6, RecordKept DEF IInv, vars
  <2>2. Tracked' /\ Lagging'
    BY <1>1, <1>6, <2>1 DEF IInv, vars, Tracked, Lagging, AtOrAfter
  <2>3. QED
    BY <2>1, <2>2 DEF IInv
<1>7. QED
  BY <1>1, <1>2, <1>3, <1>4, <1>5, <1>6 DEF Next

LEMMA AlwaysIInv == Spec => []IInv
BY InitIInv, NextKeepsIInv, PTL DEF Spec
-----------------------------------------------------------------------------
(* The canonical tables: the rules by which each of their statuses can     *)
(* come closer to a terminal one.                                          *)

(* A rule of a table puts its target among the search's results.           *)
LEMMA RuleIsFollowed ==
  ASSUME NEW M, Sound(M), NEW i \in DOMAIN M.rules
  PROVE  M.rules[i].to \in ReachableFrom(M, M.rules[i].from, FALSE)
<1>1. M.rules[i].to \in Successors(M, M.rules[i].from, FALSE)
  BY DEF Successors, AllowedFrom, RuleIndices, Rule
<1>2. QED
  BY <1>1, SearchIsClosed

(* Some rule leads from one status to another.                             *)
HasRule(M, from, to) ==
  \E i \in DOMAIN M.rules : M.rules[i].from = from /\ M.rules[i].to = to

LEMMA RulesAreFollowed ==
  ASSUME NEW M, Sound(M), NEW from, NEW to, HasRule(M, from, to)
  PROVE  to \in ReachableFrom(M, from, FALSE)
BY RuleIsFollowed DEF HasRule

LEMMA DealRuleFacts ==
  /\ HasRule(DEAL_LIFECYCLE, "makegood_pending", "completed")
  /\ \A s \in DealStatuses \ DEAL_TERMINAL_STATES :
       s # "makegood_pending" => HasRule(DEAL_LIFECYCLE, s, "cancelled")
<1>1. /\ DOMAIN DealRules = 1..27
      /\ DealRules[14] = Move("proposed", "cancelled")
      /\ DealRules[15] = Move("negotiating", "cancelled")
      /\ DealRules[16] = Move("accepted", "cancelled")
      /\ DealRules[17] = Move("booked", "cancelled")
      /\ DealRules[18] = Move("active", "cancelled")
      /\ DealRules[23] = Move("makegood_pending", "completed")
      /\ DealRules[27] = Move("partially_cancelled", "cancelled")
  BY DEF DealRules
<1>2. DEAL_LIFECYCLE.rules = DealRules
  BY DEF DEAL_LIFECYCLE
<1>3. ASSUME NEW s \in {"proposed", "negotiating", "accepted", "booked", "active",
                        "partially_cancelled"}
      PROVE  HasRule(DEAL_LIFECYCLE, s, "cancelled")
  BY <1>1, <1>2 DEF HasRule, Move
<1>4. HasRule(DEAL_LIFECYCLE, "makegood_pending", "completed")
  BY <1>1, <1>2 DEF HasRule, Move
<1>5. QED
  BY <1>3, <1>4 DEF DealStatuses, DEAL_TERMINAL_STATES

LEMMA ConcatIndices ==
  ASSUME NEW R, NEW s \in Seq(R), NEW t \in Seq(R), NEW joined, joined = s \o t
  PROVE  DOMAIN joined = 1..(Len(s) + Len(t))
OBVIOUS

LEMMA ConcatLeft ==
  ASSUME NEW R, NEW s \in Seq(R), NEW t \in Seq(R), NEW joined, joined = s \o t,
         NEW i \in 1..Len(s)
  PROVE  joined[i] = s[i]
OBVIOUS

LEMMA ConcatRight ==
  ASSUME NEW R, NEW s \in Seq(R), NEW t \in Seq(R), NEW joined, joined = s \o t,
         NEW i \in 1..Len(t)
  PROVE  joined[Len(s) + i] = t[i]
OBVIOUS

LEMMA OrderRuleFacts ==
  /\ HasRule(ORDER_LIFECYCLE, "booked", "completed")
  /\ \A s \in {"draft", "submitted", "pending_approval", "approved", "in_progress"} :
       HasRule(ORDER_LIFECYCLE, s, "cancelled")
  /\ \A s \in {"rejected", "failed", "unbooked"} : HasRule(ORDER_LIFECYCLE, s, "draft")
<1> DEFINE loops == << Rework("rejected", "draft"), Rework("failed", "draft"),
                       Rework("unbooked", "draft") >>
<1>1. /\ Len(OrderForwardRules) = 16
      /\ OrderForwardRules[8] = Move("booked", "completed")
      /\ OrderForwardRules[10] = Move("draft", "cancelled")
      /\ OrderForwardRules[11] = Move("submitted", "cancelled")
      /\ OrderForwardRules[13] = Move("pending_approval", "cancelled")
      /\ OrderForwardRules[14] = Move("approved", "cancelled")
      /\ OrderForwardRules[16] = Move("in_progress", "cancelled")
  BY DEF OrderForwardRules
<1> DEFINE All == {OrderForwardRules[i] : i \in 1..16} \cup {loops[i] : i \in 1..3}
<1>2. /\ OrderForwardRules \in Seq(All)
      /\ loops \in Seq(All) /\ Len(loops) = 3
  BY DEF OrderForwardRules
<1>3. /\ DOMAIN OrderRules = 1..19
      /\ \A i \in 1..16 : OrderRules[i] = OrderForwardRules[i]
      /\ \A i \in 1..3 : OrderRules[16 + i] = loops[i]
  <2>1. OrderRules = OrderForwardRules \o loops
    BY DEF OrderRules
  <2> HIDE DEF loops, All
  <2>2. /\ DOMAIN OrderRules = 1..(Len(OrderForwardRules) + Len(loops))
        /\ \A i \in 1..Len(OrderForwardRules) : OrderRules[i] = OrderForwardRules[i]
        /\ \A i \in 1..Len(loops) : OrderRules[Len(OrderForwardRules) + i] = loops[i]
    <3>1. OrderForwardRules \in Seq(All) /\ loops \in Seq(All)
      BY <1>2
    <3>2. DOMAIN OrderRules = 1..(Len(OrderForwardRules) + Len(loops))
      BY <3>1, <2>1, ConcatIndices, Zenon
    <3>3. \A i \in 1..Len(OrderForwardRules) : OrderRules[i] = OrderForwardRules[i]
      BY <3>1, <2>1, ConcatLeft, Zenon
    <3>4. \A i \in 1..Len(loops) : OrderRules[Len(OrderForwardRules) + i] = loops[i]
      BY <3>1, <2>1, ConcatRight, Zenon
    <3>5. QED
      BY <3>2, <3>3, <3>4
  <2>3. QED
    BY <1>1, <1>2, <2>2
<1>4. /\ OrderRules[17] = Rework("rejected", "draft")
      /\ OrderRules[18] = Rework("failed", "draft")
      /\ OrderRules[19] = Rework("unbooked", "draft")
  BY <1>3
<1>5. ORDER_LIFECYCLE.rules = OrderRules
  BY DEF ORDER_LIFECYCLE
<1>6. QED
  BY <1>1, <1>3, <1>4, <1>5 DEF HasRule, Move, Rework

LEMMA ChangeRequestRuleFacts ==
  /\ HasRule(CHANGE_REQUEST_LIFECYCLE, "pending", "validating")
  /\ HasRule(CHANGE_REQUEST_LIFECYCLE, "validating", "failed")
  /\ HasRule(CHANGE_REQUEST_LIFECYCLE, "pending_approval", "rejected")
  /\ HasRule(CHANGE_REQUEST_LIFECYCLE, "approved", "failed")
<1>1. /\ DOMAIN ChangeRequestRules = 1..8
      /\ ChangeRequestRules[1] = Move("pending", "validating")
      /\ ChangeRequestRules[2] = Move("validating", "failed")
      /\ ChangeRequestRules[6] = Move("pending_approval", "rejected")
      /\ ChangeRequestRules[8] = Move("approved", "failed")
  BY DEF ChangeRequestRules
<1>2. CHANGE_REQUEST_LIFECYCLE.rules = ChangeRequestRules
  BY DEF CHANGE_REQUEST_LIFECYCLE
<1>3. QED
  BY <1>1, <1>2 DEF HasRule, Move
(* From every status of a canonical table a terminal one can be reached.   *)
LEMMA CanonicalStatusesCanEnd ==
  ASSUME NEW M \in CanonicalLifecycles, Sound(M), NEW s \in M.states
  PROVE  IsTerminal(M, s) \/ ReachableFrom(M, s, FALSE) \cap M.terminal # {}
<1>1. ASSUME NEW t, HasRule(M, s, t) PROVE t \in ReachableFrom(M, s, FALSE)
  BY <1>1, RulesAreFollowed
<1>2. ASSUME NEW t, NEW u, HasRule(M, s, t), HasRule(M, t, u)
      PROVE  u \in ReachableFrom(M, s, FALSE)
  BY <1>2, RulesAreFollowed, ReachabilityIsTransitive
<1>3. CASE M = DEAL_LIFECYCLE
  <2>1. M.states = DealStatuses /\ M.terminal = DEAL_TERMINAL_STATES
    BY <1>3 DEF DEAL_LIFECYCLE
  <2>2. s \in DEAL_TERMINAL_STATES \/ HasRule(M, s, "completed") \/ HasRule(M, s, "cancelled")
    BY <1>3, <2>1, DealRuleFacts
  <2>3. {"completed", "cancelled"} \subseteq M.terminal
    BY <2>1 DEF DEAL_TERMINAL_STATES
  <2>4. QED
    BY <1>1, <2>1, <2>2, <2>3 DEF IsTerminal
<1>4. CASE M = ORDER_LIFECYCLE
  <2>1. M.states = OrderStatuses /\ M.terminal = {"completed", "cancelled"}
    BY <1>4 DEF ORDER_LIFECYCLE, ORDER_TERMINAL_STATES
  <2>2. \/ s \in {"completed", "cancelled"}
        \/ HasRule(M, s, "completed") \/ HasRule(M, s, "cancelled")
        \/ HasRule(M, s, "draft") /\ HasRule(M, "draft", "cancelled")
    BY <1>4, <2>1, OrderRuleFacts DEF OrderStatuses
  <2>3. QED
    BY <1>1, <1>2, <2>1, <2>2 DEF IsTerminal
<1>5. CASE M = CHANGE_REQUEST_LIFECYCLE
  <2>1. M.states = ChangeRequestStatuses /\ M.terminal = {"applied", "rejected", "failed"}
    BY <1>5 DEF CHANGE_REQUEST_LIFECYCLE, CHANGE_REQUEST_TERMINAL_STATES
  <2>2. \/ s \in {"applied", "rejected", "failed"}
        \/ HasRule(M, s, "rejected") \/ HasRule(M, s, "failed")
        \/ HasRule(M, s, "validating") /\ HasRule(M, "validating", "failed")
    BY <1>5, <2>1, ChangeRequestRuleFacts DEF ChangeRequestStatuses
  <2>3. QED
    BY <1>1, <1>2, <2>1, <2>2 DEF IsTerminal
<1>6. QED
  BY <1>3, <1>4, <1>5 DEF CanonicalLifecycles

-----------------------------------------------------------------------------
(* The theorems.                                                           *)

(* Both records and the observation hold statuses of the machine, and the  *)
(* seller's audit entries form a path from the initial status to its own   *)
(* (transition() and entry()).                                             *)
THEOREM RecordsAreTyped == Spec => []TypeOK
<1>1. IInv => TypeOK
  <2>1. SUFFICES ASSUME IInv PROVE TypeOK
    OBVIOUS
  <2>2. ASSUME NEW i \in DOMAIN trail
        PROVE  {trail[i].from, trail[i].to} \subseteq machine.states
    <3>1. trail[i] \in Entries(machine)
      BY <2>1 DEF IInv, Recorded
    <3>2. QED
      BY <3>1 DEF Entries, Entry
  <2>3. QED
    BY <2>1, <2>2 DEF TypeOK, IInv, Tracked, Recorded
<1>2. QED
  BY <1>1, AlwaysIInv, PTL

(* An ordinary lag is recognised as one: while the seller has only         *)
(* progressed and the buyer only synchronised, the comparison says         *)
(* consistent or buyer_behind, for every table the constructor accepts     *)
(* and every interleaving of moves, fetches and syncs (classify).          *)
THEOREM LagIsRecognised == Spec => []LagIsBuyerBehind
<1>1. IInv => LagIsBuyerBehind
  <2>1. SUFFICES ASSUME IInv, ~SellerReworked, ~ownMove
        PROVE  Outcome \in {"consistent", "buyer_behind"}
    BY DEF LagIsBuyerBehind
  <2>2. /\ machine \in Machines /\ buyer \in machine.states /\ seller \in machine.states
        /\ AtOrAfter(buyer, seller)
    BY <2>1 DEF IInv, Tracked, Lagging
  <2>3. Outcome = Classify(machine, buyer, seller)
    BY <2>2 DEF Outcome, Reconcile
  <2>4. QED
    BY <2>2, <2>3, Verdicts DEF AtOrAfter
<1>2. QED
  BY <1>1, AlwaysIInv, PTL

(* The two agents, each running the comparison with itself first, reach    *)
(* mirrored verdicts on every pair of statuses of every accepted table:    *)
(* at most one side is behind (classify's "strict partial order").         *)
THEOREM VerdictsAreMirrored == Spec => []VerdictsMirror
<1>1. IInv => VerdictsMirror
  BY VerdictsMirrorEachOther DEF IInv, Tracked, VerdictsMirror
<1>2. QED
  BY <1>1, AlwaysIInv, PTL

(* An entity of a canonical lifecycle can always still end: whatever moves *)
(* the seller made, a terminal status is reachable from its own (the three *)
(* canonical tables).                                                      *)
THEOREM EntitiesCanEnd == Spec => []NeverStranded
<1>1. IInv => NeverStranded
  <2>1. SUFFICES ASSUME IInv, machine \in CanonicalLifecycles
        PROVE  \/ IsTerminal(machine, seller)
               \/ Reachability[machine][seller][FALSE] \cap machine.terminal # {}
    BY DEF NeverStranded
  <2>2. machine \in Machines /\ seller \in machine.states
    BY <2>1 DEF IInv, Tracked
  <2>3. Reachability[machine][seller][FALSE] = ReachableFrom(machine, seller, FALSE)
    BY <2>2, MemoIsSearch
  <2>4. QED
    BY <2>1, <2>2, <2>3, MachinesAreSound, CanonicalStatusesCanEnd
<1>2. QED
  BY <1>1, AlwaysIInv, PTL

(* A late sync still catches up: while the seller has only progressed and  *)
(* the buyer only synchronised, a sync stores what was fetched, however    *)
(* far the seller has gone since (classify, feeding the sync job).         *)
THEOREM LateSyncsCatchUp == Spec => SyncCatchesUp
<1>1. IInv /\ [Next]_vars => [SyncStoresFetched]_vars
  <2>1. SUFFICES ASSUME IInv, Sync, fetched # Foreign, ~SellerReworked, ~ownMove
                 PROVE  buyer' = fetched
    BY DEF SyncStoresFetched
  <2>2. fetched \in machine.states
    BY <2>1 DEF IInv, Tracked, Sync
  <2>3. AtOrAfter(buyer, fetched)
    BY <2>1, <2>2 DEF IInv, Lagging
  <2>4. QED
    BY <2>1, <2>2, <2>3, SyncStoresWhatIsAhead DEF IInv
<1>2. QED
  BY <1>1, AlwaysIInv, PTL DEF Spec, SyncCatchesUp
=============================================================================
