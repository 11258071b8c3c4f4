--------------------------- MODULE Reconciliation ---------------------------
(***************************************************************************)
(* FD-8 reconciliation (state/reconciliation.py) of one entity that two    *)
(* agents track independently.  The seller moves the authoritative record  *)
(* through a lifecycle table; the buyer holds its own record, which a sync *)
(* job refreshes from an observation that may be stale by the time it is   *)
(* stored, and which the buyer may also move itself (a cancellation the    *)
(* seller has not processed yet).  The engine and the comparison are code  *)
(* of this repository; the sync job is the calling agent's.                *)
(***************************************************************************)
EXTENDS Lifecycles

CONSTANTS
  Tables,      \* the tables handed to StateMachine(...), valid or not
  MaxMoves,    \* bound on the seller's transitions, by table name
  NotFetched,  \* the sync job holds no observation
  Foreign      \* a name no table has, as an agent on another version may send

ASSUME TablesAssumption ==
  /\ NotFetched # Foreign
  /\ \A M \in Tables : IsFiniteSet(M.states) /\ {NotFetched, Foreign} \cap M.states = {}

VARIABLES
  machine,     \* the lifecycle machine both agents share
  seller,      \* the seller's record of the entity's status
  buyer,       \* the buyer's record of it
  fetched,     \* the status the sync job last read from the seller
  trail,       \* the seller's audit entries
  ownMove      \* the buyer moved its own record at least once

vars == <<machine, seller, buyer, fetched, trail, ownMove>>

-----------------------------------------------------------------------------
(* classify(), reconcile()                                                 *)

(* The tables the constructor let through, and the memo it keeps of their  *)
(* searches.                                                               *)
Machines == {M \in Tables : Valid(M)}
Reachability ==
  [M \in Machines |->
     [start \in M.states |->
        [progressOnly \in BOOLEAN |-> ReachableFrom(M, start, progressOnly)]]]

(* Fault: only a direct successor counts as ahead.                         *)
PrecedesByOneStep(M, start, target) == target \in ProgressFrom(M, start)
Precedes(M, start, target) == target \in Reachability[M][start][TRUE]

(* Fault: the two directions of "behind" are swapped.                      *)
ClassifySwapped(M, buyerStatus, sellerStatus) ==
  IF buyerStatus = sellerStatus THEN "consistent"
  ELSE IF Precedes(M, sellerStatus, buyerStatus) THEN "buyer_behind"
  ELSE IF Precedes(M, buyerStatus, sellerStatus) THEN "seller_behind"
  ELSE "divergent"

Classify(M, buyerStatus, sellerStatus) ==
  IF buyerStatus = sellerStatus THEN "consistent"
  ELSE IF Precedes(M, buyerStatus, sellerStatus) THEN "buyer_behind"
  ELSE IF Precedes(M, sellerStatus, buyerStatus) THEN "seller_behind"
  ELSE "divergent"

(* comparison_table(): every pair classified once.                         *)
ComparisonTable ==
  [M \in Machines |->
     [buyerStatus \in M.states |->
        [sellerStatus \in M.states |-> Classify(M, buyerStatus, sellerStatus)]]]

(* reconcile() first makes both names statuses of the machine, and raises  *)
(* when one is not.  (On a hand-made table, which AUTHORITATIVE_SIDE does  *)
(* not know, it raises always: there the agent does these two steps.)      *)
Reconcile(M, buyerName, sellerName) ==
  IF {buyerName, sellerName} \subseteq M.states THEN Classify(M, buyerName, sellerName)
  ELSE "raises"

Outcome == Reconcile(machine, buyer, seller)

-----------------------------------------------------------------------------
(* An entity starts in the initial status on both sides; the constructor   *)
(* raised for every table it refuses, so no entity lives on those.         *)
Init ==
  /\ machine \in Machines
  /\ seller = machine.initial
  /\ buyer = machine.initial
  /\ fetched = NotFetched
  /\ trail = <<>>
  /\ ownMove = FALSE

(* The seller executes a transition and appends its audit entry.           *)
SellerMoves(to, guardHolds) ==
  /\ Len(trail) < MaxMoves[machine.name]
  /\ CanTransition(machine, seller, to, guardHolds)
  /\ seller' = to
  /\ trail' = Append(trail, Entry(machine, seller, to, "seller"))
  /\ UNCHANGED <<machine, buyer, fetched, ownMove>>

(* The buyer moves its own record, under the same table.                   *)
BuyerMoves(to, guardHolds) ==
  /\ CanTransition(machine, buyer, to, guardHolds)
  /\ ~ownMove
  /\ buyer' = to
  /\ ownMove' = TRUE
  /\ UNCHANGED <<machine, seller, fetched, trail>>

(* The sync job reads the seller's status, or something that is none ...   *)
Fetch ==
  /\ fetched = NotFetched
  /\ fetched' \in {seller, Foreign}
  /\ UNCHANGED <<machine, seller, buyer, trail, ownMove>>

(* ... and, later, compares it with the buyer's record.  The seller's side *)
(* is authoritative, but a divergence is surfaced, not overwritten, and so *)
(* is an error.                                                            *)
Sync ==
  /\ fetched # NotFetched
  /\ buyer' = IF Reconcile(machine, buyer, fetched) = "buyer_behind" THEN fetched ELSE buyer
  /\ fetched' = NotFetched
  /\ UNCHANGED <<machine, seller, trail, ownMove>>

Next ==
  \/ \E to \in machine.states, guardHolds \in BOOLEAN : SellerMoves(to, guardHolds)
  \/ \E to \in machine.states, guardHolds \in BOOLEAN : BuyerMoves(to, guardHolds)
  \/ Fetch
  \/ Sync

Spec == Init /\ [][Next]_vars

-----------------------------------------------------------------------------
(* The types, and that the audit entries form a path from the initial      *)
(* status to the one the seller's record holds (entry(), beside each       *)
(* transition()).                                                          *)
TrailEnd == IF trail = <<>> THEN machine.initial ELSE trail[Len(trail)].to
TypeOK ==
  /\ machine \in Machines
  /\ {seller, buyer} \subseteq machine.states
  /\ fetched \in machine.states \cup {NotFetched, Foreign}
  /\ \A i \in DOMAIN trail : {trail[i].from, trail[i].to} \subseteq machine.states
  /\ ownMove \in BOOLEAN
  /\ TrailEnd = seller
  /\ \A i \in DOMAIN trail :
       trail[i].from = IF i = 1 THEN machine.initial ELSE trail[i - 1].to

IsRework(M, from, to) ==
  \E i \in RuleIndices(M) :
     Rule(M, i).from = from /\ Rule(M, i).to = to /\ Rule(M, i).rework

SellerReworked == \E i \in DOMAIN trail : IsRework(machine, trail[i].from, trail[i].to)

(* An ordinary lag is never mistaken for anything else: while the seller   *)
(* has only progressed and the buyer has only synchronised, a stale buyer  *)
(* record classifies as consistent or buyer_behind, whatever the seller    *)
(* did between the fetch and the sync (classify, reconciliation.py).       *)
LagIsBuyerBehind ==
  ~SellerReworked /\ ~ownMove => Outcome \in {"consistent", "buyer_behind"}

(* The two agents may run the comparison with the roles swapped: the       *)
(* verdicts mirror each other for every pair of statuses of every machine  *)
(* that the constructor let through (at most one side is behind).          *)
Mirror(verdict) ==
  IF verdict = "buyer_behind" THEN "seller_behind"
  ELSE IF verdict = "seller_behind" THEN "buyer_behind" ELSE verdict
VerdictsMirror ==
  LET verdict == ComparisonTable[machine]
  IN  \A a, b \in machine.states : verdict[a][b] = Mirror(verdict[b][a])

(* A live entity of a canonical lifecycle is never stranded: from the      *)
(* status the seller's record holds, some terminal status can be reached   *)
(* unless it is one already (the tables' rules, with the engine's terminal *)
(* check).                                                                 *)
NeverStranded ==
  machine \in CanonicalLifecycles =>
     \/ IsTerminal(machine, seller)
     \/ Reachability[machine][seller][FALSE] \cap machine.terminal # {}

(* A late sync still catches up: while the seller has only progressed and  *)
(* the buyer has only synchronised, storing an observation never loses it  *)
(* to a wrong verdict, however stale it is by then (classify, feeding the  *)
(* sync job).                                                              *)
SyncStoresFetched ==
  Sync /\ fetched # Foreign /\ ~SellerReworked /\ ~ownMove => buyer' = fetched
SyncCatchesUp == [][SyncStoresFetched]_vars
=============================================================================
