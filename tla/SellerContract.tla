----------------------------- MODULE SellerContract -----------------------------
(***************************************************************************)
(* What a seller promises, whatever it says on the way: an offer stands at *)
(* an ask that only comes down and never under the seller's floor, it is   *)
(* agreed or rejected once and for all, and a key books one deal, at the   *)
(* agreed price if there is one and at the quoted price if not.            *)
(***************************************************************************)
EXTENDS Integers

CONSTANTS Ids, Keys

VARIABLES
  offers,   \* id -> [quoted, floor, ask, status, agreed]
  bookings  \* key -> [id, price]

vars == <<offers, bookings>>

Init == DOMAIN offers = {} /\ DOMAIN bookings = {}

Open(id) == id \in DOMAIN offers /\ offers[id].status = "active"

(* Every other offer, and every other field of this one, stays as it is.   *)
OnlyChanges(id, fields) ==
  /\ DOMAIN offers' = DOMAIN offers
  /\ \A other \in DOMAIN offers \ {id} : offers'[other] = offers[other]
  /\ \A f \in {"quoted", "floor", "ask", "status", "agreed"} \ fields :
       offers'[id][f] = offers[id][f]
  /\ UNCHANGED bookings

Offer(id) ==
  /\ id \notin DOMAIN offers
  /\ DOMAIN offers' = DOMAIN offers \cup {id}
  /\ \A other \in DOMAIN offers : offers'[other] = offers[other]
  /\ offers'[id].status = "active"
  /\ offers'[id].ask = offers'[id].quoted.amount
  /\ offers'[id].ask >= offers'[id].floor
  /\ UNCHANGED bookings

AskComesDown(id) ==
  /\ offers'[id].ask <= offers[id].ask
  /\ offers'[id].ask >= offers[id].floor

Concede(id) ==
  /\ Open(id)
  /\ OnlyChanges(id, {"ask"})
  /\ AskComesDown(id)

Agree(id) ==
  /\ Open(id)
  /\ OnlyChanges(id, {"status", "ask", "agreed"})
  /\ AskComesDown(id)
  /\ offers'[id].status = "accepted"
  /\ offers'[id].agreed.amount >= offers[id].floor

Reject(id) ==
  /\ Open(id)
  /\ OnlyChanges(id, {"status"})
  /\ offers'[id].status = "rejected"

Due(id) == IF offers[id].status = "accepted" THEN offers[id].agreed ELSE offers[id].quoted

Book(key, id) ==
  /\ key \notin DOMAIN bookings
  /\ id \in DOMAIN offers
  /\ DOMAIN bookings' = DOMAIN bookings \cup {key}
  /\ \A other \in DOMAIN bookings : bookings'[other] = bookings[other]
  /\ bookings'[key] = [id |-> id, price |-> Due(id)]
  /\ UNCHANGED offers

Next ==
  \/ \E id \in Ids : Offer(id) \/ Concede(id) \/ Agree(id) \/ Reject(id)
  \/ \E key \in Keys, id \in Ids : Book(key, id)

Spec == Init /\ [][Next]_vars
=============================================================================
