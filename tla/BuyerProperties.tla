--------------------------- MODULE BuyerProperties ---------------------------
(***************************************************************************)
(* What a scenario must get right: the buyer's guardrails, measured on the *)
(* seller's records, and the agreement of the two sides' histories.        *)
(***************************************************************************)
EXTENDS ReferenceBuyer

Negotiated(b) == buyer[b].negotiation_id # 0
SellersView(b) == negotiations[buyer[b].negotiation_id]
FloorFor(b) == Floor[quotes[buyer[b].quote].product]

(* A buyer's local state has the shape the code gives it, and a message it *)
(* is about to send is one the envelope's validator lets through.          *)
BuyerTypeOK ==
  \A b \in Buyers :
     /\ buyer[b].asked \in 0..Len(Catalogs)
     /\ {buyer[b].candidates[k] : k \in DOMAIN buyer[b].candidates} \subseteq DOMAIN quotes
     /\ buyer[b].quote \in DOMAIN quotes \cup {0}
     /\ buyer[b].i \in 1..(MAX_BUYER_ROUNDS + 1)
     /\ buyer[b].negotiation_id \in DOMAIN negotiations \cup {0}
     /\ {buyer[b].deal, buyer[b].replay_deal} \subseteq DOMAIN deals \cup {0}
     /\ buyer[b].phase \in {"negotiate", "walk"} =>
          buyer[b].message \in NegotiationMessages

(* The guardrails hold on what the seller recorded, not only on what the   *)
(* buyer believed: the deal it holds costs at most its CPM ceiling and its *)
(* budget, at the price its checks were made on (transact's checks at the  *)
(* effective price against book_deal's repricing).                         *)
GuardrailsHold ==
  \A b \in Buyers : buyer[b].deal # 0 =>
     LET price == deals[buyer[b].deal].price.amount
     IN  /\ price = buyer[b].effective_cpm
         /\ price <= brief[b].max_cpm
         /\ CpmCost(price, brief[b].impressions) <= brief[b].budget

(* When a buyer is through, the two sides tell the same story: no          *)
(* negotiation is left open, both have the same status, and the rounds the *)
(* buyer holds are the seller's, except that a walk-away of its own is     *)
(* recorded only at the seller (_negotiate's closing REJECT).              *)
SidesAgree ==
  \A b \in Buyers : Finished(b) /\ Negotiated(b) =>
     LET seen == buyer[b].rounds
         recorded == SellersView(b).rounds
     IN  /\ buyer[b].status = SellersView(b).status
         /\ buyer[b].status # "active"
         /\ \/ recorded = seen
            \/ /\ buyer[b].status = "rejected"
               /\ Len(recorded) = Len(seen) + 1
               /\ SubSeq(recorded, 1, Len(seen)) = seen
               /\ LastRound(SellersView(b)).action = "reject"

(* Every negotiation, every deal at a seller is some buyer's, and only     *)
(* one's: buyers who share a seller do not reach each other's records, and *)
(* the double booking returns the deal it repeats (run_scenario's "cannot  *)
(* cross-contaminate", the keys made of buyer and quote).                  *)
RecordsAreOwned ==
  /\ \A d \in DOMAIN deals : \E b \in Buyers :
       /\ buyer[b].deal = d
       /\ deals[d].quote_id = buyer[b].quote
       /\ \A c \in Buyers \ {b} : d \notin {buyer[c].deal, buyer[c].replay_deal}
  /\ \A id \in DOMAIN negotiations : \E b \in Buyers :
       /\ buyer[b].negotiation_id = id
       /\ negotiations[id].quote_id = buyer[b].quote
       /\ \A c \in Buyers \ {b} : buyer[c].negotiation_id # id
  /\ \A b \in Buyers : buyer[b].replay_deal \in {0, buyer[b].deal}

(* A quote above the ceiling is settled exactly when a trade exists: the   *)
(* buyer that must negotiate reaches agreement if the seller's floor is    *)
(* within its ceiling, and only then (the ceiling hold of _negotiate       *)
(* against the cap and the floor test of _advance).                        *)
SettlesWhenPossible ==
  \A b \in Buyers : Finished(b) /\ buyer[b].must_negotiate =>
     (buyer[b].status = "accepted" <=> FloorFor(b) <= brief[b].max_cpm)

(* The buyer's own cap is only a backstop: the seller's cap ends every     *)
(* negotiation first (MAX_BUYER_ROUNDS against MAX_SELLER_ROUNDS).         *)
SellerCapFiresFirst ==
  \A b \in Buyers : buyer[b].phase = "walk" => buyer[b].i <= MAX_BUYER_ROUNDS

(* Every transaction ends, booked or walked away with a reason: no pair of *)
(* offers keeps the two sides talking (transact and both round caps).      *)
EveryBuyerFinishes ==
  \A b \in Buyers :
     <>[](Finished(b) /\ (buyer[b].deal = 0 <=> buyer[b].walk_reason # "none"))
=============================================================================
