-------------------------- MODULE SellerProperties --------------------------
(***************************************************************************)
(* What the reference seller must get right, whatever order its handlers   *)
(* are called in and whatever keys the calls carry.                        *)
(***************************************************************************)
EXTENDS ReferenceSeller

Rounds(id) == negotiations[id].rounds
Active(id) == negotiations[id].status = "active"

(* Every record has the shape the code gives it; ids come from the counter *)
(* and cross-references resolve.                                           *)
QuoteRecords ==
  [product : Products, final_cpm : Int, currency : Currencies, tier : AccessTiers]
RoundRecords ==
  [round_number : Nat, buyer_price : Int, seller_price : Int,
   currency : Currencies, action : {"counter", "final_offer", "accept", "reject"}]
NegotiationRecords ==
  [quote_id : Nat, seller_price : Int, rounds : Seq(RoundRecords),
   status : {"active", "accepted", "rejected"}, last_buyer_price : Int]
DealRecords ==
  [quote_id : Nat, price : [amount : Int, currency : Currencies],
   buyer_tier : AccessTiers, status : DealStatuses]

TypeOK ==
  /\ n \in Nat
  /\ DOMAIN quotes \subseteq 1..n
  /\ \A q \in DOMAIN quotes : quotes[q] \in QuoteRecords
  /\ DOMAIN negotiations \subseteq 1..n
  /\ \A id \in DOMAIN negotiations :
       /\ negotiations[id] \in NegotiationRecords
       /\ negotiations[id].quote_id \in DOMAIN quotes
  /\ DOMAIN negByQuote \subseteq DOMAIN quotes
  /\ \A q \in DOMAIN negByQuote : negByQuote[q] \in DOMAIN negotiations
  /\ DOMAIN negReplay \subseteq Keys
  /\ \A k \in DOMAIN negReplay :
       /\ negReplay[k].negotiation_id \in DOMAIN negotiations
       /\ negReplay[k].round \in RoundRecords
  /\ DOMAIN deals \subseteq 1..n
  /\ \A d \in DOMAIN deals :
       deals[d] \in DealRecords /\ deals[d].quote_id \in DOMAIN quotes
  /\ DOMAIN dealsByKey \subseteq Keys
  /\ \A k \in DOMAIN dealsByKey : dealsByKey[k] \in DOMAIN deals

-----------------------------------------------------------------------------
(* The private floor is never undercut: not by a quote, not by the         *)
(* seller's standing ask, not in any round it states or agrees to, and not *)
(* by a booked deal (price_quote's and _advance's max(floor, ...), the     *)
(* floor test of the last round, book_deal's repricing).                   *)
FloorHonoured ==
  /\ \A q \in DOMAIN quotes : quotes[q].final_cpm >= Floor[quotes[q].product]
  /\ \A id \in DOMAIN negotiations :
       LET floor == Floor[quotes[negotiations[id].quote_id].product]
       IN  /\ negotiations[id].seller_price >= floor
           /\ \A i \in DOMAIN Rounds(id) : Rounds(id)[i].seller_price >= floor
  /\ \A d \in DOMAIN deals :
       deals[d].price.amount >= Floor[quotes[deals[d].quote_id].product]

(* A negotiation cannot go on for ever: at most MAX_SELLER_ROUNDS rounds   *)
(* are recorded, and the last possible one ends it (_advance).             *)
RoundsBounded ==
  \A id \in DOMAIN negotiations :
     /\ Len(Rounds(id)) <= MAX_SELLER_ROUNDS
     /\ Active(id) => Len(Rounds(id)) < MAX_SELLER_ROUNDS

(* A seller's final offer invites exactly one more response: the round     *)
(* that answers it ends the negotiation (_advance's two FINAL_OFFERs).     *)
FinalOfferIsFinal ==
  \A id \in DOMAIN negotiations : \A i \in DOMAIN Rounds(id) :
     Rounds(id)[i].action = "final_offer" =>
        \/ i = Len(Rounds(id)) /\ Active(id)
        \/ i = Len(Rounds(id)) - 1 /\ ~Active(id)

(* The ask the seller would settle for on an accept is the one it last     *)
(* told the buyer: the last round's price, or the quote's if there is none *)
(* (neg.seller_price against neg.rounds and the quote).                    *)
StandingAskIsStated ==
  \A id \in DOMAIN negotiations :
     Active(id) => negotiations[id].seller_price =
                     IF Rounds(id) = <<>>
                     THEN quotes[negotiations[id].quote_id].final_cpm
                     ELSE LastRound(negotiations[id]).seller_price

(* No trade is missed: while a negotiation is open the buyer's last bid is *)
(* under the standing ask, whichever way the ask came down to meet it      *)
(* (_advance's acceptance at or above the ask and at the midpoint).        *)
NoMissedTrade ==
  \A id \in DOMAIN negotiations :
     Active(id) /\ Rounds(id) # <<>> =>
        negotiations[id].last_buyer_price < negotiations[id].seller_price

(* One negotiation per quote, and the index finds it                       *)
(* (_resolve_negotiation against _neg_by_quote).                           *)
OneNegotiationPerQuote ==
  /\ \A id \in DOMAIN negotiations :
       /\ negotiations[id].quote_id \in DOMAIN negByQuote
       /\ negByQuote[negotiations[id].quote_id] = id
  /\ \A q \in DOMAIN negByQuote : negotiations[negByQuote[q]].quote_id = q

(* The replay cache is the history: each cached answer is a recorded       *)
(* round, no two keys hold the same round, and no round is missing, so a   *)
(* retried message can neither consume a round nor lose one                *)
(* (handle_negotiation, _record_round).                                    *)
ReplayIsHistory ==
  /\ \A k \in DOMAIN negReplay :
       LET id == negReplay[k].negotiation_id
           no == negReplay[k].round.round_number
       IN  no \in DOMAIN Rounds(id) /\ negReplay[k].round = Rounds(id)[no]
  /\ \A j, k \in DOMAIN negReplay :
       /\ negReplay[j].negotiation_id = negReplay[k].negotiation_id
       /\ negReplay[j].round.round_number = negReplay[k].round.round_number
       => j = k
  /\ \A id \in DOMAIN negotiations : \A i \in DOMAIN Rounds(id) :
       \E k \in DOMAIN negReplay :
          negReplay[k].negotiation_id = id /\ negReplay[k].round.round_number = i

(* Keys and deals correspond one to one: a retry with the same key never   *)
(* books a second deal, and no deal loses its key (book_deal).             *)
OneDealPerKey ==
  /\ \A j, k \in DOMAIN dealsByKey : dealsByKey[j] = dealsByKey[k] => j = k
  /\ \A d \in DOMAIN deals : \E k \in DOMAIN dealsByKey : dealsByKey[k] = d

(* The agreement on a quote, if there is one.                             *)
Agreed(q) == q \in DOMAIN negByQuote /\ IsAccepted(negByQuote[q])
AgreedPrice(q) ==
  Price(LastRound(negotiations[negByQuote[q]]).seller_price,
        LastRound(negotiations[negByQuote[q]]).currency)

-----------------------------------------------------------------------------
(* An agreement binds every later booking of its quote: whatever happened  *)
(* before, a deal minted after the acceptance carries the agreed price     *)
(* (book_deal against the frozen negotiation).                             *)
NewDealsHonourAgreements ==
  \A d \in (DOMAIN deals') \ DOMAIN deals :
     Agreed(deals'[d].quote_id) =>
       deals'[d].price = AgreedPrice(deals'[d].quote_id)
AgreementBindsBookings == [][NewDealsHonourAgreements]_vars

(* The seller only concedes: no step raises its standing ask, none rewrites*)
(* a recorded round, and a closed negotiation does not change at all       *)
(* (_advance, the terminal check of handle_negotiation).                   *)
NegotiationsOnlyAdvance ==
  \A id \in DOMAIN negotiations :
     /\ id \in DOMAIN negotiations'
     /\ negotiations'[id].seller_price <= negotiations[id].seller_price
     /\ SubSeq(negotiations'[id].rounds, 1, Len(Rounds(id))) = Rounds(id)
     /\ ~Active(id) => negotiations'[id] = negotiations[id]
SellerOnlyConcedes == [][NegotiationsOnlyAdvance]_vars

-----------------------------------------------------------------------------
(* A quote and the negotiation on it, if any, are one offer of the         *)
(* contract; a key and the deal booked under it are one booking.           *)
StandingAsk(q) ==
  IF q \in DOMAIN negByQuote THEN negotiations[negByQuote[q]].seller_price
  ELSE quotes[q].final_cpm
OfferStatus(q) ==
  IF q \in DOMAIN negByQuote THEN negotiations[negByQuote[q]].status ELSE "active"

OffersView ==
  [q \in DOMAIN quotes |->
     [quoted |-> Price(quotes[q].final_cpm, quotes[q].currency),
      floor |-> Floor[quotes[q].product],
      ask |-> StandingAsk(q),
      status |-> OfferStatus(q),
      agreed |-> IF OfferStatus(q) = "accepted" THEN AgreedPrice(q) ELSE NoPrice]]
BookingsView ==
  [k \in DOMAIN dealsByKey |->
     [id |-> deals[dealsByKey[k]].quote_id, price |-> deals[dealsByKey[k]].price]]

Contract ==
  INSTANCE SellerContract WITH Ids <- 1..MaxMinted, offers <- OffersView,
                               bookings <- BookingsView

(* The seller implements the contract: every handler call is one of its    *)
(* steps or changes nothing it speaks of, replays and refusals included    *)
(* (price_quote, handle_negotiation, book_deal).                           *)
ImplementsContract == Contract!Spec

-----------------------------------------------------------------------------
(* What documents of the repository say and this seller does not do.       *)

(* errors.py: booking a quote that was already booked is a contention      *)
(* error, so a quote is the origin of at most one deal.                    *)
OneDealPerQuote ==
  \A d, e \in DOMAIN deals : deals[d].quote_id = deals[e].quote_id => d = e
=============================================================================
