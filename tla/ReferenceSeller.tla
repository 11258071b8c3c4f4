--------------------------- MODULE ReferenceSeller ---------------------------
(***************************************************************************)
(* The reference seller (harness/reference_agents.py): it prices quotes    *)
(* from a fixed catalog, negotiates one bounded negotiation per quote, and *)
(* books deals.  Buyers call the three handlers in any order, with any     *)
(* idempotency key, and retry; each handler runs to completion.            *)
(*                                                                         *)
(* Quotes, negotiations and deals share one id counter, so an id is a      *)
(* number; the kind that prefixes it in the code keeps the three apart     *)
(* here as three functions.                                                *)
(***************************************************************************)
EXTENDS Roles, Lifecycles

CONSTANTS
  Products,            \* product ids of the catalog
  BasePrice,           \* list CPM of a product
  Floor,               \* its private floor
  ListCurrency,        \* currency of its base price
  SupportedDealTypes,  \* deal types its commercial terms allow; {} allows all
  QuoteRequests,       \* the quote requests buyers send
  Ceilings,            \* registry tier ceilings the channels inject
  Identities,          \* identities buyers reveal when they book
  Keys,                \* idempotency keys
  Currencies,          \* currencies in use
  Bids,                \* prices buyers bid
  Plans,               \* audience plans a booking carries
  MAX_SELLER_ROUNDS,   \* the seller's round cap (6 in the code)
  MaxMinted,           \* bound on the ids minted in a run
  NoPrice              \* an absent buyer_price

ASSUME CatalogAssumption ==
  /\ BasePrice \in [Products -> Int]
  /\ Floor \in [Products -> Int]
  /\ "USD" \in Currencies
  /\ ListCurrency \in [Products -> Currencies]
ASSUME BidAssumption ==
  /\ Bids \subseteq [amount : Int, currency : Currencies]
  /\ NoPrice \notin Bids
ASSUME RoundsAssumption == MAX_SELLER_ROUNDS \in Nat \ {0}
ASSUME MintedAssumption == MaxMinted \in Nat
ASSUME TierAssumption ==
  /\ Ceilings \subseteq AccessTiers
  /\ \A r \in QuoteRequests : r.identity \subseteq {"seat", "agency", "advertiser"}
  /\ \A i \in Identities : i \subseteq {"seat", "agency", "advertiser"}

VARIABLES
  n,             \* _n: the last id minted
  quotes,        \* _quotes
  negotiations,  \* _negotiations
  negByQuote,    \* _neg_by_quote: quote id -> negotiation id
  negReplay,     \* _neg_replay: idempotency key -> first response
  deals,         \* _deals, _deal_status, _transitions: deal id -> deal
  dealsByKey,    \* _deals_by_key: idempotency key -> deal id
  reply          \* what the last call returned

record == <<n, quotes, negotiations, negByQuote, negReplay, deals, dealsByKey>>
vars == <<n, quotes, negotiations, negByQuote, negReplay, deals, dealsByKey, reply>>

Price(amount, currency) == [amount |-> amount, currency |-> currency]

Actions == {"counter", "final_offer", "accept", "reject"}

(* A message names the negotiation to continue, the quote to open on, or   *)
(* only a proposal; the envelope's validator has run.                      *)
Contexts == [by : {"negotiation", "quote"}, id : 1..MaxMinted]
              \cup [by : {"proposal"}, id : {0}]

NegotiationMessages ==
  {m \in [key : Keys, action : Actions, context : Contexts,
          buyer_price : Bids \cup {NoPrice}] :
     /\ m.action \in {"counter", "final_offer"} => m.buyer_price # NoPrice
     /\ m.action = "reject" => m.buyer_price = NoPrice}

BookingRequests ==
  [key : Keys, quote_id : 1..MaxMinted, identity : Identities, plan : Plans]

Extend(f, x, v) == [y \in DOMAIN f \cup {x} |-> IF y = x THEN v ELSE f[y]]

Error(code) == [kind |-> "error", code |-> code]

Init ==
  /\ n = 0
  /\ quotes = <<>>
  /\ negotiations = <<>>
  /\ negByQuote = <<>>
  /\ negReplay = <<>>
  /\ deals = <<>>
  /\ dealsByKey = <<>>
  /\ reply = [kind |-> "none"]

-----------------------------------------------------------------------------
(* price_quote().  The request's idempotency_key is never looked at.       *)

TIER_DISCOUNT_PER_MILLE == [public |-> 0, seat |-> 50, agency |-> 100, advertiser |-> 150]

SupportedMedia == {"digital", "ctv"}

EffectiveTier(identity, ceiling) == CapTier(TierFromIdentity(identity), ceiling)

FinalPrice(p, tier) ==
  MaxOf(Floor[p], (BasePrice[p] * (1000 - TIER_DISCOUNT_PER_MILLE[tier])) \div 1000)

QuoteRefusal(r) ==
  IF r.product \notin Products THEN "not_found"
  ELSE IF r.media_type \notin SupportedMedia THEN "unsupported_capability"
  ELSE IF /\ SupportedDealTypes[r.product] # {}
          /\ r.deal_type \notin SupportedDealTypes[r.product]
       THEN "unsupported_capability"
  ELSE IF r.deal_type = "PG" /\ ~r.has_impressions THEN "validation"
  ELSE "none"

RefuseQuote(r) ==
  /\ QuoteRefusal(r) # "none"
  /\ reply' = Error(QuoteRefusal(r))
  /\ UNCHANGED record

IssueQuote(r, ceiling) ==
  LET tier == EffectiveTier(r.identity, ceiling)
  IN  /\ QuoteRefusal(r) = "none"
      /\ n < MaxMinted
      /\ n' = n + 1
      /\ quotes' = Extend(quotes, n + 1,
           [product |-> r.product, final_cpm |-> FinalPrice(r.product, tier),
            currency |-> ListCurrency[r.product], tier |-> tier])
      /\ reply' = [kind |-> "quote", quote_id |-> n + 1]
      /\ UNCHANGED <<negotiations, negByQuote, negReplay, deals, dealsByKey>>

PriceQuote(r, ceiling) == RefuseQuote(r) \/ IssueQuote(r, ceiling)

-----------------------------------------------------------------------------
(* _advance() and _record_round(): one round of negotiation `id`, whose    *)
(* record before the round is neg.                                         *)

FloorOf(neg) == Floor[quotes[neg.quote_id].product]

LastBuyerPrice(neg, m) ==
  IF m.buyer_price = NoPrice THEN neg.last_buyer_price ELSE m.buyer_price.amount

(* Fault: no default when the message carries no price.                    *)
RoundCurrencyNoDefault(m) ==
  IF m.buyer_price = NoPrice THEN "none" ELSE m.buyer_price.currency

(* The round's currency is the message's, "USD" when it carries no price.  *)
RoundCurrency(m) ==
  IF m.buyer_price = NoPrice THEN "USD" ELSE m.buyer_price.currency

RoundNumber(neg) == Len(neg.rounds) + 1

RecordRound(id, neg, m, status, sellerPrice, recordedPrice, action) ==
  LET rnd == [round_number |-> RoundNumber(neg),
              buyer_price |-> LastBuyerPrice(neg, m),
              seller_price |-> recordedPrice,
              currency |-> RoundCurrency(m),
              action |-> action]
      answer == [kind |-> "round", negotiation_id |-> id, status |-> status,
                 round |-> rnd,
                 rounds_remaining |->
                    IF status # "active" THEN 0
                    ELSE MaxOf(0, MAX_SELLER_ROUNDS - RoundNumber(neg))]
  IN  /\ negotiations' = Extend(negotiations, id,
           [neg EXCEPT !.status = status,
                       !.seller_price = sellerPrice,
                       !.last_buyer_price = LastBuyerPrice(neg, m),
                       !.rounds = Append(neg.rounds, rnd)])
      /\ negReplay' = Extend(negReplay, m.key, answer)
      /\ reply' = answer

(* The buyer takes the seller's standing price ...                         *)
BuyerAccepts(id, neg, m) ==
  /\ m.action = "accept"
  /\ RecordRound(id, neg, m, "accepted", neg.seller_price, neg.seller_price, "accept")

(* ... or walks away.                                                      *)
BuyerRejects(id, neg, m) ==
  /\ m.action = "reject"
  /\ RecordRound(id, neg, m, "rejected", neg.seller_price, neg.seller_price, "reject")

IsBid(m) == m.action \in {"counter", "final_offer"}
Bid(m) == m.buyer_price.amount

BidMeetsAsk(neg, m) == IsBid(m) /\ Bid(m) >= neg.seller_price
BidBelowAsk(neg, m) == IsBid(m) /\ Bid(m) < neg.seller_price
\* Fault: one round too many.
AtCapLate(neg) == RoundNumber(neg) > MAX_SELLER_ROUNDS
\* Fault: the cap is never tested.
AtCapNever(neg) == FALSE
AtCap(neg) == RoundNumber(neg) >= MAX_SELLER_ROUNDS

(* The counter: half way to the bid, never below the floor.                *)
Midpoint(neg, m) == MaxOf(FloorOf(neg), (neg.seller_price + Bid(m)) \div 2)

TakeBid(id, neg, m) ==
  /\ BidMeetsAsk(neg, m)
  /\ RecordRound(id, neg, m, "accepted", neg.seller_price, Bid(m), "accept")

(* Fault: the last bid is taken whatever it is.                            *)
TakeAnyLastBid(id, neg, m) ==
  /\ BidBelowAsk(neg, m) /\ AtCap(neg)
  /\ RecordRound(id, neg, m, "accepted", Bid(m), Bid(m), "accept")

TakeLastBid(id, neg, m) ==
  /\ BidBelowAsk(neg, m) /\ AtCap(neg) /\ Bid(m) >= FloorOf(neg)
  /\ RecordRound(id, neg, m, "accepted", Bid(m), Bid(m), "accept")

RefuseLastBid(id, neg, m) ==
  /\ BidBelowAsk(neg, m) /\ AtCap(neg) /\ Bid(m) < FloorOf(neg)
  /\ RecordRound(id, neg, m, "rejected", neg.seller_price, neg.seller_price, "reject")

TakeBidAtMidpoint(id, neg, m) ==
  /\ BidBelowAsk(neg, m) /\ ~AtCap(neg) /\ Bid(m) >= FloorOf(neg)
  /\ Midpoint(neg, m) <= Bid(m)
  /\ RecordRound(id, neg, m, "accepted", neg.seller_price, Bid(m), "accept")

(* Fault: the counter is stated but the standing ask is not lowered.       *)
ConcedeInWords(id, neg, m) ==
  /\ BidBelowAsk(neg, m) /\ ~AtCap(neg) /\ Bid(m) >= FloorOf(neg)
  /\ Midpoint(neg, m) > Bid(m)
  /\ RecordRound(id, neg, m, "active", neg.seller_price, Midpoint(neg, m), "counter")

(* Fault: a midpoint equal to the bid is countered instead of taken.       *)
ConcedeToBid(id, neg, m) ==
  /\ BidBelowAsk(neg, m) /\ ~AtCap(neg) /\ Bid(m) >= FloorOf(neg)
  /\ RecordRound(id, neg, m, "active", Midpoint(neg, m), Midpoint(neg, m), "counter")

Concede(id, neg, m) ==
  /\ BidBelowAsk(neg, m) /\ ~AtCap(neg) /\ Bid(m) >= FloorOf(neg)
  /\ Midpoint(neg, m) > Bid(m)
  /\ RecordRound(id, neg, m, "active", Midpoint(neg, m), Midpoint(neg, m),
                 IF RoundNumber(neg) >= MAX_SELLER_ROUNDS - 1
                 THEN "final_offer" ELSE "counter")

RefuseBelowFloor(id, neg, m) ==
  /\ BidBelowAsk(neg, m) /\ ~AtCap(neg) /\ Bid(m) < FloorOf(neg)
  /\ neg.seller_price <= FloorOf(neg)
  /\ RecordRound(id, neg, m, "rejected", neg.seller_price, neg.seller_price, "reject")

(* Fault: the floor is offered again to a bid that stays under it.         *)
OfferFloorAgain(id, neg, m) ==
  /\ BidBelowAsk(neg, m) /\ ~AtCap(neg) /\ Bid(m) < FloorOf(neg)
  /\ RecordRound(id, neg, m, "active", FloorOf(neg), FloorOf(neg), "final_offer")

OfferFloor(id, neg, m) ==
  /\ BidBelowAsk(neg, m) /\ ~AtCap(neg) /\ Bid(m) < FloorOf(neg)
  /\ neg.seller_price > FloorOf(neg)
  /\ RecordRound(id, neg, m, "active", FloorOf(neg), FloorOf(neg), "final_offer")

Advance(id, neg, m) ==
  \/ BuyerAccepts(id, neg, m)
  \/ BuyerRejects(id, neg, m)
  \/ TakeBid(id, neg, m)
  \/ TakeLastBid(id, neg, m)
  \/ RefuseLastBid(id, neg, m)
  \/ TakeBidAtMidpoint(id, neg, m)
  \/ Concede(id, neg, m)
  \/ RefuseBelowFloor(id, neg, m)
  \/ OfferFloor(id, neg, m)

-----------------------------------------------------------------------------
(* _resolve_negotiation(): the negotiation a message is about, if it       *)
(* exists already, and whether the message opens a new one.                *)

Existing(m) ==
  CASE m.context.by = "negotiation" -> {m.context.id} \cap DOMAIN negotiations
    [] m.context.by = "quote" /\ m.context.id \in DOMAIN negByQuote
         -> {negByQuote[m.context.id]}
    [] OTHER -> {}

(* Fault: a quote that has a negotiation opens another.                    *)
OpensAgain(m) == m.context.by = "quote" /\ m.context.id \in DOMAIN quotes

Opens(m) ==
  /\ m.context.by = "quote"
  /\ m.context.id \in DOMAIN quotes \ DOMAIN negByQuote

Opened(qid) ==
  [quote_id |-> qid, seller_price |-> quotes[qid].final_cpm, rounds |-> <<>>,
   status |-> "active", last_buyer_price |-> quotes[qid].final_cpm]

(* handle_negotiation(): a known key is answered from the replay cache ... *)
ReplayRound(m) ==
  /\ m.key \in DOMAIN negReplay
  /\ reply' = negReplay[m.key]
  /\ UNCHANGED record

(* ... errors are returned and not cached ...                              *)
RefuseMessage(m) ==
  /\ m.key \notin DOMAIN negReplay
  /\ ~Opens(m)
  /\ \A id \in Existing(m) : negotiations[id].status # "active"
  /\ reply' = Error(IF Existing(m) # {} THEN "negotiation_closed"
                    ELSE IF m.context.by = "proposal" THEN "validation"
                    ELSE "not_found")
  /\ UNCHANGED record

(* Fault: a retried message is played again.                               *)
ContinueOnRetry(m) ==
  /\ \E id \in Existing(m) :
       /\ negotiations[id].status = "active"
       /\ Advance(id, negotiations[id], m)
  /\ UNCHANGED <<n, quotes, negByQuote, deals, dealsByKey>>

(* Fault: a closed negotiation is advanced.                                *)
ContinueClosed(m) ==
  /\ m.key \notin DOMAIN negReplay
  /\ \E id \in Existing(m) : Advance(id, negotiations[id], m)
  /\ UNCHANGED <<n, quotes, negByQuote, deals, dealsByKey>>

(* ... and a new key advances the negotiation it continues or opens.       *)
ContinueNegotiation(m) ==
  /\ m.key \notin DOMAIN negReplay
  /\ \E id \in Existing(m) :
       /\ negotiations[id].status = "active"
       /\ Advance(id, negotiations[id], m)
  /\ UNCHANGED <<n, quotes, negByQuote, deals, dealsByKey>>

OpenNegotiation(m) ==
  /\ m.key \notin DOMAIN negReplay
  /\ Opens(m)
  /\ n < MaxMinted
  /\ n' = n + 1
  /\ negByQuote' = Extend(negByQuote, m.context.id, n + 1)
  /\ Advance(n + 1, Opened(m.context.id), m)
  /\ UNCHANGED <<quotes, deals, dealsByKey>>

HandleNegotiation(m) ==
  \/ ReplayRound(m)
  \/ RefuseMessage(m)
  \/ ContinueNegotiation(m)
  \/ OpenNegotiation(m)

-----------------------------------------------------------------------------
(* book_deal()                                                             *)

(* _drive_machines(): the walk of both lifecycles that booking records;    *)
(* entry() would raise on a step the tables do not have.                   *)
DrivenSteps ==
  << <<DEAL_LIFECYCLE, "proposed", "accepted">>,
     <<DEAL_LIFECYCLE, "accepted", "booked">>,
     <<ORDER_LIFECYCLE, "draft", "submitted">>,
     <<ORDER_LIFECYCLE, "submitted", "approved">>,
     <<ORDER_LIFECYCLE, "approved", "in_progress">>,
     <<ORDER_LIFECYCLE, "in_progress", "booked">> >>

DriveMachinesSucceeds ==
  \A i \in DOMAIN DrivenSteps :
     CanTransition(DrivenSteps[i][1], DrivenSteps[i][2], DrivenSteps[i][3], TRUE)

IsAccepted(id) == negotiations[id].status = "accepted" /\ negotiations[id].rounds # <<>>

LastRound(neg) == neg.rounds[Len(neg.rounds)]

(* Fault: no negotiation reprices the booking.                             *)
BookingPriceQuoted(qid) == Price(quotes[qid].final_cpm, quotes[qid].currency)

(* An accepted negotiation reprices the booking at its last round.         *)
BookingPrice(qid) ==
  IF qid \in DOMAIN negByQuote /\ IsAccepted(negByQuote[qid])
  THEN LET last == LastRound(negotiations[negByQuote[qid]])
       IN  Price(last.seller_price, last.currency)
  ELSE Price(quotes[qid].final_cpm, quotes[qid].currency)

BookedReply(id, r) == [kind |-> "deal", deal_id |-> id, plan |-> r.plan]

ReplayBooking(r) ==
  /\ r.key \in DOMAIN dealsByKey
  /\ reply' = BookedReply(dealsByKey[r.key], r)
  /\ UNCHANGED record

RefuseBooking(r) ==
  /\ r.key \notin DOMAIN dealsByKey
  /\ r.quote_id \notin DOMAIN quotes
  /\ reply' = Error("not_found")
  /\ UNCHANGED record

(* Fault: the key of an earlier booking is not looked up.                  *)
BookAgain(r, ceiling) ==
  /\ r.quote_id \in DOMAIN quotes
  /\ DriveMachinesSucceeds
  /\ n < MaxMinted
  /\ n' = n + 1
  /\ deals' = Extend(deals, n + 1,
       [quote_id |-> r.quote_id, price |-> BookingPrice(r.quote_id),
        buyer_tier |-> EffectiveTier(r.identity, ceiling), status |-> "booked"])
  /\ dealsByKey' = Extend(dealsByKey, r.key, n + 1)
  /\ reply' = BookedReply(n + 1, r)
  /\ UNCHANGED <<quotes, negotiations, negByQuote, negReplay>>

Book(r, ceiling) ==
  /\ r.key \notin DOMAIN dealsByKey
  /\ r.quote_id \in DOMAIN quotes
  /\ DriveMachinesSucceeds
  /\ n < MaxMinted
  /\ n' = n + 1
  /\ deals' = Extend(deals, n + 1,
       [quote_id |-> r.quote_id, price |-> BookingPrice(r.quote_id),
        buyer_tier |-> EffectiveTier(r.identity, ceiling), status |-> "booked"])
  /\ dealsByKey' = Extend(dealsByKey, r.key, n + 1)
  /\ reply' = BookedReply(n + 1, r)
  /\ UNCHANGED <<quotes, negotiations, negByQuote, negReplay>>

BookDeal(r, ceiling) == ReplayBooking(r) \/ RefuseBooking(r) \/ Book(r, ceiling)

-----------------------------------------------------------------------------
Next ==
  \/ \E r \in QuoteRequests, ceiling \in Ceilings : PriceQuote(r, ceiling)
  \/ \E m \in NegotiationMessages : HandleNegotiation(m)
  \/ \E r \in BookingRequests, ceiling \in Ceilings : BookDeal(r, ceiling)

Spec == Init /\ [][Next]_vars
=============================================================================
