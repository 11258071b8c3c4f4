------------------------ MODULE ReferenceSeller_proofs ------------------------
(***************************************************************************)
(* Proofs about the reference seller, for every catalog, every set of      *)
(* buyers' bids and keys, and every round cap.                             *)
(***************************************************************************)
EXTENDS SellerProperties, TLAPS

-----------------------------------------------------------------------------
(* Appending to a sequence.                                                *)
LEMMA AppendFacts ==
  ASSUME NEW S, NEW s \in Seq(S), NEW e \in S
  PROVE  /\ Append(s, e) \in Seq(S)
         /\ Len(Append(s, e)) = Len(s) + 1
         /\ Append(s, e)[Len(s) + 1] = e
         /\ \A i \in 1..Len(s) : Append(s, e)[i] = s[i]
         /\ DOMAIN Append(s, e) = 1..(Len(s) + 1)
  OBVIOUS

(* A price quoted or countered is an integer and never under the floor.    *)
LEMMA FinalPriceFloored ==
  ASSUME NEW p \in Products, NEW tier \in AccessTiers
  PROVE  FinalPrice(p, tier) \in Int /\ FinalPrice(p, tier) >= Floor[p]
<1>1. TIER_DISCOUNT_PER_MILLE[tier] \in Int
  BY DEF TIER_DISCOUNT_PER_MILLE, AccessTiers
<1>2. (BasePrice[p] * (1000 - TIER_DISCOUNT_PER_MILLE[tier])) \div 1000 \in Int
  BY <1>1, CatalogAssumption
<1>. QED BY <1>2, CatalogAssumption DEF FinalPrice, MaxOf

LEMMA EffectiveTierType ==
  ASSUME NEW identity, NEW ceiling \in AccessTiers
  PROVE  EffectiveTier(identity, ceiling) \in AccessTiers
  BY DEF EffectiveTier, CapTier, TierFromIdentity, AccessTiers

LEMMA HalfwayFacts ==
  ASSUME NEW a \in Int, NEW b \in Int, b < a
  PROVE  (a + b) \div 2 \in Int /\ (a + b) \div 2 < a /\ b <= (a + b) \div 2
  OBVIOUS

-----------------------------------------------------------------------------
(* A negotiation whose seller has nothing left to concede.                 *)
Spent(neg) ==
  neg.seller_price <= FloorOf(neg) \/ Len(neg.rounds) >= MAX_SELLER_ROUNDS - 1

Statuses == {"active", "accepted", "rejected"}

(* What one round may do to a negotiation, whichever branch of _advance    *)
(* answers it.                                                             *)
SoundAnswer(neg, m, status, ask, stated, action) ==
  /\ FloorOf(neg) <= ask
  /\ ask <= neg.seller_price
  /\ FloorOf(neg) <= stated
  /\ status = "active" => /\ stated = ask
                          /\ LastBuyerPrice(neg, m) < ask
                          /\ ~Spent(neg)
                          /\ Len(neg.rounds) + 1 < MAX_SELLER_ROUNDS
  /\ action = "final_offer" =>
       /\ status = "active"
       /\ ask = FloorOf(neg) \/ Len(neg.rounds) + 1 >= MAX_SELLER_ROUNDS - 1
  /\ status = "rejected" => ask = neg.seller_price
  /\ m.action = "reject" => status = "rejected" /\ action = "reject"
  /\ m.action = "accept" => status = "accepted" /\ stated = neg.seller_price
  /\ IsBid(m) =>
       /\ status = "accepted" => stated = Bid(m)
       /\ status = "rejected" =>
            /\ Bid(m) < FloorOf(neg)
            /\ \/ neg.seller_price <= FloorOf(neg)
               \/ Len(neg.rounds) + 1 >= MAX_SELLER_ROUNDS
       /\ status = "active" /\ Bid(m) < FloorOf(neg) => stated = FloorOf(neg)

LEMMA AdvanceFacts ==
  ASSUME NEW id, NEW neg \in NegotiationRecords, NEW m \in NegotiationMessages,
         FloorOf(neg) \in Int, neg.seller_price >= FloorOf(neg),
         Advance(id, neg, m)
  PROVE  \E status \in Statuses, ask \in Int, stated \in Int, action \in Actions :
            /\ RecordRound(id, neg, m, status, ask, stated, action)
            /\ SoundAnswer(neg, m, status, ask, stated, action)
<1>1. neg.seller_price \in Int /\ Len(neg.rounds) \in Nat
  BY DEF NegotiationRecords
<1>2. IsBid(m) => Bid(m) \in Int
  BY BidAssumption DEF IsBid, Bid, NegotiationMessages
<1>12. IsBid(m) => LastBuyerPrice(neg, m) = Bid(m)
  BY DEF IsBid, Bid, LastBuyerPrice, NegotiationMessages
<1>. USE <1>1, RoundsAssumption DEF SoundAnswer, Statuses, Actions, Spent, RoundNumber, IsBid
<1>3. CASE BuyerAccepts(id, neg, m)
  BY <1>3 DEF BuyerAccepts
<1>4. CASE BuyerRejects(id, neg, m)
  BY <1>4 DEF BuyerRejects
<1>5. CASE TakeBid(id, neg, m)
  BY <1>5, <1>2 DEF TakeBid, BidMeetsAsk
<1>6. CASE TakeLastBid(id, neg, m)
  BY <1>6, <1>2 DEF TakeLastBid, BidBelowAsk
<1>7. CASE RefuseLastBid(id, neg, m)
  BY <1>7 DEF RefuseLastBid, AtCap, BidBelowAsk
<1>8. CASE TakeBidAtMidpoint(id, neg, m)
  BY <1>8, <1>2 DEF TakeBidAtMidpoint, BidBelowAsk
<1>9. CASE Concede(id, neg, m)
  <2>1. Bid(m) \in Int /\ Bid(m) < neg.seller_price /\ Bid(m) >= FloorOf(neg)
    BY <1>9, <1>2 DEF Concede, BidBelowAsk
  <2>2. /\ Midpoint(neg, m) \in Int
        /\ FloorOf(neg) <= Midpoint(neg, m)
        /\ Midpoint(neg, m) <= neg.seller_price
        /\ LastBuyerPrice(neg, m) < Midpoint(neg, m)
    BY <1>9, <1>12, <2>1, HalfwayFacts DEF Midpoint, MaxOf, Concede, BidBelowAsk
  <2>3. ~Spent(neg) /\ Len(neg.rounds) + 1 < MAX_SELLER_ROUNDS
    BY <1>9, <2>1 DEF Concede, AtCap
  <2>. QED BY <1>9, <2>1, <2>2, <2>3 DEF Concede, BidBelowAsk
<1>10. CASE RefuseBelowFloor(id, neg, m)
  BY <1>10 DEF RefuseBelowFloor, BidBelowAsk
<1>11. CASE OfferFloor(id, neg, m)
  BY <1>2, <1>11, <1>12 DEF OfferFloor, AtCap, BidBelowAsk
<1>. QED BY <1>3, <1>4, <1>5, <1>6, <1>7, <1>8, <1>9, <1>10, <1>11
         DEF Advance

-----------------------------------------------------------------------------
(* The inductive invariant, grouped by the part of the state it describes. *)

Quoted ==
  /\ n \in Nat /\ n <= MaxMinted
  /\ DOMAIN quotes \subseteq 1..n
  /\ \A q \in DOMAIN quotes :
       /\ quotes[q] \in QuoteRecords
       /\ quotes[q].final_cpm >= Floor[quotes[q].product]

(* One negotiation record.  The last conjunct is what makes                *)
(* FinalOfferIsFinal inductive: a final offer still standing leaves        *)
(* nothing to concede.                                                     *)
Healthy(neg) ==
  /\ neg \in NegotiationRecords
  /\ neg.quote_id \in DOMAIN quotes
  /\ neg.seller_price >= FloorOf(neg)
  /\ \A i \in 1..Len(neg.rounds) : neg.rounds[i].seller_price >= FloorOf(neg)
  /\ Len(neg.rounds) <= MAX_SELLER_ROUNDS
  /\ neg.status = "active" => Len(neg.rounds) < MAX_SELLER_ROUNDS
  /\ neg.status # "active" => neg.rounds # <<>>
  /\ neg.status = "active" =>
       neg.seller_price = IF neg.rounds = <<>> THEN quotes[neg.quote_id].final_cpm
                          ELSE LastRound(neg).seller_price
  /\ neg.status = "active" /\ neg.rounds # <<>> => neg.last_buyer_price < neg.seller_price
  /\ \A i \in 1..Len(neg.rounds) : neg.rounds[i].action = "final_offer" =>
       \/ i = Len(neg.rounds) /\ neg.status = "active"
       \/ i = Len(neg.rounds) - 1 /\ neg.status # "active"
  /\ \A i \in 1..Len(neg.rounds) :
       neg.status = "active" /\ neg.rounds[i].action = "final_offer" => Spent(neg)

NegotiationsHealthy ==
  /\ DOMAIN negotiations \subseteq 1..n
  /\ \A id \in DOMAIN negotiations : Healthy(negotiations[id])

Linked ==
  /\ DOMAIN negByQuote \subseteq DOMAIN quotes
  /\ \A q \in DOMAIN negByQuote : negByQuote[q] \in DOMAIN negotiations
  /\ OneNegotiationPerQuote

Cached ==
  /\ DOMAIN negReplay \subseteq Keys
  /\ \A k \in DOMAIN negReplay :
       /\ negReplay[k].negotiation_id \in DOMAIN negotiations
       /\ negReplay[k].round \in RoundRecords

Dealt ==
  /\ DOMAIN deals \subseteq 1..n
  /\ \A d \in DOMAIN deals :
       /\ deals[d] \in DealRecords
       /\ deals[d].quote_id \in DOMAIN quotes
       /\ deals[d].price.amount >= Floor[quotes[deals[d].quote_id].product]
  /\ DOMAIN dealsByKey \subseteq Keys
  /\ \A k \in DOMAIN dealsByKey : dealsByKey[k] \in DOMAIN deals
  /\ OneDealPerKey

IInv == Quoted /\ NegotiationsHealthy /\ Linked /\ Cached /\ Dealt

-----------------------------------------------------------------------------
LEMMA FloorType ==
  ASSUME Quoted, NEW neg, neg.quote_id \in DOMAIN quotes
  PROVE  FloorOf(neg) \in Int
  BY CatalogAssumption DEF Quoted, FloorOf, QuoteRecords

(* A round keeps the record it advances healthy.                           *)
LEMMA RoundKeepsHealthy ==
  ASSUME Quoted, NEW id, NEW neg, Healthy(neg), neg.status = "active",
         NEW m \in NegotiationMessages, Advance(id, neg, m), quotes' = quotes
  PROVE  /\ \E after : /\ negotiations' = Extend(negotiations, id, after)
                       /\ after.quote_id = neg.quote_id
         /\ Healthy(negotiations[id])'
         /\ \E answer : /\ negReplay' = Extend(negReplay, m.key, answer)
                        /\ answer.negotiation_id = id
                        /\ answer.round \in RoundRecords
<1>. DEFINE floor == FloorOf(neg)
<1>1. /\ neg \in NegotiationRecords
      /\ neg.quote_id \in DOMAIN quotes
      /\ floor \in Int
      /\ neg.seller_price >= floor
  BY FloorType DEF Healthy
<1>2. PICK status \in Statuses, ask \in Int, stated \in Int, action \in Actions :
        /\ RecordRound(id, neg, m, status, ask, stated, action)
        /\ SoundAnswer(neg, m, status, ask, stated, action)
  BY <1>1, AdvanceFacts
<1>. DEFINE rnd == [round_number |-> RoundNumber(neg),
                    buyer_price |-> LastBuyerPrice(neg, m),
                    seller_price |-> stated,
                    currency |-> RoundCurrency(m),
                    action |-> action]
            after == [neg EXCEPT !.status = status,
                                 !.seller_price = ask,
                                 !.last_buyer_price = LastBuyerPrice(neg, m),
                                 !.rounds = Append(neg.rounds, rnd)]
<1>3. LastBuyerPrice(neg, m) \in Int
  BY <1>1, BidAssumption DEF LastBuyerPrice, NegotiationMessages, NegotiationRecords
<1>4. RoundCurrency(m) \in Currencies
  BY BidAssumption, CatalogAssumption DEF RoundCurrency, NegotiationMessages
<1>5. neg.rounds \in Seq(RoundRecords) /\ Len(neg.rounds) \in Nat
  BY <1>1 DEF NegotiationRecords
<1>6. rnd \in RoundRecords
  BY <1>3, <1>4, <1>5 DEF RoundRecords, RoundNumber, Actions
<1>7. /\ negotiations' = Extend(negotiations, id, after)
      /\ negotiations'[id] = after
  <2>1. negotiations' = Extend(negotiations, id, after)
    BY <1>2, Zenon DEF RecordRound
  <2>. HIDE DEF after
  <2>. QED BY <2>1 DEF Extend
<1>8. /\ after \in NegotiationRecords
      /\ after.quote_id = neg.quote_id
      /\ after.seller_price = ask
      /\ after.last_buyer_price = LastBuyerPrice(neg, m)
      /\ after.status = status
      /\ after.rounds = Append(neg.rounds, rnd)
  BY <1>1, <1>3, <1>5, <1>6, AppendFacts DEF NegotiationRecords, Statuses
<1>9. /\ Len(after.rounds) = Len(neg.rounds) + 1
      /\ after.rounds[Len(neg.rounds) + 1] = rnd
      /\ \A i \in 1..Len(neg.rounds) : after.rounds[i] = neg.rounds[i]
      /\ after.rounds # <<>>
  BY <1>5, <1>6, <1>8, AppendFacts
<1>10. FloorOf(after) = floor /\ FloorOf(after)' = floor
  BY <1>8 DEF FloorOf
<1>11. PICK answer : /\ negReplay' = Extend(negReplay, m.key, answer)
                     /\ answer.negotiation_id = id
                     /\ answer.round = rnd
  BY <1>2 DEF RecordRound
<1>12. Healthy(negotiations[id])'
  <2>1. negotiations'[id].quote_id \in DOMAIN quotes'
    BY <1>1, <1>7, <1>8
  <2>2. ask >= floor /\ stated >= floor /\ rnd.seller_price = stated /\ rnd.action = action
    BY <1>1, <1>2 DEF SoundAnswer
  <2>3. \A i \in 1..Len(after.rounds) : after.rounds[i].seller_price >= floor
    BY <1>5, <1>9, <2>2 DEF Healthy
  <2>4. Len(after.rounds) <= MAX_SELLER_ROUNDS
    BY <1>5, <1>9, RoundsAssumption DEF Healthy
  <2>5. status = "active" => /\ Len(after.rounds) < MAX_SELLER_ROUNDS
                             /\ ask = LastRound(after).seller_price
                             /\ after.last_buyer_price < ask
    BY <1>2, <1>5, <1>8, <1>9, <2>2 DEF SoundAnswer, LastRound
  <2>6. ASSUME NEW i \in 1..Len(neg.rounds), neg.rounds[i].action = "final_offer"
        PROVE  i = Len(after.rounds) - 1 /\ status # "active"
    <3>1. i = Len(neg.rounds) /\ Spent(neg)
      BY <2>6 DEF Healthy
    <3>. QED BY <1>2, <1>5, <1>9, <3>1 DEF SoundAnswer
  <2>7. \A i \in 1..Len(after.rounds) : after.rounds[i].action = "final_offer" =>
          \/ i = Len(after.rounds) /\ status = "active"
          \/ i = Len(after.rounds) - 1 /\ status # "active"
    BY <1>2, <1>5, <1>9, <2>2, <2>6 DEF SoundAnswer
  <2>8. \A i \in 1..Len(after.rounds) :
          status = "active" /\ after.rounds[i].action = "final_offer" =>
            ask <= floor \/ Len(after.rounds) >= MAX_SELLER_ROUNDS - 1
    BY <1>1, <1>2, <1>5, <1>9, <2>2, <2>7 DEF SoundAnswer
  <2>9. FloorOf(negotiations[id])' = floor
    BY <1>7, <1>8 DEF FloorOf
  <2>10. LastRound(negotiations[id])' = LastRound(after)
    BY <1>7 DEF LastRound
  <2>. HIDE DEF floor, after, rnd
  <2>. QED BY <1>7, <1>8, <1>9, <2>1, <2>2, <2>3, <2>4, <2>5, <2>7, <2>8, <2>9, <2>10
           DEF Healthy, Spent
<1>. QED BY <1>6, <1>7, <1>8, <1>11, <1>12

-----------------------------------------------------------------------------
(* A record stays healthy while no quote is rewritten.                     *)
LEMMA HealthyKept ==
  ASSUME NEW neg, Healthy(neg),
         \A q \in DOMAIN quotes : q \in DOMAIN quotes' /\ quotes'[q] = quotes[q],
         NEW id, negotiations'[id] = neg
  PROVE  Healthy(negotiations[id])'
<1>1. neg.quote_id \in DOMAIN quotes
  BY DEF Healthy
<1>2. FloorOf(negotiations[id])' = FloorOf(neg)
  BY <1>1 DEF FloorOf
<1>. QED BY <1>1, <1>2 DEF Healthy, Spent, LastRound

LEMMA InitIInv == Init => IInv
<1>. SUFFICES ASSUME Init PROVE IInv
  OBVIOUS
<1>1. /\ n = 0
      /\ DOMAIN quotes = {} /\ DOMAIN negotiations = {} /\ DOMAIN negByQuote = {}
      /\ DOMAIN negReplay = {} /\ DOMAIN deals = {} /\ DOMAIN dealsByKey = {}
  BY DEF Init
<1>. QED BY <1>1, MintedAssumption
         DEF IInv, Quoted, NegotiationsHealthy, Linked, Cached, Dealt,
             OneNegotiationPerQuote, OneDealPerKey

(* Replies that leave the record alone: errors and replays.                *)
LEMMA SameRecord == IInv /\ UNCHANGED record => IInv'
<1>. SUFFICES ASSUME IInv, UNCHANGED record PROVE IInv'
  OBVIOUS
<1>. USE DEF record
<1>1. Quoted'
  BY DEF IInv, Quoted
<1>2. NegotiationsHealthy'
  BY DEF IInv, NegotiationsHealthy, Healthy, Spent, LastRound, FloorOf
<1>3. Linked'
  BY DEF IInv, Linked, OneNegotiationPerQuote
<1>4. Cached'
  BY DEF IInv, Cached
<1>5. Dealt'
  BY DEF IInv, Dealt, OneDealPerKey
<1>. QED BY <1>1, <1>2, <1>3, <1>4, <1>5 DEF IInv

LEMMA IssueQuoteKeeps ==
  ASSUME IInv, NEW r, NEW ceiling \in AccessTiers, IssueQuote(r, ceiling)
  PROVE  IInv'
<1>. DEFINE tier == EffectiveTier(r.identity, ceiling)
            quote == [product |-> r.product, final_cpm |-> FinalPrice(r.product, tier),
                      currency |-> ListCurrency[r.product], tier |-> tier]
<1>1. /\ n \in Nat /\ n < MaxMinted /\ n' = n + 1
      /\ quotes' = Extend(quotes, n + 1, quote)
      /\ DOMAIN quotes \subseteq 1..n
  BY DEF IInv, Quoted, IssueQuote
<1>2. r.product \in Products
  BY DEF IssueQuote, QuoteRefusal
<1>3. tier \in AccessTiers
  BY TierAssumption, EffectiveTierType
<1>4. quote \in QuoteRecords /\ quote.final_cpm >= Floor[quote.product]
  BY <1>2, <1>3, FinalPriceFloored, CatalogAssumption DEF QuoteRecords
<1>5. \A q \in DOMAIN quotes : q \in DOMAIN quotes' /\ quotes'[q] = quotes[q]
  BY <1>1 DEF Extend
<1>. HIDE DEF quote, tier
<1>6. Quoted'
  BY <1>1, <1>4, MintedAssumption DEF IInv, Quoted, Extend
<1>7. NegotiationsHealthy'
  <2>1. negotiations' = negotiations
    BY DEF IssueQuote
  <2>2. ASSUME NEW id \in DOMAIN negotiations
        PROVE  Healthy(negotiations[id])'
    BY <1>5, <2>1, HealthyKept DEF IInv, NegotiationsHealthy
  <2>. QED BY <1>1, <2>1, <2>2 DEF IInv, NegotiationsHealthy
<1>8. Linked'
  BY <1>5 DEF IInv, Linked, OneNegotiationPerQuote, IssueQuote
<1>9. Cached'
  BY DEF IInv, Cached, IssueQuote
<1>10. Dealt'
  BY <1>1, <1>5 DEF IInv, Dealt, OneDealPerKey, IssueQuote
<1>. QED BY <1>6, <1>7, <1>8, <1>9, <1>10 DEF IInv

LEMMA ContinueKeeps ==
  ASSUME IInv, NEW m \in NegotiationMessages, ContinueNegotiation(m)
  PROVE  IInv'
<1>1. PICK id \in Existing(m) : /\ negotiations[id].status = "active"
                                /\ Advance(id, negotiations[id], m)
  BY DEF ContinueNegotiation
<1>2. id \in DOMAIN negotiations
  BY DEF Existing, IInv, Linked
<1>3. /\ n' = n /\ quotes' = quotes /\ negByQuote' = negByQuote
      /\ deals' = deals /\ dealsByKey' = dealsByKey
      /\ m.key \in Keys
  BY DEF ContinueNegotiation, NegotiationMessages
<1>4. Quoted /\ Healthy(negotiations[id])
  BY <1>2 DEF IInv, NegotiationsHealthy
<1>5. PICK after : /\ negotiations' = Extend(negotiations, id, after)
                   /\ after.quote_id = negotiations[id].quote_id
  BY <1>1, <1>3, <1>4, RoundKeepsHealthy
<1>6. Healthy(negotiations[id])'
  BY <1>1, <1>3, <1>4, RoundKeepsHealthy
<1>7. PICK answer : /\ negReplay' = Extend(negReplay, m.key, answer)
                    /\ answer.negotiation_id = id
                    /\ answer.round \in RoundRecords
  BY <1>1, <1>3, <1>4, RoundKeepsHealthy
<1>8. /\ DOMAIN negotiations' = DOMAIN negotiations
      /\ negotiations'[id] = after
      /\ \A other \in DOMAIN negotiations :
           other # id => negotiations'[other] = negotiations[other]
  BY <1>2, <1>5 DEF Extend
<1>9. Quoted'
  BY <1>3 DEF IInv, Quoted
<1>10. NegotiationsHealthy'
  <2>1. ASSUME NEW other \in DOMAIN negotiations, other # id
        PROVE  Healthy(negotiations[other])'
    BY <1>3, <1>8, <2>1, HealthyKept DEF IInv, NegotiationsHealthy
  <2>. QED BY <1>3, <1>6, <1>8, <2>1 DEF IInv, NegotiationsHealthy
<1>11. Linked'
  BY <1>3, <1>5, <1>8 DEF IInv, Linked, OneNegotiationPerQuote
<1>12. Cached'
  BY <1>2, <1>3, <1>7, <1>8 DEF IInv, Cached, Extend
<1>13. Dealt'
  BY <1>3 DEF IInv, Dealt, OneDealPerKey
<1>. QED BY <1>9, <1>10, <1>11, <1>12, <1>13 DEF IInv

LEMMA OpenedHealthy ==
  ASSUME Quoted, NEW q \in DOMAIN quotes
  PROVE  Healthy(Opened(q)) /\ Opened(q).status = "active" /\ Opened(q).quote_id = q
<1>1. quotes[q].final_cpm \in Int /\ q \in Nat
  BY DEF Quoted, QuoteRecords
<1>2. Opened(q) \in NegotiationRecords
  BY <1>1 DEF Opened, NegotiationRecords
<1>. QED BY <1>1, <1>2, RoundsAssumption DEF Quoted, Opened, Healthy, FloorOf

LEMMA OpenKeeps ==
  ASSUME IInv, NEW m \in NegotiationMessages, OpenNegotiation(m)
  PROVE  IInv'
<1>. DEFINE q == m.context.id
            neg == Opened(q)
<1>0. PICK id : id = n + 1
  OBVIOUS
<1>1. /\ n < MaxMinted
      /\ q \in DOMAIN quotes /\ q \notin DOMAIN negByQuote
      /\ n' = id /\ quotes' = quotes /\ deals' = deals /\ dealsByKey' = dealsByKey
      /\ negByQuote' = Extend(negByQuote, q, id)
      /\ Advance(id, neg, m)
      /\ m.key \in Keys
  BY <1>0 DEF OpenNegotiation, Opens, NegotiationMessages
<1>2. Healthy(neg) /\ neg.status = "active" /\ neg.quote_id = q /\ Quoted
  BY <1>1, OpenedHealthy DEF IInv
<1>. HIDE DEF q, neg
<1>3. n \in Nat /\ DOMAIN negotiations \subseteq 1..n /\ id \notin DOMAIN negotiations
  BY <1>0, <1>2 DEF IInv, NegotiationsHealthy, Quoted
<1>4. PICK after : /\ negotiations' = Extend(negotiations, id, after)
                   /\ after.quote_id = q
  BY <1>1, <1>2, RoundKeepsHealthy
<1>5. Healthy(negotiations[id])'
  BY <1>1, <1>2, RoundKeepsHealthy
<1>6. PICK answer : /\ negReplay' = Extend(negReplay, m.key, answer)
                    /\ answer.negotiation_id = id
                    /\ answer.round \in RoundRecords
  BY <1>1, <1>2, RoundKeepsHealthy
<1>7. /\ DOMAIN negotiations' = DOMAIN negotiations \cup {id}
      /\ negotiations'[id] = after
      /\ \A other \in DOMAIN negotiations :
           other # id /\ negotiations'[other] = negotiations[other]
  BY <1>3, <1>4 DEF Extend
<1>8. Quoted' /\ 1..n \subseteq 1..n' /\ id \in 1..n'
  BY <1>0, <1>1, <1>3, MintedAssumption DEF IInv, Quoted
<1>9. NegotiationsHealthy'
  <2>1. ASSUME NEW other \in DOMAIN negotiations
        PROVE  Healthy(negotiations[other])'
    BY <1>1, <1>7, HealthyKept DEF IInv, NegotiationsHealthy
  <2>. QED BY <1>3, <1>5, <1>7, <1>8, <2>1 DEF NegotiationsHealthy
<1>10. Linked'
  <2>1. /\ DOMAIN negByQuote' = DOMAIN negByQuote \cup {q}
        /\ negByQuote'[q] = id
        /\ \A p \in DOMAIN negByQuote : p # q /\ negByQuote'[p] = negByQuote[p]
    BY <1>1 DEF Extend
  <2>. QED BY <1>1, <1>4, <1>7, <2>1 DEF IInv, Linked, OneNegotiationPerQuote
<1>11. Cached'
  BY <1>1, <1>6, <1>7 DEF IInv, Cached, Extend
<1>12. Dealt'
  BY <1>1, <1>8 DEF IInv, Dealt, OneDealPerKey
<1>. QED BY <1>8, <1>9, <1>10, <1>11, <1>12 DEF IInv

(* The price a booking strikes is typed and floored.                       *)
LEMMA BookingPriceFloored ==
  ASSUME IInv, NEW q \in DOMAIN quotes
  PROVE  /\ BookingPrice(q) \in [amount : Int, currency : Currencies]
         /\ BookingPrice(q).amount >= Floor[quotes[q].product]
<1>1. CASE q \in DOMAIN negByQuote /\ IsAccepted(negByQuote[q])
  <2>. DEFINE neg == negotiations[negByQuote[q]]
  <2>1. Healthy(neg) /\ neg.quote_id = q /\ neg.rounds # <<>>
    BY <1>1 DEF IInv, NegotiationsHealthy, Linked, OneNegotiationPerQuote, IsAccepted
  <2>2. neg.rounds \in Seq(RoundRecords) /\ Len(neg.rounds) \in 1..Len(neg.rounds)
    BY <2>1 DEF Healthy, NegotiationRecords
  <2>3. LastRound(neg) \in RoundRecords
    BY <2>2 DEF LastRound
  <2>4. LastRound(neg).seller_price >= Floor[quotes[q].product]
    BY <2>1, <2>2 DEF LastRound, Healthy, FloorOf
  <2>. QED BY <1>1, <2>3, <2>4 DEF BookingPrice, Price, RoundRecords
<1>2. CASE ~(q \in DOMAIN negByQuote /\ IsAccepted(negByQuote[q]))
  BY <1>2 DEF IInv, Quoted, QuoteRecords, BookingPrice, Price
<1>. QED BY <1>1, <1>2

LEMMA BookKeeps ==
  ASSUME IInv, NEW r, r.key \in Keys, NEW ceiling \in AccessTiers, Book(r, ceiling)
  PROVE  IInv'
<1>. DEFINE deal == [quote_id |-> r.quote_id, price |-> BookingPrice(r.quote_id),
                     buyer_tier |-> EffectiveTier(r.identity, ceiling),
                     status |-> "booked"]
            id == n + 1
<1>1. /\ r.key \in Keys /\ r.key \notin DOMAIN dealsByKey
      /\ r.quote_id \in DOMAIN quotes
      /\ n < MaxMinted /\ n' = id
      /\ deals' = Extend(deals, id, deal)
      /\ dealsByKey' = Extend(dealsByKey, r.key, id)
      /\ quotes' = quotes /\ negotiations' = negotiations
      /\ negByQuote' = negByQuote /\ negReplay' = negReplay
  BY DEF Book
<1>2. r.quote_id \in Nat /\ n \in Nat
  BY <1>1 DEF IInv, Quoted
<1>3. /\ deal \in DealRecords /\ deal.quote_id = r.quote_id
      /\ deal.price.amount >= Floor[quotes[r.quote_id].product]
  BY <1>1, <1>2, BookingPriceFloored, EffectiveTierType
     DEF DealRecords, DealStatuses
<1>. HIDE DEF deal
<1>4. id \notin DOMAIN deals /\ 1..n \subseteq 1..n' /\ id \in 1..n'
  BY <1>1, <1>2 DEF IInv, Dealt
<1>. HIDE DEF id
<1>5. Quoted'
  BY <1>1, <1>4, <1>2, MintedAssumption DEF IInv, Quoted, id
<1>6. NegotiationsHealthy'
  BY <1>1, <1>4, HealthyKept DEF IInv, NegotiationsHealthy
<1>7. Linked'
  BY <1>1 DEF IInv, Linked, OneNegotiationPerQuote
<1>8. Cached'
  BY <1>1 DEF IInv, Cached
<1>9. Dealt'
  <2>1. /\ DOMAIN deals' = DOMAIN deals \cup {id} /\ deals'[id] = deal
        /\ \A d \in DOMAIN deals : d # id /\ deals'[d] = deals[d]
    BY <1>1, <1>4 DEF Extend
  <2>2. /\ DOMAIN dealsByKey' = DOMAIN dealsByKey \cup {r.key}
        /\ dealsByKey'[r.key] = id
        /\ \A k \in DOMAIN dealsByKey : k # r.key /\ dealsByKey'[k] = dealsByKey[k]
    BY <1>1 DEF Extend
  <2>3. OneDealPerKey'
    BY <1>4, <2>1, <2>2 DEF IInv, Dealt, OneDealPerKey
  <2>. QED BY <1>1, <1>3, <1>4, <2>1, <2>2, <2>3 DEF IInv, Dealt
<1>. QED BY <1>5, <1>6, <1>7, <1>8, <1>9 DEF IInv

-----------------------------------------------------------------------------
LEMMA NextKeepsIInv == IInv /\ [Next]_vars => IInv'
<1>. SUFFICES ASSUME IInv, [Next]_vars PROVE IInv'
  OBVIOUS
<1>1. ASSUME NEW r \in QuoteRequests, NEW ceiling \in Ceilings, PriceQuote(r, ceiling)
      PROVE  IInv'
  <2>1. CASE RefuseQuote(r)
    BY <2>1, SameRecord DEF RefuseQuote
  <2>2. CASE IssueQuote(r, ceiling)
    BY <2>2, IssueQuoteKeeps, TierAssumption
  <2>. QED BY <1>1, <2>1, <2>2 DEF PriceQuote
<1>2. ASSUME NEW m \in NegotiationMessages, HandleNegotiation(m)
      PROVE  IInv'
  <2>1. CASE ReplayRound(m)
    BY <2>1, SameRecord DEF ReplayRound
  <2>2. CASE RefuseMessage(m)
    BY <2>2, SameRecord DEF RefuseMessage
  <2>3. CASE ContinueNegotiation(m)
    BY <2>3, ContinueKeeps
  <2>4. CASE OpenNegotiation(m)
    BY <2>4, OpenKeeps
  <2>. QED BY <1>2, <2>1, <2>2, <2>3, <2>4 DEF HandleNegotiation
<1>3. ASSUME NEW r \in BookingRequests, NEW ceiling \in Ceilings, BookDeal(r, ceiling)
      PROVE  IInv'
  <2>1. CASE ReplayBooking(r)
    BY <2>1, SameRecord DEF ReplayBooking
  <2>2. CASE RefuseBooking(r)
    BY <2>2, SameRecord DEF RefuseBooking
  <2>3. CASE Book(r, ceiling)
    BY <2>3, BookKeeps, TierAssumption DEF BookingRequests
  <2>. QED BY <1>3, <2>1, <2>2, <2>3 DEF BookDeal
<1>4. CASE UNCHANGED vars
  BY <1>4, SameRecord DEF vars, record
<1>. QED BY <1>1, <1>2, <1>3, <1>4 DEF Next

LEMMA InductiveInvariant == Spec => []IInv
  BY InitIInv, NextKeepsIInv, PTL DEF Spec

-----------------------------------------------------------------------------
(* Every record the seller keeps stays well formed and every reference     *)
(* between its maps resolves.                                              *)
THEOREM TypeCorrect == Spec => []TypeOK
<1>1. IInv => TypeOK
  BY DEF IInv, Quoted, NegotiationsHealthy, Healthy, Linked, Cached, Dealt, TypeOK
<1>. QED BY <1>1, InductiveInvariant, PTL

(* No quote, ask, agreed price or deal of the seller is below its floor.   *)
THEOREM FloorIsHonoured == Spec => []FloorHonoured
<1>1. IInv => FloorHonoured
  <2>. SUFFICES ASSUME IInv PROVE FloorHonoured
    OBVIOUS
  <2>1. ASSUME NEW id \in DOMAIN negotiations
        PROVE  /\ negotiations[id].seller_price
                    >= Floor[quotes[negotiations[id].quote_id].product]
               /\ \A i \in DOMAIN Rounds(id) :
                    Rounds(id)[i].seller_price
                      >= Floor[quotes[negotiations[id].quote_id].product]
    <3>1. Healthy(negotiations[id]) /\ negotiations[id].rounds \in Seq(RoundRecords)
      BY DEF IInv, NegotiationsHealthy, Healthy, NegotiationRecords
    <3>. QED BY <3>1 DEF Healthy, FloorOf, Rounds
  <2>. QED BY <2>1 DEF IInv, Quoted, Dealt, FloorHonoured
<1>. QED BY <1>1, InductiveInvariant, PTL

(* No negotiation outlives the seller's round cap.                         *)
THEOREM NegotiationsTerminate == Spec => []RoundsBounded
<1>1. IInv => RoundsBounded
  BY DEF IInv, NegotiationsHealthy, Healthy, RoundsBounded, Rounds, Active
<1>. QED BY <1>1, InductiveInvariant, PTL

(* Nothing but a closing round follows a seller's final offer.             *)
THEOREM FinalOffersAreFinal == Spec => []FinalOfferIsFinal
<1>1. IInv => FinalOfferIsFinal
  <2>. SUFFICES ASSUME IInv, NEW id \in DOMAIN negotiations,
                       NEW i \in DOMAIN Rounds(id),
                       Rounds(id)[i].action = "final_offer"
                PROVE  \/ i = Len(Rounds(id)) /\ Active(id)
                       \/ i = Len(Rounds(id)) - 1 /\ ~Active(id)
    BY DEF FinalOfferIsFinal
  <2>1. Healthy(negotiations[id]) /\ negotiations[id].rounds \in Seq(RoundRecords)
    BY DEF IInv, NegotiationsHealthy, Healthy, NegotiationRecords
  <2>. QED BY <2>1 DEF Healthy, Rounds, Active
<1>. QED BY <1>1, InductiveInvariant, PTL

(* The ask an accept would take is the one the buyer was last told.        *)
THEOREM AsksAreStated == Spec => []StandingAskIsStated
<1>1. IInv => StandingAskIsStated
  BY DEF IInv, NegotiationsHealthy, Healthy, StandingAskIsStated, Rounds, Active
<1>. QED BY <1>1, InductiveInvariant, PTL

(* The seller never lets a negotiation run on past a bid it should take.   *)
THEOREM TradesAreNotMissed == Spec => []NoMissedTrade
<1>1. IInv => NoMissedTrade
  BY DEF IInv, NegotiationsHealthy, Healthy, NoMissedTrade, Rounds, Active
<1>. QED BY <1>1, InductiveInvariant, PTL

(* Each quote has at most one negotiation, and the index finds it.         *)
THEOREM NegotiationsAreUnique == Spec => []OneNegotiationPerQuote
<1>1. IInv => OneNegotiationPerQuote
  BY DEF IInv, Linked
<1>. QED BY <1>1, InductiveInvariant, PTL

(* Each booking key has exactly one deal, and each deal one key.           *)
THEOREM BookingsAreIdempotent == Spec => []OneDealPerKey
<1>1. IInv => OneDealPerKey
  BY DEF IInv, Dealt
<1>. QED BY <1>1, InductiveInvariant, PTL
=============================================================================
