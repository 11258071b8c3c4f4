------------------------- MODULE ReferenceBuyer_proofs -------------------------
(***************************************************************************)
(* Proofs about the reference buyer and its scenario, for any number of    *)
(* buyers, any briefs, sellers and prices, and every pair of round caps.   *)
(* The seller's half of the argument is ReferenceSeller_proofs.            *)
(***************************************************************************)
EXTENDS BuyerProperties, SellerContract_proofs

-----------------------------------------------------------------------------
(* The inductive invariant: for each buyer b with local state s, ...       *)

BuyerFields ==
  {"phase", "asked", "candidates", "quote", "must_negotiate", "bp", "i", "message",
   "negotiation_id", "rounds", "status", "effective_cpm", "deal", "replay_deal",
   "walk_reason"}
Phases == {"discover", "negotiate", "walk", "book", "rebook", "done"}
InTalks(s) == s.phase \in {"negotiate", "walk"}

(* ... what it has discovered and chosen, ...                              *)
Choosing(b, s) ==
  /\ DOMAIN s = BuyerFields
  /\ s.phase \in Phases
  /\ s.asked \in 0..Len(Catalogs)
  /\ s.candidates \in Seq(DOMAIN quotes)
  /\ s.must_negotiate \in BOOLEAN
  /\ s.phase = "discover" => s.status = "active"
  /\ s.quote = 0 => /\ s.phase \in {"discover", "done"}
                    /\ s.negotiation_id = 0 /\ s.deal = 0 /\ ~s.must_negotiate
  /\ s.quote # 0 =>
       /\ s.phase # "discover"
       /\ \E k \in DOMAIN s.candidates : s.candidates[k] = s.quote
       /\ s.must_negotiate <=> quotes[s.quote].final_cpm > brief[b].max_cpm

(* ... the negotiation it is in, ...                                       *)
Bargaining(b, s) ==
  /\ s.rounds \in Seq(RoundRecords)
  /\ s.i = Len(s.rounds) + 1
  /\ s.i \in 1..(MAX_BUYER_ROUNDS + 1)
  /\ s.phase \in {"discover", "negotiate"} => s.i <= MAX_BUYER_ROUNDS
  /\ s.negotiation_id = 0 <=> s.rounds = <<>>
  /\ s.negotiation_id # 0 =>
       /\ s.negotiation_id \in DOMAIN negotiations
       /\ negotiations[s.negotiation_id].quote_id = s.quote

(* ... the message it sends next: a bid, or the acceptance of an ask that  *)
(* is within its ceiling, ...                                              *)
Bids_bp(b, s) ==
  /\ s.message.action = "counter" /\ s.message.buyer_price.amount = s.bp
  /\ s.must_negotiate => s.bp <= brief[b].max_cpm
Accepts(b, s) ==
  /\ s.message.action = "accept"
  /\ s.rounds # <<>> /\ Agreed_cpm(s) <= brief[b].max_cpm

Talking(b, s) ==
  InTalks(s) =>
    /\ s.message \in NegotiationMessages
    /\ s.bp \in Amounts
    /\ s.status = "active"
    /\ s.message.context = IF s.negotiation_id = 0
                           THEN [by |-> "quote", id |-> s.quote]
                           ELSE [by |-> "negotiation", id |-> s.negotiation_id]
    /\ s.phase = "negotiate" =>
         /\ s.message.key = NegotiationKey(b, s.quote, s.i)
         /\ Bids_bp(b, s) \/ Accepts(b, s)
    /\ s.phase = "walk" =>
         /\ s.negotiation_id # 0
         /\ s.message.action = "reject"
         /\ s.message.key \in {NegotiationKey(b, s.quote, 0), NegotiationKey(b, s.quote, s.i)}

(* ... and that its account of it is the seller's, up to a last word of    *)
(* its own.                                                                *)
Agreeing(s) ==
  s.negotiation_id # 0 =>
    LET neg == negotiations[s.negotiation_id]
    IN  /\ InTalks(s) <=> s.status = "active"
        /\ neg.status = s.status
        /\ \/ neg.rounds = s.rounds
           \/ /\ s.phase = "done" /\ s.status = "rejected"
              /\ neg.rounds = Append(s.rounds, LastRound(neg))
              /\ LastRound(neg).action = "reject"

(* Only a price that passed the guardrails is booked, ...                  *)
Affordable(b, s) ==
  /\ s.effective_cpm <= brief[b].max_cpm
  /\ CpmCost(s.effective_cpm, brief[b].impressions) <= brief[b].budget
Priced(b, s) ==
  /\ s.effective_cpm \in Int
  /\ s.phase = "book" =>
       /\ Affordable(b, s)
       /\ s.negotiation_id = 0 => s.effective_cpm = quotes[s.quote].final_cpm
       /\ s.negotiation_id # 0 => s.status = "accepted" /\ s.effective_cpm = Agreed_cpm(s)

(* ... under a key that is used for nothing else, ...                      *)
Booked(b, s) ==
  /\ s.phase \notin {"rebook", "done"} =>
       /\ s.deal = 0
       /\ \A q \in 1..MaxMinted : BookingKey(b, q) \notin DOMAIN dealsByKey
  /\ s.phase = "rebook" =>
       /\ s.deal # 0
       /\ BookingKey(b, s.quote) \in DOMAIN dealsByKey
       /\ dealsByKey[BookingKey(b, s.quote)] = s.deal
  /\ s.deal # 0 =>
       /\ s.deal \in DOMAIN deals
       /\ deals[s.deal].quote_id = s.quote
       /\ deals[s.deal].price.amount = s.effective_cpm
       /\ Affordable(b, s)
  /\ s.replay_deal \in {0, s.deal}

(* ... as is every message's.                                              *)
Unused(b, s) ==
  s.phase # "done" =>
    \A q \in 1..MaxMinted, j \in 0..(MAX_BUYER_ROUNDS + 1) :
      q # s.quote \/ j = 0 \/ j >= s.i =>
        NegotiationKey(b, q, j) \notin DOMAIN negReplay

(* With the code's caps a forced negotiation cannot fail while a trade     *)
(* exists: after the first answer no bid is below a floor within reach.    *)
CapsOrdered == 2 <= MAX_SELLER_ROUNDS /\ MAX_SELLER_ROUNDS <= MAX_BUYER_ROUNDS
WithinReach(b, s) == Floor[quotes[s.quote].product] <= brief[b].max_cpm
Settling(b, s) ==
  CapsOrdered /\ s.must_negotiate =>
    /\ s.phase \in {"negotiate", "book", "rebook", "done"}
    /\ s.phase = "negotiate" /\ s.rounds # <<>> /\ s.message.action = "counter"
         /\ WithinReach(b, s) => s.bp >= Floor[quotes[s.quote].product]
    /\ s.phase # "negotiate" => (s.status = "accepted" <=> WithinReach(b, s))

Faithful(b, s) ==
  /\ Choosing(b, s) /\ Bargaining(b, s) /\ Talking(b, s) /\ Agreeing(s)
  /\ Priced(b, s) /\ Booked(b, s) /\ Unused(b, s) /\ Settling(b, s)

(* No quote is two buyers', and every record is some buyer's.              *)
Apart ==
  \A b, c \in Buyers : b # c =>
    \A k \in DOMAIN buyer[b].candidates, l \in DOMAIN buyer[c].candidates :
      buyer[b].candidates[k] # buyer[c].candidates[l]
Owned ==
  /\ \A id \in DOMAIN negotiations : \E b \in Buyers : buyer[b].negotiation_id = id
  /\ \A d \in DOMAIN deals : \E b \in Buyers : buyer[b].deal = d

Given ==
  /\ brief \in [Buyers -> Briefs]
  /\ ceiling \in [Buyers -> Ceilings]
  /\ DOMAIN buyer = Buyers

BuyerIInv ==
  /\ IInv
  /\ Given
  /\ \A b \in Buyers : Faithful(b, buyer[b])
  /\ Apart
  /\ Owned

-----------------------------------------------------------------------------
(* Sequences and records                                                   *)

LEMMA SeqWidens ==
  ASSUME NEW S, NEW T, S \subseteq T, NEW s \in Seq(S)
  PROVE  s \in Seq(T)
  OBVIOUS

LEMMA BuyerBecomes ==
  ASSUME DOMAIN buyer = Buyers, NEW c \in Buyers, NEW v, buyer' = [buyer EXCEPT ![c] = v]
  PROVE  /\ DOMAIN buyer' = Buyers /\ buyer'[c] = v
         /\ \A b \in Buyers \ {c} : buyer'[b] = buyer[b]
  OBVIOUS

(* A chosen quote is one of the candidates, and those are quotes.          *)
LEMMA ChosenIsQuote ==
  ASSUME NEW b, NEW s, Choosing(b, s), s.quote # 0
  PROVE  /\ s.quote \in DOMAIN quotes
         /\ \E k \in DOMAIN s.candidates : s.candidates[k] = s.quote
<1>1. PICK k \in DOMAIN s.candidates : s.candidates[k] = s.quote
  BY DEF Choosing
<1>2. s.candidates \in Seq(DOMAIN quotes)
  BY DEF Choosing
<1>. QED BY <1>1, <1>2

(* Two buyers never hold the same negotiation, nor the same deal.          *)
LEMMA HoldingsApart ==
  ASSUME BuyerIInv, NEW b \in Buyers, NEW c \in Buyers, b # c
  PROVE  /\ buyer[b].quote # 0 => buyer[b].quote # buyer[c].quote
         /\ buyer[b].negotiation_id # 0 => buyer[b].negotiation_id # buyer[c].negotiation_id
         /\ buyer[b].deal # 0 => buyer[b].deal # buyer[c].deal
<1>1. /\ Choosing(b, buyer[b]) /\ Choosing(c, buyer[c])
      /\ Bargaining(b, buyer[b]) /\ Bargaining(c, buyer[c])
      /\ Booked(b, buyer[b]) /\ Booked(c, buyer[c])
  BY DEF BuyerIInv, Faithful
<1>2. buyer[b].quote # 0 => buyer[b].quote # buyer[c].quote
  <2>. SUFFICES ASSUME buyer[b].quote # 0, buyer[b].quote = buyer[c].quote
                PROVE FALSE
    OBVIOUS
  <2>1. PICK k \in DOMAIN buyer[b].candidates : buyer[b].candidates[k] = buyer[b].quote
    BY <1>1, ChosenIsQuote
  <2>2. PICK l \in DOMAIN buyer[c].candidates : buyer[c].candidates[l] = buyer[c].quote
    BY <1>1, ChosenIsQuote
  <2>. QED BY <2>1, <2>2 DEF BuyerIInv, Apart
<1>3. buyer[b].negotiation_id # 0 => buyer[b].quote # 0
  BY <1>1 DEF Choosing
<1>4. buyer[b].deal # 0 => buyer[b].quote # 0
  BY <1>1 DEF Choosing
<1>. QED BY <1>1, <1>2, <1>3, <1>4 DEF Bargaining, Booked

-----------------------------------------------------------------------------
(* A step of one buyer, seen by the others.                                *)

Elsewhere(c) ==
  /\ brief' = brief /\ ceiling' = ceiling /\ DOMAIN buyer' = Buyers
  /\ \A b \in Buyers \ {c} : buyer'[b] = buyer[b]
  /\ \A q \in DOMAIN quotes : q \in DOMAIN quotes' /\ quotes'[q] = quotes[q]
  /\ \A id \in DOMAIN negotiations :
       /\ id \in DOMAIN negotiations'
       /\ id # buyer[c].negotiation_id => negotiations'[id] = negotiations[id]
  /\ \A d \in DOMAIN deals : d \in DOMAIN deals' /\ deals'[d] = deals[d]
  /\ \A b \in Buyers \ {c}, q \in 1..MaxMinted, j \in 0..(MAX_BUYER_ROUNDS + 1) :
       NegotiationKey(b, q, j) \in DOMAIN negReplay' =>
         NegotiationKey(b, q, j) \in DOMAIN negReplay
  /\ \A b \in Buyers \ {c}, q \in 1..MaxMinted :
       /\ BookingKey(b, q) \in DOMAIN dealsByKey' <=> BookingKey(b, q) \in DOMAIN dealsByKey
       /\ BookingKey(b, q) \in DOMAIN dealsByKey =>
            dealsByKey'[BookingKey(b, q)] = dealsByKey[BookingKey(b, q)]

LEMMA QuoteIds ==
  ASSUME Quoted, NEW q \in DOMAIN quotes
  PROVE  q \in 1..MaxMinted /\ q # 0
  BY MintedAssumption DEF Quoted

LEMMA OthersKept ==
  ASSUME BuyerIInv, NEW c \in Buyers, Elsewhere(c), NEW b \in Buyers \ {c}
  PROVE  Faithful(b, buyer[b])'
<1>0. PICK s : s = buyer[b]
  OBVIOUS
<1>1. buyer'[b] = s /\ brief'[b] = brief[b] /\ Faithful(b, s)
  BY <1>0 DEF BuyerIInv, Elsewhere
<1>2. s.quote # 0 => /\ s.quote \in DOMAIN quotes /\ s.quote \in DOMAIN quotes'
                     /\ quotes'[s.quote] = quotes[s.quote]
                     /\ s.quote \in 1..MaxMinted
  BY <1>1, ChosenIsQuote, QuoteIds DEF Faithful, BuyerIInv, IInv, Elsewhere
<1>3. s.negotiation_id # 0 =>
        /\ s.negotiation_id \in DOMAIN negotiations'
        /\ negotiations'[s.negotiation_id] = negotiations[s.negotiation_id]
  <2>1. s.negotiation_id # 0 => s.negotiation_id # buyer[c].negotiation_id
    BY <1>0, HoldingsApart
  <2>. QED BY <1>1, <2>1 DEF Faithful, Bargaining, Elsewhere
<1>4. s.deal # 0 => s.deal \in DOMAIN deals' /\ deals'[s.deal] = deals[s.deal]
  BY <1>1 DEF Faithful, Booked, Elsewhere
<1>5. Choosing(b, buyer[b])'
  <2>1. s.candidates \in Seq(DOMAIN quotes')
    BY <1>1, SeqWidens DEF Faithful, Choosing, Elsewhere
  <2>. QED BY <1>1, <1>2, <2>1 DEF Faithful, Choosing
<1>6. Bargaining(b, buyer[b])'
  BY <1>1, <1>3 DEF Faithful, Bargaining
<1>7. Talking(b, buyer[b])'
  BY <1>1 DEF Faithful, Talking, InTalks, Bids_bp, Accepts, Agreed_cpm
<1>8. Agreeing(buyer[b])'
  BY <1>1, <1>3 DEF Faithful, Agreeing, InTalks, LastRound
<1>9. Priced(b, buyer[b])'
  BY <1>1, <1>2 DEF Faithful, Choosing, Priced, Affordable, Agreed_cpm
<1>10. Booked(b, buyer[b])'
  BY <1>1, <1>2, <1>4 DEF Faithful, Choosing, Booked, Affordable, Elsewhere
<1>11. Unused(b, buyer[b])'
  BY <1>1 DEF Faithful, Unused, Elsewhere
<1>12. Settling(b, buyer[b])'
  BY <1>1, <1>2 DEF Faithful, Choosing, Settling, WithinReach
<1>. QED BY <1>5, <1>6, <1>7, <1>8, <1>9, <1>10, <1>11, <1>12 DEF Faithful

(* What is left to show of a step, beside the buyer that takes it.         *)
LEMMA StepKeeps ==
  ASSUME BuyerIInv, NEW c \in Buyers, Elsewhere(c), IInv', Faithful(c, buyer[c])',
         \A k \in DOMAIN buyer'[c].candidates :
           \/ \E l \in DOMAIN buyer[c].candidates :
                buyer[c].candidates[l] = buyer'[c].candidates[k]
           \/ buyer'[c].candidates[k] \notin DOMAIN quotes,
         \A id \in DOMAIN negotiations' :
           id \in DOMAIN negotiations \/ id = buyer'[c].negotiation_id,
         buyer[c].negotiation_id # 0 => buyer'[c].negotiation_id = buyer[c].negotiation_id,
         \A d \in DOMAIN deals' : d \in DOMAIN deals \/ d = buyer'[c].deal,
         buyer[c].deal # 0 => buyer'[c].deal = buyer[c].deal
  PROVE  BuyerIInv'
<1>1. Given'
  BY DEF BuyerIInv, Given, Elsewhere
<1>2. \A b \in Buyers : Faithful(b, buyer[b])'
  BY OthersKept
<1>3. Apart'
  <2>1. ASSUME NEW b \in Buyers \ {c}, NEW k \in DOMAIN buyer'[c].candidates,
               NEW l \in DOMAIN buyer'[b].candidates
        PROVE  buyer'[c].candidates[k] # buyer'[b].candidates[l]
    <3>1. buyer'[b].candidates[l] = buyer[b].candidates[l] /\ l \in DOMAIN buyer[b].candidates
      BY DEF Elsewhere
    <3>2. buyer[b].candidates \in Seq(DOMAIN quotes)
      BY DEF BuyerIInv, Faithful, Choosing
    <3>3. buyer[b].candidates[l] \in DOMAIN quotes
      BY <3>1, <3>2
    <3>. QED BY <3>1, <3>3 DEF BuyerIInv, Apart
  <2>2. \A a, b \in Buyers \ {c} :
           buyer'[a].candidates = buyer[a].candidates /\ buyer'[b].candidates = buyer[b].candidates
    BY DEF Elsewhere
  <2>3. SUFFICES ASSUME NEW a \in Buyers, NEW b \in Buyers, a # b,
                        NEW k \in DOMAIN buyer'[a].candidates,
                        NEW l \in DOMAIN buyer'[b].candidates
                 PROVE  buyer'[a].candidates[k] # buyer'[b].candidates[l]
    BY DEF Apart
  <2>. QED BY <2>1, <2>2, <2>3 DEF BuyerIInv, Apart
<1>4. Owned'
  <2>1. 0 \notin DOMAIN negotiations /\ 0 \notin DOMAIN deals
    BY DEF BuyerIInv, IInv, NegotiationsHealthy, Dealt
  <2>2. ASSUME NEW id \in DOMAIN negotiations'
        PROVE  \E b \in Buyers : buyer'[b].negotiation_id = id
    BY <2>1 DEF BuyerIInv, Owned, Elsewhere
  <2>3. ASSUME NEW d \in DOMAIN deals'
        PROVE  \E b \in Buyers : buyer'[b].deal = d
    BY <2>1 DEF BuyerIInv, Owned, Elsewhere
  <2>. QED BY <2>2, <2>3 DEF Owned
<1>. QED BY <1>1, <1>2, <1>3, <1>4 DEF BuyerIInv

-----------------------------------------------------------------------------
(* Discovery                                                               *)

LEMMA StillDiscovering ==
  ASSUME BuyerIInv, NEW c \in Buyers, Discovering(c),
         NEW found \in Seq(DOMAIN quotes'),
         buyer' = [buyer EXCEPT ![c] = [buyer[c] EXCEPT !.asked = @ + 1,
                                                        !.candidates = found]],
         UNCHANGED <<brief, negotiations, negReplay, deals, dealsByKey>>
  PROVE  /\ Faithful(c, buyer[c])'
         /\ DOMAIN buyer' = Buyers
         /\ \A b \in Buyers \ {c} : buyer'[b] = buyer[b]
         /\ buyer'[c].candidates = found
         /\ buyer'[c].negotiation_id = buyer[c].negotiation_id
         /\ buyer'[c].deal = buyer[c].deal
<1>0. PICK s : s = buyer[c]
  OBVIOUS
<1>1. PICK v : v = [s EXCEPT !.asked = @ + 1, !.candidates = found]
  OBVIOUS
<1>2. /\ DOMAIN buyer' = Buyers /\ buyer'[c] = v
      /\ \A b \in Buyers \ {c} : buyer'[b] = buyer[b]
  BY <1>0, <1>1, BuyerBecomes DEF BuyerIInv, Given
<1>3. /\ Faithful(c, s) /\ s.phase = "discover" /\ s.quote = 0
      /\ DOMAIN s = BuyerFields
  BY <1>0 DEF BuyerIInv, Faithful, Choosing, Discovering
<1>4. /\ DOMAIN v = BuyerFields
      /\ v.asked = s.asked + 1 /\ v.candidates = found
      /\ v.phase = "discover" /\ v.quote = 0
      /\ v.must_negotiate = s.must_negotiate /\ v.bp = s.bp /\ v.i = s.i
      /\ v.negotiation_id = s.negotiation_id
      /\ v.rounds = s.rounds /\ v.status = s.status /\ v.effective_cpm = s.effective_cpm
      /\ v.deal = s.deal /\ v.replay_deal = s.replay_deal
  BY <1>1, <1>3 DEF BuyerFields
<1>5. Len(Catalogs) \in Nat /\ s.asked \in 0..Len(Catalogs) /\ s.asked < Len(Catalogs)
  BY <1>0, <1>3, CatalogsAssumption DEF Faithful, Choosing, Discovering
<1>6. Choosing(c, v)'
  BY <1>3, <1>4, <1>5 DEF Faithful, Choosing, Phases
<1>7. Bargaining(c, v)' /\ Talking(c, v)' /\ Agreeing(v)'
  BY <1>3, <1>4 DEF Faithful, Choosing, Bargaining, Talking, InTalks, Agreeing
<1>8. Priced(c, v)' /\ Booked(c, v)' /\ Unused(c, v)' /\ Settling(c, v)'
  BY <1>3, <1>4 DEF Faithful, Choosing, Priced, Booked, Unused, Settling
<1>. QED BY <1>0, <1>2, <1>4, <1>6, <1>7, <1>8 DEF Faithful

LEMMA SkipSellerKeeps ==
  ASSUME BuyerIInv, NEW c \in Buyers, SkipSeller(c)
  PROVE  BuyerIInv'
<1>. DEFINE found == buyer[c].candidates
<1>1. UNCHANGED <<vars, brief, ceiling>> /\ Discovering(c)
  BY DEF SkipSeller
<1>2. found \in Seq(DOMAIN quotes) /\ DOMAIN buyer[c] = BuyerFields
  BY DEF BuyerIInv, Faithful, Choosing
<1>3. buyer' = [buyer EXCEPT ![c] = [buyer[c] EXCEPT !.asked = @ + 1, !.candidates = found]]
  <2>1. [buyer[c] EXCEPT !.asked = @ + 1, !.candidates = found]
          = [buyer[c] EXCEPT !.asked = @ + 1]
    BY <1>2 DEF BuyerFields
  <2>. QED BY <2>1 DEF SkipSeller
<1>4. found \in Seq(DOMAIN quotes')
  BY <1>1, <1>2 DEF vars
<1>5. UNCHANGED <<brief, negotiations, negReplay, deals, dealsByKey>>
  BY <1>1 DEF vars
<1>6. /\ Faithful(c, buyer[c])'
      /\ DOMAIN buyer' = Buyers
      /\ \A b \in Buyers \ {c} : buyer'[b] = buyer[b]
      /\ buyer'[c].candidates = found
      /\ buyer'[c].negotiation_id = buyer[c].negotiation_id
      /\ buyer'[c].deal = buyer[c].deal
  <2>. HIDE DEF found
  <2>. QED BY <1>1, <1>3, <1>4, <1>5, StillDiscovering
<1>7. Elsewhere(c)
  BY <1>1, <1>6 DEF Elsewhere, vars
<1>8. IInv'
  BY <1>1, SameRecord DEF BuyerIInv, vars, record
<1>. QED BY <1>1, <1>6, <1>7, <1>8, StepKeeps DEF vars

LEMMA CeilingIsTier ==
  ASSUME BuyerIInv, NEW c \in Buyers
  PROVE  ceiling[c] \in AccessTiers
  BY TierAssumption DEF BuyerIInv, Given

LEMMA AskSellerKeeps ==
  ASSUME BuyerIInv, NEW c \in Buyers, AskSeller(c)
  PROVE  BuyerIInv'
<1>. DEFINE old == buyer[c].candidates
            good == reply'.kind = "quote" /\ quotes'[reply'.quote_id].final_cpm <= BandLimit(c)
            found == IF good THEN Append(old, reply'.quote_id) ELSE old
<1>1. /\ Discovering(c) /\ brief' = brief /\ ceiling' = ceiling
      /\ buyer' = [buyer EXCEPT ![c] = [buyer[c] EXCEPT !.asked = @ + 1, !.candidates = found]]
  BY DEF AskSeller
<1>2. PICK r : PriceQuote(r, ceiling[c])
  BY DEF AskSeller
<1>3. old \in Seq(DOMAIN quotes)
  BY DEF BuyerIInv, Faithful, Choosing
<1>4. n \in Nat /\ DOMAIN quotes \subseteq 1..n /\ IInv
  BY DEF BuyerIInv, IInv, Quoted
<1>5. /\ IInv'
      /\ UNCHANGED <<negotiations, negByQuote, negReplay, deals, dealsByKey>>
      /\ \A q \in DOMAIN quotes : q \in DOMAIN quotes' /\ quotes'[q] = quotes[q]
      /\ reply'.kind = "quote" => reply'.quote_id \in DOMAIN quotes' \ DOMAIN quotes
  <2>1. CASE RefuseQuote(r)
    BY <1>4, <2>1, SameRecord DEF RefuseQuote, record, Error
  <2>2. CASE IssueQuote(r, ceiling[c])
    <3>1. IInv'
      BY <1>4, <2>2, CeilingIsTier, IssueQuoteKeeps
    <3>. QED BY <1>4, <2>2, <3>1 DEF IssueQuote, Extend
  <2>. QED BY <1>2, <2>1, <2>2 DEF PriceQuote
<1>6. old \in Seq(DOMAIN quotes')
  BY <1>3, <1>5, SeqWidens
<1>7. found \in Seq(DOMAIN quotes')
  <2>1. CASE good
    BY <1>5, <1>6, <2>1, AppendFacts
  <2>2. CASE ~good
    BY <1>6, <2>2
  <2>. QED BY <2>1, <2>2
<1>8. ASSUME NEW k \in DOMAIN found
      PROVE  \/ \E l \in DOMAIN old : old[l] = found[k]
             \/ found[k] \notin DOMAIN quotes
  <2>1. CASE good
    BY <1>5, <1>6, <2>1
  <2>2. CASE ~good
    BY <2>2
  <2>. QED BY <2>1, <2>2
<1>. HIDE DEF found
<1>9. /\ Faithful(c, buyer[c])'
      /\ DOMAIN buyer' = Buyers
      /\ \A b \in Buyers \ {c} : buyer'[b] = buyer[b]
      /\ buyer'[c].candidates = found
      /\ buyer'[c].negotiation_id = buyer[c].negotiation_id
      /\ buyer'[c].deal = buyer[c].deal
  BY <1>1, <1>5, <1>7, StillDiscovering
<1>10. Elsewhere(c)
  BY <1>1, <1>5, <1>9 DEF Elsewhere
<1>. QED BY <1>5, <1>8, <1>9, <1>10, StepKeeps

-----------------------------------------------------------------------------
(* What one round records and returns, and what the buyer may take from it. *)

Answered(id, neg, m, after, answer) ==
  /\ negotiations' = Extend(negotiations, id, after)
  /\ negReplay' = Extend(negReplay, m.key, answer)
  /\ reply' = answer
  /\ answer.kind = "round" /\ answer.negotiation_id = id /\ answer.status = after.status
  /\ answer.round \in RoundRecords
  /\ after.quote_id = neg.quote_id /\ after.status \in Statuses
  /\ after.rounds = Append(neg.rounds, answer.round)
  /\ SoundAnswer(neg, m, after.status, after.seller_price,
                 answer.round.seller_price, answer.round.action)

LEMMA RoundAnswered ==
  ASSUME Quoted, NEW id, NEW neg, Healthy(neg),
         NEW m \in NegotiationMessages, Advance(id, neg, m)
  PROVE  \E after, answer : Answered(id, neg, m, after, answer)
<1>1. /\ neg \in NegotiationRecords
      /\ neg.quote_id \in DOMAIN quotes
      /\ FloorOf(neg) \in Int
      /\ neg.seller_price >= FloorOf(neg)
  BY FloorType DEF Healthy
<1>2. PICK status \in Statuses, ask \in Int, stated \in Int, action \in Actions :
        /\ RecordRound(id, neg, m, status, ask, stated, action)
        /\ SoundAnswer(neg, m, status, ask, stated, action)
  BY <1>1, AdvanceFacts
<1>. DEFINE rnd == [round_number |-> RoundNumber(neg),
                    buyer_price |-> LastBuyerPrice(neg, m),
                    seller_price |-> stated,
                    currency |-> RoundCurrency(m),
                    action |-> action]
            after == [neg EXCEPT !.status = status,
                                 !.seller_price = ask,
                                 !.last_buyer_price = LastBuyerPrice(neg, m),
                                 !.rounds = Append(neg.rounds, rnd)]
<1>3. LastBuyerPrice(neg, m) \in Int
  BY <1>1, BidAssumption DEF LastBuyerPrice, NegotiationMessages, NegotiationRecords
<1>4. RoundCurrency(m) \in Currencies
  BY BidAssumption, CatalogAssumption DEF RoundCurrency, NegotiationMessages
<1>5. Len(neg.rounds) \in Nat
  BY <1>1 DEF NegotiationRecords
<1>6. rnd \in RoundRecords /\ rnd.seller_price = stated /\ rnd.action = action
  BY <1>3, <1>4, <1>5 DEF RoundRecords, RoundNumber, Actions
<1>7. negotiations' = Extend(negotiations, id, after)
  BY <1>2, Zenon DEF RecordRound
<1>8. PICK answer : /\ negReplay' = Extend(negReplay, m.key, answer)
                    /\ reply' = answer
                    /\ answer.kind = "round" /\ answer.negotiation_id = id
                    /\ answer.status = status /\ answer.round = rnd
  BY <1>2 DEF RecordRound
<1>9. /\ after.quote_id = neg.quote_id
      /\ after.seller_price = ask
      /\ after.status = status
      /\ after.rounds = Append(neg.rounds, rnd)
  BY <1>1 DEF NegotiationRecords
<1>. HIDE DEF rnd, after
<1>10. Answered(id, neg, m, after, answer)
  BY <1>2, <1>6, <1>7, <1>8, <1>9 DEF Answered
<1>. QED BY <1>10

(* A message of buyer c is played: its key is new, it opens c's            *)
(* negotiation or continues it, and the seller knows the same rounds.      *)
Handled(c, id, neg, after, answer) ==
  LET s == buyer[c]
  IN  /\ Answered(id, neg, s.message, after, answer)
      /\ Healthy(neg) /\ FloorOf(neg) \in Int
      /\ neg.status = "active" /\ neg.quote_id = s.quote /\ neg.rounds = s.rounds
      /\ id \in 1..MaxMinted
      /\ IF s.negotiation_id = 0 THEN id \notin DOMAIN negotiations
         ELSE id = s.negotiation_id /\ id \in DOMAIN negotiations
      /\ quotes' = quotes /\ deals' = deals /\ dealsByKey' = dealsByKey
      /\ IInv'

LEMMA TalkerFacts ==
  ASSUME BuyerIInv, NEW c \in Buyers, InTalks(buyer[c])
  PROVE  LET s == buyer[c]
         IN  /\ Faithful(c, s) /\ DOMAIN s = BuyerFields
             /\ s.quote # 0 /\ s.quote \in DOMAIN quotes /\ s.quote \in 1..MaxMinted
             /\ s.message \in NegotiationMessages
             /\ s.message.key \notin DOMAIN negReplay
             /\ s.deal = 0 /\ s.replay_deal = 0
<1>1. PICK s : s = buyer[c]
  OBVIOUS
<1>2. Faithful(c, s) /\ s.phase \in {"negotiate", "walk"} /\ Quoted
  BY <1>1 DEF BuyerIInv, IInv, InTalks
<1>3. DOMAIN s = BuyerFields /\ s.quote # 0
  BY <1>2 DEF Faithful, Choosing
<1>4. s.quote \in DOMAIN quotes /\ s.quote \in 1..MaxMinted
  BY <1>2, <1>3, ChosenIsQuote, QuoteIds DEF Faithful
<1>5. /\ s.message \in NegotiationMessages
      /\ s.message.key \in {NegotiationKey(c, s.quote, 0), NegotiationKey(c, s.quote, s.i)}
  BY <1>2 DEF Faithful, Talking, InTalks
<1>6. s.i \in 1..(MAX_BUYER_ROUNDS + 1) /\ MAX_BUYER_ROUNDS \in Nat
  BY <1>2, BuyerRoundsAssumption DEF Faithful, Bargaining
<1>7. /\ NegotiationKey(c, s.quote, 0) \notin DOMAIN negReplay
      /\ NegotiationKey(c, s.quote, s.i) \notin DOMAIN negReplay
  BY <1>2, <1>4, <1>6 DEF Faithful, Unused
<1>8. s.deal = 0 /\ s.replay_deal = 0
  BY <1>2 DEF Faithful, Booked
<1>. QED BY <1>1, <1>2, <1>3, <1>4, <1>5, <1>7, <1>8

(* A quote whose buyer has no negotiation has none.                        *)
LEMMA FreshQuote ==
  ASSUME BuyerIInv, NEW c \in Buyers, buyer[c].quote # 0, buyer[c].negotiation_id = 0
  PROVE  buyer[c].quote \notin DOMAIN negByQuote
<1>. DEFINE q == buyer[c].quote
<1>1. SUFFICES ASSUME q \in DOMAIN negByQuote PROVE FALSE
  OBVIOUS
<1>2. /\ negByQuote[q] \in DOMAIN negotiations
      /\ negotiations[negByQuote[q]].quote_id = q
  BY <1>1 DEF BuyerIInv, IInv, Linked, OneNegotiationPerQuote
<1>3. PICK b \in Buyers : buyer[b].negotiation_id = negByQuote[q]
  BY <1>2 DEF BuyerIInv, Owned
<1>4. negByQuote[q] # 0
  BY <1>2 DEF BuyerIInv, IInv, NegotiationsHealthy
<1>5. buyer[b].quote = q /\ b # c
  BY <1>2, <1>3, <1>4 DEF BuyerIInv, Faithful, Bargaining
<1>. QED BY <1>5, HoldingsApart

LEMMA MessageHandled ==
  ASSUME BuyerIInv, NEW c \in Buyers, InTalks(buyer[c]), HandleNegotiation(buyer[c].message)
  PROVE  \E id, neg, after, answer : Handled(c, id, neg, after, answer)
<1>1. PICK s : s = buyer[c]
  OBVIOUS
<1>2. PICK m : m = s.message
  OBVIOUS
<1>3. /\ Faithful(c, s) /\ InTalks(s) /\ IInv /\ Quoted
      /\ s.quote \in DOMAIN quotes /\ m \in NegotiationMessages
      /\ m.key \notin DOMAIN negReplay
  BY <1>1, <1>2, TalkerFacts DEF BuyerIInv, IInv
<1>4. s.status = "active"
      /\ m.context = IF s.negotiation_id = 0 THEN [by |-> "quote", id |-> s.quote]
                     ELSE [by |-> "negotiation", id |-> s.negotiation_id]
  BY <1>2, <1>3 DEF Faithful, Talking
<1>5. CASE s.negotiation_id # 0
  <2>. DEFINE id == s.negotiation_id
              neg == negotiations[id]
  <2>1. id \in DOMAIN negotiations /\ neg.quote_id = s.quote
    BY <1>3, <1>5 DEF Faithful, Bargaining
  <2>2. neg.status = "active" /\ neg.rounds = s.rounds
    BY <1>3, <1>4, <1>5 DEF Faithful, Agreeing, InTalks
  <2>3. Existing(m) = {id} /\ ~Opens(m)
    BY <1>4, <1>5, <2>1 DEF Existing, Opens
  <2>4. ContinueNegotiation(m)
    BY <1>1, <1>2, <1>3, <2>2, <2>3
       DEF HandleNegotiation, ReplayRound, RefuseMessage, OpenNegotiation
  <2>5. /\ Advance(id, neg, m) /\ IInv'
        /\ quotes' = quotes /\ deals' = deals /\ dealsByKey' = dealsByKey
    BY <1>3, <2>3, <2>4, ContinueKeeps DEF ContinueNegotiation
  <2>6. Healthy(neg) /\ FloorOf(neg) \in Int /\ id \in 1..MaxMinted
    BY <1>3, <2>1, FloorType, MintedAssumption DEF IInv, Quoted, NegotiationsHealthy, Healthy
  <2>. HIDE DEF id, neg
  <2>7. PICK after, answer : Answered(id, neg, m, after, answer)
    BY <1>3, <2>5, <2>6, RoundAnswered
  <2>8. Handled(c, id, neg, after, answer)
    BY <1>1, <1>2, <1>5, <2>1, <2>2, <2>5, <2>6, <2>7 DEF Handled, id
  <2>. QED BY <2>8
<1>6. CASE s.negotiation_id = 0
  <2>. DEFINE id == n + 1
              neg == Opened(s.quote)
  <2>1. m.context.by = "quote" /\ m.context.id = s.quote
    BY <1>4, <1>6
  <2>2. s.quote \notin DOMAIN negByQuote
    BY <1>1, <1>3, <1>6, FreshQuote, TalkerFacts
  <2>3. Opens(m) /\ Existing(m) = {}
    BY <1>3, <2>1, <2>2 DEF Opens, Existing
  <2>4. OpenNegotiation(m)
    BY <1>1, <1>2, <1>3, <2>3
       DEF HandleNegotiation, ReplayRound, RefuseMessage, ContinueNegotiation
  <2>5. /\ Advance(id, neg, m) /\ IInv' /\ n < MaxMinted
        /\ quotes' = quotes /\ deals' = deals /\ dealsByKey' = dealsByKey
    BY <1>3, <2>1, <2>4, OpenKeeps DEF OpenNegotiation
  <2>6. /\ Healthy(neg) /\ neg.status = "active" /\ neg.quote_id = s.quote
        /\ neg.rounds = <<>>
    BY <1>3, OpenedHealthy DEF Opened
  <2>7. FloorOf(neg) \in Int
    BY <1>3, <2>6, FloorType
  <2>8. s.rounds = <<>>
    BY <1>3, <1>6 DEF Faithful, Bargaining
  <2>9. id \notin DOMAIN negotiations /\ id \in 1..MaxMinted
    BY <1>3, <2>5, MintedAssumption DEF IInv, Quoted, NegotiationsHealthy
  <2>. HIDE DEF id, neg
  <2>10. PICK after, answer : Answered(id, neg, m, after, answer)
    BY <1>3, <2>5, <2>6, RoundAnswered
  <2>11. Handled(c, id, neg, after, answer)
    BY <1>1, <1>2, <1>6, <2>5, <2>6, <2>7, <2>8, <2>9, <2>10 DEF Handled
  <2>. QED BY <2>11
<1>. QED BY <1>5, <1>6

(* After a message of c, only c's own state remains to be looked at.       *)
LEMMA TalkKeeps ==
  ASSUME BuyerIInv, NEW c \in Buyers, InTalks(buyer[c]),
         NEW id, NEW neg, NEW after, NEW answer, Handled(c, id, neg, after, answer),
         NEW v, buyer' = [buyer EXCEPT ![c] = v], brief' = brief, ceiling' = ceiling,
         v.candidates = buyer[c].candidates, v.negotiation_id = id, v.deal = buyer[c].deal,
         Faithful(c, v)'
  PROVE  BuyerIInv'
<1>1. /\ DOMAIN buyer' = Buyers /\ buyer'[c] = v
      /\ \A b \in Buyers \ {c} : buyer'[b] = buyer[b]
  BY BuyerBecomes DEF BuyerIInv, Given
<1>2. /\ DOMAIN negotiations' = DOMAIN negotiations \cup {id}
      /\ \A other \in DOMAIN negotiations : other # id => negotiations'[other] = negotiations[other]
      /\ DOMAIN negReplay' = DOMAIN negReplay \cup {buyer[c].message.key}
      /\ quotes' = quotes /\ deals' = deals /\ dealsByKey' = dealsByKey
  BY DEF Handled, Answered, Extend
<1>3. \A other \in DOMAIN negotiations :
        other # buyer[c].negotiation_id => negotiations'[other] = negotiations[other]
  BY <1>2 DEF Handled
<1>4. buyer[c].message.key.buyer = c
  <2>1. Talking(c, buyer[c])
    BY DEF BuyerIInv, Faithful
  <2>2. PICK j : buyer[c].message.key = NegotiationKey(c, buyer[c].quote, j)
    BY <2>1 DEF Talking, InTalks
  <2>. QED BY <2>2 DEF NegotiationKey
<1>5. Elsewhere(c)
  BY <1>1, <1>2, <1>3, <1>4 DEF Elsewhere, NegotiationKey
<1>6. buyer[c].negotiation_id # 0 => id = buyer[c].negotiation_id
  BY DEF Handled
<1>. QED BY <1>1, <1>2, <1>5, <1>6, StepKeeps DEF Handled

-----------------------------------------------------------------------------
(* What the buyer makes of an answer                                       *)

(* What stays as it is once a quote is chosen, until it is booked.         *)
Same(s, v) ==
  /\ DOMAIN v = BuyerFields
  /\ v.asked = s.asked /\ v.candidates = s.candidates /\ v.quote = s.quote
  /\ v.must_negotiate = s.must_negotiate
  /\ v.deal = s.deal /\ v.replay_deal = s.replay_deal

LEMMA BriefFacts ==
  ASSUME BuyerIInv, NEW b \in Buyers
  PROVE  brief[b] \in Briefs
  BY DEF BuyerIInv, Given

LEMMA Ceilinged ==
  ASSUME NEW b, brief[b] \in Briefs
  PROVE  /\ brief[b].max_cpm \in Amounts /\ brief[b].max_cpm \in Int
         /\ brief[b].max_cpm <= MaxAmount
         /\ brief[b].budget \in Int /\ brief[b].impressions \in Int
         /\ MaxAmount \in Nat
<1>1. /\ MaxAmount \in Nat /\ brief[b].max_cpm \in Amounts
      /\ {brief[b].budget, brief[b].impressions} \subseteq Int
  BY BriefAssumption
<1>. QED BY <1>1 DEF Amounts

LEMMA GuardedFacts ==
  ASSUME NEW b, NEW s, DOMAIN s = BuyerFields, s.effective_cpm \in Int, brief[b] \in Briefs,
         NEW v, v = Guarded(b, s)
  PROVE  /\ Same(s, v)
         /\ v.i = s.i /\ v.rounds = s.rounds /\ v.status = s.status
         /\ v.negotiation_id = s.negotiation_id /\ v.effective_cpm = s.effective_cpm
         /\ v.phase \in {"book", "done"}
         /\ v.phase = "book" => Affordable(b, v)
<1>1. /\ brief[b].max_cpm \in Int /\ brief[b].budget \in Int
      /\ CpmCost(s.effective_cpm, brief[b].impressions) \in Int
  <2>1. s.effective_cpm * brief[b].impressions \in Int
    BY Ceilinged
  <2>. QED BY <2>1, Ceilinged DEF CpmCost
<1>2. CASE v = WalksAway(s, "cpm ceiling") \/ v = WalksAway(s, "budget ceiling")
  BY <1>2 DEF WalksAway, Same, BuyerFields
<1>3. CASE /\ v = [s EXCEPT !.phase = "book"]
           /\ s.effective_cpm <= brief[b].max_cpm
           /\ CpmCost(s.effective_cpm, brief[b].impressions) <= brief[b].budget
  BY <1>3 DEF Same, Affordable, BuyerFields
<1>4. /\ ~(s.effective_cpm > brief[b].max_cpm) => s.effective_cpm <= brief[b].max_cpm
      /\ ~(CpmCost(s.effective_cpm, brief[b].impressions) > brief[b].budget) =>
           CpmCost(s.effective_cpm, brief[b].impressions) <= brief[b].budget
  BY <1>1
<1>5. \/ v = WalksAway(s, "cpm ceiling") \/ v = WalksAway(s, "budget ceiling")
      \/ /\ v = [s EXCEPT !.phase = "book"]
         /\ ~(s.effective_cpm > brief[b].max_cpm)
         /\ ~(CpmCost(s.effective_cpm, brief[b].impressions) > brief[b].budget)
  BY Zenon DEF Guarded
<1>. QED BY <1>2, <1>3, <1>4, <1>5

LEMMA CounterAllowed ==
  ASSUME Quoted, NEW b \in Buyers, NEW s, s.quote \in DOMAIN quotes,
         s.i \in 0..(MAX_BUYER_ROUNDS + 1), NEW context \in Contexts, NEW bp \in Amounts
  PROVE  LET m == CounterMessage(b, s, context, bp)
         IN  /\ m \in NegotiationMessages
             /\ m.key = NegotiationKey(b, s.quote, s.i) /\ m.action = "counter"
             /\ m.context = context /\ m.buyer_price.amount = bp
<1>1. s.quote \in 1..MaxMinted /\ quotes[s.quote].currency \in Currencies
  BY QuoteIds DEF Quoted, QuoteRecords
<1>2. NegotiationKey(b, s.quote, s.i) \in Keys
  BY <1>1, KeysAssumption DEF NegotiationKey
<1>3. Price(bp, quotes[s.quote].currency) \in Bids
  BY <1>1, BriefAssumption DEF Price
<1>4. Price(bp, quotes[s.quote].currency) # NoPrice
  BY <1>3, BidAssumption
<1>5. CounterMessage(b, s, context, bp) \in
        [key : Keys, action : Actions, context : Contexts, buyer_price : Bids \cup {NoPrice}]
  BY <1>2, <1>3 DEF CounterMessage, Actions
<1>. QED BY <1>4, <1>5 DEF CounterMessage, NegotiationMessages, Price

LEMMA BareAllowed ==
  ASSUME Quoted, NEW b \in Buyers, NEW s, s.quote \in DOMAIN quotes,
         s.negotiation_id \in 1..MaxMinted, NEW i \in 0..(MAX_BUYER_ROUNDS + 1),
         NEW action \in {"accept", "reject"}
  PROVE  LET m == BareMessage(b, s, i, action)
         IN  /\ m \in NegotiationMessages
             /\ m.key = NegotiationKey(b, s.quote, i) /\ m.action = action
             /\ m.context = [by |-> "negotiation", id |-> s.negotiation_id]
<1>1. NegotiationKey(b, s.quote, i) \in Keys
  BY QuoteIds, KeysAssumption DEF NegotiationKey
<1>2. [by |-> "negotiation", id |-> s.negotiation_id] \in Contexts
  BY DEF Contexts
<1>3. BareMessage(b, s, i, action) \in
        [key : Keys, action : Actions, context : Contexts, buyer_price : Bids \cup {NoPrice}]
  BY <1>1, <1>2 DEF BareMessage, Actions
<1>. QED BY <1>3 DEF BareMessage, NegotiationMessages

(* The reply to a price that leaves the negotiation open: an acceptance, a *)
(* bid no lower than the last one, or the last word.                       *)
Replies(b, s, v, price) ==
  /\ v.phase \in {"negotiate", "walk"}
  /\ v.message \in NegotiationMessages /\ v.bp \in Amounts
  /\ v.message.context = [by |-> "negotiation", id |-> s.negotiation_id]
  /\ v.phase = "negotiate" =>
       /\ v.message.key = NegotiationKey(b, s.quote, s.i)
       /\ \/ v.message.action = "accept" /\ price <= brief[b].max_cpm
          \/ /\ Bids_bp(b, v) /\ price > brief[b].max_cpm
             /\ \/ v.bp = s.bp
                \/ v.bp = MinOf(brief[b].max_cpm, (s.bp + price) \div 2)
  /\ v.phase = "walk" =>
       /\ v.message.action = "reject"
       /\ v.message.key \in {NegotiationKey(b, s.quote, 0), NegotiationKey(b, s.quote, s.i)}
       /\ s.must_negotiate => s.i > MAX_BUYER_ROUNDS

Kept(s, v) ==
  /\ Same(s, v)
  /\ v.i = s.i /\ v.rounds = s.rounds /\ v.status = s.status
  /\ v.negotiation_id = s.negotiation_id /\ v.effective_cpm = s.effective_cpm

Talker(b, s) ==
  /\ DOMAIN s = BuyerFields /\ s.phase = "negotiate"
  /\ s.quote \in DOMAIN quotes /\ s.negotiation_id \in 1..MaxMinted
  /\ s.i \in 1..(MAX_BUYER_ROUNDS + 1) /\ s.bp \in Amounts
  /\ s.must_negotiate => s.bp <= brief[b].max_cpm

LEMMA RespondFacts ==
  ASSUME Quoted, NEW b \in Buyers, NEW s, Talker(b, s), NEW price \in Int,
         brief[b] \in Briefs, NEW v, v = Respond(b, s, price)
  PROVE  Kept(s, v) /\ Replies(b, s, v, price)
<1>. DEFINE context == [by |-> "negotiation", id |-> s.negotiation_id]
            raised == Next_bp(b, s, price)
<1>1. /\ DOMAIN s = BuyerFields /\ s.phase = "negotiate" /\ s.quote \in DOMAIN quotes
      /\ s.negotiation_id \in 1..MaxMinted /\ s.i \in 0..(MAX_BUYER_ROUNDS + 1)
      /\ s.bp \in Amounts
      /\ s.must_negotiate => s.bp <= brief[b].max_cpm
  BY BuyerRoundsAssumption DEF Talker
<1>2. context \in Contexts
  BY <1>1 DEF Contexts
<1>3. brief[b].max_cpm \in Int /\ brief[b].max_cpm <= MaxAmount /\ MaxAmount \in Nat
  BY Ceilinged
<1>4. s.bp \in Int /\ s.bp >= -MaxAmount
  BY <1>1, <1>3 DEF Amounts
<1>5. /\ raised \in Int /\ raised <= brief[b].max_cpm
      /\ raised = MinOf(brief[b].max_cpm, (s.bp + price) \div 2)
  <2>1. (s.bp + price) \div 2 \in Int
    BY <1>4
  <2>. QED BY <1>3, <2>1 DEF Next_bp, MinOf
<1>6. raised > s.bp => raised \in Amounts
  BY <1>3, <1>4, <1>5 DEF Amounts
<1>7. CASE price <= brief[b].max_cpm
  <2>. DEFINE m == BareMessage(b, s, s.i, "accept")
  <2>1. /\ m \in NegotiationMessages /\ m.key = NegotiationKey(b, s.quote, s.i)
        /\ m.action = "accept" /\ m.context = context
    BY <1>1, BareAllowed
  <2>2. v = [s EXCEPT !.message = m]
    BY <1>7 DEF Respond
  <2>. HIDE DEF m
  <2>3. Kept(s, v) /\ v.message = m /\ v.phase = "negotiate" /\ v.bp = s.bp
    BY <1>1, <2>2 DEF Kept, Same, BuyerFields
  <2>. QED BY <1>1, <1>7, <2>1, <2>3 DEF Replies
<1>. HIDE DEF raised
<1>8. CASE price > brief[b].max_cpm /\ raised > s.bp
  <2>. DEFINE m == CounterMessage(b, s, context, raised)
  <2>. HIDE DEF context
  <2>1. /\ m \in NegotiationMessages /\ m.key = NegotiationKey(b, s.quote, s.i)
        /\ m.action = "counter" /\ m.context = context /\ m.buyer_price.amount = raised
    BY <1>1, <1>2, <1>6, <1>8, CounterAllowed
  <2>2. v = [s EXCEPT !.bp = raised, !.message = m]
    BY <1>3, <1>8 DEF Respond, raised, context
  <2>. HIDE DEF m
  <2>3. Kept(s, v) /\ v.message = m /\ v.phase = "negotiate" /\ v.bp = raised
    BY <1>1, <2>2 DEF Kept, Same, BuyerFields
  <2>. QED BY <1>1, <1>5, <1>6, <1>8, <2>1, <2>3 DEF Replies, Bids_bp, context
<1>9. CASE price > brief[b].max_cpm /\ ~(raised > s.bp) /\ s.must_negotiate
  <2>. DEFINE m == CounterMessage(b, s, context, s.bp)
  <2>. HIDE DEF context
  <2>1. /\ m \in NegotiationMessages /\ m.key = NegotiationKey(b, s.quote, s.i)
        /\ m.action = "counter" /\ m.context = context /\ m.buyer_price.amount = s.bp
    BY <1>1, <1>2, CounterAllowed
  <2>2. v = [s EXCEPT !.message = m]
    BY <1>3, <1>9 DEF Respond, raised, context
  <2>. HIDE DEF m
  <2>3. Kept(s, v) /\ v.message = m /\ v.phase = "negotiate" /\ v.bp = s.bp
    BY <1>1, <2>2 DEF Kept, Same, BuyerFields
  <2>. QED BY <1>1, <1>9, <2>1, <2>3 DEF Replies, Bids_bp, Kept, Same, context
<1>10. CASE price > brief[b].max_cpm /\ ~(raised > s.bp) /\ ~s.must_negotiate
  <2>. DEFINE m == BareMessage(b, s, s.i, "reject")
  <2>1. /\ m \in NegotiationMessages /\ m.key = NegotiationKey(b, s.quote, s.i)
        /\ m.action = "reject" /\ m.context = context
    BY <1>1, BareAllowed
  <2>2. v = [s EXCEPT !.phase = "walk", !.message = m]
    BY <1>3, <1>10 DEF Respond, raised
  <2>. HIDE DEF m
  <2>3. Kept(s, v) /\ v.message = m /\ v.phase = "walk" /\ v.bp = s.bp
    BY <1>1, <2>2 DEF Kept, Same, BuyerFields
  <2>. QED BY <1>1, <1>10, <2>1, <2>3 DEF Replies
<1>. QED BY <1>3, <1>7, <1>8, <1>9, <1>10

LEMMA BackstopFacts ==
  ASSUME Quoted, NEW b \in Buyers, NEW s, Talker(b, s), NEW price, NEW u,
         Kept(s, u), Replies(b, s, u, price), NEW v, v = Backstop(b, u)
  PROVE  /\ Kept(s, v) /\ Replies(b, s, v, price)
         /\ v.phase = "negotiate" => v.i <= MAX_BUYER_ROUNDS
<1>1. /\ u.i \in Int /\ MAX_BUYER_ROUNDS \in Nat /\ u.negotiation_id \in 1..MaxMinted
      /\ u.quote \in DOMAIN quotes /\ DOMAIN u = BuyerFields
      /\ u.quote = s.quote /\ u.negotiation_id = s.negotiation_id /\ u.i = s.i
  BY BuyerRoundsAssumption DEF Kept, Same, Talker
<1>2. CASE u.phase = "negotiate" /\ u.i > MAX_BUYER_ROUNDS
  <2>. DEFINE m == BareMessage(b, u, 0, "reject")
  <2>1. /\ m \in NegotiationMessages /\ m.key = NegotiationKey(b, u.quote, 0)
        /\ m.action = "reject"
        /\ m.context = [by |-> "negotiation", id |-> u.negotiation_id]
    <3>1. 0 \in 0..(MAX_BUYER_ROUNDS + 1)
      BY <1>1
    <3>. QED BY <1>1, <3>1, BareAllowed
  <2>2. v = [u EXCEPT !.phase = "walk", !.message = m]
    BY <1>2 DEF Backstop
  <2>. HIDE DEF m
  <2>3. Kept(u, v) /\ v.message = m /\ v.phase = "walk" /\ v.bp = u.bp
    BY <1>1, <2>2 DEF Kept, Same, BuyerFields
  <2>. QED BY <1>1, <1>2, <2>1, <2>3 DEF Replies, Kept, Same
<1>3. CASE ~(u.phase = "negotiate" /\ u.i > MAX_BUYER_ROUNDS)
  BY <1>1, <1>3 DEF Backstop
<1>. QED BY <1>2, <1>3

(* The local variables after an answer has been noted.                     *)
Notes(s, t, answer) ==
  /\ Same(s, t)
  /\ t.i = s.i + 1 /\ t.negotiation_id = answer.negotiation_id
  /\ t.rounds = Append(s.rounds, answer.round) /\ t.status = answer.status

LEMMA AnswerTaken ==
  ASSUME BuyerIInv, NEW c \in Buyers, buyer[c].phase = "negotiate",
         NEW id, NEW neg, NEW after, NEW answer, Handled(c, id, neg, after, answer),
         NEW v, v = AfterAnswer(c, buyer[c], answer)
  PROVE  LET price == answer.round.seller_price
         IN  /\ Notes(buyer[c], v, answer)
             /\ v.effective_cpm \in Int
             /\ v.status = "accepted" => /\ v.phase \in {"book", "done"}
                                         /\ v.effective_cpm = price
                                         /\ v.phase = "book" => Affordable(c, v)
             /\ v.status = "rejected" => v.phase = "done"
             /\ v.status = "active" =>
                  \E t : /\ t.i = v.i /\ t.quote = v.quote /\ t.negotiation_id = id
                         /\ t.must_negotiate = v.must_negotiate /\ t.bp = buyer[c].bp
                         /\ Replies(c, t, v, price)
                         /\ v.phase = "negotiate" => v.i <= MAX_BUYER_ROUNDS
             /\ v.status \in Statuses
<1>. DEFINE price == answer.round.seller_price
<1>1. PICK s : s = buyer[c]
  OBVIOUS
<1>2. PICK t : t = [s EXCEPT !.i = @ + 1, !.negotiation_id = answer.negotiation_id,
                             !.rounds = Append(@, answer.round), !.status = answer.status]
  OBVIOUS
<1>3. InTalks(s) /\ s.phase = "negotiate"
  BY <1>1 DEF InTalks
<1>4. /\ Faithful(c, s) /\ DOMAIN s = BuyerFields /\ s.quote \in DOMAIN quotes
      /\ brief[c] \in Briefs /\ Quoted
  BY <1>1, <1>3, TalkerFacts, BriefFacts DEF BuyerIInv, IInv
<1>5. /\ answer.kind = "round" /\ answer.negotiation_id = id
      /\ answer.round \in RoundRecords /\ answer.status = after.status
      /\ answer.status \in Statuses
      /\ id \in 1..MaxMinted
      /\ SoundAnswer(neg, s.message, answer.status, after.seller_price,
                     price, answer.round.action)
  BY <1>1 DEF Handled, Answered
<1>6. price \in Int
  BY <1>5 DEF RoundRecords
<1>7. /\ DOMAIN t = BuyerFields /\ Same(s, t) /\ t.i = s.i + 1
      /\ t.negotiation_id = answer.negotiation_id
      /\ t.rounds = Append(s.rounds, answer.round) /\ t.status = answer.status
      /\ t.phase = s.phase /\ t.bp = s.bp /\ t.effective_cpm = s.effective_cpm
  BY <1>2, <1>4 DEF BuyerFields, Same
<1>8. s.rounds \in Seq(RoundRecords) /\ s.i \in 1..MAX_BUYER_ROUNDS /\ s.effective_cpm \in Int
  BY <1>3, <1>4, BuyerRoundsAssumption DEF Faithful, Bargaining, Priced
<1>9. Agreed_cpm(t) = price
  BY <1>5, <1>7, <1>8, AppendFacts DEF Agreed_cpm
<1>10. v = CASE t.status = "accepted" -> Guarded(c, [t EXCEPT !.effective_cpm = Agreed_cpm(t)])
             [] t.status = "rejected" -> WalksAway(t, "negotiation")
             [] t.status = "active" -> Backstop(c, Respond(c, t, price))
  BY <1>1, <1>2, <1>5 DEF AfterAnswer
<1>. HIDE DEF price
<1>11. CASE answer.status = "accepted"
  <2>1. PICK u : u = [t EXCEPT !.effective_cpm = price]
    OBVIOUS
  <2>2. v = Guarded(c, u)
    BY <1>7, <1>9, <1>10, <1>11, <2>1
  <2>3. /\ u.effective_cpm = price
        /\ DOMAIN u = BuyerFields /\ Same(t, u) /\ u.i = t.i /\ u.rounds = t.rounds
        /\ u.status = t.status /\ u.negotiation_id = t.negotiation_id
    BY <1>7, <2>1 DEF Same, BuyerFields
  <2>4. /\ Same(u, v)
        /\ v.i = u.i /\ v.rounds = u.rounds /\ v.status = u.status
        /\ v.negotiation_id = u.negotiation_id /\ v.effective_cpm = u.effective_cpm
        /\ v.phase \in {"book", "done"}
        /\ v.phase = "book" => Affordable(c, v)
    BY <1>4, <1>6, <2>2, <2>3, GuardedFacts
  <2>5. Notes(s, v, answer)
    BY <1>7, <2>3, <2>4 DEF Notes, Same
  <2>. QED BY <1>1, <1>5, <1>6, <1>7, <1>11, <2>3, <2>4, <2>5 DEF price
<1>12. CASE answer.status = "rejected"
  <2>1. v = WalksAway(t, "negotiation")
    BY <1>7, <1>10, <1>12
  <2>2. Kept(t, v) /\ v.phase = "done"
    BY <1>7, <2>1 DEF WalksAway, Kept, Same, BuyerFields
  <2>3. Notes(s, v, answer)
    BY <1>7, <2>2 DEF Notes, Kept, Same
  <2>. QED BY <1>1, <1>5, <1>7, <1>8, <1>12, <2>2, <2>3 DEF Kept
<1>13. CASE answer.status = "active"
  <2>1. PICK u : u = Respond(c, t, price)
    OBVIOUS
  <2>2. v = Backstop(c, u)
    BY <1>7, <1>10, <1>13, <2>1
  <2>3. s.message.action = "counter" /\ s.bp \in Amounts
        /\ (s.must_negotiate => s.bp <= brief[c].max_cpm)
    <3>1. s.message.action # "accept"
      BY <1>5, <1>13 DEF SoundAnswer
    <3>. QED BY <1>3, <1>4, <3>1 DEF Faithful, Talking, Bids_bp, Accepts
  <2>4. Talker(c, t)
    BY <1>3, <1>4, <1>5, <1>7, <1>8, <2>3, BuyerRoundsAssumption DEF Talker, Same
  <2>5. Kept(t, u) /\ Replies(c, t, u, price)
    BY <1>4, <1>6, <2>1, <2>4, RespondFacts
  <2>6. /\ Kept(t, v) /\ Replies(c, t, v, price)
        /\ v.phase = "negotiate" => v.i <= MAX_BUYER_ROUNDS
    BY <1>4, <2>2, <2>4, <2>5, BackstopFacts
  <2>7. Notes(s, v, answer) /\ v.effective_cpm \in Int /\ v.status = "active"
    BY <1>7, <1>8, <1>13, <2>6 DEF Notes, Kept, Same
  <2>8. /\ t.i = v.i /\ t.quote = v.quote /\ t.negotiation_id = id
        /\ t.must_negotiate = v.must_negotiate /\ t.bp = buyer[c].bp
    BY <1>1, <1>5, <1>7, <2>6 DEF Kept, Same
  <2>. QED BY <1>1, <2>6, <2>7, <2>8 DEF price, Statuses
<1>. QED BY <1>5, <1>11, <1>12, <1>13 DEF Statuses

(* A forced negotiation that ends has been settled, and one that goes on   *)
(* has a bid the floor does not refuse.                                    *)
LEMMA RoundSettles ==
  ASSUME BuyerIInv, NEW c \in Buyers, buyer[c].phase = "negotiate",
         NEW id, NEW neg, NEW after, NEW answer, Handled(c, id, neg, after, answer),
         NEW v, v = AfterAnswer(c, buyer[c], answer), brief' = brief
  PROVE  Settling(c, v)'
<1>. DEFINE price == answer.round.seller_price
            floor == Floor[quotes[buyer[c].quote].product]
            ceil == brief[c].max_cpm
<1>1. PICK s : s = buyer[c]
  OBVIOUS
<1>2. PICK m : m = s.message
  OBVIOUS
<1>3. InTalks(s) /\ s.phase = "negotiate"
  BY <1>1 DEF InTalks
<1>4. /\ Faithful(c, s) /\ s.quote \in DOMAIN quotes /\ m \in NegotiationMessages
      /\ brief[c] \in Briefs /\ Quoted /\ quotes' = quotes
  BY <1>1, <1>2, <1>3, TalkerFacts, BriefFacts DEF BuyerIInv, IInv, Handled
<1>5. /\ ceil \in Int /\ floor \in Int
      /\ quotes[s.quote].final_cpm \in Int
  BY <1>1, <1>4, Ceilinged, CatalogAssumption DEF Quoted, QuoteRecords
<1>6. /\ answer.round \in RoundRecords /\ price \in Int
      /\ SoundAnswer(neg, m, answer.status, after.seller_price, price, answer.round.action)
      /\ answer.status \in Statuses
      /\ Healthy(neg) /\ neg.status = "active" /\ FloorOf(neg) = floor
      /\ neg.quote_id = s.quote /\ neg.rounds = s.rounds
  BY <1>1, <1>2 DEF Handled, Answered, RoundRecords, FloorOf
<1>7. neg.seller_price \in Int /\ s.rounds \in Seq(RoundRecords) /\ Len(s.rounds) \in Nat
      /\ s.i = Len(s.rounds) + 1
  BY <1>4, <1>6 DEF Faithful, Bargaining, Healthy, NegotiationRecords
<1>8. /\ Notes(s, v, answer)
      /\ v.status = "rejected" => v.phase = "done"
      /\ v.status = "accepted" => v.phase \in {"book", "done"}
  BY <1>1, AnswerTaken
<1>. HIDE DEF price, floor, ceil
<1>9. SUFFICES ASSUME CapsOrdered, s.must_negotiate
               PROVE  /\ v.phase \in {"negotiate", "book", "rebook", "done"}
                      /\ v.phase = "negotiate" /\ v.message.action = "counter" /\ floor <= ceil
                           => v.bp >= floor
                      /\ v.phase # "negotiate" => (v.status = "accepted" <=> floor <= ceil)
  BY <1>1, <1>4, <1>8 DEF Settling, WithinReach, Notes, Same, floor, ceil, Handled
<1>10. MAX_SELLER_ROUNDS \in Nat /\ MAX_BUYER_ROUNDS \in Nat
       /\ 2 <= MAX_SELLER_ROUNDS /\ MAX_SELLER_ROUNDS <= MAX_BUYER_ROUNDS
  BY <1>9, RoundsAssumption, BuyerRoundsAssumption DEF CapsOrdered
(* The message was an acceptance of an ask within reach, or a bid that is  *)
(* below the floor only when it is the first or no trade exists.           *)
<1>11. \/ /\ m.action = "accept" /\ neg.seller_price <= ceil
       \/ /\ m.action = "counter" /\ IsBid(m) /\ Bid(m) = s.bp /\ s.bp \in Int /\ s.bp <= ceil
          /\ s.rounds # <<>> /\ floor <= ceil => s.bp >= floor
          /\ s.rounds = <<>> => neg.seller_price > ceil
  <2>1. Bids_bp(c, s) \/ Accepts(c, s)
    BY <1>3, <1>4 DEF Faithful, Talking, InTalks
  <2>2. s.rounds # <<>> => neg.seller_price = Agreed_cpm(s)
    BY <1>6 DEF Healthy, LastRound, Agreed_cpm
  <2>3. s.rounds = <<>> => neg.seller_price = quotes[s.quote].final_cpm
    BY <1>6 DEF Healthy
  <2>4. quotes[s.quote].final_cpm > ceil
    BY <1>4, <1>9, QuoteIds DEF Faithful, Choosing, ceil
  <2>5. s.bp \in Int
    BY <1>3, <1>4, Ceilinged DEF Faithful, Talking, InTalks, Amounts
  <2>6. CASE Accepts(c, s)
    BY <1>2, <2>2, <2>6 DEF Accepts, ceil
  <2>7. CASE Bids_bp(c, s)
    <3>1. /\ m.action = "counter" /\ IsBid(m) /\ Bid(m) = s.bp /\ s.bp <= ceil
      BY <1>2, <1>9, <2>7 DEF Bids_bp, IsBid, Bid, ceil
    <3>2. s.rounds # <<>> /\ floor <= ceil => s.bp >= floor
      BY <1>1, <1>2, <1>3, <1>4, <1>9, <3>1 DEF Faithful, Settling, WithinReach, floor, ceil
    <3>. QED BY <2>3, <2>4, <2>5, <3>1, <3>2
  <2>. QED BY <2>1, <2>6, <2>7
<1>12. floor <= neg.seller_price /\ floor <= price
  BY <1>6 DEF Healthy, SoundAnswer
<1>13. CASE v.status = "accepted"
  <2>1. floor <= ceil
    BY <1>5, <1>6, <1>7, <1>8, <1>11, <1>12, <1>13 DEF SoundAnswer, Notes
  <2>. QED BY <1>8, <1>13, <2>1
<1>14. CASE v.status = "rejected"
  <2>1. m.action # "accept"
    BY <1>6, <1>8, <1>14 DEF SoundAnswer, Notes
  <2>2. /\ Bid(m) < floor
        /\ neg.seller_price <= floor \/ Len(s.rounds) + 1 >= MAX_SELLER_ROUNDS
    BY <1>6, <1>8, <1>11, <1>14, <2>1 DEF SoundAnswer, Notes
  <2>3. s.rounds = <<>> => Len(s.rounds) = 0
    OBVIOUS
  <2>4. ~(floor <= ceil)
    BY <1>5, <1>7, <1>10, <1>11, <2>1, <2>2, <2>3
  <2>. QED BY <1>8, <1>14, <2>4
<1>15. CASE v.status = "active"
  <2>1. PICK t : /\ t.i = v.i /\ t.must_negotiate = v.must_negotiate /\ t.bp = s.bp
                 /\ Replies(c, t, v, price)
    BY <1>1, <1>15, AnswerTaken DEF price
  <2>2. t.i = Len(s.rounds) + 2 /\ t.must_negotiate
    BY <1>7, <1>8, <1>9, <2>1 DEF Notes, Same
  <2>3. Len(s.rounds) + 1 < MAX_SELLER_ROUNDS
    BY <1>6, <1>8, <1>15 DEF SoundAnswer, Notes
  <2>4. v.phase = "negotiate"
    BY <1>7, <1>10, <2>1, <2>2, <2>3 DEF Replies
  <2>5. ASSUME v.message.action = "counter", floor <= ceil
        PROVE  v.bp >= floor
    <3>1. /\ price > ceil
          /\ v.bp = s.bp \/ v.bp = MinOf(ceil, (s.bp + price) \div 2)
      BY <2>1, <2>4, <2>5 DEF Replies, ceil
    <3>2. m.action # "accept"
      BY <1>6, <1>8, <1>15 DEF SoundAnswer, Notes
    <3>3. Bid(m) < floor => price = floor
      BY <1>6, <1>8, <1>11, <1>15, <3>2 DEF SoundAnswer, Notes
    <3>4. s.bp \in Int /\ s.bp >= floor
      BY <1>5, <1>6, <1>11, <2>5, <3>1, <3>2, <3>3
    <3>5. (s.bp + price) \div 2 \in Int /\ (s.bp + price) \div 2 >= floor
      BY <1>5, <1>6, <1>12, <3>4
    <3>. QED BY <1>5, <2>5, <3>1, <3>4, <3>5 DEF MinOf
  <2>. QED BY <2>4, <2>5
<1>. QED BY <1>6, <1>8, <1>13, <1>14, <1>15 DEF Statuses, Notes

LEMMA AnswerFaithful ==
  ASSUME BuyerIInv, NEW c \in Buyers, buyer[c].phase = "negotiate",
         NEW id, NEW neg, NEW after, NEW answer, Handled(c, id, neg, after, answer),
         NEW v, v = AfterAnswer(c, buyer[c], answer), brief' = brief
  PROVE  Faithful(c, v)'
<1>. DEFINE price == answer.round.seller_price
<1>1. PICK s : s = buyer[c]
  OBVIOUS
<1>2. InTalks(s) /\ s.phase = "negotiate"
  BY <1>1 DEF InTalks
<1>3. /\ Faithful(c, s) /\ s.quote # 0 /\ s.quote \in DOMAIN quotes /\ s.quote \in 1..MaxMinted
      /\ s.deal = 0 /\ s.replay_deal = 0
      /\ quotes' = quotes /\ deals' = deals /\ dealsByKey' = dealsByKey
  BY <1>1, <1>2, TalkerFacts DEF Handled
<1>4. /\ answer.round \in RoundRecords /\ answer.negotiation_id = id /\ answer.status = after.status
      /\ negotiations' = Extend(negotiations, id, after)
      /\ negReplay' = Extend(negReplay, s.message.key, answer)
      /\ after.quote_id = s.quote /\ after.rounds = Append(s.rounds, answer.round)
      /\ id \in 1..MaxMinted
  BY <1>1 DEF Handled, Answered
<1>5. id # 0 /\ id \in DOMAIN negotiations' /\ negotiations'[id] = after
  BY <1>4, MintedAssumption DEF Extend
<1>6. /\ Notes(s, v, answer) /\ v.status \in Statuses
      /\ v.effective_cpm \in Int
      /\ v.status = "accepted" => /\ v.phase \in {"book", "done"}
                                  /\ v.effective_cpm = price
                                  /\ v.phase = "book" => Affordable(c, v)
      /\ v.status = "rejected" => v.phase = "done"
  BY <1>1, AnswerTaken
<1>7. v.status = "active" =>
        \E t : /\ t.i = v.i /\ t.quote = v.quote /\ t.negotiation_id = id
               /\ t.must_negotiate = v.must_negotiate /\ t.bp = s.bp
               /\ Replies(c, t, v, price)
               /\ v.phase = "negotiate" => v.i <= MAX_BUYER_ROUNDS
  BY <1>1, AnswerTaken
<1>8. /\ s.rounds \in Seq(RoundRecords) /\ Len(s.rounds) \in Nat
      /\ s.i = Len(s.rounds) + 1 /\ s.i <= MAX_BUYER_ROUNDS /\ MAX_BUYER_ROUNDS \in Nat
  BY <1>2, <1>3, BuyerRoundsAssumption DEF Faithful, Bargaining
<1>9. /\ v.rounds \in Seq(RoundRecords) /\ Len(v.rounds) = Len(s.rounds) + 1
      /\ v.rounds # <<>> /\ Agreed_cpm(v) = price
      /\ v.i = Len(v.rounds) + 1
  <2>1. v.rounds = Append(s.rounds, answer.round) /\ v.i = s.i + 1
    BY <1>6 DEF Notes
  <2>2. /\ v.rounds \in Seq(RoundRecords) /\ Len(v.rounds) = Len(s.rounds) + 1
        /\ v.rounds[Len(s.rounds) + 1] = answer.round
    BY <1>4, <1>8, <2>1, AppendFacts
  <2>3. v.rounds # <<>>
    BY <1>8, <2>2
  <2>. QED BY <1>8, <2>1, <2>2, <2>3 DEF Agreed_cpm
<1>10. v.status = "active" <=> v.phase \in {"negotiate", "walk"}
  BY <1>6, <1>7 DEF Replies, Statuses
<1>11. v.phase \in {"negotiate", "walk", "book", "done"}
  BY <1>6, <1>7 DEF Replies, Statuses
<1>. HIDE DEF price
<1>12. Choosing(c, v)'
  BY <1>3, <1>6, <1>11 DEF Faithful, Choosing, Notes, Same, Phases
<1>13. Bargaining(c, v)'
  BY <1>3, <1>4, <1>5, <1>6, <1>7, <1>8, <1>9, <1>10, <1>11 DEF Bargaining, Notes, Same
<1>14. Talking(c, v)'
  <2>1. SUFFICES ASSUME v.status = "active", v.phase \in {"negotiate", "walk"}
                 PROVE  Talking(c, v)'
    BY <1>10 DEF Talking, InTalks
  <2>2. PICK t : /\ t.i = v.i /\ t.quote = v.quote /\ t.negotiation_id = id
                 /\ Replies(c, t, v, price)
    BY <1>7, <2>1
  <2>3. /\ v.message \in NegotiationMessages /\ v.bp \in Amounts
        /\ v.message.context = [by |-> "negotiation", id |-> v.negotiation_id]
        /\ v.negotiation_id # 0
        /\ v.phase = "walk" =>
             /\ v.message.action = "reject"
             /\ v.message.key \in {NegotiationKey(c, v.quote, 0), NegotiationKey(c, v.quote, v.i)}
        /\ v.phase = "negotiate" =>
             /\ v.message.key = NegotiationKey(c, v.quote, v.i)
             /\ Bids_bp(c, v) \/ Accepts(c, v)
    BY <1>4, <1>5, <1>6, <1>9, <2>2 DEF Replies, Notes, Accepts
  <2>. QED BY <2>1, <2>3 DEF Talking, Bids_bp, Accepts, Agreed_cpm
<1>15. Agreeing(v)'
  BY <1>4, <1>5, <1>6, <1>10 DEF Agreeing, Notes, InTalks
<1>16. Priced(c, v)'
  BY <1>4, <1>5, <1>6, <1>9, <1>10 DEF Priced, Notes, Affordable, Agreed_cpm, Statuses
<1>17. Booked(c, v)'
  BY <1>2, <1>3, <1>6, <1>11 DEF Faithful, Booked, Notes, Same
<1>18. Unused(c, v)'
  <2>1. s.message.key = NegotiationKey(c, s.quote, s.i)
    BY <1>2, <1>3 DEF Faithful, Talking, InTalks
  <2>2. DOMAIN negReplay' = DOMAIN negReplay \cup {NegotiationKey(c, s.quote, s.i)}
    BY <1>4, <2>1 DEF Extend
  <2>3. ASSUME NEW q \in 1..MaxMinted, NEW j \in 0..(MAX_BUYER_ROUNDS + 1),
               q # s.quote \/ j = 0 \/ j >= s.i + 1
        PROVE  NegotiationKey(c, q, j) \notin DOMAIN negReplay'
    <3>1. NegotiationKey(c, q, j) \notin DOMAIN negReplay
      BY <1>2, <1>3, <1>8, <2>3 DEF Faithful, Unused
    <3>2. NegotiationKey(c, q, j) # NegotiationKey(c, s.quote, s.i)
      BY <1>8, <2>3 DEF NegotiationKey
    <3>. QED BY <2>2, <3>1, <3>2
  <2>. QED BY <1>6, <2>3 DEF Unused, Notes, Same
<1>19. Settling(c, v)'
  BY RoundSettles
<1>. QED BY <1>12, <1>13, <1>14, <1>15, <1>16, <1>17, <1>18, <1>19 DEF Faithful

LEMMA SendRoundKeeps ==
  ASSUME BuyerIInv, NEW c \in Buyers, SendRound(c)
  PROVE  BuyerIInv'
<1>1. /\ buyer[c].phase = "negotiate" /\ InTalks(buyer[c])
      /\ HandleNegotiation(buyer[c].message)
      /\ buyer' = [buyer EXCEPT ![c] = AfterAnswer(c, buyer[c], reply')]
      /\ brief' = brief /\ ceiling' = ceiling
  BY DEF SendRound, InTalks
<1>2. PICK id, neg, after, answer : Handled(c, id, neg, after, answer)
  BY <1>1, MessageHandled
<1>3. PICK v : v = AfterAnswer(c, buyer[c], answer)
  OBVIOUS
<1>4. reply' = answer /\ answer.negotiation_id = id
  BY <1>2 DEF Handled, Answered
<1>5. buyer' = [buyer EXCEPT ![c] = v]
  BY <1>1, <1>3, <1>4
<1>6. /\ v.candidates = buyer[c].candidates /\ v.negotiation_id = id
      /\ v.deal = buyer[c].deal
  BY <1>1, <1>2, <1>3, <1>4, AnswerTaken DEF Notes, Same
<1>7. Faithful(c, v)'
  BY <1>1, <1>2, <1>3, AnswerFaithful
<1>. QED BY <1>1, <1>2, <1>5, <1>6, <1>7, TalkKeeps

-----------------------------------------------------------------------------
(* The buyer's own last word                                               *)

LEMMA WalkAwayFaithful ==
  ASSUME BuyerIInv, NEW c \in Buyers, buyer[c].phase = "walk",
         NEW id, NEW neg, NEW after, NEW answer, Handled(c, id, neg, after, answer),
         NEW v, v = WalksAway([buyer[c] EXCEPT !.status = "rejected"], "negotiation"),
         brief' = brief
  PROVE  Faithful(c, v)' /\ Same(buyer[c], v) /\ v.negotiation_id = id
<1>1. PICK s : s = buyer[c]
  OBVIOUS
<1>2. InTalks(s) /\ s.phase = "walk"
  BY <1>1 DEF InTalks
<1>3. /\ Faithful(c, s) /\ DOMAIN s = BuyerFields
      /\ s.quote # 0 /\ s.quote \in DOMAIN quotes /\ s.quote \in 1..MaxMinted
      /\ s.deal = 0 /\ s.replay_deal = 0
      /\ quotes' = quotes /\ deals' = deals /\ dealsByKey' = dealsByKey
  BY <1>1, <1>2, TalkerFacts DEF Handled
<1>4. /\ s.message.action = "reject" /\ s.negotiation_id # 0
  BY <1>2, <1>3 DEF Faithful, Talking, InTalks
<1>5. /\ answer.round \in RoundRecords
      /\ negotiations' = Extend(negotiations, id, after)
      /\ after.quote_id = s.quote /\ after.rounds = Append(s.rounds, answer.round)
      /\ after.status = "rejected" /\ answer.round.action = "reject"
      /\ id = s.negotiation_id
  BY <1>1, <1>4 DEF Handled, Answered, SoundAnswer
<1>6. id \in DOMAIN negotiations' /\ negotiations'[id] = after
  BY <1>5 DEF Extend
<1>7. /\ Same(s, v) /\ v.phase = "done" /\ v.status = "rejected"
      /\ v.i = s.i /\ v.rounds = s.rounds /\ v.negotiation_id = s.negotiation_id
      /\ v.effective_cpm = s.effective_cpm
  BY <1>1, <1>3 DEF WalksAway, Same, BuyerFields
<1>8. s.rounds \in Seq(RoundRecords)
  BY <1>3 DEF Faithful, Bargaining
<1>9. LastRound(after) = answer.round
  BY <1>5, <1>8, AppendFacts DEF LastRound
<1>10. Choosing(c, v)'
  BY <1>3, <1>7 DEF Faithful, Choosing, Same, Phases
<1>11. Bargaining(c, v)'
  BY <1>3, <1>5, <1>6, <1>7 DEF Faithful, Bargaining, Same
<1>12. Talking(c, v)'
  BY <1>7 DEF Talking, InTalks
<1>13. Agreeing(v)'
  <2>1. LastRound(negotiations[id])' = answer.round
    BY <1>6, <1>9 DEF LastRound
  <2>. QED BY <1>5, <1>6, <1>7, <1>9, <2>1 DEF Agreeing, InTalks
<1>14. Priced(c, v)'
  BY <1>3, <1>7 DEF Faithful, Priced
<1>15. Booked(c, v)'
  BY <1>3, <1>7 DEF Booked, Same
<1>16. Unused(c, v)'
  BY <1>7 DEF Unused
<1>17. Settling(c, v)'
  BY <1>2, <1>3, <1>7 DEF Faithful, Settling, Same
<1>. QED BY <1>1, <1>5, <1>7, <1>10, <1>11, <1>12, <1>13, <1>14, <1>15, <1>16, <1>17 DEF Faithful

LEMMA SendWalkAwayKeeps ==
  ASSUME BuyerIInv, NEW c \in Buyers, SendWalkAway(c)
  PROVE  BuyerIInv'
<1>. DEFINE v == WalksAway([buyer[c] EXCEPT !.status = "rejected"], "negotiation")
<1>1. /\ buyer[c].phase = "walk" /\ InTalks(buyer[c])
      /\ HandleNegotiation(buyer[c].message)
      /\ buyer' = [buyer EXCEPT ![c] = v]
      /\ brief' = brief /\ ceiling' = ceiling
  BY DEF SendWalkAway, InTalks
<1>. HIDE DEF v
<1>2. PICK id, neg, after, answer : Handled(c, id, neg, after, answer)
  BY <1>1, MessageHandled
<1>3. PICK w : w = v
  OBVIOUS
<1>4. Faithful(c, w)' /\ Same(buyer[c], w) /\ w.negotiation_id = id
  BY <1>1, <1>2, <1>3, WalkAwayFaithful DEF v
<1>. QED BY <1>1, <1>2, <1>3, <1>4, TalkKeeps DEF Same

-----------------------------------------------------------------------------
(* Choosing a quote                                                        *)

(* A step of a buyer that leaves the sellers' records alone.               *)
LEMMA QuietStepKeeps ==
  ASSUME BuyerIInv, NEW c \in Buyers, UNCHANGED <<record, brief, ceiling>>,
         NEW v, buyer' = [buyer EXCEPT ![c] = v],
         v.candidates = buyer[c].candidates,
         v.negotiation_id = buyer[c].negotiation_id, v.deal = buyer[c].deal,
         Faithful(c, v)'
  PROVE  BuyerIInv'
<1>1. /\ DOMAIN buyer' = Buyers /\ buyer'[c] = v
      /\ \A b \in Buyers \ {c} : buyer'[b] = buyer[b]
  BY BuyerBecomes DEF BuyerIInv, Given
<1>2. UNCHANGED <<quotes, negotiations, negReplay, deals, dealsByKey>>
  BY DEF record
<1>3. Elsewhere(c)
  BY <1>1, <1>2 DEF Elsewhere
<1>4. IInv'
  BY SameRecord DEF BuyerIInv
<1>. QED BY <1>1, <1>2, <1>3, <1>4, StepKeeps

LEMMA DiscovererFacts ==
  ASSUME BuyerIInv, NEW c \in Buyers, buyer[c].phase = "discover"
  PROVE  LET s == buyer[c]
         IN  /\ DOMAIN s = BuyerFields /\ s.quote = 0 /\ s.negotiation_id = 0
             /\ s.rounds = <<>> /\ s.i = 1 /\ s.status = "active"
             /\ s.deal = 0 /\ s.replay_deal = 0 /\ ~s.must_negotiate
             /\ s.effective_cpm \in Int
<1>1. Choosing(c, buyer[c]) /\ Bargaining(c, buyer[c]) /\ Booked(c, buyer[c])
      /\ Priced(c, buyer[c])
  BY DEF BuyerIInv, Faithful
<1>2. /\ DOMAIN buyer[c] = BuyerFields /\ buyer[c].quote = 0 /\ buyer[c].negotiation_id = 0
      /\ buyer[c].status = "active" /\ ~buyer[c].must_negotiate
  BY <1>1 DEF Choosing
<1>3. buyer[c].rounds = <<>> /\ buyer[c].i = 1
  BY <1>1, <1>2 DEF Bargaining
<1>4. buyer[c].deal = 0 /\ buyer[c].replay_deal = 0
  BY <1>1 DEF Booked
<1>. QED BY <1>1, <1>2, <1>3, <1>4 DEF Priced

(* The quote a buyer has chosen, before it negotiates or checks it.        *)
Chose(c, q, s) ==
  /\ Same([buyer[c] EXCEPT !.quote = q,
                           !.must_negotiate = quotes[q].final_cpm > brief[c].max_cpm], s)
  /\ s.i = 1 /\ s.negotiation_id = 0 /\ s.rounds = <<>> /\ s.status = "active"
  /\ s.effective_cpm = quotes[q].final_cpm

LEMMA ChoseFaithful ==
  ASSUME BuyerIInv, NEW c \in Buyers, buyer[c].phase = "discover",
         NEW k \in DOMAIN buyer[c].candidates, NEW q, q = buyer[c].candidates[k],
         NEW v, Chose(c, q, v), v.phase \in {"negotiate", "book", "done"},
         v.phase = "negotiate" =>
           /\ v.message \in NegotiationMessages /\ v.bp \in Amounts
           /\ v.message.context = [by |-> "quote", id |-> q]
           /\ v.message.key = NegotiationKey(c, q, 1)
           /\ Bids_bp(c, v),
         v.phase # "negotiate" => ~v.must_negotiate,
         v.phase = "book" => Affordable(c, v)
  PROVE  Faithful(c, v)
<1>1. PICK s : s = buyer[c]
  OBVIOUS
<1>2. /\ Faithful(c, s) /\ s.phase = "discover" /\ DOMAIN s = BuyerFields /\ s.quote = 0
      /\ s.deal = 0 /\ s.replay_deal = 0
      /\ s.candidates \in Seq(DOMAIN quotes) /\ s.asked \in 0..Len(Catalogs)
  BY <1>1, DiscovererFacts DEF BuyerIInv, Faithful, Choosing
<1>3. q \in DOMAIN quotes /\ q \in 1..MaxMinted /\ q # 0 /\ Quoted
  BY <1>1, <1>2, QuoteIds DEF BuyerIInv, IInv
<1>4. quotes[q].final_cpm \in Int
  BY <1>3 DEF Quoted, QuoteRecords
<1>5. /\ DOMAIN v = BuyerFields /\ v.asked = s.asked /\ v.candidates = s.candidates
      /\ v.quote = q /\ v.must_negotiate = (quotes[q].final_cpm > brief[c].max_cpm)
      /\ v.deal = 0 /\ v.replay_deal = 0
      /\ v.i = 1 /\ v.negotiation_id = 0 /\ v.rounds = <<>> /\ v.status = "active"
      /\ v.effective_cpm = quotes[q].final_cpm
  BY <1>1, <1>2 DEF Chose, Same, BuyerFields
<1>6. Choosing(c, v)
  <2>1. \E l \in DOMAIN v.candidates : v.candidates[l] = v.quote
    BY <1>1, <1>5
  <2>2. /\ v.must_negotiate \in BOOLEAN
        /\ v.must_negotiate <=> quotes[v.quote].final_cpm > brief[c].max_cpm
    <3>1. brief[c].max_cpm \in Int
      BY BriefFacts, Ceilinged
    <3>2. (quotes[q].final_cpm > brief[c].max_cpm) \in BOOLEAN
      BY <1>4, <3>1
    <3>. QED BY <1>5, <3>2, Zenon
  <2>. QED BY <1>2, <1>3, <1>5, <2>1, <2>2 DEF Choosing, Phases
<1>7. Bargaining(c, v)
  BY <1>5, BuyerRoundsAssumption DEF Bargaining
<1>8. Talking(c, v)
  BY <1>5 DEF Talking, InTalks
<1>9. Agreeing(v)
  BY <1>5 DEF Agreeing
<1>10. Priced(c, v)
  BY <1>4, <1>5 DEF Priced
<1>11. Booked(c, v)
  BY <1>2, <1>5 DEF Faithful, Booked
<1>12. Unused(c, v)
  BY <1>2, <1>5 DEF Faithful, Unused
<1>13. Settling(c, v)
  BY <1>5 DEF Settling
<1>. QED BY <1>6, <1>7, <1>8, <1>9, <1>10, <1>11, <1>12, <1>13 DEF Faithful

(* The opening bid is an amount, and no forced one is above the ceiling.   *)
LEMMA OpeningFacts ==
  ASSUME Quoted, NEW c, brief[c] \in Briefs, NEW s, s.quote \in DOMAIN quotes,
         s.must_negotiate = (quotes[s.quote].final_cpm > brief[c].max_cpm)
  PROVE  /\ Opening(c, s) \in Amounts
         /\ s.must_negotiate => Opening(c, s) <= brief[c].max_cpm
<1>. DEFINE final == quotes[s.quote].final_cpm
            counter == brief[c].counter_cpm
            ceil == brief[c].max_cpm
<1>1. /\ MaxAmount \in Nat /\ ceil \in Int /\ ceil \in Amounts /\ ceil <= MaxAmount
  BY Ceilinged
<1>2. counter \in Amounts \cup {NoCounter} /\ NoCounter \notin Amounts
  BY BriefAssumption
<1>3. final \in Int /\ final >= -MaxAmount
  <2>1. /\ final \in Int /\ quotes[s.quote].product \in Products
        /\ final >= Floor[quotes[s.quote].product]
    BY DEF Quoted, QuoteRecords
  <2>2. Floor[quotes[s.quote].product] \in Amounts
    BY <2>1, BriefAssumption
  <2>. QED BY <1>1, <2>1, <2>2 DEF Amounts
<1>8. s.must_negotiate <=> final > ceil
  OBVIOUS
<1>. HIDE DEF final, counter, ceil
<1>4. CASE s.must_negotiate /\ counter = NoCounter
  BY <1>1, <1>4 DEF Opening, counter, ceil
<1>5. CASE s.must_negotiate /\ counter # NoCounter
  <2>1. Opening(c, s) = MinOf(counter, ceil)
    BY <1>5 DEF Opening, counter, ceil
  <2>. QED BY <1>1, <1>2, <1>5, <2>1 DEF MinOf, Amounts, ceil
<1>6. CASE ~s.must_negotiate /\ counter = NoCounter
  <2>1. Opening(c, s) = (final * 85) \div 100
    BY <1>6 DEF Opening, counter, final
  <2>2. final <= ceil
    BY <1>1, <1>3, <1>6, <1>8
  <2>. QED BY <1>1, <1>3, <1>6, <2>1, <2>2 DEF Amounts
<1>7. CASE ~s.must_negotiate /\ counter # NoCounter
  BY <1>2, <1>7 DEF Opening, counter
<1>. QED BY <1>4, <1>5, <1>6, <1>7

LEMMA ChooseQuoteKeeps ==
  ASSUME BuyerIInv, NEW c \in Buyers, ChooseQuote(c)
  PROVE  BuyerIInv'
<1>1. PICK s : s = buyer[c]
  OBVIOUS
<1>2. /\ buyer[c].phase = "discover" /\ UNCHANGED <<record, brief, ceiling>>
      /\ UNCHANGED <<quotes, negotiations, negReplay, deals, dealsByKey>>
  BY DEF ChooseQuote, vars, record
<1>3. /\ DOMAIN s = BuyerFields /\ s.quote = 0 /\ s.negotiation_id = 0
      /\ s.rounds = <<>> /\ s.i = 1 /\ s.status = "active"
      /\ s.deal = 0 /\ s.replay_deal = 0 /\ ~s.must_negotiate
      /\ s.effective_cpm \in Int
  BY <1>1, <1>2, DiscovererFacts
<1>4. Faithful(c, s) /\ Quoted /\ brief[c] \in Briefs
  BY <1>1, BriefFacts DEF BuyerIInv, IInv
<1>5. CASE buyer' = [buyer EXCEPT ![c] = WalksAway(@, "no affordable quote")]
  <2>1. PICK v : v = WalksAway(s, "no affordable quote")
    OBVIOUS
  <2>2. buyer' = [buyer EXCEPT ![c] = v]
    BY <1>1, <1>5, <2>1
  <2>3. Kept(s, v) /\ v.phase = "done"
    BY <1>3, <2>1 DEF WalksAway, Kept, Same, BuyerFields
  <2>4. Choosing(c, v)'
    BY <1>2, <1>3, <1>4, <2>3 DEF Faithful, Choosing, Kept, Same, Phases
  <2>5. /\ Bargaining(c, v)' /\ Talking(c, v)' /\ Agreeing(v)' /\ Priced(c, v)'
        /\ Booked(c, v)' /\ Unused(c, v)' /\ Settling(c, v)'
    BY <1>2, <1>3, <1>4, <2>3
       DEF Faithful, Bargaining, Talking, InTalks, Agreeing, Priced, Booked, Unused,
           Settling, Kept, Same
  <2>. QED BY <1>1, <1>2, <2>2, <2>3, <2>4, <2>5, QuietStepKeeps DEF Faithful, Kept, Same
<1>6. ASSUME NEW k \in DOMAIN s.candidates, NEW q, q = s.candidates[k],
             NEW must, must = (quotes[q].final_cpm > brief[c].max_cpm),
             NEW t, t = [s EXCEPT !.quote = q, !.must_negotiate = must,
                                  !.effective_cpm = quotes[q].final_cpm],
             NEW v, v = IF brief[c].negotiate \/ must THEN StartNegotiation(c, t)
                        ELSE Guarded(c, t),
             buyer' = [buyer EXCEPT ![c] = v]
      PROVE  BuyerIInv'
  <2>1. q \in DOMAIN quotes /\ q \in 1..MaxMinted
    BY <1>4, <1>6, QuoteIds DEF Faithful, Choosing
  <2>2. quotes[q].final_cpm \in Int
    BY <1>4, <2>1 DEF Quoted, QuoteRecords
  <2>3. /\ Chose(c, q, t) /\ t.quote = q /\ DOMAIN t = BuyerFields /\ t.must_negotiate = must
    BY <1>1, <1>3, <1>6 DEF Chose, Same, BuyerFields
  <2>4. /\ Chose(c, q, v) /\ v.phase \in {"negotiate", "book", "done"}
        /\ v.phase = "negotiate" =>
             /\ v.message \in NegotiationMessages /\ v.bp \in Amounts
             /\ v.message.context = [by |-> "quote", id |-> q]
             /\ v.message.key = NegotiationKey(c, q, 1)
             /\ Bids_bp(c, v)
        /\ v.phase # "negotiate" => ~v.must_negotiate
        /\ v.phase = "book" => Affordable(c, v)
    <3>1. CASE brief[c].negotiate \/ must
      <4>. DEFINE bp == Opening(c, t)
                  context == [by |-> "quote", id |-> t.quote]
                  m == CounterMessage(c, t, context, bp)
      <4>1. bp \in Amounts /\ (must => bp <= brief[c].max_cpm)
        BY <1>4, <1>6, <2>1, <2>3, OpeningFacts
      <4>2. context \in Contexts
        BY <2>1, <2>3 DEF Contexts
      <4>3. t.i = 1 /\ 1 \in 0..(MAX_BUYER_ROUNDS + 1)
        BY <2>3, BuyerRoundsAssumption DEF Chose
      <4>. HIDE DEF bp, context
      <4>4. /\ m \in NegotiationMessages
            /\ m.key = NegotiationKey(c, t.quote, t.i) /\ m.action = "counter"
            /\ m.context = context /\ m.buyer_price.amount = bp
        BY <1>4, <2>1, <2>3, <4>1, <4>2, <4>3, CounterAllowed
      <4>5. v = [t EXCEPT !.phase = "negotiate", !.bp = bp, !.message = m]
        BY <1>6, <3>1 DEF StartNegotiation, bp, context
      <4>. HIDE DEF m
      <4>6. Kept(t, v) /\ v.phase = "negotiate" /\ v.bp = bp /\ v.message = m
        BY <2>3, <4>5 DEF Kept, Same, BuyerFields
      <4>. QED BY <2>3, <4>1, <4>3, <4>4, <4>6 DEF Chose, Kept, Same, Bids_bp, context
    <3>2. CASE ~(brief[c].negotiate \/ must)
      <4>1. v = Guarded(c, t) /\ t.effective_cpm \in Int
        BY <1>6, <2>2, <2>3, <3>2 DEF Chose
      <4>2. /\ Kept(t, v) /\ v.phase \in {"book", "done"}
            /\ v.phase = "book" => Affordable(c, v)
        BY <1>4, <2>3, <4>1, GuardedFacts DEF Kept
      <4>. QED BY <2>3, <3>2, <4>2 DEF Chose, Kept, Same
    <3>. QED BY <3>1, <3>2
  <2>5. Faithful(c, v)
    BY <1>1, <1>2, <1>6, <2>4, ChoseFaithful
  <2>6. Faithful(c, v)'
    BY <1>2, <2>5 DEF Faithful, Choosing, Bargaining, Talking, InTalks, Bids_bp, Accepts,
                      Agreed_cpm, Agreeing, LastRound, Priced, Affordable, Booked, Unused,
                      Settling, WithinReach
  <2>7. /\ v.candidates = s.candidates /\ v.negotiation_id = 0 /\ v.deal = s.deal
    BY <1>1, <1>3, <2>4 DEF Chose, Same, BuyerFields
  <2>. QED BY <1>1, <1>2, <1>3, <1>6, <2>6, <2>7, QuietStepKeeps
<1>7. CASE \E k \in DOMAIN s.candidates :
             LET q == s.candidates[k]
                 must == quotes[q].final_cpm > brief[c].max_cpm
                 t == [s EXCEPT !.quote = q, !.must_negotiate = must,
                                !.effective_cpm = quotes[q].final_cpm]
             IN  buyer' = [buyer EXCEPT ![c] =
                             IF brief[c].negotiate \/ must
                             THEN StartNegotiation(c, t) ELSE Guarded(c, t)]
  BY <1>6, <1>7
<1>8. \/ buyer' = [buyer EXCEPT ![c] = WalksAway(@, "no affordable quote")]
      \/ \E k \in DOMAIN s.candidates :
           LET q == s.candidates[k]
               must == quotes[q].final_cpm > brief[c].max_cpm
               t == [s EXCEPT !.quote = q, !.must_negotiate = must,
                              !.effective_cpm = quotes[q].final_cpm]
           IN  buyer' = [buyer EXCEPT ![c] =
                           IF brief[c].negotiate \/ must
                           THEN StartNegotiation(c, t) ELSE Guarded(c, t)]
  BY <1>1, Zenon DEF ChooseQuote
<1>. QED BY <1>5, <1>7, <1>8

-----------------------------------------------------------------------------
(* Booking                                                                 *)

(* The seller books at the price the buyer's guardrails were checked at.   *)
LEMMA BookedAtChecked ==
  ASSUME BuyerIInv, NEW c \in Buyers, buyer[c].phase = "book"
  PROVE  BookingPrice(buyer[c].quote).amount = buyer[c].effective_cpm
<1>1. PICK s : s = buyer[c]
  OBVIOUS
<1>2. Faithful(c, s) /\ s.phase = "book" /\ s.quote # 0 /\ IInv
  BY <1>1 DEF BuyerIInv, Faithful, Choosing
<1>3. CASE s.negotiation_id = 0
  <2>1. s.quote \notin DOMAIN negByQuote
    BY <1>1, <1>2, <1>3, FreshQuote
  <2>2. s.effective_cpm = quotes[s.quote].final_cpm
    BY <1>2, <1>3 DEF Faithful, Priced
  <2>. QED BY <1>1, <2>1, <2>2 DEF BookingPrice, Price
<1>4. CASE s.negotiation_id # 0
  <2>. DEFINE id == s.negotiation_id
  <2>1. /\ id \in DOMAIN negotiations /\ negotiations[id].quote_id = s.quote
        /\ s.rounds # <<>> /\ s.effective_cpm = Agreed_cpm(s) /\ s.status = "accepted"
    BY <1>2, <1>4 DEF Faithful, Bargaining, Priced
  <2>2. negotiations[id].rounds = s.rounds /\ negotiations[id].status = "accepted"
    BY <1>2, <1>4, <2>1 DEF Faithful, Agreeing
  <2>3. s.quote \in DOMAIN negByQuote /\ negByQuote[s.quote] = id
    BY <1>2, <2>1 DEF IInv, Linked, OneNegotiationPerQuote
  <2>. HIDE DEF id
  <2>4. BookingPrice(s.quote).amount = LastRound(negotiations[id]).seller_price
    BY <2>1, <2>2, <2>3 DEF BookingPrice, IsAccepted, Price
  <2>. QED BY <1>1, <2>1, <2>2, <2>4 DEF LastRound, Agreed_cpm
<1>. QED BY <1>3, <1>4

LEMMA SendBookingKeeps ==
  ASSUME BuyerIInv, NEW c \in Buyers, SendBooking(c)
  PROVE  BuyerIInv'
<1>1. PICK s : s = buyer[c]
  OBVIOUS
<1>2. PICK r : r = BookingRequest(c)
  OBVIOUS
<1>3. /\ s.phase = "book" /\ BookDeal(r, ceiling[c])
      /\ brief' = brief /\ ceiling' = ceiling
  BY <1>1, <1>2 DEF SendBooking
<1>4. /\ Faithful(c, s) /\ DOMAIN s = BuyerFields /\ IInv /\ Quoted
      /\ s.quote # 0 /\ s.quote \in DOMAIN quotes /\ s.quote \in 1..MaxMinted
  BY <1>1, <1>3, ChosenIsQuote, QuoteIds DEF BuyerIInv, IInv, Faithful, Choosing
<1>5. /\ r.key = BookingKey(c, s.quote) /\ r.quote_id = s.quote
      /\ r.key \in Keys /\ r.key \notin DOMAIN dealsByKey
  <2>1. r.key = BookingKey(c, s.quote) /\ r.quote_id = s.quote
    BY <1>1, <1>2 DEF BookingRequest
  <2>2. BookingKey(c, s.quote) \in Keys
    BY <1>4, KeysAssumption, BuyerRoundsAssumption DEF BookingKey
  <2>. QED BY <1>3, <1>4, <2>1, <2>2 DEF Faithful, Booked
<1>6. Book(r, ceiling[c])
  BY <1>3, <1>4, <1>5 DEF BookDeal, ReplayBooking, RefuseBooking
<1>7. IInv'
  BY <1>4, <1>5, <1>6, CeilingIsTier, BookKeeps
<1>. DEFINE id == n + 1
<1>8. PICK deal : /\ deal.quote_id = s.quote
                  /\ deal.price.amount = s.effective_cpm
                  /\ deals' = Extend(deals, id, deal)
  BY <1>1, <1>3, <1>5, <1>6, BookedAtChecked DEF Book
<1>9. /\ dealsByKey' = Extend(dealsByKey, BookingKey(c, s.quote), id)
      /\ reply'.kind = "deal" /\ reply'.deal_id = id
      /\ quotes' = quotes /\ negotiations' = negotiations /\ negReplay' = negReplay
  BY <1>5, <1>6 DEF Book, BookedReply
<1>10. id # 0 /\ id \notin DOMAIN deals
  BY <1>4 DEF IInv, Quoted, Dealt
<1>. HIDE DEF id
<1>11. PICK next \in {"rebook", "done"} :
         next = IF brief[c].double_book THEN "rebook" ELSE "done"
  OBVIOUS
<1>12. PICK v : v = [s EXCEPT !.deal = id, !.phase = next]
  OBVIOUS
<1>13. buyer' = [buyer EXCEPT ![c] = v]
  BY <1>1, <1>9, <1>11, <1>12 DEF SendBooking
<1>14. /\ DOMAIN buyer' = Buyers /\ buyer'[c] = v
       /\ \A b \in Buyers \ {c} : buyer'[b] = buyer[b]
  BY <1>13, BuyerBecomes DEF BuyerIInv, Given
<1>15. /\ DOMAIN v = BuyerFields /\ v.asked = s.asked /\ v.candidates = s.candidates
       /\ v.quote = s.quote /\ v.must_negotiate = s.must_negotiate
       /\ v.i = s.i /\ v.rounds = s.rounds /\ v.status = s.status
       /\ v.negotiation_id = s.negotiation_id /\ v.effective_cpm = s.effective_cpm
       /\ v.replay_deal = s.replay_deal
       /\ v.deal = id /\ v.phase = next
  BY <1>4, <1>12 DEF BuyerFields
<1>16. s.deal = 0 /\ s.replay_deal = 0 /\ Affordable(c, s)
  BY <1>3, <1>4 DEF Faithful, Booked, Priced
<1>17. /\ DOMAIN deals' = DOMAIN deals \cup {id} /\ deals'[id] = deal
       /\ \A d \in DOMAIN deals : deals'[d] = deals[d]
  BY <1>8, <1>10 DEF Extend
<1>18. /\ DOMAIN dealsByKey' = DOMAIN dealsByKey \cup {BookingKey(c, s.quote)}
       /\ dealsByKey'[BookingKey(c, s.quote)] = id
       /\ \A k \in DOMAIN dealsByKey :
            k # BookingKey(c, s.quote) => dealsByKey'[k] = dealsByKey[k]
  BY <1>9 DEF Extend
<1>19. Choosing(c, v)'
  BY <1>3, <1>4, <1>9, <1>11, <1>15 DEF Faithful, Choosing, Phases
<1>20. Bargaining(c, v)' /\ Talking(c, v)' /\ Agreeing(v)'
  BY <1>3, <1>4, <1>9, <1>11, <1>15
     DEF Faithful, Bargaining, Talking, InTalks, Agreeing, LastRound
<1>21. Priced(c, v)'
  BY <1>4, <1>11, <1>15 DEF Faithful, Priced
<1>22. Booked(c, v)'
  BY <1>3, <1>8, <1>10, <1>11, <1>15, <1>16, <1>17, <1>18 DEF Booked, Affordable
<1>23. Unused(c, v)' /\ Settling(c, v)'
  BY <1>3, <1>4, <1>9, <1>11, <1>15 DEF Faithful, Unused, Settling, WithinReach
<1>24. Faithful(c, buyer[c])'
  BY <1>14, <1>19, <1>20, <1>21, <1>22, <1>23 DEF Faithful
<1>25. Elsewhere(c)
  <2>1. \A b \in Buyers \ {c} : \A q : BookingKey(b, q) # BookingKey(c, s.quote)
    BY DEF BookingKey
  <2>. QED BY <1>3, <1>9, <1>14, <1>17, <1>18, <2>1 DEF Elsewhere
<1>. QED BY <1>1, <1>7, <1>9, <1>14, <1>15, <1>16, <1>17, <1>24, <1>25, StepKeeps

(* The second booking is answered from the first.                          *)
LEMMA SendBookingAgainKeeps ==
  ASSUME BuyerIInv, NEW c \in Buyers, SendBookingAgain(c)
  PROVE  BuyerIInv'
<1>1. PICK s : s = buyer[c]
  OBVIOUS
<1>2. PICK r : r = BookingRequest(c)
  OBVIOUS
<1>3. /\ s.phase = "rebook" /\ BookDeal(r, ceiling[c])
      /\ brief' = brief /\ ceiling' = ceiling
  BY <1>1, <1>2 DEF SendBookingAgain
<1>4. Faithful(c, s) /\ DOMAIN s = BuyerFields
  BY <1>1 DEF BuyerIInv, Faithful, Choosing
<1>5. /\ r.key = BookingKey(c, s.quote)
      /\ r.key \in DOMAIN dealsByKey /\ dealsByKey[r.key] = s.deal
  BY <1>1, <1>2, <1>3, <1>4 DEF BookingRequest, Faithful, Booked
<1>6. ReplayBooking(r)
  BY <1>3, <1>5 DEF BookDeal, RefuseBooking, Book
<1>7. /\ UNCHANGED record /\ reply'.kind = "deal" /\ reply'.deal_id = s.deal
      /\ UNCHANGED <<quotes, negotiations, negReplay, deals, dealsByKey>>
  BY <1>5, <1>6 DEF ReplayBooking, BookedReply, record
<1>8. PICK v : v = [s EXCEPT !.phase = "done", !.replay_deal = s.deal]
  OBVIOUS
<1>9. buyer' = [buyer EXCEPT ![c] = v]
  <2>1. buyer' = [buyer EXCEPT ![c] = [s EXCEPT !.phase = "done",
                                                !.replay_deal = reply'.deal_id]]
    BY <1>1, <1>7 DEF SendBookingAgain
  <2>. QED BY <1>7, <1>8, <2>1
<1>10. /\ DOMAIN v = BuyerFields /\ v.asked = s.asked /\ v.candidates = s.candidates
       /\ v.quote = s.quote /\ v.must_negotiate = s.must_negotiate
       /\ v.i = s.i /\ v.rounds = s.rounds /\ v.status = s.status
       /\ v.negotiation_id = s.negotiation_id /\ v.effective_cpm = s.effective_cpm
       /\ v.deal = s.deal /\ v.replay_deal = s.deal /\ v.phase = "done"
  BY <1>4, <1>8 DEF BuyerFields
<1>11. Choosing(c, v)'
  BY <1>3, <1>4, <1>7, <1>10 DEF Faithful, Choosing, Phases
<1>12. Bargaining(c, v)' /\ Talking(c, v)' /\ Agreeing(v)'
  BY <1>3, <1>4, <1>7, <1>10
     DEF Faithful, Bargaining, Talking, InTalks, Agreeing, LastRound
<1>13. Priced(c, v)' /\ Booked(c, v)'
  BY <1>3, <1>4, <1>7, <1>10 DEF Faithful, Priced, Booked, Affordable
<1>14. Unused(c, v)' /\ Settling(c, v)'
  BY <1>3, <1>4, <1>7, <1>10 DEF Faithful, Unused, Settling, WithinReach
<1>15. Faithful(c, v)'
  BY <1>11, <1>12, <1>13, <1>14 DEF Faithful
<1>. QED BY <1>1, <1>3, <1>7, <1>9, <1>10, <1>15, QuietStepKeeps

-----------------------------------------------------------------------------
(* The whole scenario                                                      *)

LEMMA InitBuyerIInv == BInit => BuyerIInv
<1>. SUFFICES ASSUME BInit PROVE BuyerIInv
  OBVIOUS
<1>1. IInv
  BY InitIInv DEF BInit
<1>2. Given
  BY DEF BInit, Given
<1>3. /\ DOMAIN quotes = {} /\ DOMAIN negotiations = {} /\ DOMAIN negReplay = {}
      /\ DOMAIN deals = {} /\ DOMAIN dealsByKey = {}
  BY DEF BInit, Init
<1>4. ASSUME NEW b \in Buyers
      PROVE  Faithful(b, buyer[b])
  <2>1. PICK s : s = Started
    OBVIOUS
  <2>2. /\ DOMAIN s = BuyerFields /\ s.phase = "discover" /\ s.asked = 0
        /\ s.candidates = <<>> /\ s.quote = 0 /\ s.must_negotiate = FALSE /\ s.i = 1
        /\ s.negotiation_id = 0 /\ s.rounds = <<>> /\ s.status = "active"
        /\ s.effective_cpm = 0 /\ s.deal = 0 /\ s.replay_deal = 0
    BY <2>1 DEF Started, BuyerFields
  <2>3. Len(Catalogs) \in Nat /\ MAX_BUYER_ROUNDS \in Nat \ {0}
    BY CatalogsAssumption, BuyerRoundsAssumption
  <2>4. Choosing(b, s)
    <3>1. s.candidates \in Seq(DOMAIN quotes)
      BY <2>2
    <3>2. s.asked \in 0..Len(Catalogs)
      BY <2>2, <2>3
    <3>4. s.must_negotiate \in BOOLEAN /\ ~s.must_negotiate
      BY <2>2, Zenon
    <3>3. s.quote = 0 /\ s.phase = "discover" /\ s.phase \in Phases
      BY <2>2 DEF Phases
    <3>. QED BY <2>2, <3>1, <3>2, <3>3, <3>4 DEF Choosing
  <2>6. Bargaining(b, s)
    <3>1. s.rounds \in Seq(RoundRecords) /\ Len(s.rounds) = 0
      BY <2>2
    <3>. QED BY <2>2, <2>3, <3>1 DEF Bargaining
  <2>7. Talking(b, s) /\ Agreeing(s)
    BY <2>2 DEF Talking, InTalks, Agreeing
  <2>5. Priced(b, s) /\ Booked(b, s) /\ Unused(b, s) /\ Settling(b, s)
    BY <1>3, <2>2 DEF Priced, Booked, Unused, Settling
  <2>. QED BY <2>1, <2>4, <2>5, <2>6, <2>7 DEF BInit, Faithful
<1>5. Apart
  BY DEF BInit, Apart, Started
<1>6. Owned
  BY <1>3 DEF Owned
<1>. QED BY <1>1, <1>2, <1>4, <1>5, <1>6 DEF BuyerIInv

LEMMA StutterKeeps ==
  ASSUME BuyerIInv, UNCHANGED allVars
  PROVE  BuyerIInv'
<1>1. UNCHANGED <<record, brief, ceiling, buyer>>
  BY DEF allVars, vars, record, buyerVars
<1>2. IInv'
  BY <1>1, SameRecord DEF BuyerIInv
<1>3. UNCHANGED <<quotes, negotiations, negReplay, deals, dealsByKey>>
  BY <1>1 DEF record
<1>4. ASSUME NEW b \in Buyers
      PROVE  Faithful(b, buyer[b])'
  BY <1>1, <1>3
     DEF BuyerIInv, Faithful, Choosing, Bargaining, Talking, InTalks, Bids_bp, Accepts,
         Agreed_cpm, Agreeing, LastRound, Priced, Affordable, Booked, Unused,
         Settling, WithinReach
<1>. QED BY <1>1, <1>2, <1>3, <1>4 DEF BuyerIInv, Given, Apart, Owned

LEMMA BNextKeeps == BuyerIInv /\ [BNext]_allVars => BuyerIInv'
<1>. SUFFICES ASSUME BuyerIInv, [BNext]_allVars PROVE BuyerIInv'
  OBVIOUS
<1>1. ASSUME NEW c \in Buyers, Step(c)
      PROVE  BuyerIInv'
  BY <1>1, SkipSellerKeeps, AskSellerKeeps, ChooseQuoteKeeps, SendRoundKeeps,
     SendWalkAwayKeeps, SendBookingKeeps, SendBookingAgainKeeps DEF Step
<1>. QED BY <1>1, StutterKeeps DEF BNext

LEMMA BuyerInductiveInvariant == BSpec => []BuyerIInv
<1>1. BSpec => BInit /\ [][BNext]_allVars
  BY PTL DEF BSpec
<1>. QED BY <1>1, InitBuyerIInv, BNextKeeps, PTL

-----------------------------------------------------------------------------
(* A buyer's local state keeps its shape, every id it holds is a record at *)
(* a seller, and every message it is about to send passes the envelope's   *)
(* validator (transact and _negotiate's local variables).                  *)
THEOREM BuyersAreTyped == BSpec => []BuyerTypeOK
<1>1. BuyerIInv => BuyerTypeOK
  <2>. SUFFICES ASSUME BuyerIInv, NEW b \in Buyers
                PROVE  /\ buyer[b].asked \in 0..Len(Catalogs)
                       /\ {buyer[b].candidates[k] : k \in DOMAIN buyer[b].candidates}
                            \subseteq DOMAIN quotes
                       /\ buyer[b].quote \in DOMAIN quotes \cup {0}
                       /\ buyer[b].i \in 1..(MAX_BUYER_ROUNDS + 1)
                       /\ buyer[b].negotiation_id \in DOMAIN negotiations \cup {0}
                       /\ {buyer[b].deal, buyer[b].replay_deal} \subseteq DOMAIN deals \cup {0}
                       /\ buyer[b].phase \in {"negotiate", "walk"} =>
                            buyer[b].message \in NegotiationMessages
    BY DEF BuyerTypeOK
  <2>1. Choosing(b, buyer[b]) /\ Bargaining(b, buyer[b]) /\ Talking(b, buyer[b])
        /\ Booked(b, buyer[b])
    BY DEF BuyerIInv, Faithful
  <2>2. buyer[b].asked \in 0..Len(Catalogs) /\ buyer[b].candidates \in Seq(DOMAIN quotes)
    BY <2>1 DEF Choosing
  <2>3. {buyer[b].candidates[k] : k \in DOMAIN buyer[b].candidates} \subseteq DOMAIN quotes
    BY <2>2
  <2>4. buyer[b].quote \in DOMAIN quotes \cup {0}
    BY <2>1, ChosenIsQuote
  <2>5. buyer[b].i \in 1..(MAX_BUYER_ROUNDS + 1)
        /\ buyer[b].negotiation_id \in DOMAIN negotiations \cup {0}
    BY <2>1 DEF Bargaining
  <2>6. {buyer[b].deal, buyer[b].replay_deal} \subseteq DOMAIN deals \cup {0}
    BY <2>1 DEF Booked
  <2>7. buyer[b].phase \in {"negotiate", "walk"} => buyer[b].message \in NegotiationMessages
    BY <2>1 DEF Talking, InTalks
  <2>. QED BY <2>2, <2>3, <2>4, <2>5, <2>6, <2>7
<1>. QED BY <1>1, BuyerInductiveInvariant, PTL

(* No deal a seller holds for a buyer costs more than its CPM ceiling or   *)
(* its budget, whatever was negotiated: the seller reprices the booking at *)
(* the very price transact's guardrails were checked at.                   *)
THEOREM GuardrailsAreKept == BSpec => []GuardrailsHold
<1>1. BuyerIInv => GuardrailsHold
  BY DEF BuyerIInv, Faithful, Booked, Affordable, GuardrailsHold
<1>. QED BY <1>1, BuyerInductiveInvariant, PTL

(* Buyers that share sellers never reach each other's records: every deal  *)
(* and every negotiation is exactly one buyer's, and a double booking      *)
(* returns the deal it repeats (run_scenario, _book's keys).               *)
THEOREM RecordsStayOwned == BSpec => []RecordsAreOwned
<1>1. BuyerIInv => RecordsAreOwned
  <2>. SUFFICES ASSUME BuyerIInv PROVE RecordsAreOwned
    OBVIOUS
  <2>0. \A b \in Buyers : Bargaining(b, buyer[b]) /\ Booked(b, buyer[b])
    BY DEF BuyerIInv, Faithful
  <2>1. 0 \notin DOMAIN negotiations /\ 0 \notin DOMAIN deals
    BY DEF BuyerIInv, IInv, NegotiationsHealthy, Dealt
  <2>2. ASSUME NEW d \in DOMAIN deals
        PROVE  \E b \in Buyers :
                 /\ buyer[b].deal = d
                 /\ deals[d].quote_id = buyer[b].quote
                 /\ \A c \in Buyers \ {b} : d \notin {buyer[c].deal, buyer[c].replay_deal}
    <3>1. PICK b \in Buyers : buyer[b].deal = d
      BY DEF BuyerIInv, Owned
    <3>2. deals[d].quote_id = buyer[b].quote
      BY <2>0, <2>1, <3>1 DEF Booked
    <3>3. ASSUME NEW c \in Buyers \ {b}
          PROVE  d \notin {buyer[c].deal, buyer[c].replay_deal}
      BY <2>0, <2>1, <3>1, HoldingsApart DEF Booked
    <3>. QED BY <3>1, <3>2, <3>3
  <2>3. ASSUME NEW id \in DOMAIN negotiations
        PROVE  \E b \in Buyers :
                 /\ buyer[b].negotiation_id = id
                 /\ negotiations[id].quote_id = buyer[b].quote
                 /\ \A c \in Buyers \ {b} : buyer[c].negotiation_id # id
    <3>1. PICK b \in Buyers : buyer[b].negotiation_id = id
      BY DEF BuyerIInv, Owned
    <3>2. negotiations[id].quote_id = buyer[b].quote
      BY <2>0, <2>1, <3>1 DEF Bargaining
    <3>3. ASSUME NEW c \in Buyers \ {b}
          PROVE  buyer[c].negotiation_id # id
      BY <2>1, <3>1, HoldingsApart
    <3>. QED BY <3>1, <3>2, <3>3
  <2>4. \A b \in Buyers : buyer[b].replay_deal \in {0, buyer[b].deal}
    BY <2>0 DEF Booked
  <2>. QED BY <2>2, <2>3, <2>4 DEF RecordsAreOwned
<1>. QED BY <1>1, BuyerInductiveInvariant, PTL

LEMMA AppendPrefix ==
  ASSUME NEW S, NEW s \in Seq(S), NEW e \in S
  PROVE  SubSeq(Append(s, e), 1, Len(s)) = s
  OBVIOUS

(* When a buyer is through, it and the seller tell the same story: one     *)
(* status, closed, and the same rounds but for the buyer's own last word   *)
(* (_negotiate against _advance).                                          *)
THEOREM SidesTellOneStory == BSpec => []SidesAgree
<1>1. BuyerIInv => SidesAgree
  <2>. SUFFICES ASSUME BuyerIInv, NEW b \in Buyers, Finished(b), Negotiated(b)
                PROVE  /\ buyer[b].status = SellersView(b).status
                       /\ buyer[b].status # "active"
                       /\ \/ SellersView(b).rounds = buyer[b].rounds
                          \/ /\ buyer[b].status = "rejected"
                             /\ Len(SellersView(b).rounds) = Len(buyer[b].rounds) + 1
                             /\ SubSeq(SellersView(b).rounds, 1, Len(buyer[b].rounds))
                                  = buyer[b].rounds
                             /\ LastRound(SellersView(b)).action = "reject"
    BY DEF SidesAgree
  <2>. DEFINE s == buyer[b]
              neg == negotiations[s.negotiation_id]
  <2>1. /\ Bargaining(b, s) /\ Agreeing(s) /\ s.phase = "done" /\ s.negotiation_id # 0
        /\ SellersView(b) = neg
    BY DEF BuyerIInv, Faithful, Finished, Negotiated, SellersView
  <2>2. s.rounds \in Seq(RoundRecords) /\ Healthy(neg)
    BY <2>1 DEF Bargaining, BuyerIInv, IInv, NegotiationsHealthy
  <2>3. neg.status = s.status /\ s.status # "active"
    BY <2>1 DEF Agreeing, InTalks
  <2>4. \/ neg.rounds = s.rounds
        \/ /\ s.status = "rejected"
           /\ neg.rounds = Append(s.rounds, LastRound(neg))
           /\ LastRound(neg).action = "reject"
    BY <2>1 DEF Agreeing
  <2>. HIDE DEF s, neg
  <2>5. ASSUME neg.rounds = Append(s.rounds, LastRound(neg))
        PROVE  /\ Len(neg.rounds) = Len(s.rounds) + 1
               /\ SubSeq(neg.rounds, 1, Len(s.rounds)) = s.rounds
    <3>1. neg.rounds \in Seq(RoundRecords) /\ neg.rounds # <<>>
      BY <2>2, <2>5 DEF Healthy, NegotiationRecords
    <3>2. LastRound(neg) \in RoundRecords
      BY <3>1 DEF LastRound
    <3>. QED BY <2>2, <2>5, <3>2, AppendFacts, AppendPrefix
  <2>. QED BY <2>1, <2>3, <2>4, <2>5 DEF s
<1>. QED BY <1>1, BuyerInductiveInvariant, PTL

(* With a buyer's cap no smaller than the seller's, the seller always ends *)
(* the negotiation first: the backstop after _negotiate's loop is never    *)
(* reached (MAX_BUYER_ROUNDS is 8, MAX_SELLER_ROUNDS is 6).                *)
THEOREM SellersCapEndsTalks ==
  ASSUME MAX_SELLER_ROUNDS <= MAX_BUYER_ROUNDS
  PROVE  BSpec => []SellerCapFiresFirst
<1>1. BuyerIInv => SellerCapFiresFirst
  <2>. SUFFICES ASSUME BuyerIInv, NEW b \in Buyers, buyer[b].phase = "walk"
                PROVE  buyer[b].i <= MAX_BUYER_ROUNDS
    BY DEF SellerCapFiresFirst
  <2>. DEFINE s == buyer[b]
              neg == negotiations[s.negotiation_id]
  <2>1. /\ Bargaining(b, s) /\ Talking(b, s) /\ Agreeing(s) /\ InTalks(s)
        /\ s.phase = "walk"
    BY DEF BuyerIInv, Faithful, InTalks
  <2>2. s.negotiation_id # 0 /\ s.status = "active"
    BY <2>1 DEF Talking
  <2>3. neg.status = "active" /\ neg.rounds = s.rounds
    BY <2>1, <2>2 DEF Agreeing
  <2>4. Len(neg.rounds) < MAX_SELLER_ROUNDS
    BY <2>1, <2>2, <2>3 DEF Bargaining, BuyerIInv, IInv, NegotiationsHealthy, Healthy
  <2>5. s.i = Len(s.rounds) + 1 /\ Len(s.rounds) \in Nat
    BY <2>1 DEF Bargaining
  <2>. HIDE DEF s, neg
  <2>6. s.i <= MAX_BUYER_ROUNDS
    BY <2>3, <2>4, <2>5, RoundsAssumption, BuyerRoundsAssumption
  <2>. QED BY <2>6 DEF s
<1>. QED BY <1>1, BuyerInductiveInvariant, PTL

(* A quote above the buyer's ceiling ends in agreement exactly when the    *)
(* seller's floor is within that ceiling, with caps ordered as the code's: *)
(* the held bid of _negotiate outlasts the seller's concessions.           *)
THEOREM ForcedTalksSettle ==
  ASSUME CapsOrdered
  PROVE  BSpec => []SettlesWhenPossible
<1>1. BuyerIInv => SettlesWhenPossible
  BY DEF BuyerIInv, Faithful, Settling, WithinReach, SettlesWhenPossible, Finished, FloorFor
<1>. QED BY <1>1, BuyerInductiveInvariant, PTL

-----------------------------------------------------------------------------
(* The sellers of a scenario.  Each step of a buyer is a step the seller's *)
(* specification allows, or leaves the sellers alone.                      *)

LEMMA CallsAreTheSellers ==
  ASSUME BuyerIInv, NEW c \in Buyers
  PROVE  /\ ceiling[c] \in Ceilings
         /\ brief[c].identity \in Identities /\ brief[c].plan \in Plans
         /\ \A p \in Products : QuoteRequest(c, p) \in QuoteRequests
<1>1. brief[c] \in Briefs /\ ceiling[c] \in Ceilings
  BY DEF BuyerIInv, Given
<1>. QED BY <1>1, CallsAssumption DEF QuoteRequest

LEMMA AskSellerIsSellers ==
  ASSUME BuyerIInv, NEW c \in Buyers, AskSeller(c)
  PROVE  Next
<1>1. PICK i \in DOMAIN NextCatalog(c) :
         PriceQuote(QuoteRequest(c, NextCatalog(c)[i]), ceiling[c])
  BY DEF AskSeller
<1>2. buyer[c].asked \in 0..Len(Catalogs) /\ buyer[c].asked < Len(Catalogs)
  BY DEF AskSeller, Discovering, BuyerIInv, Faithful, Choosing
<1>3. NextCatalog(c) \in Seq(Products)
  BY <1>2, CatalogsAssumption DEF NextCatalog
<1>4. NextCatalog(c)[i] \in Products
  BY <1>3
<1>5. QuoteRequest(c, NextCatalog(c)[i]) \in QuoteRequests /\ ceiling[c] \in Ceilings
  BY <1>4, CallsAreTheSellers
<1>. QED BY <1>1, <1>5 DEF Next

LEMMA TalkIsSellers ==
  ASSUME BuyerIInv, NEW c \in Buyers, InTalks(buyer[c]), HandleNegotiation(buyer[c].message)
  PROVE  Next
<1>1. buyer[c].message \in NegotiationMessages
  BY TalkerFacts
<1>. QED BY <1>1 DEF Next

LEMMA BookingIsSellers ==
  ASSUME BuyerIInv, NEW c \in Buyers, buyer[c].phase \in {"book", "rebook"},
         BookDeal(BookingRequest(c), ceiling[c])
  PROVE  Next
<1>1. Choosing(c, buyer[c]) /\ Quoted
  BY DEF BuyerIInv, IInv, Faithful
<1>2. buyer[c].quote # 0
  BY <1>1 DEF Choosing
<1>3. buyer[c].quote \in 1..MaxMinted
  BY <1>1, <1>2, ChosenIsQuote, QuoteIds
<1>4. BookingKey(c, buyer[c].quote) \in Keys
  BY <1>3, KeysAssumption, BuyerRoundsAssumption DEF BookingKey
<1>5. BookingRequest(c) \in BookingRequests
  BY <1>3, <1>4, CallsAreTheSellers DEF BookingRequest, BookingRequests
<1>6. ceiling[c] \in Ceilings
  BY CallsAreTheSellers
<1>. QED BY <1>5, <1>6 DEF Next

LEMMA StepIsSellers == BuyerIInv /\ [BNext]_allVars => [Next]_vars
<1>. SUFFICES ASSUME BuyerIInv, [BNext]_allVars PROVE [Next]_vars
  OBVIOUS
<1>1. CASE UNCHANGED allVars
  BY <1>1 DEF allVars
<1>2. ASSUME NEW c \in Buyers, Step(c)
      PROVE  [Next]_vars
  <2>1. CASE SkipSeller(c)
    BY <2>1 DEF SkipSeller
  <2>2. CASE AskSeller(c)
    BY <2>2, AskSellerIsSellers
  <2>3. CASE ChooseQuote(c)
    BY <2>3 DEF ChooseQuote
  <2>4. CASE SendRound(c)
    BY <2>4, TalkIsSellers DEF SendRound, InTalks
  <2>5. CASE SendWalkAway(c)
    BY <2>5, TalkIsSellers DEF SendWalkAway, InTalks
  <2>6. CASE SendBooking(c)
    BY <2>6, BookingIsSellers DEF SendBooking
  <2>7. CASE SendBookingAgain(c)
    BY <2>7, BookingIsSellers DEF SendBookingAgain
  <2>. QED BY <1>2, <2>1, <2>2, <2>3, <2>4, <2>5, <2>6, <2>7 DEF Step
<1>. QED BY <1>1, <1>2 DEF BNext

(* However many buyers a scenario runs, whatever their briefs, its sellers *)
(* only ever do what the seller's own specification allows: the calls of   *)
(* transact() stay inside the interface ReferenceSeller is proved for.     *)
THEOREM ScenariosRunTheSeller == BSpec => Spec
<1>1. BSpec => BInit /\ [][BNext]_allVars
  BY PTL DEF BSpec
<1>2. BInit => Init
  BY DEF BInit
<1>. QED BY <1>1, <1>2, StepIsSellers, BuyerInductiveInvariant, PTL DEF Spec

(* So what the seller promises any caller holds between the parties of a   *)
(* scenario: its asks only come down to the floor, its agreements bind the *)
(* bookings, a retried message is answered from history, and its offers    *)
(* and bookings are those of SellerContract.                               *)
THEOREM SellersKeepTheirWord ==
  BSpec => /\ ImplementsContract
           /\ []FloorHonoured
           /\ []ReplayIsHistory
           /\ SellerOnlyConcedes
           /\ AgreementBindsBookings
<1>. QED BY ScenariosRunTheSeller, SellerImplementsContract, FloorIsHonoured,
            ReplaysAreHistory, SellerConcedes, AgreementsBind, PTL

-----------------------------------------------------------------------------
(* Why a scenario ends.  The steps a buyer has left, at most: the sellers  *)
(* it has not asked, the rounds it may still send, and then a walk-away or *)
(* a booking and its repetition.                                           *)
StepsLeft(s) ==
  CASE s.phase = "discover"  -> MAX_BUYER_ROUNDS + 3 + (Len(Catalogs) - s.asked)
    [] s.phase = "negotiate" -> MAX_BUYER_ROUNDS + 3 - s.i
    [] s.phase = "book"      -> 2
    [] s.phase \in {"walk", "rebook"} -> 1
    [] s.phase = "done"      -> 0

EveryStepCounts ==
  \E c \in Buyers :
    /\ StepsLeft(buyer'[c]) < StepsLeft(buyer[c])
    /\ \A b \in Buyers \ {c} : buyer'[b] = buyer[b]

OnlyFinishedIsAtZero ==
  \A b \in Buyers :
    /\ StepsLeft(buyer[b]) \in Nat
    /\ StepsLeft(buyer[b]) = 0 <=> Finished(b)

(* And how it ends: a buyer has a reason to walk away exactly when it has  *)
(* no deal.                                                                *)
Explained(s) ==
  IF s.phase = "done" THEN s.deal = 0 <=> s.walk_reason # "none"
  ELSE s.walk_reason = "none"
EveryEndIsExplained == \A b \in Buyers : Explained(buyer[b])

LEMMA StepsLeftIn ==
  ASSUME NEW s
  PROVE  /\ s.phase = "discover" => StepsLeft(s) = MAX_BUYER_ROUNDS + 3 + (Len(Catalogs) - s.asked)
         /\ s.phase = "negotiate" => StepsLeft(s) = MAX_BUYER_ROUNDS + 3 - s.i
         /\ s.phase = "book" => StepsLeft(s) = 2
         /\ s.phase \in {"walk", "rebook"} => StepsLeft(s) = 1
         /\ s.phase = "done" => StepsLeft(s) = 0
  BY DEF StepsLeft

LEMMA StepsLeftRange ==
  ASSUME BuyerIInv, NEW b \in Buyers
  PROVE  /\ StepsLeft(buyer[b]) \in Nat
         /\ StepsLeft(buyer[b]) = 0 <=> buyer[b].phase = "done"
         /\ buyer[b].phase = "negotiate" => StepsLeft(buyer[b]) >= 3
         /\ buyer[b].phase = "discover" => StepsLeft(buyer[b]) >= MAX_BUYER_ROUNDS + 3
<1>1. PICK s : s = buyer[b]
  OBVIOUS
<1>2. Choosing(b, s) /\ Bargaining(b, s)
  BY <1>1 DEF BuyerIInv, Faithful
<1>3. /\ s.phase \in Phases /\ s.asked \in 0..Len(Catalogs)
      /\ s.i \in 1..(MAX_BUYER_ROUNDS + 1)
      /\ s.phase = "negotiate" => s.i <= MAX_BUYER_ROUNDS
  BY <1>2 DEF Choosing, Bargaining
<1>4. MAX_BUYER_ROUNDS \in Nat /\ Len(Catalogs) \in Nat
  BY BuyerRoundsAssumption, CatalogsAssumption
<1>5. CASE s.phase = "discover"
  BY <1>1, <1>3, <1>4, <1>5, StepsLeftIn
<1>6. CASE s.phase = "negotiate"
  BY <1>1, <1>3, <1>4, <1>6, StepsLeftIn
<1>7. CASE s.phase \in {"walk", "book", "rebook", "done"}
  BY <1>1, <1>7, StepsLeftIn
<1>. QED BY <1>3, <1>5, <1>6, <1>7 DEF Phases

(* The reason, if any, that the buyer's own operators give.                *)
Gives(s, v) ==
  IF v.phase = "done" THEN v.walk_reason # "none" ELSE v.walk_reason = s.walk_reason

LEMMA GuardedGives ==
  ASSUME NEW b, NEW s, DOMAIN s = BuyerFields, NEW v, v = Guarded(b, s)
  PROVE  Gives(s, v)
<1>1. \/ v = WalksAway(s, "cpm ceiling") \/ v = WalksAway(s, "budget ceiling")
      \/ v = [s EXCEPT !.phase = "book"]
  BY Zenon DEF Guarded
<1>. QED BY <1>1 DEF WalksAway, Gives, BuyerFields

LEMMA RespondGives ==
  ASSUME NEW b, NEW s, DOMAIN s = BuyerFields, s.phase = "negotiate", NEW price,
         NEW v, v = Respond(b, s, price)
  PROVE  DOMAIN v = BuyerFields /\ v.phase # "done" /\ v.walk_reason = s.walk_reason
<1>1. \/ \E m : v = [s EXCEPT !.message = m]
      \/ \E m, bp : v = [s EXCEPT !.bp = bp, !.message = m]
      \/ \E m : v = [s EXCEPT !.phase = "walk", !.message = m]
  BY Zenon DEF Respond
<1>2. ASSUME NEW m, NEW bp, \/ v = [s EXCEPT !.message = m]
                            \/ v = [s EXCEPT !.bp = bp, !.message = m]
                            \/ v = [s EXCEPT !.phase = "walk", !.message = m]
      PROVE  DOMAIN v = BuyerFields /\ v.phase # "done" /\ v.walk_reason = s.walk_reason
  BY <1>2 DEF BuyerFields
<1>. QED BY <1>1, <1>2

LEMMA BackstopGives ==
  ASSUME NEW b, NEW u, DOMAIN u = BuyerFields, u.phase # "done", NEW v, v = Backstop(b, u)
  PROVE  v.phase # "done" /\ v.walk_reason = u.walk_reason
<1>1. v = u \/ \E m : v = [u EXCEPT !.phase = "walk", !.message = m]
  BY Zenon DEF Backstop
<1>. QED BY <1>1 DEF BuyerFields

LEMMA AnswerGives ==
  ASSUME NEW c, NEW s, DOMAIN s = BuyerFields, s.phase = "negotiate", NEW answer,
         answer.kind = "round", answer.status \in Statuses, NEW v, v = AfterAnswer(c, s, answer)
  PROVE  Gives(s, v)
<1>1. PICK t : t = [s EXCEPT !.i = @ + 1, !.negotiation_id = answer.negotiation_id,
                             !.rounds = Append(@, answer.round), !.status = answer.status]
  OBVIOUS
<1>2. /\ DOMAIN t = BuyerFields /\ t.phase = "negotiate" /\ t.walk_reason = s.walk_reason
      /\ t.status = answer.status
  BY <1>1 DEF BuyerFields
<1>3. v = CASE t.status = "accepted" -> Guarded(c, [t EXCEPT !.effective_cpm = Agreed_cpm(t)])
            [] t.status = "rejected" -> WalksAway(t, "negotiation")
            [] t.status = "active" -> Backstop(c, Respond(c, t, answer.round.seller_price))
  BY <1>1 DEF AfterAnswer
<1>4. CASE answer.status = "accepted"
  <2>1. PICK u : u = [t EXCEPT !.effective_cpm = Agreed_cpm(t)]
    OBVIOUS
  <2>2. DOMAIN u = BuyerFields /\ u.walk_reason = t.walk_reason
    BY <1>2, <2>1 DEF BuyerFields
  <2>3. v = Guarded(c, u)
    BY <1>2, <1>3, <1>4, <2>1
  <2>. QED BY <1>2, <2>2, <2>3, GuardedGives DEF Gives
<1>5. CASE answer.status = "rejected"
  <2>1. v = WalksAway(t, "negotiation")
    BY <1>2, <1>3, <1>5
  <2>. QED BY <1>2, <2>1 DEF WalksAway, Gives, BuyerFields
<1>6. CASE answer.status = "active"
  <2>1. PICK u : u = Respond(c, t, answer.round.seller_price)
    OBVIOUS
  <2>2. v = Backstop(c, u)
    BY <1>2, <1>3, <1>6, <2>1
  <2>. QED BY <1>2, <2>1, <2>2, RespondGives, BackstopGives DEF Gives
<1>. QED BY <1>4, <1>5, <1>6 DEF Statuses

(* Each of a buyer's steps is one of those it had left.                    *)
Moved(c) ==
  /\ StepsLeft(buyer'[c]) < StepsLeft(buyer[c])
  /\ \A b \in Buyers \ {c} : buyer'[b] = buyer[b]
  /\ Explained(buyer[c]) => Explained(buyer'[c])

LEMMA MovesTo ==
  ASSUME BuyerIInv, NEW c \in Buyers, NEW v, buyer' = [buyer EXCEPT ![c] = v],
         StepsLeft(v) < StepsLeft(buyer[c]), Explained(buyer[c]) => Explained(v)
  PROVE  Moved(c)
<1>1. /\ buyer'[c] = v
      /\ \A b \in Buyers \ {c} : buyer'[b] = buyer[b]
  BY BuyerBecomes DEF BuyerIInv, Given
<1>. QED BY <1>1 DEF Moved

LEMMA GivesExplains ==
  ASSUME NEW s, NEW v, Gives(s, v), s.phase # "done", v.deal = 0
  PROVE  Explained(s) => Explained(v)
  BY DEF Gives, Explained

LEMMA DiscoveryMoves ==
  ASSUME BuyerIInv, NEW c \in Buyers, Discovering(c), NEW found,
         buyer' = [buyer EXCEPT ![c] = [buyer[c] EXCEPT !.asked = @ + 1,
                                                        !.candidates = found]]
  PROVE  Moved(c)
<1>1. PICK s : s = buyer[c]
  OBVIOUS
<1>2. PICK v : v = [s EXCEPT !.asked = @ + 1, !.candidates = found]
  OBVIOUS
<1>3. /\ DOMAIN s = BuyerFields /\ s.phase = "discover"
      /\ s.asked \in 0..Len(Catalogs) /\ s.asked < Len(Catalogs)
  BY <1>1 DEF BuyerIInv, Faithful, Choosing, Discovering
<1>4. /\ v.phase = "discover" /\ v.asked = s.asked + 1
      /\ v.walk_reason = s.walk_reason
  BY <1>2, <1>3 DEF BuyerFields
<1>5. StepsLeft(v) < StepsLeft(s)
  <2>1. /\ StepsLeft(s) = MAX_BUYER_ROUNDS + 3 + (Len(Catalogs) - s.asked)
        /\ StepsLeft(v) = MAX_BUYER_ROUNDS + 3 + (Len(Catalogs) - v.asked)
    BY <1>3, <1>4, StepsLeftIn
  <2>. QED BY <1>3, <1>4, <2>1, BuyerRoundsAssumption, CatalogsAssumption
<1>6. Explained(s) => Explained(v)
  BY <1>3, <1>4 DEF Explained
<1>. QED BY <1>1, <1>2, <1>5, <1>6, MovesTo

LEMMA SkipSellerMoves ==
  ASSUME BuyerIInv, NEW c \in Buyers, SkipSeller(c)
  PROVE  Moved(c)
<1>. DEFINE found == buyer[c].candidates
<1>1. DOMAIN buyer[c] = BuyerFields /\ Discovering(c)
  BY DEF BuyerIInv, Faithful, Choosing, SkipSeller
<1>2. buyer' = [buyer EXCEPT ![c] = [buyer[c] EXCEPT !.asked = @ + 1, !.candidates = found]]
  <2>1. [buyer[c] EXCEPT !.asked = @ + 1]
          = [buyer[c] EXCEPT !.asked = @ + 1, !.candidates = found]
    BY <1>1 DEF BuyerFields
  <2>2. buyer' = [buyer EXCEPT ![c] = [buyer[c] EXCEPT !.asked = @ + 1]]
    BY DEF SkipSeller
  <2>. QED BY <2>1, <2>2
<1>. QED BY <1>1, <1>2, DiscoveryMoves

LEMMA AskSellerMoves ==
  ASSUME BuyerIInv, NEW c \in Buyers, AskSeller(c)
  PROVE  Moved(c)
<1>. DEFINE old == buyer[c].candidates
            good == reply'.kind = "quote" /\ quotes'[reply'.quote_id].final_cpm <= BandLimit(c)
            found == IF good THEN Append(old, reply'.quote_id) ELSE old
<1>1. /\ Discovering(c)
      /\ buyer' = [buyer EXCEPT ![c] = [buyer[c] EXCEPT !.asked = @ + 1, !.candidates = found]]
  BY DEF AskSeller
<1>. HIDE DEF found
<1>. QED BY <1>1, DiscoveryMoves

LEMMA ChooseQuoteMoves ==
  ASSUME BuyerIInv, NEW c \in Buyers, ChooseQuote(c)
  PROVE  Moved(c)
<1>1. PICK s : s = buyer[c]
  OBVIOUS
<1>2. /\ DOMAIN s = BuyerFields /\ s.phase = "discover" /\ s.deal = 0 /\ s.i = 1
      /\ StepsLeft(s) >= MAX_BUYER_ROUNDS + 3 /\ StepsLeft(s) \in Nat
  BY <1>1, DiscovererFacts, StepsLeftRange DEF ChooseQuote
<1>3. MAX_BUYER_ROUNDS \in Nat
  BY BuyerRoundsAssumption
<1>4. ASSUME NEW v, buyer' = [buyer EXCEPT ![c] = v], v.deal = 0, Gives(s, v),
             \/ v.phase \in {"book", "done"}
             \/ v.phase = "negotiate" /\ v.i = 1
      PROVE  Moved(c)
  <2>1. StepsLeft(v) < StepsLeft(s)
    BY <1>2, <1>3, <1>4, StepsLeftIn
  <2>2. Explained(s) => Explained(v)
    BY <1>2, <1>4, GivesExplains
  <2>. QED BY <1>1, <1>4, <2>1, <2>2, MovesTo
<1>5. CASE buyer' = [buyer EXCEPT ![c] = WalksAway(@, "no affordable quote")]
  <2>1. PICK v : v = WalksAway(s, "no affordable quote")
    OBVIOUS
  <2>2. buyer' = [buyer EXCEPT ![c] = v]
    BY <1>1, <1>5, <2>1
  <2>3. v.deal = 0 /\ v.phase = "done" /\ Gives(s, v)
    BY <1>2, <2>1 DEF WalksAway, Gives, BuyerFields
  <2>. QED BY <1>4, <2>2, <2>3
<1>6. ASSUME NEW t, \E q, must, price : t = [s EXCEPT !.quote = q, !.must_negotiate = must,
                                                     !.effective_cpm = price],
             NEW v, v = StartNegotiation(c, t) \/ v = Guarded(c, t),
             buyer' = [buyer EXCEPT ![c] = v]
      PROVE  Moved(c)
  <2>1. /\ DOMAIN t = BuyerFields /\ t.deal = 0 /\ t.i = 1
        /\ t.walk_reason = s.walk_reason
    BY <1>2, <1>6 DEF BuyerFields
  <2>2. CASE v = StartNegotiation(c, t)
    <3>1. \E bp, m : v = [t EXCEPT !.phase = "negotiate", !.bp = bp, !.message = m]
      BY <2>2, Zenon DEF StartNegotiation
    <3>2. v.phase = "negotiate" /\ v.i = 1 /\ v.deal = 0 /\ Gives(s, v)
      BY <2>1, <3>1 DEF Gives, BuyerFields
    <3>. QED BY <1>4, <1>6, <3>2
  <2>3. CASE v = Guarded(c, t)
    <3>1. Gives(s, v)
      BY <2>1, <2>3, GuardedGives DEF Gives
    <3>2. \/ v = WalksAway(t, "cpm ceiling") \/ v = WalksAway(t, "budget ceiling")
          \/ v = [t EXCEPT !.phase = "book"]
      BY <2>3, Zenon DEF Guarded
    <3>3. v.phase \in {"book", "done"} /\ v.deal = 0
      BY <2>1, <3>2 DEF WalksAway, BuyerFields
    <3>. QED BY <1>4, <1>6, <3>1, <3>3
  <2>. QED BY <1>6, <2>2, <2>3
<1>7. \/ buyer' = [buyer EXCEPT ![c] = WalksAway(@, "no affordable quote")]
      \/ \E k \in DOMAIN s.candidates :
           LET q == s.candidates[k]
               must == quotes[q].final_cpm > brief[c].max_cpm
               t == [s EXCEPT !.quote = q, !.must_negotiate = must,
                              !.effective_cpm = quotes[q].final_cpm]
           IN  buyer' = [buyer EXCEPT ![c] =
                           IF brief[c].negotiate \/ must
                           THEN StartNegotiation(c, t) ELSE Guarded(c, t)]
  BY <1>1, Zenon DEF ChooseQuote
<1>8. ASSUME NEW k \in DOMAIN s.candidates, NEW q, q = s.candidates[k],
             NEW must, must = (quotes[q].final_cpm > brief[c].max_cpm),
             NEW t, t = [s EXCEPT !.quote = q, !.must_negotiate = must,
                                  !.effective_cpm = quotes[q].final_cpm],
             buyer' = [buyer EXCEPT ![c] = IF brief[c].negotiate \/ must
                                           THEN StartNegotiation(c, t) ELSE Guarded(c, t)]
      PROVE  Moved(c)
  <2>1. PICK v : v = IF brief[c].negotiate \/ must
                     THEN StartNegotiation(c, t) ELSE Guarded(c, t)
    OBVIOUS
  <2>2. v = StartNegotiation(c, t) \/ v = Guarded(c, t)
    BY <2>1, Zenon
  <2>3. buyer' = [buyer EXCEPT ![c] = v]
    BY <1>8, <2>1, Zenon
  <2>. QED BY <1>6, <1>8, <2>2, <2>3
<1>. QED BY <1>5, <1>7, <1>8

LEMMA SendRoundMoves ==
  ASSUME BuyerIInv, NEW c \in Buyers, SendRound(c)
  PROVE  Moved(c)
<1>1. /\ buyer[c].phase = "negotiate" /\ InTalks(buyer[c])
      /\ HandleNegotiation(buyer[c].message)
      /\ buyer' = [buyer EXCEPT ![c] = AfterAnswer(c, buyer[c], reply')]
  BY DEF SendRound, InTalks
<1>2. PICK id, neg, after, answer : Handled(c, id, neg, after, answer)
  BY <1>1, MessageHandled
<1>3. PICK s : s = buyer[c]
  OBVIOUS
<1>4. PICK v : v = AfterAnswer(c, s, answer)
  OBVIOUS
<1>5. /\ reply' = answer /\ answer.kind = "round"
      /\ answer.status \in Statuses
  BY <1>2 DEF Handled, Answered
<1>6. buyer' = [buyer EXCEPT ![c] = v]
  BY <1>1, <1>3, <1>4, <1>5
<1>7. /\ Notes(s, v, answer)
      /\ v.status = "accepted" => v.phase \in {"book", "done"}
      /\ v.status = "rejected" => v.phase = "done"
      /\ v.status = "active" => v.phase \in {"negotiate", "walk"}
      /\ v.status \in Statuses
  <2>1. v = AfterAnswer(c, buyer[c], answer)
    BY <1>3, <1>4
  <2>2. /\ Notes(buyer[c], v, answer)
        /\ v.status = "accepted" => v.phase \in {"book", "done"}
        /\ v.status = "rejected" => v.phase = "done"
        /\ v.status = "active" =>
             \E t : Replies(c, t, v, answer.round.seller_price)
        /\ v.status \in Statuses
    BY <1>1, <1>2, <2>1, AnswerTaken
  <2>. QED BY <1>3, <2>2 DEF Replies
<1>8. /\ DOMAIN s = BuyerFields /\ s.phase = "negotiate" /\ s.deal = 0
      /\ StepsLeft(s) \in Nat /\ StepsLeft(s) >= 3
      /\ s.i \in 1..(MAX_BUYER_ROUNDS + 1)
  BY <1>1, <1>3, TalkerFacts, StepsLeftRange DEF Faithful, Bargaining
<1>9. v.deal = 0 /\ v.i = s.i + 1
  BY <1>7, <1>8 DEF Notes, Same
<1>10. v.phase \in {"negotiate", "walk", "book", "done"}
  BY <1>7 DEF Statuses
<1>11. StepsLeft(v) < StepsLeft(s)
  BY <1>8, <1>9, <1>10, StepsLeftIn, BuyerRoundsAssumption
<1>12. Gives(s, v)
  BY <1>4, <1>5, <1>8, AnswerGives
<1>13. Explained(s) => Explained(v)
  BY <1>8, <1>9, <1>12, GivesExplains
<1>. QED BY <1>3, <1>6, <1>11, <1>13, MovesTo

LEMMA SendWalkAwayMoves ==
  ASSUME BuyerIInv, NEW c \in Buyers, SendWalkAway(c)
  PROVE  Moved(c)
<1>1. PICK s : s = buyer[c]
  OBVIOUS
<1>2. PICK v : v = WalksAway([s EXCEPT !.status = "rejected"], "negotiation")
  OBVIOUS
<1>3. buyer' = [buyer EXCEPT ![c] = v] /\ s.phase = "walk"
  BY <1>1, <1>2 DEF SendWalkAway
<1>4. DOMAIN s = BuyerFields /\ s.deal = 0
  BY <1>1, <1>3, TalkerFacts DEF InTalks
<1>5. v.phase = "done" /\ v.deal = 0 /\ v.walk_reason = "negotiation"
  BY <1>2, <1>4 DEF WalksAway, BuyerFields
<1>6. StepsLeft(v) < StepsLeft(s)
  <2>1. StepsLeft(v) = 0 /\ StepsLeft(s) = 1
    BY <1>3, <1>5, StepsLeftIn
  <2>. QED BY <2>1
<1>7. Explained(v)
  BY <1>5 DEF Explained
<1>. QED BY <1>1, <1>3, <1>6, <1>7, MovesTo

LEMMA SendBookingMoves ==
  ASSUME BuyerIInv, NEW c \in Buyers, SendBooking(c)
  PROVE  Moved(c)
<1>1. PICK s : s = buyer[c]
  OBVIOUS
<1>2. /\ s.phase = "book" /\ DOMAIN s = BuyerFields /\ s.deal = 0
  BY <1>1 DEF SendBooking, BuyerIInv, Faithful, Choosing, Booked
<1>3. PICK next \in {"rebook", "done"} :
        next = IF brief[c].double_book THEN "rebook" ELSE "done"
  OBVIOUS
<1>4. PICK v : v = IF reply'.kind = "error" THEN WalksAway(s, "booking rejected")
                   ELSE [s EXCEPT !.deal = reply'.deal_id, !.phase = next]
  OBVIOUS
<1>5. buyer' = [buyer EXCEPT ![c] = v]
  BY <1>1, <1>3, <1>4 DEF SendBooking
<1>6. CASE reply'.kind = "error"
  <2>1. v = WalksAway(s, "booking rejected")
    BY <1>4, <1>6
  <2>2. v.phase = "done" /\ v.deal = 0 /\ v.walk_reason = "booking rejected"
    BY <1>2, <2>1 DEF WalksAway, BuyerFields
  <2>3. StepsLeft(v) < StepsLeft(s)
    <3>1. StepsLeft(v) = 0 /\ StepsLeft(s) = 2
      BY <1>2, <2>2, StepsLeftIn
    <3>. QED BY <3>1
  <2>4. Explained(v)
    BY <2>2 DEF Explained
  <2>. QED BY <1>1, <1>5, <2>3, <2>4, MovesTo
<1>7. CASE reply'.kind # "error"
  <2>1. v = [s EXCEPT !.deal = reply'.deal_id, !.phase = next]
    BY <1>4, <1>7
  <2>2. /\ v.phase = next /\ v.deal = reply'.deal_id /\ v.walk_reason = s.walk_reason
    BY <1>2, <2>1 DEF BuyerFields
  <2>3. v.deal # 0
    <3>1. BookDeal(BookingRequest(c), ceiling[c])
      BY DEF SendBooking
    <3>2. /\ BookingRequest(c).key \notin DOMAIN dealsByKey
          /\ n \in Nat
      <4>1. s.quote # 0 /\ Booked(c, s) /\ Choosing(c, s) /\ Quoted
        BY <1>1, <1>2 DEF BuyerIInv, IInv, Faithful, Choosing
      <4>2. s.quote \in 1..MaxMinted
        BY <4>1, ChosenIsQuote, QuoteIds
      <4>. QED BY <1>1, <1>2, <4>1, <4>2 DEF BookingRequest, Booked, Quoted
    <3>3. reply'.deal_id = n + 1
      BY <1>7, <3>1, <3>2 DEF BookDeal, ReplayBooking, RefuseBooking, Book, Error, BookedReply
    <3>. QED BY <2>2, <3>2, <3>3
  <2>4. StepsLeft(v) < StepsLeft(s)
    BY <1>2, <1>3, <2>2, StepsLeftIn
  <2>5. Explained(s) => Explained(v)
    BY <1>2, <2>2, <2>3 DEF Explained
  <2>. QED BY <1>1, <1>5, <2>4, <2>5, MovesTo
<1>. QED BY <1>6, <1>7

LEMMA SendBookingAgainMoves ==
  ASSUME BuyerIInv, NEW c \in Buyers, SendBookingAgain(c)
  PROVE  Moved(c)
<1>1. PICK s : s = buyer[c]
  OBVIOUS
<1>2. s.phase = "rebook" /\ DOMAIN s = BuyerFields /\ s.deal # 0
  BY <1>1 DEF SendBookingAgain, BuyerIInv, Faithful, Choosing, Booked
<1>3. PICK replay : replay = IF reply'.kind = "error" THEN s.replay_deal ELSE reply'.deal_id
  OBVIOUS
<1>4. PICK v : v = [s EXCEPT !.phase = "done", !.replay_deal = replay]
  OBVIOUS
<1>5. buyer' = [buyer EXCEPT ![c] = v]
  BY <1>1, <1>2, <1>3, <1>4 DEF SendBookingAgain, BuyerFields
<1>6. v.phase = "done" /\ v.deal = s.deal /\ v.walk_reason = s.walk_reason
  BY <1>2, <1>4 DEF BuyerFields
<1>7. StepsLeft(v) < StepsLeft(s)
  <2>1. StepsLeft(v) = 0 /\ StepsLeft(s) = 1
    BY <1>2, <1>6, StepsLeftIn
  <2>. QED BY <2>1
<1>8. Explained(s) => Explained(v)
  BY <1>2, <1>6 DEF Explained
<1>. QED BY <1>1, <1>5, <1>7, <1>8, MovesTo

LEMMA StepMoves ==
  ASSUME BuyerIInv, NEW c \in Buyers, Step(c)
  PROVE  Moved(c)
  BY SkipSellerMoves, AskSellerMoves, ChooseQuoteMoves, SendRoundMoves,
     SendWalkAwayMoves, SendBookingMoves, SendBookingAgainMoves DEF Step

(* No pair of offers, no answer of a seller and no sequence of buyers      *)
(* keeps a scenario going: every step uses up one of the finitely many its *)
(* buyer had left and touches no other buyer, and a buyer with none left   *)
(* is through.  With StepsLeft at most Len(Catalogs) + MAX_BUYER_ROUNDS + 3, *)
(* this bounds the calls of every transact().                              *)
THEOREM ScenariosUseUpTheirSteps ==
  BSpec => [][EveryStepCounts]_allVars /\ []OnlyFinishedIsAtZero
<1>1. BuyerIInv /\ [BNext]_allVars => [EveryStepCounts]_allVars
  BY StepMoves DEF BNext, EveryStepCounts, Moved
<1>2. BuyerIInv => OnlyFinishedIsAtZero
  BY StepsLeftRange DEF OnlyFinishedIsAtZero, Finished
<1>3. BSpec => [][BNext]_allVars
  BY PTL DEF BSpec
<1>. QED BY <1>1, <1>2, <1>3, BuyerInductiveInvariant, PTL

(* However a transaction goes, it ends with a deal or with the reason for  *)
(* having none, never with both or neither: what EveryBuyerFinishes says   *)
(* of the end (the TransactionResult of transact()).                       *)
THEOREM EndsAreExplained == BSpec => []EveryEndIsExplained
<1>1. BInit => EveryEndIsExplained
  BY DEF BInit, EveryEndIsExplained, Explained, Started
<1>2. BuyerIInv /\ [BNext]_allVars /\ EveryEndIsExplained => EveryEndIsExplained'
  <2>. SUFFICES ASSUME BuyerIInv, [BNext]_allVars, EveryEndIsExplained, NEW b \in Buyers
                PROVE  Explained(buyer'[b])
    BY DEF EveryEndIsExplained, Explained
  <2>0. Explained(buyer[b])
    BY DEF EveryEndIsExplained
  <2>1. CASE UNCHANGED allVars
    BY <2>0, <2>1 DEF allVars, buyerVars
  <2>2. ASSUME NEW c \in Buyers, Step(c)
        PROVE  Explained(buyer'[b])
    BY <2>0, <2>2, StepMoves DEF Moved
  <2>. QED BY <2>1, <2>2 DEF BNext
<1>3. BSpec => BInit /\ [][BNext]_allVars
  BY PTL DEF BSpec
<1>. QED BY <1>1, <1>2, <1>3, BuyerInductiveInvariant, PTL
=============================================================================
