--------------------------- MODULE ReferenceBuyer ---------------------------
(***************************************************************************)
(* The reference buyer (harness/reference_agents.py) transacting with the  *)
(* reference sellers over the in-process channels of harness/scenario.py.  *)
(* A step is one call on a channel together with everything the buyer      *)
(* computes from its response before the next call.  run_scenario() runs   *)
(* its buyers one after another, each on the sellers the previous ones     *)
(* left behind; a buyer is named by its place in that list.                *)
(*                                                                         *)
(* The sellers are one ReferenceSeller whose catalog is divided among      *)
(* them: they share no record, every id a seller mints carries its own     *)
(* agent id, and every key this buyer sends carries the quote's id, so the *)
(* sellers' maps are disjoint parts of the maps below.                     *)
(***************************************************************************)
EXTENDS ReferenceSeller

CONSTANTS
  BuyerCount,          \* how many buyers the scenario has
  Briefs,              \* the campaign briefs a buyer may be given
  Catalogs,            \* the discovered sellers' catalogs: a sequence of
                       \* sequences of products, in registry order
  AdFormats,           \* ad formats of a product
  BandPerMille,        \* _band_per_mille
  MAX_BUYER_ROUNDS,    \* 8 in the code
  MaxAmount,           \* no brief and no floor names a larger amount
  NoCounter            \* a brief without counter_cpm

Buyers == 1..BuyerCount

ASSUME BuyerCountAssumption == BuyerCount \in Nat \ {0}
ASSUME BandAssumption == BandPerMille \in Nat /\ BandPerMille >= 1000
ASSUME BuyerRoundsAssumption == MAX_BUYER_ROUNDS \in Nat \ {0}
ASSUME CatalogsAssumption == Catalogs \in Seq(Seq(Products))

(* The amounts a scenario's parties name or compute a bid from.            *)
Amounts == -MaxAmount..MaxAmount

ASSUME BriefAssumption ==
  /\ MaxAmount \in Nat
  /\ \A f \in Briefs :
       /\ f.max_cpm \in Amounts
       /\ f.counter_cpm \in Amounts \cup {NoCounter}
       /\ {f.budget, f.impressions} \subseteq Int
       /\ {f.negotiate, f.double_book} \subseteq BOOLEAN
  /\ NoCounter \notin Amounts
  /\ \A p \in Products : Floor[p] \in Amounts
  /\ [amount : Amounts, currency : Currencies] \subseteq Bids
ASSUME KeysAssumption ==
  [op : {"neg", "book"}, buyer : Buyers, quote : 1..MaxMinted,
   i : 0..(MAX_BUYER_ROUNDS + 1)] \subseteq Keys

(* A call a brief gives rise to is one the seller's specification allows.  *)
ASSUME CallsAssumption ==
  \A f \in Briefs :
    /\ f.identity \in Identities
    /\ f.plan \in Plans
    /\ \A p \in Products :
         [product |-> p, media_type |-> f.media_type, deal_type |-> f.deal_type,
          has_impressions |-> TRUE, identity |-> f.identity] \in QuoteRequests

VARIABLES
  brief,     \* the brief of each buyer
  ceiling,   \* the registry tier ceiling baked into its channels
  buyer      \* the local state of its transact()

buyerVars == <<brief, ceiling, buyer>>
allVars == <<vars, buyerVars>>

-----------------------------------------------------------------------------
(* The local variables of transact(), _discover_cheapest() and             *)
(* _negotiate(); `phase` is the program counter.                           *)
Started ==
  [phase |-> "discover", asked |-> 0, candidates |-> <<>>, quote |-> 0,
   must_negotiate |-> FALSE, bp |-> 0, i |-> 1, message |-> NoPrice,
   negotiation_id |-> 0, rounds |-> <<>>, status |-> "active",
   effective_cpm |-> 0, deal |-> 0, replay_deal |-> 0, walk_reason |-> "none"]

BInit ==
  /\ Init
  /\ brief \in [Buyers -> Briefs]
  /\ ceiling \in [Buyers -> Ceilings]
  /\ buyer = [b \in Buyers |-> Started]

WalksAway(s, reason) == [s EXCEPT !.phase = "done", !.walk_reason = reason]

(* Fault: only the budget is checked.                                      *)
GuardedByBudget(b, s) ==
  IF CpmCost(s.effective_cpm, brief[b].impressions) > brief[b].budget
  THEN WalksAway(s, "budget ceiling")
  ELSE [s EXCEPT !.phase = "book"]

(* The guardrails before booking: the CPM ceiling, then the budget, both   *)
(* at the effective price.                                                 *)
Guarded(b, s) ==
  IF s.effective_cpm > brief[b].max_cpm
  THEN WalksAway(s, "cpm ceiling")
  ELSE IF CpmCost(s.effective_cpm, brief[b].impressions) > brief[b].budget
  THEN WalksAway(s, "budget ceiling")
  ELSE [s EXCEPT !.phase = "book"]

-----------------------------------------------------------------------------
(* _discover_cheapest(): ask every seller in turn for one quote.           *)

Suitable(b, p) ==
  /\ brief[b].ad_format \in AdFormats[p] \cup {"any"}
  /\ SupportedDealTypes[p] # {} => brief[b].deal_type \in SupportedDealTypes[p]

(* "any" is a brief without ad_format.  The buyer picks the cheapest       *)
(* suitable product of a catalog, the first one on a tie.                  *)
IsPick(b, catalog, i) ==
  /\ Suitable(b, catalog[i])
  /\ \A j \in DOMAIN catalog : Suitable(b, catalog[j]) =>
       \/ BasePrice[catalog[i]] < BasePrice[catalog[j]]
       \/ BasePrice[catalog[i]] = BasePrice[catalog[j]] /\ i <= j

QuoteRequest(b, p) ==
  [product |-> p, media_type |-> brief[b].media_type,
   deal_type |-> brief[b].deal_type, has_impressions |-> TRUE,
   identity |-> brief[b].identity]

BandLimit(b) == (brief[b].max_cpm * BandPerMille) \div 1000

NextCatalog(b) == Catalogs[buyer[b].asked + 1]
Discovering(b) == buyer[b].phase = "discover" /\ buyer[b].asked < Len(Catalogs)

SkipSeller(b) ==
  /\ Discovering(b)
  /\ ~\E i \in DOMAIN NextCatalog(b) : IsPick(b, NextCatalog(b), i)
  /\ buyer' = [buyer EXCEPT ![b].asked = @ + 1]
  /\ UNCHANGED <<vars, brief, ceiling>>

(* Fault: a seller that refuses is asked again.                            *)
AskSellerAgain(b) ==
  /\ Discovering(b)
  /\ \E i \in DOMAIN NextCatalog(b) :
       /\ IsPick(b, NextCatalog(b), i)
       /\ PriceQuote(QuoteRequest(b, NextCatalog(b)[i]), ceiling[b])
  /\ buyer' =
       IF reply'.kind = "error" THEN buyer
       ELSE [buyer EXCEPT ![b].asked = @ + 1,
                          ![b].candidates =
               IF quotes'[reply'.quote_id].final_cpm <= BandLimit(b)
               THEN Append(@, reply'.quote_id) ELSE @]
  /\ UNCHANGED <<brief, ceiling>>

AskSeller(b) ==
  /\ Discovering(b)
  /\ \E i \in DOMAIN NextCatalog(b) :
       /\ IsPick(b, NextCatalog(b), i)
       /\ PriceQuote(QuoteRequest(b, NextCatalog(b)[i]), ceiling[b])
  /\ buyer' =
       [buyer EXCEPT ![b].asked = @ + 1,
                     ![b].candidates =
          IF reply'.kind = "quote" /\ quotes'[reply'.quote_id].final_cpm <= BandLimit(b)
          THEN Append(@, reply'.quote_id) ELSE @]
  /\ UNCHANGED <<brief, ceiling>>

(* The stable sort by price: the first of the cheapest candidates.         *)
IsCheapest(candidates, i) ==
  \A j \in DOMAIN candidates :
     \/ quotes[candidates[i]].final_cpm < quotes[candidates[j]].final_cpm
     \/ quotes[candidates[i]].final_cpm = quotes[candidates[j]].final_cpm /\ i <= j

-----------------------------------------------------------------------------
(* _negotiate()                                                            *)

NegotiationKey(b, q, i) == [op |-> "neg", buyer |-> b, quote |-> q, i |-> i]
\* Fault: the key names the operation only.
BookingKeyPerOperation(b, q) == [op |-> "book", buyer |-> 1, quote |-> 1, i |-> 0]
BookingKey(b, q) == [op |-> "book", buyer |-> b, quote |-> q, i |-> 0]

(* Fault: a counter without its price.                                     *)
CounterWithoutPrice(b, s, context, bp) ==
  [key |-> NegotiationKey(b, s.quote, s.i), action |-> "counter",
   context |-> context, buyer_price |-> NoPrice]

CounterMessage(b, s, context, bp) ==
  [key |-> NegotiationKey(b, s.quote, s.i), action |-> "counter",
   context |-> context, buyer_price |-> Price(bp, quotes[s.quote].currency)]

BareMessage(b, s, i, action) ==
  [key |-> NegotiationKey(b, s.quote, i), action |-> action,
   context |-> [by |-> "negotiation", id |-> s.negotiation_id],
   buyer_price |-> NoPrice]

Opening(b, s) ==
  LET final == quotes[s.quote].final_cpm
      counter == brief[b].counter_cpm
  IN  IF s.must_negotiate
      THEN IF counter = NoCounter THEN brief[b].max_cpm
           ELSE MinOf(counter, brief[b].max_cpm)
      ELSE IF counter = NoCounter THEN (final * 85) \div 100 ELSE counter

StartNegotiation(b, s) ==
  [s EXCEPT !.phase = "negotiate", !.bp = Opening(b, s),
            !.message = CounterMessage(b, s, [by |-> "quote", id |-> s.quote],
                                       Opening(b, s))]

(* transact() up to its first call after discovery.                        *)
ChooseQuote(b) ==
  /\ buyer[b].phase = "discover" /\ buyer[b].asked = Len(Catalogs)
  /\ \/ /\ buyer[b].candidates = <<>>
        /\ buyer' = [buyer EXCEPT ![b] = WalksAway(@, "no affordable quote")]
     \/ \E i \in DOMAIN buyer[b].candidates :
          LET q == buyer[b].candidates[i]
              must == quotes[q].final_cpm > brief[b].max_cpm
              s == [buyer[b] EXCEPT !.quote = q, !.must_negotiate = must,
                                    !.effective_cpm = quotes[q].final_cpm]
          IN  /\ IsCheapest(buyer[b].candidates, i)
              /\ buyer' = [buyer EXCEPT ![b] =
                             IF brief[b].negotiate \/ must
                             THEN StartNegotiation(b, s) ELSE Guarded(b, s)]
  /\ UNCHANGED <<vars, brief, ceiling>>

(* The next message after an answer that left the negotiation open.  The   *)
(* loop's index names its key; with the index exhausted the message is     *)
(* never sent and the buyer closes the negotiation instead.                *)
Next_bp(b, s, sellerPrice) == MinOf(brief[b].max_cpm, (s.bp + sellerPrice) \div 2)

(* Fault: the buyer walks instead of holding at its ceiling.               *)
RespondWithoutHold(b, s, sellerPrice) ==
  LET context == [by |-> "negotiation", id |-> s.negotiation_id]
      raised == Next_bp(b, s, sellerPrice)
  IN  IF sellerPrice <= brief[b].max_cpm
      THEN [s EXCEPT !.message = BareMessage(b, s, s.i, "accept")]
      ELSE IF raised > s.bp
      THEN [s EXCEPT !.bp = raised, !.message = CounterMessage(b, s, context, raised)]
      ELSE [s EXCEPT !.phase = "walk", !.message = BareMessage(b, s, s.i, "reject")]

Respond(b, s, sellerPrice) ==
  LET context == [by |-> "negotiation", id |-> s.negotiation_id]
      raised == Next_bp(b, s, sellerPrice)
  IN  IF sellerPrice <= brief[b].max_cpm
      THEN [s EXCEPT !.message = BareMessage(b, s, s.i, "accept")]
      ELSE IF raised > s.bp
      THEN [s EXCEPT !.bp = raised, !.message = CounterMessage(b, s, context, raised)]
      ELSE IF s.must_negotiate
      THEN [s EXCEPT !.message = CounterMessage(b, s, context, s.bp)]
      ELSE [s EXCEPT !.phase = "walk", !.message = BareMessage(b, s, s.i, "reject")]

(* Fault: the negotiation is abandoned, not closed.                        *)
BackstopSilent(b, s) ==
  IF s.phase = "negotiate" /\ s.i > MAX_BUYER_ROUNDS
  THEN WalksAway([s EXCEPT !.status = "rejected"], "negotiation")
  ELSE s

Backstop(b, s) ==
  IF s.phase = "negotiate" /\ s.i > MAX_BUYER_ROUNDS
  THEN [s EXCEPT !.phase = "walk", !.message = BareMessage(b, s, 0, "reject")]
  ELSE s

Agreed_cpm(s) == s.rounds[Len(s.rounds)].seller_price

AfterAnswer(b, s, answer) ==
  IF answer.kind = "error"
  THEN WalksAway([s EXCEPT !.status = "rejected"], "negotiation")
  ELSE LET t == [s EXCEPT !.i = @ + 1, !.negotiation_id = answer.negotiation_id,
                          !.rounds = Append(@, answer.round), !.status = answer.status]
       IN  CASE t.status = "accepted"
                  -> Guarded(b, [t EXCEPT !.effective_cpm = Agreed_cpm(t)])
             [] t.status = "rejected" -> WalksAway(t, "negotiation")
             [] t.status = "active"
                  -> Backstop(b, Respond(b, t, answer.round.seller_price))

SendRound(b) ==
  /\ buyer[b].phase = "negotiate"
  /\ HandleNegotiation(buyer[b].message)
  /\ buyer' = [buyer EXCEPT ![b] = AfterAnswer(b, @, reply')]
  /\ UNCHANGED <<brief, ceiling>>

(* The buyer's own walk-away, recorded at the seller; its answer is unused.*)
SendWalkAway(b) ==
  /\ buyer[b].phase = "walk"
  /\ HandleNegotiation(buyer[b].message)
  /\ buyer' = [buyer EXCEPT ![b] =
                 WalksAway([@ EXCEPT !.status = "rejected"], "negotiation")]
  /\ UNCHANGED <<brief, ceiling>>

-----------------------------------------------------------------------------
(* _book()                                                                 *)

BookingRequest(b) ==
  [key |-> BookingKey(b, buyer[b].quote), quote_id |-> buyer[b].quote,
   identity |-> brief[b].identity, plan |-> brief[b].plan]

SendBooking(b) ==
  /\ buyer[b].phase = "book"
  /\ BookDeal(BookingRequest(b), ceiling[b])
  /\ buyer' = [buyer EXCEPT ![b] =
       IF reply'.kind = "error" THEN WalksAway(@, "booking rejected")
       ELSE [@ EXCEPT !.deal = reply'.deal_id,
                      !.phase = IF brief[b].double_book THEN "rebook" ELSE "done"]]
  /\ UNCHANGED <<brief, ceiling>>

SendBookingAgain(b) ==
  /\ buyer[b].phase = "rebook"
  /\ BookDeal(BookingRequest(b), ceiling[b])
  /\ buyer' = [buyer EXCEPT ![b].phase = "done",
                            ![b].replay_deal =
                               IF reply'.kind = "error" THEN @ ELSE reply'.deal_id]
  /\ UNCHANGED <<brief, ceiling>>

-----------------------------------------------------------------------------
Step(b) ==
  \/ SkipSeller(b)
  \/ AskSeller(b)
  \/ ChooseQuote(b)
  \/ SendRound(b)
  \/ SendWalkAway(b)
  \/ SendBooking(b)
  \/ SendBookingAgain(b)

(* run_scenario(): the next buyer starts when the one before it is done.   *)
Finished(b) == buyer[b].phase = "done"
Turn(b) == \A c \in 1..b-1 : Finished(c)

BNext == \E b \in Buyers : Turn(b) /\ Step(b)

(* transact() is a plain call and nothing in it waits, so a step that can  *)
(* be taken is eventually taken.                                           *)
BSpec == BInit /\ [][BNext]_allVars /\ WF_allVars(BNext)
=============================================================================
