------------------------- MODULE SellerContract_proofs -------------------------
(***************************************************************************)
(* What the reference seller's steps do, proved from the inductive         *)
(* invariant: its replay cache is its history, it only concedes, an        *)
(* agreement binds later bookings, and it implements SellerContract.       *)
(***************************************************************************)
EXTENDS ReferenceSeller_proofs, SequenceTheorems

-----------------------------------------------------------------------------
(* A round, whatever branch of _advance answers it: one record of rounds   *)
(* grows by the round that the answer states and the cache remembers.      *)
Played(neg, after, rnd) ==
  /\ after.quote_id = neg.quote_id
  /\ after.status \in Statuses
  /\ after.rounds = Append(neg.rounds, rnd)
  /\ rnd \in RoundRecords
  /\ rnd.round_number = Len(neg.rounds) + 1
  /\ after.seller_price \in Int
  /\ FloorOf(neg) <= after.seller_price
  /\ after.seller_price <= neg.seller_price
  /\ FloorOf(neg) <= rnd.seller_price
  /\ after.status = "rejected" => after.seller_price = neg.seller_price

Records(id, neg, key, after, answer) ==
  /\ negotiations' = Extend(negotiations, id, after)
  /\ negReplay' = Extend(negReplay, key, answer)
  /\ answer.negotiation_id = id
  /\ Played(neg, after, answer.round)

LEMMA RoundEffect ==
  ASSUME Quoted, NEW id, NEW neg, Healthy(neg),
         NEW m \in NegotiationMessages, Advance(id, neg, m)
  PROVE  \E after, answer : Records(id, neg, m.key, after, answer)
<1>1. /\ neg \in NegotiationRecords
      /\ neg.quote_id \in DOMAIN quotes
      /\ FloorOf(neg) \in Int
      /\ neg.seller_price >= FloorOf(neg)
  BY FloorType DEF Healthy
<1>2. PICK status \in Statuses, ask \in Int, stated \in Int, action \in Actions :
        /\ RecordRound(id, neg, m, status, ask, stated, action)
        /\ SoundAnswer(neg, m, status, ask, stated, action)
  BY <1>1, AdvanceFacts
<1>. DEFINE rnd == [round_number |-> RoundNumber(neg),
                    buyer_price |-> LastBuyerPrice(neg, m),
                    seller_price |-> stated,
                    currency |-> RoundCurrency(m),
                    action |-> action]
            after == [neg EXCEPT !.status = status,
                                 !.seller_price = ask,
                                 !.last_buyer_price = LastBuyerPrice(neg, m),
                                 !.rounds = Append(neg.rounds, rnd)]
<1>3. LastBuyerPrice(neg, m) \in Int
  BY <1>1, BidAssumption DEF LastBuyerPrice, NegotiationMessages, NegotiationRecords
<1>4. RoundCurrency(m) \in Currencies
  BY BidAssumption, CatalogAssumption DEF RoundCurrency, NegotiationMessages
<1>5. neg.rounds \in Seq(RoundRecords) /\ Len(neg.rounds) \in Nat
  BY <1>1 DEF NegotiationRecords
<1>6. rnd \in RoundRecords /\ rnd.round_number = Len(neg.rounds) + 1
                           /\ rnd.seller_price = stated
  BY <1>3, <1>4, <1>5 DEF RoundRecords, RoundNumber, Actions
<1>7. negotiations' = Extend(negotiations, id, after)
  BY <1>2, Zenon DEF RecordRound
<1>8. PICK answer : /\ negReplay' = Extend(negReplay, m.key, answer)
                    /\ answer.negotiation_id = id
                    /\ answer.round = rnd
  BY <1>2 DEF RecordRound
<1>9. /\ after.quote_id = neg.quote_id
      /\ after.seller_price = ask
      /\ after.status = status
      /\ after.rounds = Append(neg.rounds, rnd)
  BY <1>1 DEF NegotiationRecords
<1>10. /\ FloorOf(neg) <= ask /\ ask <= neg.seller_price /\ FloorOf(neg) <= stated
       /\ status = "rejected" => ask = neg.seller_price
  BY <1>2 DEF SoundAnswer
<1>. HIDE DEF rnd, after
<1>11. Played(neg, after, answer.round)
  BY <1>6, <1>8, <1>9, <1>10 DEF Played
<1>. QED BY <1>7, <1>8, <1>11 DEF Records

-----------------------------------------------------------------------------
(* The three kinds of step that change the record.                         *)

(* A round on quote q: negotiation `id`, which is neg before the round, is *)
(* continued or opened.                                                    *)
Continued(q, id, neg) ==
  /\ q \in DOMAIN negByQuote /\ negByQuote[q] = id
  /\ id \in DOMAIN negotiations /\ neg = negotiations[id]
  /\ negByQuote' = negByQuote /\ n' = n

OpenedOn(q, id, neg) ==
  /\ q \notin DOMAIN negByQuote
  /\ id \notin DOMAIN negotiations /\ neg = Opened(q)
  /\ negByQuote' = Extend(negByQuote, q, id)

RoundOn(q, id, neg, key, after, answer) ==
  /\ q \in DOMAIN quotes /\ q \in 1..MaxMinted
  /\ Healthy(neg) /\ neg.status = "active" /\ neg.quote_id = q
  /\ Continued(q, id, neg) \/ OpenedOn(q, id, neg)
  /\ key \in Keys \ DOMAIN negReplay
  /\ Records(id, neg, key, after, answer)
  /\ UNCHANGED <<quotes, deals, dealsByKey>>

SomeRound ==
  \E q, id, neg, key, after, answer : RoundOn(q, id, neg, key, after, answer)

SomeQuote == \E r \in QuoteRequests, ceiling \in Ceilings : IssueQuote(r, ceiling)
SomeBooking == \E r \in BookingRequests, ceiling \in Ceilings : Book(r, ceiling)

LEMMA MintedIds == ASSUME IInv, NEW q \in DOMAIN quotes PROVE q \in 1..MaxMinted
  BY MintedAssumption DEF IInv, Quoted

LEMMA ContinueIsRound ==
  ASSUME IInv, NEW m \in NegotiationMessages, ContinueNegotiation(m)
  PROVE  SomeRound
<1>1. PICK id \in Existing(m) : /\ negotiations[id].status = "active"
                                /\ Advance(id, negotiations[id], m)
  BY DEF ContinueNegotiation
<1>2. id \in DOMAIN negotiations
  BY DEF Existing, IInv, Linked
<1>. DEFINE q == negotiations[id].quote_id
<1>3. Quoted /\ Healthy(negotiations[id])
  BY <1>2 DEF IInv, NegotiationsHealthy
<1>4. q \in DOMAIN quotes /\ q \in DOMAIN negByQuote /\ negByQuote[q] = id
  BY <1>2, <1>3 DEF Healthy, IInv, Linked, OneNegotiationPerQuote
<1>5. q \in 1..MaxMinted
  BY <1>4, MintedIds
<1>6. PICK after, answer : Records(id, negotiations[id], m.key, after, answer)
  BY <1>1, <1>3, RoundEffect
<1>7. /\ m.key \in Keys \ DOMAIN negReplay
      /\ UNCHANGED <<n, quotes, negByQuote, deals, dealsByKey>>
  BY DEF ContinueNegotiation, NegotiationMessages
<1>8. RoundOn(q, id, negotiations[id], m.key, after, answer)
  BY <1>1, <1>2, <1>3, <1>4, <1>5, <1>6, <1>7 DEF RoundOn, Continued
<1>. QED BY <1>8 DEF SomeRound

LEMMA OpenIsRound ==
  ASSUME IInv, NEW m \in NegotiationMessages, OpenNegotiation(m)
  PROVE  SomeRound
<1>. DEFINE q == m.context.id
            neg == Opened(q)
            id == n + 1
<1>1. /\ q \in DOMAIN quotes /\ q \notin DOMAIN negByQuote
      /\ quotes' = quotes /\ deals' = deals /\ dealsByKey' = dealsByKey
      /\ negByQuote' = Extend(negByQuote, q, id)
      /\ Advance(id, neg, m)
      /\ m.key \in Keys \ DOMAIN negReplay
  BY DEF OpenNegotiation, Opens, NegotiationMessages
<1>2. Healthy(neg) /\ neg.status = "active" /\ neg.quote_id = q /\ Quoted
  BY <1>1, OpenedHealthy DEF IInv
<1>3. id \notin DOMAIN negotiations
  BY <1>2 DEF IInv, NegotiationsHealthy, Quoted
<1>4. q \in 1..MaxMinted
  BY <1>1, MintedIds
<1>. HIDE DEF id
<1>5. OpenedOn(q, id, neg)
  BY <1>1, <1>3 DEF OpenedOn
<1>. HIDE DEF q, neg
<1>6. PICK after, answer : Records(id, neg, m.key, after, answer)
  BY <1>1, <1>2, RoundEffect
<1>7. RoundOn(q, id, neg, m.key, after, answer)
  BY <1>1, <1>2, <1>4, <1>5, <1>6 DEF RoundOn
<1>. QED BY <1>7 DEF SomeRound

(* A step answers without changing the record, or is one of the three.     *)
LEMMA StepKinds ==
  ASSUME IInv, [Next]_vars
  PROVE  UNCHANGED record \/ SomeQuote \/ SomeRound \/ SomeBooking
<1>1. CASE UNCHANGED vars
  BY <1>1 DEF vars, record
<1>2. ASSUME NEW r \in QuoteRequests, NEW ceiling \in Ceilings, PriceQuote(r, ceiling)
      PROVE  UNCHANGED record \/ SomeQuote
  BY <1>2 DEF PriceQuote, RefuseQuote, SomeQuote
<1>3. ASSUME NEW m \in NegotiationMessages, HandleNegotiation(m)
      PROVE  UNCHANGED record \/ SomeRound
  BY <1>3, ContinueIsRound, OpenIsRound DEF HandleNegotiation, ReplayRound, RefuseMessage
<1>4. ASSUME NEW r \in BookingRequests, NEW ceiling \in Ceilings, BookDeal(r, ceiling)
      PROVE  UNCHANGED record \/ SomeBooking
  BY <1>4 DEF BookDeal, ReplayBooking, RefuseBooking, SomeBooking
<1>. QED BY <1>1, <1>2, <1>3, <1>4 DEF Next

(* What a round does to the two maps it writes.                            *)
Grown(id, neg, key, after, answer) ==
  /\ DOMAIN negotiations' = DOMAIN negotiations \cup {id}
  /\ negotiations'[id] = after
  /\ \A other \in DOMAIN negotiations \ {id} :
       negotiations'[other] = negotiations[other]
  /\ DOMAIN negReplay' = DOMAIN negReplay \cup {key}
  /\ negReplay'[key] = answer
  /\ \A k \in DOMAIN negReplay : k # key /\ negReplay'[k] = negReplay[k]
  /\ neg.rounds \in Seq(RoundRecords)
  /\ Played(neg, after, answer.round)
  /\ answer.negotiation_id = id
  /\ id \in DOMAIN negotiations => neg = negotiations[id]
  /\ id \notin DOMAIN negotiations => neg.rounds = <<>>

LEMMA RoundGrows ==
  ASSUME NEW q, NEW id, NEW neg, NEW key, NEW after, NEW answer,
         RoundOn(q, id, neg, key, after, answer)
  PROVE  Grown(id, neg, key, after, answer)
  BY DEF RoundOn, Records, Extend, Continued, OpenedOn, Opened, Healthy,
         NegotiationRecords, Grown

(* The appended sequence begins with the old one.                          *)
LEMMA AppendKeepsPrefix ==
  ASSUME NEW S, NEW s \in Seq(S), NEW e \in S
  PROVE  SubSeq(Append(s, e), 1, Len(s)) = s
<1>1. Append(s, e) \in Seq(S) /\ Len(Append(s, e)) = Len(s) + 1 /\ Len(s) \in Nat
  BY AppendFacts
<1>2. \A i \in 1..Len(s) : Append(s, e)[i] = s[i] /\ s[i] \in S
  BY AppendFacts
<1>. DEFINE prefix == SubSeq(Append(s, e), 1, Len(s))
<1>3. /\ prefix \in Seq(S)
      /\ Len(prefix) = Len(s)
      /\ \A i \in 1..Len(s) : prefix[i] = s[i]
  BY <1>1, <1>2, SubSeqProperties
<1>. QED BY <1>3, SeqEqual

-----------------------------------------------------------------------------
(* The replay cache holds exactly the recorded rounds, each once.          *)
LEMMA RoundKeepsHistory ==
  ASSUME IInv, ReplayIsHistory, NEW q, NEW id, NEW neg, NEW key, NEW after,
         NEW answer, RoundOn(q, id, neg, key, after, answer)
  PROVE  ReplayIsHistory'
<1>. DEFINE len == Len(neg.rounds)
<1>0. Grown(id, neg, key, after, answer)
  BY RoundGrows
<1>1. /\ DOMAIN negotiations' = DOMAIN negotiations \cup {id}
      /\ negotiations'[id] = after
      /\ \A other \in DOMAIN negotiations \ {id} :
           negotiations'[other] = negotiations[other]
      /\ DOMAIN negReplay' = DOMAIN negReplay \cup {key}
      /\ negReplay'[key] = answer
      /\ \A k \in DOMAIN negReplay : k # key /\ negReplay'[k] = negReplay[k]
      /\ answer.negotiation_id = id
  BY <1>0 DEF Grown
<1>2. /\ neg.rounds \in Seq(RoundRecords) /\ len \in Nat
      /\ after.rounds = Append(neg.rounds, answer.round)
      /\ answer.round \in RoundRecords
      /\ answer.round.round_number = len + 1
  BY <1>0 DEF Grown, Played
<1>3. /\ DOMAIN neg.rounds = 1..len
      /\ DOMAIN after.rounds = 1..(len + 1)
      /\ after.rounds[len + 1] = answer.round
      /\ \A i \in 1..len : after.rounds[i] = neg.rounds[i]
  BY <1>2, AppendFacts
<1>4. /\ id \in DOMAIN negotiations => negotiations[id].rounds = neg.rounds
      /\ id \notin DOMAIN negotiations => len = 0
  BY <1>0 DEF Grown
<1>5. \A k \in DOMAIN negReplay :
        /\ negReplay[k].negotiation_id \in DOMAIN negotiations
        /\ negReplay[k].round.round_number
             \in DOMAIN negotiations[negReplay[k].negotiation_id].rounds
        /\ negReplay[k].round =
             negotiations[negReplay[k].negotiation_id].rounds[negReplay[k].round.round_number]
  BY DEF IInv, Cached, ReplayIsHistory, Rounds
<1>6. \A j, k \in DOMAIN negReplay :
        /\ negReplay[j].negotiation_id = negReplay[k].negotiation_id
        /\ negReplay[j].round.round_number = negReplay[k].round.round_number
        => j = k
  BY DEF ReplayIsHistory
<1>7. \A other \in DOMAIN negotiations : \A i \in DOMAIN negotiations[other].rounds :
        \E k \in DOMAIN negReplay :
           negReplay[k].negotiation_id = other /\ negReplay[k].round.round_number = i
  BY DEF ReplayIsHistory, Rounds
<1>8. \A k \in DOMAIN negReplay : negReplay[k].negotiation_id = id =>
         /\ negReplay[k].round.round_number \in 1..len
         /\ negReplay[k].round = neg.rounds[negReplay[k].round.round_number]
  BY <1>3, <1>4, <1>5
<1>. HIDE DEF len
<1>9. ASSUME NEW k \in DOMAIN negReplay'
      PROVE  /\ negReplay'[k].round.round_number
                  \in DOMAIN negotiations'[negReplay'[k].negotiation_id].rounds
             /\ negReplay'[k].round = negotiations'[negReplay'[k].negotiation_id]
                                        .rounds[negReplay'[k].round.round_number]
  <2>1. CASE k = key
    BY <1>1, <1>2, <1>3, <2>1
  <2>2. CASE k # key /\ negReplay[k].negotiation_id = id
    BY <1>1, <1>2, <1>3, <1>8, <2>2
  <2>3. CASE k # key /\ negReplay[k].negotiation_id # id
    BY <1>1, <1>5, <2>3
  <2>. QED BY <2>1, <2>2, <2>3
<1>10. ASSUME NEW j \in DOMAIN negReplay', NEW k \in DOMAIN negReplay',
              negReplay'[j].negotiation_id = negReplay'[k].negotiation_id,
              negReplay'[j].round.round_number = negReplay'[k].round.round_number
       PROVE  j = k
  BY <1>1, <1>2, <1>6, <1>8, <1>10
<1>11. ASSUME NEW other \in DOMAIN negotiations',
              NEW i \in DOMAIN negotiations'[other].rounds
       PROVE  \E k \in DOMAIN negReplay' :
                 negReplay'[k].negotiation_id = other /\ negReplay'[k].round.round_number = i
  <2>1. CASE other = id /\ i = len + 1
    BY <1>1, <1>2, <2>1
  <2>2. CASE other = id /\ i # len + 1
    <3>1. i \in 1..len
      BY <1>1, <1>2, <1>3, <2>2
    <3>2. other \in DOMAIN negotiations /\ i \in DOMAIN negotiations[other].rounds
      BY <1>2, <1>3, <1>4, <2>2, <3>1
    <3>. QED BY <1>1, <1>7, <3>2
  <2>3. CASE other # id
    BY <1>1, <1>7, <2>3
  <2>. QED BY <2>1, <2>2, <2>3
<1>. QED BY <1>9, <1>10, <1>11 DEF ReplayIsHistory, Rounds

(* Every retried message is answered from the history, and every recorded  *)
(* round is some key's: no retry consumes, repeats or loses a round.       *)
THEOREM ReplaysAreHistory == Spec => []ReplayIsHistory
<1>1. Init => ReplayIsHistory
  <2>. SUFFICES ASSUME Init PROVE ReplayIsHistory
    OBVIOUS
  <2>1. DOMAIN negotiations = {} /\ DOMAIN negReplay = {}
    BY DEF Init
  <2>. QED BY <2>1 DEF ReplayIsHistory
<1>2. IInv /\ ReplayIsHistory /\ [Next]_vars => ReplayIsHistory'
  <2>. SUFFICES ASSUME IInv, ReplayIsHistory, [Next]_vars PROVE ReplayIsHistory'
    OBVIOUS
  <2>1. CASE UNCHANGED <<negotiations, negReplay>>
    BY <2>1 DEF ReplayIsHistory, Rounds
  <2>2. CASE SomeRound
    BY <2>2, RoundKeepsHistory DEF SomeRound
  <2>3. SomeQuote \/ SomeBooking => UNCHANGED <<negotiations, negReplay>>
    BY DEF SomeQuote, SomeBooking, IssueQuote, Book
  <2>. QED BY <2>1, <2>2, <2>3, StepKinds DEF record
<1>. QED BY <1>1, <1>2, InductiveInvariant, PTL DEF Spec

-----------------------------------------------------------------------------
(* No step raises a standing ask, rewrites a round or touches a closed     *)
(* negotiation.                                                            *)
THEOREM SellerConcedes == Spec => SellerOnlyConcedes
<1>1. IInv /\ [Next]_vars => NegotiationsOnlyAdvance
  <2>. SUFFICES ASSUME IInv, [Next]_vars, NEW other \in DOMAIN negotiations
                PROVE  /\ other \in DOMAIN negotiations'
                       /\ negotiations'[other].seller_price
                            <= negotiations[other].seller_price
                       /\ SubSeq(negotiations'[other].rounds, 1, Len(Rounds(other)))
                            = Rounds(other)
                       /\ ~Active(other) => negotiations'[other] = negotiations[other]
    BY DEF NegotiationsOnlyAdvance
  <2>1. negotiations[other] \in NegotiationRecords
    BY DEF IInv, NegotiationsHealthy, Healthy
  <2>2. /\ negotiations[other].seller_price \in Int
        /\ negotiations[other].rounds \in Seq(RoundRecords)
    BY <2>1 DEF NegotiationRecords
  <2>3. CASE /\ other \in DOMAIN negotiations'
             /\ negotiations'[other] = negotiations[other]
    BY <2>2, <2>3, SubSeqFull DEF Rounds
  <2>4. ASSUME NEW q, NEW id, NEW neg, NEW key, NEW after, NEW answer,
               RoundOn(q, id, neg, key, after, answer), other = id
        PROVE  /\ other \in DOMAIN negotiations'
               /\ negotiations'[other].seller_price <= negotiations[other].seller_price
               /\ SubSeq(negotiations'[other].rounds, 1, Len(Rounds(other))) = Rounds(other)
               /\ Active(other)
    <3>1. Grown(id, neg, key, after, answer) /\ neg.status = "active"
      BY <2>4, RoundGrows DEF RoundOn
    <3>2. /\ other \in DOMAIN negotiations' /\ negotiations'[other] = after
          /\ neg = negotiations[other]
          /\ Played(neg, after, answer.round)
      BY <2>4, <3>1 DEF Grown
    <3>3. /\ after.rounds = Append(Rounds(other), answer.round)
          /\ answer.round \in RoundRecords
          /\ after.seller_price <= neg.seller_price
      BY <3>2 DEF Played, Rounds
    <3>4. SubSeq(after.rounds, 1, Len(Rounds(other))) = Rounds(other)
      BY <2>2, <3>3, AppendKeepsPrefix DEF Rounds
    <3>. QED BY <3>1, <3>2, <3>3, <3>4 DEF Active
  <2>5. ASSUME NEW q, NEW id, NEW neg, NEW key, NEW after, NEW answer,
               RoundOn(q, id, neg, key, after, answer), other # id
        PROVE  other \in DOMAIN negotiations' /\ negotiations'[other] = negotiations[other]
    <3>1. Grown(id, neg, key, after, answer)
      BY <2>5, RoundGrows
    <3>. QED BY <2>5, <3>1 DEF Grown
  <2>6. CASE SomeRound
    BY <2>3, <2>4, <2>5, <2>6 DEF SomeRound
  <2>7. SomeQuote \/ SomeBooking \/ UNCHANGED record => negotiations' = negotiations
    BY DEF SomeQuote, SomeBooking, IssueQuote, Book, record
  <2>. QED BY <2>3, <2>6, <2>7, StepKinds
<1>. QED BY <1>1, InductiveInvariant, PTL DEF Spec, SellerOnlyConcedes

(* A deal booked after the agreement on its quote is at the agreed price.  *)
THEOREM AgreementsBind == Spec => AgreementBindsBookings
<1>1. IInv /\ [Next]_vars => NewDealsHonourAgreements
  <2>. SUFFICES ASSUME IInv, [Next]_vars, NEW d \in DOMAIN deals' \ DOMAIN deals,
                       Agreed(deals'[d].quote_id)
                PROVE  deals'[d].price = AgreedPrice(deals'[d].quote_id)
    BY DEF NewDealsHonourAgreements
  <2>1. SomeQuote \/ SomeRound \/ UNCHANGED record => deals' = deals
    BY DEF SomeQuote, SomeRound, IssueQuote, RoundOn, record
  <2>2. PICK r \in BookingRequests, ceiling \in Ceilings : Book(r, ceiling)
    BY <2>1, StepKinds DEF SomeBooking
  <2>3. deals'[d].quote_id = r.quote_id /\ deals'[d].price = BookingPrice(r.quote_id)
    BY <2>2 DEF Book, Extend
  <2>. QED BY <2>3 DEF BookingPrice, Agreed, AgreedPrice
<1>. QED BY <1>1, InductiveInvariant, PTL DEF Spec, AgreementBindsBookings

-----------------------------------------------------------------------------
(* The refinement.  An offer of the contract is read off its quote and the *)
(* negotiation on it.                                                      *)
OfferFields == {"quoted", "floor", "ask", "status", "agreed"}

OfferOf(q) ==
  [quoted |-> Price(quotes[q].final_cpm, quotes[q].currency),
   floor |-> Floor[quotes[q].product],
   ask |-> StandingAsk(q),
   status |-> OfferStatus(q),
   agreed |-> IF OfferStatus(q) = "accepted" THEN AgreedPrice(q) ELSE NoPrice]

LEMMA OfferRead ==
  /\ DOMAIN OffersView = DOMAIN quotes
  /\ \A q \in DOMAIN quotes : OffersView[q] = OfferOf(q)
  BY DEF OffersView, OfferOf

LEMMA OfferReadNext ==
  /\ DOMAIN OffersView' = DOMAIN quotes'
  /\ \A q \in DOMAIN quotes' : OffersView'[q] = OfferOf(q)'
  BY DEF OffersView, OfferOf

LEMMA BookingsKept ==
  ASSUME UNCHANGED <<deals, dealsByKey>>
  PROVE  BookingsView' = BookingsView
  BY DEF BookingsView

(* What a quote's offer reads depends on its quote and its negotiation.    *)
LEMMA OfferKept ==
  ASSUME NEW q, quotes'[q] = quotes[q],
         (q \in DOMAIN negByQuote') <=> (q \in DOMAIN negByQuote),
         q \in DOMAIN negByQuote =>
           negotiations'[negByQuote'[q]] = negotiations[negByQuote[q]]
  PROVE  OfferOf(q)' = OfferOf(q)
  BY DEF OfferOf, StandingAsk, OfferStatus, AgreedPrice

(* Quoting makes an offer.                                                 *)
LEMMA QuoteOffers ==
  ASSUME IInv, SomeQuote
  PROVE  \E id \in 1..MaxMinted : Contract!Offer(id)
<1>1. PICK r \in QuoteRequests, ceiling \in Ceilings : IssueQuote(r, ceiling)
  BY DEF SomeQuote
<1>2. Quoted'
  BY <1>1, IssueQuoteKeeps, TierAssumption DEF IInv
<1>3. PICK id : id = n + 1
  OBVIOUS
<1>4. /\ id \in 1..MaxMinted
      /\ id \notin DOMAIN quotes /\ id \notin DOMAIN negByQuote
  BY <1>1, <1>3, MintedAssumption DEF IssueQuote, IInv, Quoted, Linked
<1>5. /\ DOMAIN quotes' = DOMAIN quotes \cup {id}
      /\ \A q \in DOMAIN quotes : quotes'[q] = quotes[q]
      /\ UNCHANGED <<negotiations, negByQuote, deals, dealsByKey>>
  BY <1>1, <1>3, <1>4 DEF IssueQuote, Extend
<1>6. \A q \in DOMAIN quotes : OfferOf(q)' = OfferOf(q)
  BY <1>5, OfferKept
<1>7. /\ (OfferOf(id)').status = "active"
      /\ (OfferOf(id)').ask = (OfferOf(id)').quoted.amount
      /\ (OfferOf(id)').ask >= (OfferOf(id)').floor
  BY <1>2, <1>4, <1>5 DEF OfferOf, StandingAsk, OfferStatus, Price, Quoted
<1>8. BookingsView' = BookingsView
  BY <1>5, BookingsKept
<1>9. Contract!Offer(id)
  BY <1>4, <1>5, <1>6, <1>7, <1>8, OfferRead, OfferReadNext DEF Contract!Offer
<1>. QED BY <1>4, <1>9

(* A round concedes, agrees or rejects: it moves its own offer only.       *)
LEMMA RoundOffer ==
  ASSUME IInv, NEW q, NEW id, NEW neg, NEW key, NEW after, NEW answer,
         RoundOn(q, id, neg, key, after, answer)
  PROVE  /\ q \in 1..MaxMinted
         /\ DOMAIN OffersView' = DOMAIN OffersView /\ q \in DOMAIN OffersView
         /\ \A other \in DOMAIN OffersView \ {q} :
              OffersView'[other] = OffersView[other]
         /\ BookingsView' = BookingsView
         /\ OffersView[q].floor = FloorOf(neg)
         /\ OffersView[q].ask = neg.seller_price
         /\ OffersView[q].status = "active"
         /\ OffersView[q].agreed = NoPrice
         /\ OffersView'[q].quoted = OffersView[q].quoted
         /\ OffersView'[q].floor = OffersView[q].floor
         /\ OffersView'[q].ask = after.seller_price
         /\ OffersView'[q].status = after.status
         /\ OffersView'[q].agreed =
              IF after.status = "accepted"
              THEN Price(LastRound(after).seller_price, LastRound(after).currency)
              ELSE NoPrice
<1>1. Grown(id, neg, key, after, answer)
  BY RoundGrows
<1>2. /\ q \in DOMAIN quotes /\ q \in 1..MaxMinted
      /\ neg.status = "active" /\ neg.quote_id = q
      /\ Continued(q, id, neg) \/ OpenedOn(q, id, neg)
      /\ quotes' = quotes /\ deals' = deals /\ dealsByKey' = dealsByKey
  BY DEF RoundOn
<1>3. /\ q \in DOMAIN negByQuote' /\ negByQuote'[q] = id
      /\ \A other \in DOMAIN quotes \ {q} :
           /\ (other \in DOMAIN negByQuote') <=> (other \in DOMAIN negByQuote)
           /\ other \in DOMAIN negByQuote => negByQuote'[other] = negByQuote[other]
  BY <1>2 DEF Continued, OpenedOn, Extend
<1>4. \A other \in DOMAIN negByQuote \ {q} :
        negByQuote[other] \in DOMAIN negotiations \ {id}
  BY <1>2 DEF IInv, Linked, OneNegotiationPerQuote, Continued, OpenedOn
<1>5. \A other \in DOMAIN quotes \ {q} : OfferOf(other)' = OfferOf(other)
  BY <1>1, <1>2, <1>3, <1>4, OfferKept DEF Grown
<1>6. /\ StandingAsk(q) = neg.seller_price
      /\ OfferStatus(q) = "active"
  BY <1>2 DEF StandingAsk, OfferStatus, Continued, OpenedOn, Opened
<1>7. /\ StandingAsk(q)' = after.seller_price
      /\ OfferStatus(q)' = after.status
      /\ AgreedPrice(q)' = Price(LastRound(after).seller_price, LastRound(after).currency)
  BY <1>1, <1>3 DEF StandingAsk, OfferStatus, AgreedPrice, Grown, LastRound
<1>8. /\ OfferOf(q).floor = FloorOf(neg)
      /\ OfferOf(q).ask = neg.seller_price
      /\ OfferOf(q).status = "active"
      /\ OfferOf(q).agreed = NoPrice
  BY <1>2, <1>6 DEF OfferOf, FloorOf
<1>9. /\ (OfferOf(q)').quoted = OfferOf(q).quoted
      /\ (OfferOf(q)').floor = OfferOf(q).floor
      /\ (OfferOf(q)').ask = after.seller_price
      /\ (OfferOf(q)').status = after.status
      /\ (OfferOf(q)').agreed =
           IF after.status = "accepted"
           THEN Price(LastRound(after).seller_price, LastRound(after).currency)
           ELSE NoPrice
  BY <1>2, <1>7 DEF OfferOf
<1>10. BookingsView' = BookingsView
  BY <1>2, BookingsKept
<1>. QED BY <1>2, <1>5, <1>8, <1>9, <1>10, OfferRead, OfferReadNext

LEMMA RoundMovesOffer ==
  ASSUME IInv, SomeRound
  PROVE  \E id \in 1..MaxMinted :
            Contract!Concede(id) \/ Contract!Agree(id) \/ Contract!Reject(id)
<1>1. PICK q, id, neg, key, after, answer : RoundOn(q, id, neg, key, after, answer)
  BY DEF SomeRound
<1>2. Played(neg, after, answer.round)
  BY <1>1, RoundGrows DEF Grown
<1>3. /\ neg.rounds \in Seq(RoundRecords)
      /\ FloorOf(neg) \in Int
  BY <1>1, FloorType DEF RoundOn, Healthy, NegotiationRecords, IInv
<1>4. LastRound(after) = answer.round
  BY <1>2, <1>3, AppendFacts DEF Played, LastRound
<1>5. /\ FloorOf(neg) <= after.seller_price /\ after.seller_price <= neg.seller_price
      /\ FloorOf(neg) <= LastRound(after).seller_price
      /\ after.status = "rejected" => after.seller_price = neg.seller_price
      /\ after.status \in {"active", "accepted", "rejected"}
      /\ after.seller_price \in Int /\ LastRound(after).seller_price \in Int
  BY <1>2, <1>4 DEF Played, RoundRecords, Statuses
<1>6. /\ q \in 1..MaxMinted
      /\ DOMAIN OffersView' = DOMAIN OffersView /\ q \in DOMAIN OffersView
      /\ \A other \in DOMAIN OffersView \ {q} :
           OffersView'[other] = OffersView[other]
      /\ BookingsView' = BookingsView
      /\ OffersView[q].floor = FloorOf(neg)
      /\ OffersView[q].ask = neg.seller_price
      /\ OffersView[q].status = "active"
      /\ OffersView[q].agreed = NoPrice
      /\ OffersView'[q].quoted = OffersView[q].quoted
      /\ OffersView'[q].floor = OffersView[q].floor
      /\ OffersView'[q].ask = after.seller_price
      /\ OffersView'[q].status = after.status
      /\ OffersView'[q].agreed =
           IF after.status = "accepted"
           THEN Price(LastRound(after).seller_price, LastRound(after).currency)
           ELSE NoPrice
  BY <1>1, RoundOffer
<1>. USE DEF Contract!Open, Contract!OnlyChanges, Contract!AskComesDown
<1>7. CASE after.status = "active"
  <2>1. Contract!Concede(q)
    BY <1>3, <1>5, <1>6, <1>7 DEF Contract!Concede
  <2>. QED BY <1>6, <2>1
<1>8. CASE after.status = "accepted"
  <2>1. OffersView'[q].agreed.amount = LastRound(after).seller_price
    BY <1>6, <1>8 DEF Price
  <2>2. Contract!Agree(q)
    BY <1>3, <1>5, <1>6, <1>8, <2>1 DEF Contract!Agree
  <2>. QED BY <1>6, <2>2
<1>9. CASE after.status = "rejected"
  <2>1. Contract!Reject(q)
    BY <1>5, <1>6, <1>9 DEF Contract!Reject
  <2>. QED BY <1>6, <2>1
<1>. QED BY <1>5, <1>7, <1>8, <1>9

(* A booking books, at the agreed price if there is one.                   *)
LEMMA BookingBooks ==
  ASSUME IInv, SomeBooking
  PROVE  \E key \in Keys, id \in 1..MaxMinted : Contract!Book(key, id)
<1>1. PICK r \in BookingRequests, ceiling \in Ceilings : Book(r, ceiling)
  BY DEF SomeBooking
<1>. DEFINE key == r.key
            q == r.quote_id
<1>2. /\ key \in Keys \ DOMAIN dealsByKey
      /\ q \in DOMAIN quotes /\ q \in 1..MaxMinted
      /\ UNCHANGED <<quotes, negotiations, negByQuote>>
  BY <1>1 DEF Book, BookingRequests
<1>3. PICK d : /\ d = n + 1 /\ d \notin DOMAIN deals
               /\ dealsByKey' = Extend(dealsByKey, key, d)
               /\ \A e \in DOMAIN deals : deals'[e] = deals[e]
               /\ deals'[d].quote_id = q
               /\ deals'[d].price = BookingPrice(q)
  BY <1>1 DEF Book, Extend, IInv, Quoted, Dealt
<1>4. \A k \in DOMAIN dealsByKey : dealsByKey[k] \in DOMAIN deals
  BY DEF IInv, Dealt
<1>. HIDE DEF key, q
<1>5. /\ DOMAIN BookingsView' = DOMAIN BookingsView \cup {key}
      /\ \A k \in DOMAIN BookingsView : BookingsView'[k] = BookingsView[k]
      /\ BookingsView'[key] = [id |-> q, price |-> BookingPrice(q)]
      /\ key \notin DOMAIN BookingsView
  BY <1>2, <1>3, <1>4 DEF BookingsView, Extend
<1>6. OffersView' = OffersView
  BY <1>2 DEF OffersView, StandingAsk, OfferStatus, AgreedPrice
<1>7. q \in DOMAIN OffersView /\ OffersView[q] = OfferOf(q)
  BY <1>2, OfferRead
<1>8. q \in DOMAIN negByQuote /\ negotiations[negByQuote[q]].status = "accepted"
        => negotiations[negByQuote[q]].rounds # <<>>
  BY DEF IInv, Linked, NegotiationsHealthy, Healthy
<1>9. BookingPrice(q) = IF OffersView[q].status = "accepted"
                        THEN OffersView[q].agreed ELSE OffersView[q].quoted
  BY <1>7, <1>8 DEF OfferOf, OfferStatus, AgreedPrice, BookingPrice, IsAccepted
<1>10. Contract!Book(key, q)
  BY <1>2, <1>5, <1>6, <1>7, <1>9 DEF Contract!Book, Contract!Due
<1>. QED BY <1>2, <1>10

(* The seller implements its contract: each handler call is a step of the  *)
(* contract, or one that nothing the contract speaks of shows.             *)
THEOREM SellerImplementsContract == Spec => ImplementsContract
<1>1. Init => Contract!Init
  <2>. SUFFICES ASSUME Init PROVE Contract!Init
    OBVIOUS
  <2>1. DOMAIN quotes = {} /\ DOMAIN dealsByKey = {}
    BY DEF Init
  <2>. QED BY <2>1 DEF Contract!Init, OffersView, BookingsView
<1>2. IInv /\ [Next]_vars => [Contract!Next]_Contract!vars
  <2>. SUFFICES ASSUME IInv, [Next]_vars PROVE [Contract!Next]_Contract!vars
    OBVIOUS
  <2>1. CASE UNCHANGED record
    <3>1. OffersView' = OffersView
      BY <2>1 DEF record, OffersView, StandingAsk, OfferStatus, AgreedPrice
    <3>2. BookingsView' = BookingsView
      BY <2>1, BookingsKept DEF record
    <3>. QED BY <3>1, <3>2 DEF Contract!vars
  <2>2. CASE SomeQuote
    BY <2>2, QuoteOffers DEF Contract!Next
  <2>3. CASE SomeRound
    BY <2>3, RoundMovesOffer DEF Contract!Next
  <2>4. CASE SomeBooking
    BY <2>4, BookingBooks DEF Contract!Next
  <2>. QED BY <2>1, <2>2, <2>3, <2>4, StepKinds
<1>. QED BY <1>1, <1>2, InductiveInvariant, PTL DEF Spec, ImplementsContract, Contract!Spec
=============================================================================
