--------------------------- MODULE MCReferenceBuyer ---------------------------
EXTENDS BuyerProperties, TLC

(* Two sellers: one sells `display` and the costlier `banner`, the other   *)
(* `video`, priced in euros and for guaranteed deals only.                 *)
CONSTANTS display, banner, video

MCBasePrice == display :> 2000 @@ banner :> 3000 @@ video :> 4000
MCFloor == display :> 1600 @@ banner :> 2000 @@ video :> 3300
MCListCurrency == display :> "USD" @@ banner :> "USD" @@ video :> "EUR"
MCSupportedDealTypes == display :> {"PG", "PD"} @@ banner :> {} @@ video :> {"PG"}
MCAdFormats == display :> {"image"} @@ banner :> {"image"} @@ video :> {"spot"}
MCCatalogs == << <<display, banner>>, <<video>> >>

MCKeys == [op : {"neg", "book"}, buyer : Buyers, quote : 1..MaxMinted,
           i : 0..(MAX_BUYER_ROUNDS + 1)]
MCBids == [amount : Amounts, currency : Currencies]

MCBrief(max, budget, negotiate, counter, format, media, dealType, identity, again) ==
  [max_cpm |-> max, budget |-> budget, impressions |-> 1000, negotiate |-> negotiate,
   counter_cpm |-> counter, ad_format |-> format, media_type |-> media,
   deal_type |-> dealType, identity |-> identity, plan |-> "plan", double_book |-> again]

(* The calls of the briefs below.                                          *)
MCIdentities == {{}, {"seat"}, {"agency"}}
MCQuoteRequests ==
  [product : Products, media_type : {"digital", "linear_tv"}, deal_type : {"PG", "PD"},
   has_impressions : {TRUE}, identity : MCIdentities]

(* One buyer: every ceiling from far below a floor to above the list price *)
(* with every opening bid, under both kinds of deal and two identities.    *)
MCManyBriefs ==
  {MCBrief(max, budget, negotiate, counter, format, media, dealType, identity, again) :
     max \in {1399, 1599, 1600, 1601, 1700, 1899, 1999, 2000, 2100, 2900, 3299, 3300, 3500, 4100},
     budget \in {1700, 6000}, negotiate \in BOOLEAN,
     counter \in {NoCounter, 1000, 1500, 1650, 2600, 3400}, format \in {"any", "spot"},
     media \in {"digital"}, dealType \in {"PG", "PD"},
     identity \in {{}, {"agency"}}, again \in {TRUE}}
  \cup {MCBrief(2000, 6000, FALSE, NoCounter, "image", "linear_tv", "PG", {}, FALSE),
        MCBrief(2000, 6000, FALSE, NoCounter, "image", "digital", "PG", {}, FALSE)}

(* Several buyers on the same sellers: a direct booking, a voluntary and a *)
(* forced negotiation, one that must fail.                                 *)
MCFewBriefs ==
  {MCBrief(2000, 6000, FALSE, NoCounter, "image", "digital", "PG", {}, TRUE),
   MCBrief(2000, 6000, TRUE, 1400, "any", "digital", "PD", {"seat"}, FALSE),
   MCBrief(1700, 6000, FALSE, NoCounter, "image", "digital", "PG", {}, TRUE),
   MCBrief(3600, 6000, FALSE, 3400, "spot", "digital", "PG", {"agency"}, TRUE),
   MCBrief(3100, 6000, FALSE, NoCounter, "spot", "digital", "PG", {}, FALSE)}
===============================================================================
