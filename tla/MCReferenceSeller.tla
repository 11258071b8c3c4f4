--------------------------- MODULE MCReferenceSeller ---------------------------
EXTENDS SellerProperties, TLC

CONSTANTS display, video, k1, k2, k3, k4

MCBasePrice == display :> 20 @@ video :> 40
MCFloor == display :> 16 @@ video :> 37
MCListCurrency == display :> "USD" @@ video :> "EUR"
MCSupportedDealTypes == display :> {"PG", "PD"} @@ video :> {"PG", "PA"}

MCRequest(product, media, dealType, hasImpressions, identity) ==
  [product |-> product, media_type |-> media, deal_type |-> dealType,
   has_impressions |-> hasImpressions, identity |-> identity]

MCDollarBids == {Price(a, "USD") : a \in {15, 16, 17, 20}}
MCMixedBids == {Price(38, "EUR"), Price(38, "USD")}

(* One request per way through price_quote.                                *)
MCRefusedRequests ==
  {MCRequest("unlisted", "digital", "PG", TRUE, {}),
   MCRequest(display, "linear_tv", "PG", TRUE, {}),
   MCRequest(display, "digital", "PA", TRUE, {}),
   MCRequest(display, "digital", "PG", FALSE, {})}
MCGoodRequest == MCRequest(display, "digital", "PG", TRUE, {})
MCAgencyRequest == MCRequest(display, "ctv", "PD", FALSE, {"agency", "seat"})
MCVideoRequest == MCRequest(video, "ctv", "PG", TRUE, {"advertiser"})

MCAllRequests == MCRefusedRequests \cup {MCGoodRequest, MCAgencyRequest, MCVideoRequest}
MCOneRequest == {MCGoodRequest}
KeySymmetry == Permutations(Keys)
================================================================================
