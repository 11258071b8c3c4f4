-------------------------------- MODULE Trust --------------------------------
(***************************************************************************)
(* The legacy trust model shared by the registry and its client:           *)
(* TrustStatus (primitives/identity.py) and the tier ceiling a status      *)
(* carries (TRUST_TIER_CEILING, registry_client.py).                       *)
(***************************************************************************)
TrustStatuses == {"unknown", "registered", "approved", "preferred", "blocked"}

Tiers == {"public", "seat", "agency", "advertiser"}

TRUST_TIER_CEILING ==
  [unknown |-> "public", registered |-> "seat", approved |-> "agency",
   preferred |-> "advertiser", blocked |-> "public"]

Grant(status, tier) == [status |-> status, tier |-> tier]
FreshGrant == Grant("registered", TRUST_TIER_CEILING["registered"])
=============================================================================
