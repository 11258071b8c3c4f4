-------------------------------- MODULE Roles --------------------------------
(***************************************************************************)
(* harness/roles.py: access tiers and the money arithmetic both roles use. *)
(* Money is an exact integer amount of micros (FD-11).                     *)
(***************************************************************************)
EXTENDS Integers

AccessTiers == {"public", "seat", "agency", "advertiser"}

TIER_ORDER == [public |-> 0, seat |-> 1, agency |-> 2, advertiser |-> 3]

(* An identity is the set of ids it reveals; the most specific one wins.   *)
TierFromIdentity(identity) ==
  CASE "advertiser" \in identity -> "advertiser"
    [] "advertiser" \notin identity /\ "agency" \in identity -> "agency"
    [] identity \cap {"advertiser", "agency"} = {} /\ "seat" \in identity -> "seat"
    [] OTHER -> "public"

CapTier(claimed, ceiling) ==
  IF TIER_ORDER[claimed] <= TIER_ORDER[ceiling] THEN claimed ELSE ceiling

MaxOf(a, b) == IF a >= b THEN a ELSE b
MinOf(a, b) == IF a <= b THEN a ELSE b

(* Cost of `impressions` at a price per thousand.                          *)
CpmCost(cpm, impressions) == (cpm * impressions) \div 1000
=============================================================================
