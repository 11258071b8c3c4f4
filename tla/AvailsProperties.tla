--------------------------- MODULE AvailsProperties ---------------------------
(***************************************************************************)
(* What the dialect bridge owes to the two sides.                          *)
(***************************************************************************)
EXTENDS Avails

FromNeed == need # None
Representable == need.requested_impressions = None \/ need.requested_impressions <= Exact
Bridged == queries # <<>>
Listed(targeting) ==
  LET used == {d \in DOMAIN targeting : targeting[d].values # <<>>}
  IN  IF used = {} THEN None
      ELSE [d \in used |-> [list |-> TRUE, values |-> targeting[d].values]]

(* A buyer that carries its request over to the published dialect ends     *)
(* with the volume and the price it would have got by asking in its own,   *)
(* for every volume a float holds, zero included; only the guarantee has   *)
(* no place in the dialect.                                                *)
DealCrosses ==
  (phase = "read" /\ FromNeed /\ Bridged /\ Representable) =>
    results = << IF IsSpec
                 THEN [Priced(need) EXCEPT !.guaranteed_impressions = None]
                 ELSE Priced(need) >>
TargetingCrosses ==
  (FromNeed /\ Bridged /\ IsSpec) =>
    Head(queries).targeting =
      IF need.targeting = None THEN None ELSE Listed(need.targeting)
NoVolumeNoRecord ==
  (phase = "read" /\ ~Bridged) =>
    \A i \in DOMAIN results :
       results[i] = None <=> answer.avails[i].availability = None

(* The dialect does not change the deal: volume and price cross it, the    *)
(* seller sees every targeting value, as a list, and a record without a    *)
(* volume, and no other, yields none (to_spec, to_simplified,              *)
(* avails_from_simplified and back).                                       *)
DialectChangesNothing == DealCrosses /\ TargetingCrosses /\ NoVolumeNoRecord

(* The status on a record is true of the volume the buyer asked for, not   *)
(* only of what the seller made of it: "Available" means every impression, *)
(* "Partially Available" some, and only these two come with a volume.      *)
StatusIsHonest ==
  (phase = "read" /\ FromNeed /\ Bridged /\ IsSpec /\ Representable) =>
     LET record == Head(answer.avails)
         asked == need.requested_impressions
         some == record.availability > 0
         all == asked = None \/ record.availability >= asked
     IN  /\ record.status = "Available" <=> some /\ all
         /\ record.status = "Unavailable" <=> ~some
         /\ record.reason = None <=> record.status = "Available"

-----------------------------------------------------------------------------
(* to_simplified's docstring: foreign ProductTargeting entries are         *)
(* ignored, so a search with no entry of this library's data source asks   *)
(* for no volume and no budget.                                            *)
ForeignEntriesIgnored ==
  (IsSpec /\ \A i \in DOMAIN payload.productids.product_targeting :
               payload.productids.product_targeting[i].datasource # EXTENSION_DATASOURCE)
  => \A i \in DOMAIN queries :
       queries[i].requested_impressions = None /\ queries[i].budget = None
===============================================================================
