-------------------------------- MODULE Avails --------------------------------
(***************************************************************************)
(* POST /products/avails between a buyer and a seller that may speak       *)
(* different dialects (protocol/avails.py): the legacy single-product      *)
(* query and answer, and the published OpenDirect 2.1 search, whose        *)
(* extension fields travel as strings in ProductTargeting entries.  A step *)
(* is what one side does with one message.  The seller behind the parser   *)
(* prices legacy queries from its catalog; a seller that knows only the    *)
(* published dialect may leave `availability` out.  Both are the calling   *)
(* agents' code.  Dates, accounts and the total (a product of two fields)  *)
(* are echoed or derived and left out.                                     *)
(***************************************************************************)
EXTENDS Integers, SequencesExt

CONSTANTS
  Products,      \* product ids
  Capacity,      \* external: the volume a seller can still sell of each
  Minimum,       \* external: minimum_impressions of each
  Cpm,           \* external: the CPM of each
  Volumes,       \* requested_impressions a buyer may ask for
  Budgets,       \* and budgets
  Dimensions,    \* targeting dimensions, in the order of sorted()
  Targetings,    \* legacy targeting: dimension -> [list, values], the values
                 \* by their str(); a value that is no list has list = FALSE
  Foreign,       \* ProductTargeting entries of other data sources
  Exact,         \* 2^53: every integer up to it is a float
  None,          \* an optional field without a value
  NotANumber     \* a string that float() refuses

ASSUME CatalogAssumption ==
  /\ Capacity \in [Products -> Nat] /\ Minimum \in [Products -> Nat]
  /\ Cpm \in [Products -> Nat \ {0}]
(* A volume is an integer, a budget a float already.                       *)
ASSUME AmountsAssumption ==
  /\ Exact \in Nat /\ Volumes \subseteq Nat /\ Budgets \subseteq 0..Exact
  /\ NotANumber \notin Int
(* sorted() lists each dimension once; str() yields no None.               *)
ASSUME TargetingAssumption ==
  /\ Dimensions \in Seq(Range(Dimensions))
  /\ \A i, j \in DOMAIN Dimensions : Dimensions[i] = Dimensions[j] => i = j
  /\ None \notin Range(Dimensions) /\ None \notin Targetings
  /\ \A targeting \in Targetings :
       /\ DOMAIN targeting \subseteq Range(Dimensions)
       /\ \A d \in DOMAIN targeting :
            LET values == targeting[d].values
            IN  values \in Seq(Range(values)) /\ None \notin Range(values)

VARIABLES
  need,      \* the buyer's AvailsRequest, or None if it searches natively
  payload,   \* the request on the wire, under both of its discriminators
  queries,   \* what the seller's pricing is asked, one query per product
  answer,    \* the response on the wire, likewise
  results,   \* the AvailsResponses the buyer works with; None where refused
  phase

vars == <<need, payload, queries, answer, results, phase>>

AvailsRequests ==
  [product_id : Products, requested_impressions : Volumes \cup {None},
   budget : Budgets \cup {None}, targeting : Targetings \cup {None}]
AvailsResponses ==
  [product_id : Products, available_impressions : Nat,
   guaranteed_impressions : Nat \cup {None}, estimated_cpm : Nat]
AvailsRecords ==
  [product_id : Products, availability : Nat \cup {None},
   status : {"Available", "Partially Available", "Unavailable", None},
   reason : {"Booked", None}, price : Nat]

-----------------------------------------------------------------------------
(* AvailsRequest.to_spec()                                                 *)

EXTENSION_DATASOURCE == "iab-agentic-primitives"

Minted(target, value) ==
  IF value = None THEN <<>>
  ELSE << [datasource |-> EXTENSION_DATASOURCE, target |-> target,
           target_values |-> <<value>>] >>

(* Fault: a volume of zero is taken for none.                              *)
EntriesIfTruthy(request) ==
  (IF request.requested_impressions = 0 THEN <<>>
   ELSE Minted("requestedimpressions", request.requested_impressions))
  \o Minted("budget", request.budget)

Entries(request) ==
  Minted("requestedimpressions", request.requested_impressions)
  \o Minted("budget", request.budget)

(* The AdCOM segments, dimension by dimension.                             *)
SegmentsOf(targeting, d) ==
  IF d \in DOMAIN targeting
  THEN [j \in DOMAIN targeting[d].values |->
          [name |-> d, value |-> targeting[d].values[j]]]
  ELSE <<>>
Segments(targeting) ==
  IF targeting = None THEN <<>>
  ELSE FlattenSeq([i \in DOMAIN Dimensions |-> SegmentsOf(targeting, Dimensions[i])])

ToSpec(request) ==
  [product_ids |-> <<request.product_id>>, product_targeting |-> Entries(request),
   targeting |-> Segments(request.targeting)]

-----------------------------------------------------------------------------
(* ProductAvailsSearch.to_simplified()                                     *)

(* float() of an integer's digits: above 2^53 to the nearest even integer, *)
(* a tie to the multiple of four (the model stays below 2^54).             *)
AsFloat(k) ==
  CASE k <= Exact \/ k % 2 = 0  -> k
    [] k > Exact /\ k % 4 = 1   -> k - 1
    [] k > Exact /\ k % 4 = 3   -> k + 1

(* Entries without a value are skipped; of the others the target alone     *)
(* decides, and the last one wins.                                         *)
Valued(search, target) ==
  {i \in DOMAIN search.product_targeting :
     /\ search.product_targeting[i].target = target
     /\ search.product_targeting[i].target_values # <<>>}
ValueAt(search, i) == Head(search.product_targeting[i].target_values)
Recovered(search, target) ==
  LET valued == Valued(search, target)
  IN  IF valued = {} THEN None ELSE AsFloat(ValueAt(search, Max(valued)))

(* float() raises on a value that is no number, even one that a later      *)
(* entry overrides, and the legacy request refuses a negative volume.      *)
Readable(search) ==
  /\ \A target \in {"requestedimpressions", "budget"} :
       \A i \in Valued(search, target) : ValueAt(search, i) # NotANumber
  /\ LET volume == Recovered(search, "requestedimpressions")
     IN  volume = None \/ volume >= 0

(* The segments regrouped: under each name the values of its segments, in  *)
(* their order; one without a name or a value is dropped.                  *)
Nth(positions, k) ==
  CHOOSE i \in positions : Cardinality({j \in positions : j <= i}) = k
Regrouped(segments) ==
  LET whole == {i \in DOMAIN segments :
                  segments[i].name # None /\ segments[i].value # None}
      Of(d) == {i \in whole : segments[i].name = d}
  IN  IF whole = {} THEN None
      ELSE [d \in {segments[i].name : i \in whole} |->
              [list |-> TRUE,
               values |-> [k \in 1..Cardinality(Of(d)) |-> segments[Nth(Of(d), k)].value]]]

Simplified(search) ==
  [i \in DOMAIN search.product_ids |->
     [product_id |-> search.product_ids[i],
      requested_impressions |-> Recovered(search, "requestedimpressions"),
      budget |-> Recovered(search, "budget"),
      targeting |-> Regrouped(search.targeting)]]

-----------------------------------------------------------------------------
(* The seller's answers                                                    *)

(* External: AvailsRequest's documented fallback, capped by the capacity;  *)
(* an AvailsResponse holds no negative volume.                             *)
Wanted(query) ==
  CASE query.requested_impressions # None -> query.requested_impressions
    [] query.requested_impressions = None /\ query.budget # None
         -> (query.budget * 1000) \div Cpm[query.product_id]
    [] OTHER -> Minimum[query.product_id]

Priced(query) ==
  LET capacity == Capacity[query.product_id]
      available == CASE Wanted(query) < 0 -> 0
                     [] Wanted(query) \in 0..capacity -> Wanted(query)
                     [] Wanted(query) > capacity -> capacity
  IN  [product_id |-> query.product_id, available_impressions |-> available,
       guaranteed_impressions |-> available, estimated_cpm |-> Cpm[query.product_id]]

(* Fault: a volume met exactly is called partial.                          *)
StatusAtMost(available, requested) ==
  CASE available <= 0 -> "Unavailable"
    [] available > 0 /\ requested # None /\ available <= requested -> "Partially Available"
    [] OTHER -> "Available"

Status(available, requested) ==
  CASE available <= 0 -> "Unavailable"
    [] available > 0 /\ requested # None /\ available < requested -> "Partially Available"
    [] OTHER -> "Available"

(* avails_from_simplified()                                                *)
FromSimplified(response, requested) ==
  LET status == Status(response.available_impressions, requested)
  IN  [product_id |-> response.product_id,
       availability |-> response.available_impressions,
       status |-> status, reason |-> IF status = "Available" THEN None ELSE "Booked",
       price |-> response.estimated_cpm]

(* Avails.to_simplified(): the ValueError is None.                         *)
ToSimplified(avails) ==
  IF avails.availability = None THEN None
  ELSE [product_id |-> avails.product_id,
        available_impressions |-> avails.availability,
        guaranteed_impressions |-> None, estimated_cpm |-> avails.price]

(* None stands for the absence of a value of any of these kinds.           *)
ASSUME NoneAssumption ==
  /\ None \notin Int \cup {"Booked"}
  /\ None \notin AvailsResponses \cup Seq(AvailsRecords)
  /\ \A request \in AvailsRequests : ToSpec(request) # None

-----------------------------------------------------------------------------
Init ==
  /\ need \in AvailsRequests \cup {None}
  /\ payload = [productids |-> None, productid |-> None]
  /\ answer = [avails |-> None, legacy |-> None]
  /\ queries = <<>> /\ results = <<>> /\ phase = "ask"

(* A buyer sends its request in one dialect, or in both at once.           *)
Ask ==
  /\ phase = "ask" /\ need # None
  /\ payload' \in {[productids |-> None, productid |-> need],
                   [productids |-> ToSpec(need), productid |-> None],
                   [productids |-> ToSpec(need), productid |-> need]}
  /\ phase' = "asked"
  /\ UNCHANGED <<need, queries, answer, results>>

(* A buyer that only knows the published dialect searches several products *)
(* with targeting entries and segments of its own.                         *)
Search ==
  /\ phase = "ask" /\ need = None
  /\ \E ids \in {<<p>> : p \in Products} \cup (Products \X Products),
        entries \in {<<>>} \cup {<<e>> : e \in Foreign} \cup (Foreign \X Foreign),
        name \in Range(Dimensions) \cup {None} :
       payload' = [productids |->
                     [product_ids |-> ids, product_targeting |-> entries,
                      targeting |-> << [name |-> name, value |-> "ctv"] >>],
                   productid |-> None]
  /\ phase' = "asked"
  /\ UNCHANGED <<need, queries, answer, results>>

\* productids wins when both fields are present.
IsSpec == payload.productids # None

(* parse_avails_request(), then the bridge to what the pricing reads.  A   *)
(* search that cannot be read is answered with an error.                   *)
Receive ==
  /\ phase = "asked"
  /\ IF ~IsSpec
     THEN queries' = <<payload.productid>> /\ phase' = "received"
     ELSE IF Readable(payload.productids)
     THEN queries' = Simplified(payload.productids) /\ phase' = "received"
     ELSE queries' = <<>> /\ phase' = "refused"
  /\ UNCHANGED <<need, payload, answer, results>>

(* The response dialect follows the request dialect.                       *)
Respond ==
  /\ phase = "received"
  /\ answer' =
       IF IsSpec
       THEN [avails |-> [i \in DOMAIN queries |->
                           FromSimplified(Priced(queries[i]),
                                          queries[i].requested_impressions)],
             legacy |-> None]
       ELSE [avails |-> None, legacy |-> Priced(Head(queries))]
  /\ phase' = "answered"
  /\ UNCHANGED <<need, payload, queries, results>>

(* A seller of the published dialect only: no bridge, and the optional     *)
(* availability left out where it likes.                                   *)
RespondNatively ==
  /\ phase = "asked" /\ IsSpec
  /\ \E silent \in SUBSET DOMAIN payload.productids.product_ids :
       answer' =
         [avails |-> [i \in DOMAIN payload.productids.product_ids |->
            LET p == payload.productids.product_ids[i]
            IN  [product_id |-> p, status |-> None, reason |-> None,
                 availability |-> IF i \in silent THEN None ELSE Capacity[p],
                 price |-> Cpm[p]]],
          legacy |-> None]
  /\ phase' = "answered"
  /\ UNCHANGED <<need, payload, queries, results>>

(* parse_avails_response(), then the bridge back, record by record.        *)
Read ==
  /\ phase = "answered"
  /\ results' = IF answer.avails # None
                THEN [i \in DOMAIN answer.avails |-> ToSimplified(answer.avails[i])]
                ELSE <<answer.legacy>>
  /\ phase' = "read"
  /\ UNCHANGED <<need, payload, queries, answer>>

Next == Ask \/ Search \/ Receive \/ Respond \/ RespondNatively \/ Read

Spec == Init /\ [][Next]_vars
===============================================================================
