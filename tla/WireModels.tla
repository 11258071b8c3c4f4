----------------------------- MODULE WireModels -----------------------------
(***************************************************************************)
(* The wire models of primitives/, protocol/ and events/, as a table from  *)
(* a model's name to the fields it                                         *)
(*    needs   required,                                                    *)
(*    has     defaulted to a value,                                        *)
(*    may     nullable and None by default,                                *)
(* and the models nested in its fields (parts).  Scalar types, enums and   *)
(* descriptions are left out: what a model accepts is which fields are     *)
(* there and not empty, whether money is an exact integer, and the         *)
(* cross-field rules of its validators.                                    *)
(***************************************************************************)
EXTENDS Naturals, Sequences, FiniteSets, TLC

NoParts == <<>>

Model(name, needs, has, may, parts) ==
  name :> [needs |-> needs, has |-> has, may |-> may, parts |-> parts]

-----------------------------------------------------------------------------
(* exact micros, a strict integer (primitives/_util.py) *)
MoneyModel ==
     Model("Money", {"amount_micros"}, {"currency"}, {}, NoParts)

(* primitives/identity.py: the parties *)
PartyModels ==
     Model("Organization", {"organization_id", "name", "role"}, {"status"},
       {"address", "contacts", "ext"}, NoParts)
  @@ Model("Account", {"account_id", "buyer_organization_id",
       "seller_organization_id"}, {"status"}, {"advertiser_id", "name",
       "ext"}, NoParts)
  @@ Model("BuyerIdentity", {}, {}, {"seat_id", "seat_name", "dsp_platform",
       "agency_id", "agency_name", "agency_holding_company", "advertiser_id",
       "advertiser_name", "advertiser_industry", "campaign_id",
       "campaign_name"}, NoParts)

(* primitives/identity.py: the agent card *)
AgentModels ==
     Model("AgentSkill", {"id", "name", "description"}, {"tags"}, {}, NoParts)
  @@ Model("AgentProvider", {"name"}, {}, {"url", "description"}, NoParts)
  @@ Model("AgentAuthentication", {}, {"schemes"}, {"credentials_url"},
       NoParts)
  @@ Model("AgentCapabilities", {}, {"protocols", "streaming",
       "push_notifications"}, {}, NoParts)
  @@ Model("Agent", {"agent_id", "name", "description", "url", "provider"},
       {"version", "agent_type", "capabilities", "skills", "authentication",
       "inventory_types", "supported_deal_types", "trust_status"},
       {"organization_id", "audience_capabilities", "contact", "tos_url"},
       [provider |-> "AgentProvider", capabilities |-> "AgentCapabilities",
       skills |-> "AgentSkill", authentication |-> "AgentAuthentication"])

(* primitives/identity.py: consent signals *)
ConsentModel ==
     Model("ConsentContext", {}, {"applicable_regimes", "gpp_section_ids",
       "diligence_status"}, {"gpp_string", "tcf_string", "gdpr_applies",
       "us_privacy", "verified_at"}, NoParts)

(* primitives/pricing.py: linear TV *)
LinearTVModels ==
     Model("LinearTVParams", {"target_demo"}, {"spot_length",
       "measurement_currency", "rotation"}, {"grps_requested", "dayparts",
       "networks", "dmas", "target_cpp"}, [target_cpp |-> "Money"])
  @@ Model("CancellationTerms", {"notice_days", "cancellable_pct"},
       {"force_majeure"}, {"deadline"}, NoParts)
  @@ Model("LinearTVQuoteDetails", {"target_demo", "estimated_grps",
       "estimated_rating", "cpp", "dayparts", "networks", "spots_per_week",
       "total_spots", "spot_length", "measurement_currency"},
       {"audience_estimate"}, {"cancellation_terms", "makegood_policy"},
       [cpp |-> "Money", cancellation_terms |-> "CancellationTerms"])

(* primitives/pricing.py: rate cards *)
RateCardModels ==
     Model("RateCardEntry", {"rate"}, {"pricing_model"}, {"product_id",
       "package_id", "ad_format", "notes"}, [rate |-> "Money"])
  @@ Model("RateCard", {"rate_card_id", "buyer_organization_id",
       "seller_organization_id", "effective_from"}, {"entries", "status",
       "created_at"}, {"account_id", "effective_to", "updated_at", "notes"},
       [entries |-> "RateCardEntry"])

(* primitives/pricing.py: quotes *)
QuoteModels ==
     Model("ProductRef", {"product_id", "name"}, {}, {"inventory_type"},
       NoParts)
  @@ Model("QuotePricing", {}, {"pricing_type", "tier_discount_pct",
       "volume_discount_pct", "pricing_model", "rationale"}, {"base_cpm",
       "final_cpm", "base_cpp", "final_cpp"}, [base_cpm |-> "Money",
       final_cpm |-> "Money", base_cpp |-> "Money", final_cpp |-> "Money"])
  @@ Model("QuoteTerms", {}, {"guaranteed"}, {"impressions", "flight_start",
       "flight_end", "grps", "guaranteed_grps", "target_demo"}, NoParts)
  @@ Model("QuoteAvailability", {}, {"inventory_available"},
       {"estimated_fill_rate", "competing_demand"}, NoParts)
  @@ Model("Quote", {"quote_id", "deal_type", "product", "pricing", "terms"},
       {"status", "buyer_tier", "created_at", "media_type"}, {"availability",
       "rate_card_id", "expires_at", "seller_id", "deal_id", "linear_tv",
       "consent_context"}, [product |-> "ProductRef",
       pricing |-> "QuotePricing", terms |-> "QuoteTerms",
       availability |-> "QuoteAvailability",
       linear_tv |-> "LinearTVQuoteDetails",
       consent_context |-> "ConsentContext"])

(* primitives/inventory.py: products *)
ProductModels ==
     Model("CommercialTerms", {}, {"supported_deal_types",
       "supported_pricing_models"}, {"minimum_deal_value",
       "guarantee_allowed", "makegood_allowed"},
       [minimum_deal_value |-> "Money"])
  @@ Model("Product", {"product_id", "seller_organization_id", "name"},
       {"pricing_type", "pricing_model", "delivery_type", "ad_formats"},
       {"description", "base_price", "domain", "audience_targeting",
       "ad_product_targeting", "content_targeting", "available_impressions",
       "commercial_terms", "ext"}, [base_price |-> "Money",
       commercial_terms |-> "CommercialTerms"])

(* primitives/inventory.py: packages and media kits *)
PackageModels ==
     Model("PackagePlacement", {"product_id", "product_name"}, {"ad_formats",
       "device_types", "weight"}, {}, NoParts)
  @@ Model("Package", {"package_id", "name"}, {"layer", "status",
       "placements", "cat", "cattax", "device_types", "ad_formats",
       "geo_targets", "pricing_type", "pricing_model", "tags", "is_featured",
       "created_at"}, {"description", "audience_capabilities", "base_price",
       "seasonal_label", "updated_at"}, [placements |-> "PackagePlacement",
       base_price |-> "Money"])
  @@ Model("MediaKit", {"media_kit_id", "seller_organization_id", "name"},
       {"packages", "currency", "created_at"}, {"description", "contact",
       "updated_at"}, [packages |-> "Package"])

(* primitives/lifecycle.py: proposals *)
ProposalModels ==
     Model("DeliveryGoal", {"goal_type", "goal_amount", "billable_event"}, {},
       {}, NoParts)
  @@ Model("PricingTerms", {}, {"pricing_type"}, {"pricing_model", "price"},
       [price |-> "Money"])
  @@ Model("ProposalLine", {"proposal_line_id", "proposal_id", "product_id",
       "deal_type", "delivery_goal", "pricing"}, {}, {"audience_targeting",
       "ad_product_targeting", "content_targeting", "external_ids"},
       [delivery_goal |-> "DeliveryGoal", pricing |-> "PricingTerms"])
  @@ Model("Proposal", {"proposal_id", "account_id", "start_date",
       "end_date"}, {"status", "current_revision_number", "lines",
       "created_at"}, {"proposal_thread_id", "updated_at", "ext"},
       [lines |-> "ProposalLine"])

(* primitives/lifecycle.py: negotiations *)
NegotiationModels ==
     Model("NegotiationRound", {"round_number", "buyer_price", "seller_price",
       "action"}, {"concession_pct", "cumulative_concession_pct", "rationale",
       "timestamp"}, {}, [buyer_price |-> "Money", seller_price |-> "Money"])
  @@ Model("Negotiation", {"negotiation_id"}, {"buyer_tier", "rounds",
       "status", "started_at"}, {"proposal_id", "quote_id", "product_id",
       "package_id", "completed_at"}, [rounds |-> "NegotiationRound"])

(* primitives/lifecycle.py: deals *)
DealModels ==
     Model("OpenRTBParams", {"id", "bidfloor"}, {"at", "wseat", "wadomain"},
       {}, [bidfloor |-> "Money"])
  @@ Model("Deal", {"deal_id", "deal_type", "product", "pricing", "terms"},
       {"status", "buyer_tier", "activation_instructions", "media_type",
       "created_at"}, {"quote_id", "rate_card_id", "seller_id", "expires_at",
       "openrtb_params", "linear_tv", "consent_context", "supply_chain"},
       [product |-> "ProductRef", pricing |-> "QuotePricing",
       terms |-> "QuoteTerms", openrtb_params |-> "OpenRTBParams",
       linear_tv |-> "LinearTVQuoteDetails",
       consent_context |-> "ConsentContext", supply_chain |-> "SupplyChain"])

(* primitives/lifecycle.py: orders and lines *)
OrderModels ==
     Model("Order", {"order_id", "account_id", "name", "budget", "start_date",
       "end_date"}, {"status", "created_at"}, {"proposal_id", "deal_id",
       "external_ids", "updated_at", "consent_context", "ext"},
       [budget |-> "Money", consent_context |-> "ConsentContext"])
  @@ Model("Line", {"line_id", "order_id", "product_id", "name", "start_date",
       "end_date", "rate", "quantity"}, {"pricing_model", "status"}, {"cost",
       "targeting", "ext"}, [rate |-> "Money", cost |-> "Money"])

(* primitives/lifecycle.py: change requests *)
ChangeRequestModels ==
     Model("FieldDiff", {"field"}, {}, {"old_value", "new_value"}, NoParts)
  @@ Model("MakegoodDetails", {"shortfall_grps", "original_daypart",
       "target_demo"}, {"status"}, {"owed_impressions", "preferred_dayparts",
       "replacement_flight_start", "replacement_flight_end", "notes"},
       NoParts)
  @@ Model("ChangeRequest", {"change_request_id", "change_type"}, {"status",
       "severity", "requested_by", "requested_at", "reason", "diffs",
       "proposed_values", "validation_errors"}, {"order_id", "deal_id",
       "makegood", "pricing_impact", "availability_check", "approved_by",
       "approved_at", "rejection_reason", "applied_at", "applied_by"},
       [diffs |-> "FieldDiff", makegood |-> "MakegoodDetails"])

(* primitives/lifecycle.py: sessions *)
SessionModels ==
     Model("SessionMessage", {"role", "content"}, {"timestamp", "metadata"},
       {"message_type"}, NoParts)
  @@ Model("Session", {"session_id"}, {"status", "buyer_identity", "messages",
       "active_negotiation_ids", "active_deal_ids", "created_at",
       "updated_at", "metadata"}, {"expires_at", "closed_at"},
       [buyer_identity |-> "BuyerIdentity", messages |-> "SessionMessage"])

(* primitives/creative.py *)
CreativeModels ==
     Model("CreativeAsset", {"asset_id", "asset_url", "mime_type", "role"},
       {}, {"width", "height"}, NoParts)
  @@ Model("CreativeManifest", {}, {"assets"}, {"landing_page_urls",
       "declared_advertiser_domains", "duration_ms", "file_size_bytes"},
       [assets |-> "CreativeAsset"])
  @@ Model("ContentPolicy", {}, {}, {"allowed_categories",
       "blocked_categories"}, NoParts)
  @@ Model("Creative", {"creative_id"}, {"ad_profile", "creative_manifest",
       "review_status", "is_placeholder"}, {"account_id", "name", "language",
       "click_url", "ad_product_taxonomy", "audience_taxonomy",
       "content_policy", "placeholder_type", "ext"},
       [creative_manifest |-> "CreativeManifest",
       content_policy |-> "ContentPolicy"])
  @@ Model("CreativeApproval", {"approval_id", "creative_id", "status",
       "reviewer"}, {"occurred_at"}, {"reason", "ext"}, NoParts)
  @@ Model("Assignment", {"assignment_id", "creative_id", "line_id"},
       {"rotation_mode"}, {"sov", "effective_start_date",
       "effective_end_date", "status", "ext"}, NoParts)

(* primitives/supply_chain.py *)
SupplyChainModels ==
     Model("SupplyChainNode", {"asi", "sid"}, {"hp"}, {"rid", "name",
       "domain", "ext"}, NoParts)
  @@ Model("SupplyChain", {}, {"complete", "ver", "nodes"}, {"ext"},
       [nodes |-> "SupplyChainNode"])
  @@ Model("SellersJsonEntry", {"seller_id", "seller_type"},
       {"is_confidential"}, {"name", "domain", "comment", "ext"}, NoParts)

(* primitives/audit.py *)
AuditModels ==
     Model("DecisionActor", {"agent_id"}, {"kind"}, {"on_behalf_of"}, NoParts)
  @@ Model("DecisionInputRef", {"kind"}, {}, {"ref", "digest", "description"},
       NoParts)
  @@ Model("DecisionRationale", {"summary"}, {"factors", "policy_refs"},
       {"notes"}, NoParts)
  @@ Model("DecisionRecord", {"decision_id", "subject_type", "subject_id",
       "decision_type", "actor", "rationale"}, {"inputs", "occurred_at"},
       {"money_effect", "correlation_id", "session_id", "negotiation_id",
       "ext"}, [actor |-> "DecisionActor", inputs |-> "DecisionInputRef",
       rationale |-> "DecisionRationale", money_effect |-> "Money"])

(* protocol/errors.py *)
ErrorModels ==
     Model("UnsupportedItem", {"capability"}, {"reason"}, {"path"}, NoParts)
  @@ Model("ErrorDetail", {"error"}, {"message", "unsupported"}, {},
       [unsupported |-> "UnsupportedItem"])
  @@ Model("ErrorEnvelope", {"detail"}, {}, {}, [detail |-> "ErrorDetail"])

(* protocol/catalog.py *)
CatalogModels ==
     Model("ProductListRequest", {}, {"limit", "offset"}, {}, NoParts)
  @@ Model("ProductListResponse", {"total_count", "limit", "offset"},
       {"products"}, {}, [products |-> "Product"])

(* protocol/agent_card.py *)
TrustModels ==
     Model("AgentDiscoveryRequest", {"agent_url"}, {}, {}, NoParts)
  @@ Model("AgentTrustVerification", {"agent_url"}, {"trust_status"},
       {"agent_id", "registry_id", "verified_at"}, NoParts)

(* protocol/quotes.py *)
QuoteMessages ==
     Model("QuoteRequest", {"idempotency_key", "product_id", "deal_type"},
       {"media_type"}, {"impressions", "flight_start", "flight_end",
       "target_cpm", "buyer_identity", "agent_url", "rate_card_id",
       "linear_tv", "audience_plan", "consent_context"},
       [target_cpm |-> "Money", buyer_identity |-> "BuyerIdentity",
       linear_tv |-> "LinearTVParams", consent_context |-> "ConsentContext"])
  @@ Model("QuoteResponse", {"quote"}, {}, {}, [quote |-> "Quote"])

(* protocol/deals.py *)
DealMessages ==
     Model("DealBookingRequest", {"idempotency_key", "quote_id"}, {},
       {"buyer_identity", "notes", "audience_plan", "consent_context"},
       [buyer_identity |-> "BuyerIdentity",
       consent_context |-> "ConsentContext"])
  @@ Model("DealBookingResponse", {"deal"}, {}, {"audience_plan_snapshot",
       "audience_match_summary"}, [deal |-> "Deal"])
  @@ Model("ChangeRequestCreate", {"idempotency_key", "change_type"},
       {"severity", "reason", "proposed_values"}, {"order_id", "deal_id",
       "makegood"}, [makegood |-> "MakegoodDetails"])
  @@ Model("ChangeRequestResponse", {"change_request"}, {}, {},
       [change_request |-> "ChangeRequest"])

(* protocol/negotiation.py *)
NegotiationMessages ==
     Model("NegotiationMessage", {"idempotency_key", "action"}, {"rationale"},
       {"negotiation_id", "proposal_id", "quote_id", "round_number",
       "buyer_price", "buyer_identity"}, [buyer_price |-> "Money",
       buyer_identity |-> "BuyerIdentity"])
  @@ Model("NegotiationRoundResponse", {"negotiation_id", "status", "round"},
       {}, {"rounds_remaining"}, [round |-> "NegotiationRound"])

(* protocol/a2a.py *)
A2AModels ==
     Model("A2APart", {"kind"}, {}, {"text", "data"}, NoParts)
  @@ Model("A2AMessage", {"message_id", "parts"}, {"role"}, {},
       [parts |-> "A2APart"])
  @@ Model("MessageSendParams", {"message"}, {}, {"context_id"},
       [message |-> "A2AMessage"])
  @@ Model("JsonRpcRequest", {"id", "params"}, {"jsonrpc", "method"}, {},
       [params |-> "MessageSendParams"])
  @@ Model("A2AResult", {}, {"task_id", "context_id", "role", "parts"}, {},
       [parts |-> "A2APart"])
  @@ Model("JsonRpcError", {"code", "message"}, {}, {"data"}, NoParts)
  @@ Model("JsonRpcResponse", {"id"}, {"jsonrpc"}, {"result", "error"},
       [result |-> "A2AResult", error |-> "JsonRpcError"])

(* protocol/avails.py: the simplified dialect *)
SimpleAvailsModels ==
     Model("AvailsRequest", {"product_id", "start_date", "end_date"}, {},
       {"requested_impressions", "budget", "targeting"}, NoParts)
  @@ Model("AvailsResponse", {"product_id", "available_impressions",
       "estimated_cpm", "total_cost"}, {}, {"guaranteed_impressions",
       "delivery_confidence", "available_targeting"}, NoParts)

(* protocol/avails.py: the OpenDirect dialect *)
TargetingModels ==
     Model("ProductTargeting", {"name", "type", "datasource", "target",
       "target_values", "selectable"}, {}, {"count", "minimum", "maximum",
       "increment", "default"}, NoParts)
  @@ Model("AvailsStatus", {"status", "product_targeting"}, {}, {"reason",
       "comment", "context"}, [context |-> "ProductTargeting",
       product_targeting |-> "ProductTargeting"])

(* protocol/avails.py: the OpenDirect request *)
SearchModel ==
     Model("ProductAvailsSearch", {"product_ids", "account_id",
       "advertiser_brand_id", "start_date", "end_date"}, {}, {"targeting",
       "product_targeting", "currency", "availability_fields", "grouping"},
       [product_targeting |-> "ProductTargeting",
       availability_fields |-> "ProductTargeting",
       grouping |-> "ProductTargeting"])

(* protocol/avails.py: the OpenDirect response *)
AvailsModels ==
     Model("Avails", {"product_id", "account_id", "price", "start_date",
       "end_date"}, {}, {"availability", "avails_status", "currency"},
       [avails_status |-> "AvailsStatus"])
  @@ Model("AvailsCollection", {"avails"}, {}, {}, [avails |-> "Avails"])

(* events/models.py *)
EventModel ==
     Model("Event", {"event_type", "source_agent"}, {"event_id",
       "occurred_at", "metadata"}, {"deal_id", "order_id", "proposal_id",
       "campaign_id", "session_id"}, NoParts)

Models ==
  MoneyModel @@ PartyModels @@ AgentModels @@ ConsentModel @@ LinearTVModels
  @@ RateCardModels @@ QuoteModels @@ ProductModels @@ PackageModels
  @@ ProposalModels @@ NegotiationModels @@ DealModels @@ OrderModels
  @@ ChangeRequestModels @@ SessionModels @@ CreativeModels
  @@ SupplyChainModels @@ AuditModels @@ ErrorModels @@ CatalogModels
  @@ TrustModels @@ QuoteMessages @@ DealMessages @@ NegotiationMessages
  @@ A2AModels @@ SimpleAvailsModels @@ TargetingModels @@ SearchModel
  @@ AvailsModels @@ EventModel

Fields(m) == Models[m].needs \cup Models[m].has \cup Models[m].may
PartsOf(m) ==
  {Models[m].parts[f] : f \in DOMAIN Models[m].parts}

(* The $defs of a model's JSON Schema: the models it is built from, which  *)
(* nest at most MaxNesting deep.                                           *)
MaxNesting == 6
Closure ==
  [m \in DOMAIN Models |->
     LET within[k \in 0..MaxNesting] ==
           IF k = 0 THEN {m}
           ELSE within[k - 1] \cup UNION {PartsOf(n) : n \in within[k - 1]}
     IN  within[MaxNesting]]

ASSUME ModelsAreClosed ==
  \A m \in DOMAIN Models : \A n \in Closure[m] : PartsOf(n) \subseteq Closure[m]

-----------------------------------------------------------------------------
(* An instance of a model: the nullable fields it gives, and a kind, what  *)
(* the rules look at besides (a discriminator, the order of two dates).    *)

Instance(m, kind, given) == [model |-> m, kind |-> kind, given |-> given]

(* A validator is the list of its checks, in the order of the code: the    *)
(* first that fails is the error.                                          *)
Check(rule, holds) == [rule |-> rule, holds |-> holds]

ChangeTargetRules(i) ==
  << Check("change_target", i.given \cap {"order_id", "deal_id"} # {}) >>
ChangeCreateRules(i) ==
  << Check("create_target", i.given \cap {"order_id", "deal_id"} # {}),
     Check("makegood_needed", i.kind = "makegood" => "makegood" \in i.given),
     Check("makegood_only", "makegood" \in i.given => i.kind = "makegood") >>
LinearTVRules(i) ==
  << Check("linear_tv_needed", i.kind = "linear_tv" => "linear_tv" \in i.given),
     Check("linear_tv_only", "linear_tv" \in i.given => i.kind = "linear_tv") >>
MessageRules(i) ==
  << Check("context_given",
       i.given \cap {"negotiation_id", "proposal_id", "quote_id"} # {}),
     Check("priced", i.kind = "priced" => "buyer_price" \in i.given),
     Check("reject_unpriced", i.kind = "reject" => "buyer_price" \notin i.given) >>
PartRules(i) ==
  << Check("text_part", i.kind = "text" => "text" \in i.given),
     Check("data_part", i.kind = "data" => "data" \in i.given) >>
OneOfRules(i) ==
  << Check("exactly_one", Cardinality(i.given \cap {"result", "error"}) = 1) >>
RequestDateRules(i) == << Check("request_dates", i.kind # "reversed") >>
SearchRules(i) == << Check("search_dates", i.kind # "reversed") >>
TimestampRules(i) == << Check("aware_timestamp", i.kind # "naive") >>

RulesOf(i) ==
  CASE i.model = "ChangeRequest"       -> ChangeTargetRules(i)
    [] i.model = "ChangeRequestCreate" -> ChangeCreateRules(i)
    [] i.model = "QuoteRequest"        -> LinearTVRules(i)
    [] i.model = "NegotiationMessage"  -> MessageRules(i)
    [] i.model = "A2APart"             -> PartRules(i)
    [] i.model = "JsonRpcResponse"     -> OneOfRules(i)
    [] i.model = "AvailsRequest"       -> RequestDateRules(i)
    [] i.model = "ProductAvailsSearch" -> SearchRules(i)
    [] i.model = "Event"               -> TimestampRules(i)
    [] OTHER                           -> <<>>

(* The field of a model that may not be empty (min_length).  Unlike a      *)
(* validator this is part of the field, and of the JSON Schema.  The kind  *)
(* of an instance where it is empty is "empty".                            *)
NonEmpty ==
  [ProductAvailsSearch |-> "product_ids", A2AMessage |-> "parts",
   QuoteRequest |-> "idempotency_key", DealBookingRequest |-> "idempotency_key",
   ChangeRequestCreate |-> "idempotency_key", NegotiationMessage |-> "idempotency_key"]
=============================================================================
