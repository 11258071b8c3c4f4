---------------------------- MODULE GoldenVectors ----------------------------
(***************************************************************************)
(* The golden vectors of conformance/vectors.py.  A vector's data is the   *)
(* set of the model instances in it; the values of their fields, and the   *)
(* words of the expected error, are left out: an invalid vector names the  *)
(* error it must be refused for.                                           *)
(***************************************************************************)
EXTENDS WireModels

(* Building an instance: its own record, to which nested ones are added.   *)
Of(m, given) == {Instance(m, "", given)}
Says(m, kind, given) == {Instance(m, kind, given)}

(* How the data was corrupted, if no instance in it tells, and what the    *)
(* refusal must name.                                                      *)
Vector(name, mode, holds, flaw, error) ==
  [name |-> name, mode |-> mode, holds |-> holds, flaw |-> flaw, error |-> error]

None == <<"none">>
Missing(m, f) == <<"missing", m, f>>
Empty(m) == <<"empty", m>>
Broken(rule) == <<"rule", rule>>
Inexact == <<"float">>  \* "Input should be a valid integer"

Golden(name, holds) == Vector(name, "valid", holds, None, None)
MustIgnore(name, holds) == Vector(name, "must_ignore", holds, None, None)
Breaks(name, rule, holds) == Vector(name, "invalid", holds, None, Broken(rule))
Empties(name, m, holds) == Vector(name, "invalid", holds, None, Empty(m))
Omits(name, m, f, holds) ==
  Vector(name, "invalid", holds, Missing(m, f), Missing(m, f))
(* Float micros, whole (22500000.0) or fractional, in the field that path   *)
(* leads to from the root.                                                 *)
FloatAlwaysFractional(name, amount, path, holds) ==  \* fault: no whole float
  Vector(name, "invalid", holds, <<"float", "fractional", path>>, Inexact)
Float(name, amount, path, holds) ==
  Vector(name, "invalid", holds, <<"float", amount, path>>, Inexact)

-----------------------------------------------------------------------------
(* Shared building blocks, then one definition per target.                 *)

-----------------------------------------------------------------------------
Consent ==
  Of("ConsentContext", {"gpp_string", "tcf_string", "gdpr_applies",
      "us_privacy", "verified_at"})

Chain == Of("SupplyChain", {})
  \cup Of("SupplyChainNode", {"rid", "name", "domain"})

DisplayProduct == Of("ProductRef", {"inventory_type"})

LinearTVDetails ==
  Of("LinearTVQuoteDetails", {"cancellation_terms", "makegood_policy"})
  \cup Of("CancellationTerms", {"deadline"})

DigitalQuote ==
  Of("Quote", {"availability", "rate_card_id", "expires_at", "seller_id",
      "consent_context"}) \cup Consent \cup DisplayProduct
  \cup Of("QuoteAvailability", {"estimated_fill_rate"})
  \cup Of("QuotePricing", {"base_cpm", "final_cpm"})
  \cup Of("QuoteTerms", {"impressions", "flight_start", "flight_end"})

LinearTVQuote == Of("Quote", {"expires_at", "seller_id", "linear_tv"})
  \cup LinearTVDetails \cup Of("ProductRef", {})
  \cup Of("QuotePricing", {"base_cpp", "final_cpp"})
  \cup Of("QuoteTerms", {"flight_start", "flight_end", "grps",
      "guaranteed_grps", "target_demo"})

BookedDeal ==
  Of("Deal", {"quote_id", "rate_card_id", "seller_id", "openrtb_params",
      "consent_context", "supply_chain"}) \cup Chain \cup Consent
  \cup DisplayProduct \cup Of("OpenRTBParams", {})
  \cup Of("QuotePricing", {"base_cpm", "final_cpm"})
  \cup Of("QuoteTerms", {"impressions", "flight_start", "flight_end"})

Makegood ==
  Of("MakegoodDetails", {"owed_impressions", "preferred_dayparts",
      "replacement_flight_start", "replacement_flight_end", "notes"})

MakegoodRequest == Of("ChangeRequest", {"deal_id", "makegood"}) \cup Makegood

DigitalRequest ==
  Of("QuoteRequest", {"impressions", "flight_start", "flight_end",
      "target_cpm", "buyer_identity", "agent_url", "rate_card_id",
      "consent_context"}) \cup Consent
  \cup Of("BuyerIdentity", {"seat_id", "agency_id", "advertiser_id",
      "advertiser_name"})

OrganizationVectors ==
  << Golden("buyer_org", Of("Organization", {})),
     Golden("seller_org_with_ext",
         Of("Organization", {"address", "contacts", "ext"})) >>

AccountVectors ==
  << Golden("active_pair", Of("Account", {"advertiser_id", "name"})),
     Golden("suspended_minimal", Of("Account", {})) >>

AgentVectors ==
  LET base == Of("Agent", {"organization_id"})
          \cup Of("AgentAuthentication", {}) \cup Of("AgentSkill", {})
          \cup Of("AgentCapabilities", {}) \cup Of("AgentProvider", {"url"})
  IN  << Golden("seller_card", base),
         Golden("buyer_card_minimal", Of("Agent", {})
             \cup Of("AgentAuthentication", {}) \cup Of("AgentCapabilities", {})
             \cup Of("AgentProvider", {})),
         MustIgnore("card_with_unknown_fields", base) >>

ProductVectors ==
  LET base ==
          Of("Product", {"description", "base_price", "audience_targeting",
              "available_impressions", "commercial_terms"})
          \cup Of("CommercialTerms", {"minimum_deal_value",
              "guarantee_allowed"})
  IN  << Golden("guaranteed_display", base),
         Golden("on_request_video", Of("Product", {})),
         MustIgnore("product_with_unknown_fields", base) >>

PackageVectors ==
  << Golden("curated_sports", Of("Package", {"description", "base_price"})
         \cup Of("PackagePlacement", {})),
     Golden("dynamic_ctv_minimal", Of("Package", {})) >>

MediaKitVectors ==
  << Golden("kit_with_packages", Of("MediaKit", {"description", "contact"})
         \cup Of("Package", {"description", "base_price"})
         \cup Of("PackagePlacement", {})),
     Golden("empty_kit", Of("MediaKit", {})) >>

RateCardVectors ==
  << Golden("active_pair_card", Of("RateCard", {"account_id", "effective_to"})
         \cup Of("RateCardEntry", {"ad_format"})
         \cup Of("RateCardEntry", {"product_id", "notes"})),
     Golden("proposed_minimal", Of("RateCard", {})) >>

QuoteVectors ==
  << Golden("pg_digital_guaranteed", DigitalQuote),
     Golden("linear_tv_primetime", LinearTVQuote),
     Golden("pd_on_request_declined", Of("Quote", {}) \cup Of("QuoteTerms", {})
         \cup Of("QuotePricing", {}) \cup Of("ProductRef", {})),
     Golden("pa_money_boundary", Of("Quote", {})
         \cup Of("QuoteTerms", {"impressions"})
         \cup Of("QuotePricing", {"base_cpm", "final_cpm"})
         \cup DisplayProduct),
     MustIgnore("quote_with_unknown_fields", DigitalQuote),
     Float("float_money_rejected", "fractional",
         {<<"Quote", "pricing">>, <<"QuotePricing", "base_cpm">>},
         DigitalQuote) >>

ProposalVectors ==
  << Golden("sent_with_lines", Of("Proposal", {}) \cup Of("ProposalLine", {})
         \cup Of("PricingTerms", {"pricing_model", "price"})
         \cup Of("DeliveryGoal", {})),
     Golden("countered_revision_3",
         Of("Proposal", {"proposal_thread_id", "updated_at"})) >>

NegotiationVectors ==
  << Golden("active_round_1", Of("Negotiation", {"quote_id", "product_id"})
         \cup Of("NegotiationRound", {})),
     Golden("accepted_terminal",
         Of("Negotiation", {"proposal_id", "package_id", "completed_at"})
         \cup Of("NegotiationRound", {})) >>

DealVectors ==
  << Golden("pg_booked_openrtb", BookedDeal),
     Golden("linear_tv_makegood_pending",
         Of("Deal", {"quote_id", "seller_id", "linear_tv"}) \cup LinearTVDetails
         \cup Of("QuoteTerms", {"grps", "guaranteed_grps", "target_demo"})
         \cup Of("QuotePricing", {"base_cpp", "final_cpp"})
         \cup Of("ProductRef", {})),
     Golden("cancelled_terminal", Of("Deal", {}) \cup Of("QuoteTerms", {})
         \cup Of("QuotePricing", {"base_cpm"}) \cup DisplayProduct),
     MustIgnore("deal_with_unknown_fields", BookedDeal),
     Float("float_bidfloor_rejected", "whole",
         {<<"Deal", "openrtb_params">>, <<"OpenRTBParams", "bidfloor">>},
         BookedDeal) >>

OrderVectors ==
  LET base == Of("Order", {"deal_id", "external_ids", "consent_context"})
          \cup Consent
  IN  << Golden("submitted_with_consent", base),
         Golden("completed_terminal", Of("Order", {"updated_at"})),
         Float("float_budget_rejected", "fractional",
             {<<"Order", "budget">>},
             base) >>

LineVectors ==
  LET base == Of("Line", {"cost", "targeting"})
  IN  << Golden("booked_line", base),
         Golden("finished_terminal", Of("Line", {})),
         Float("float_rate_rejected", "fractional",
             {<<"Line", "rate">>},
             base) >>

ChangeRequestVectors ==
  << Golden("makegood_pending", MakegoodRequest),
     Golden("cancellation_applied",
         Of("ChangeRequest", {"order_id", "approved_by", "approved_at",
             "applied_at", "applied_by"})
         \cup Of("FieldDiff", {"old_value", "new_value"})),
     Breaks("missing_target_rejected", "change_target",
         Of("ChangeRequest", {})) >>

SessionVectors ==
  << Golden("active_conversation", Of("Session", {"expires_at"})
         \cup Of("SessionMessage", {"message_type"})
         \cup Of("BuyerIdentity", {"seat_id", "agency_id"})),
     Golden("closed_terminal", Of("Session", {"closed_at"})
         \cup Of("BuyerIdentity", {})) >>

CreativeVectors ==
  << Golden("video_approved",
         Of("Creative", {"account_id", "name", "language", "click_url"})
         \cup Of("CreativeManifest", {"landing_page_urls",
             "declared_advertiser_domains", "duration_ms", "file_size_bytes"})
         \cup Of("CreativeAsset", {"width", "height"})),
     Golden("placeholder_pending", Of("Creative", {"name", "placeholder_type"})
         \cup Of("CreativeManifest", {})) >>

AssignmentVectors ==
  << Golden("weighted_rotation",
         Of("Assignment", {"sov", "effective_start_date",
             "effective_end_date"})),
     Golden("even_minimal", Of("Assignment", {})) >>

ConsentContextVectors ==
  << Golden("gdpr_gpp_passed", Consent),
     Golden("us_privacy_only",
         Of("ConsentContext", {"gdpr_applies", "us_privacy", "verified_at"})),
     Golden("unknown_minimal", Of("ConsentContext", {})) >>

CreativeApprovalVectors ==
  LET base == Of("CreativeApproval", {"reason"})
  IN  << Golden("human_approved", base),
         Golden("auto_rejected", base) >>

SupplyChainVectors ==
  << Golden("complete_single_hop", Chain),
     Golden("incomplete_two_hops", Of("SupplyChain", {})
         \cup Of("SupplyChainNode", {})
         \cup Of("SupplyChainNode", {"name", "domain"})),
     MustIgnore("schain_with_unknown_fields", Chain) >>

SellersJsonEntryVectors ==
  << Golden("publisher_entry", Of("SellersJsonEntry", {"name", "domain"})),
     Golden("confidential_intermediary",
         Of("SellersJsonEntry", {"comment"})) >>

DecisionRecordVectors ==
  LET base ==
          Of("DecisionRecord", {"money_effect", "correlation_id", "session_id"})
          \cup Of("DecisionInputRef", {"digest", "description"})
          \cup Of("DecisionInputRef", {"ref", "digest", "description"})
          \cup Of("DecisionRationale", {})
          \cup Of("DecisionActor", {"on_behalf_of"})
  IN  << Golden("booking_decision", base),
         Golden("concession_minimal", Of("DecisionRecord", {"negotiation_id"})
             \cup Of("DecisionRationale", {}) \cup Of("DecisionActor", {})),
         MustIgnore("decision_with_unknown_fields", base),
         Float("float_money_effect_rejected", "fractional",
             {<<"DecisionRecord", "money_effect">>},
             base) >>

ProductListRequestVectors ==
  LET base == Of("ProductListRequest", {})
  IN  << Golden("default_page", base),
         Golden("second_page_max", base) >>

ProductListResponseVectors ==
  << Golden("one_product", Of("ProductListResponse", {})
         \cup Of("Product", {"base_price", "available_impressions"})),
     Golden("empty_catalog", Of("ProductListResponse", {})) >>

AvailsRequestVectors ==
  << Golden("impressions_and_targeting",
         Of("AvailsRequest", {"requested_impressions", "budget", "targeting"})),
     Golden("minimal_dates_only", Of("AvailsRequest", {})),
     Breaks("end_before_start", "request_dates",
         Says("AvailsRequest", "reversed", {})) >>

AvailsResponseVectors ==
  << Golden("pg_capable_guaranteed",
         Of("AvailsResponse", {"guaranteed_impressions",
             "available_targeting"})),
     Golden("uncapped_non_pg", Of("AvailsResponse", {})),
     MustIgnore("forward_compat_extras", Of("AvailsResponse", {})),
     Omits("missing_available_impressions",
         "AvailsResponse", "available_impressions",
         Of("AvailsResponse", {})) >>

ProductAvailsSearchVectors ==
  LET base == Of("ProductAvailsSearch", {})
  IN  << Golden("spec_minimal_multi_product",
             Of("ProductAvailsSearch", {"currency"})),
         Golden("bridged_from_simplified",
             Of("ProductAvailsSearch", {"targeting", "product_targeting"})
             \cup Of("ProductTargeting", {})),
         MustIgnore("forward_compat_extras", base),
         Omits("missing_accountid", "ProductAvailsSearch", "account_id", base),
         Empties("empty_productids", "ProductAvailsSearch",
             Says("ProductAvailsSearch", "empty", {})) >>

AvailsVectors ==
  << Golden("fully_available",
         Of("Avails", {"availability", "avails_status", "currency"})
         \cup Of("AvailsStatus", {}) \cup Of("ProductTargeting", {"count"})),
     Golden("partially_available_booked",
         Of("Avails", {"availability", "avails_status", "currency"})
         \cup Of("AvailsStatus", {"reason"})
         \cup Of("ProductTargeting", {"count"})),
     Golden("minimal_required_only", Of("Avails", {})),
     Omits("missing_price", "Avails", "price", Of("Avails", {})) >>

AvailsCollectionVectors ==
  << Golden("one_record_per_requested_product", Of("AvailsCollection", {})
         \cup Of("AvailsStatus", {"reason"})
         \cup Of("Avails", {"availability", "avails_status", "currency"})
         \cup Of("AvailsStatus", {}) \cup Of("ProductTargeting", {"count"})),
     Golden("empty_collection", Of("AvailsCollection", {})),
     MustIgnore("forward_compat_extras", Of("AvailsCollection", {})
         \cup Of("Avails", {})),
     Omits("missing_avails_array", "AvailsCollection", "avails",
         Of("AvailsCollection", {})) >>

QuoteRequestVectors ==
  << Golden("pg_with_idempotency_key", DigitalRequest),
     Golden("linear_tv_request",
         Says("QuoteRequest", "linear_tv", {"flight_start", "flight_end",
             "linear_tv"})
         \cup Of("LinearTVParams", {"grps_requested", "dayparts", "networks",
             "target_cpp"})),
     MustIgnore("request_with_unknown_fields", DigitalRequest),
     Omits("missing_idempotency_key", "QuoteRequest", "idempotency_key",
         Of("QuoteRequest", {"impressions"})),
     Float("float_target_cpm_rejected", "fractional",
         {<<"QuoteRequest", "target_cpm">>},
         Of("QuoteRequest", {"target_cpm"})),
     Breaks("linear_tv_missing_params", "linear_tv_needed",
         Says("QuoteRequest", "linear_tv", {})) >>

QuoteResponseVectors ==
  LET base == Of("QuoteResponse", {}) \cup DigitalQuote
  IN  << Golden("digital_quote", base),
         Golden("linear_tv_quote", Of("QuoteResponse", {}) \cup LinearTVQuote),
         MustIgnore("response_with_unknown_fields", base) >>

DealBookingRequestVectors ==
  LET base ==
          Of("DealBookingRequest", {"buyer_identity", "notes",
              "consent_context"}) \cup Consent
          \cup Of("BuyerIdentity", {"seat_id", "advertiser_id"})
  IN  << Golden("book_quoted_deal", base),
         Golden("booking_with_audience_plan",
             Of("DealBookingRequest", {"audience_plan"})),
         MustIgnore("booking_with_unknown_fields", base) >>

DealBookingResponseVectors ==
  << Golden("booked_deal", Of("DealBookingResponse", {}) \cup BookedDeal),
     Golden("booked_with_audience_snapshot",
         Of("DealBookingResponse", {"audience_plan_snapshot",
             "audience_match_summary"}) \cup BookedDeal) >>

ChangeRequestCreateVectors ==
  << Golden("makegood_create",
         Says("ChangeRequestCreate", "makegood", {"deal_id", "makegood"})
         \cup Makegood),
     Golden("cancellation_create", Of("ChangeRequestCreate", {"order_id"})),
     Breaks("makegood_missing_details", "makegood_needed",
         Says("ChangeRequestCreate", "makegood", {"deal_id"})) >>

ChangeRequestResponseVectors ==
  << Golden("makegood_pending_response", Of("ChangeRequestResponse", {})
         \cup MakegoodRequest),
     Golden("cancellation_approved_response", Of("ChangeRequestResponse", {})
         \cup Of("ChangeRequest", {"order_id", "approved_by",
             "approved_at"})) >>

NegotiationMessageVectors ==
  LET base ==
          Says("NegotiationMessage", "priced", {"quote_id", "buyer_price",
              "buyer_identity"}) \cup Of("BuyerIdentity", {"seat_id"})
  IN  << Golden("opening_counter", base),
         Golden("accept_terminal",
             Of("NegotiationMessage", {"negotiation_id", "round_number",
                 "buyer_price"})),
         Golden("reject_walk_away",
             Says("NegotiationMessage", "reject", {"negotiation_id",
                 "round_number"})),
         MustIgnore("message_with_unknown_fields", base),
         Breaks("reject_with_price", "reject_unpriced",
             Says("NegotiationMessage", "reject", {"negotiation_id",
                 "buyer_price"})),
         Float("float_buyer_price_rejected", "whole",
             {<<"NegotiationMessage", "buyer_price">>},
             Says("NegotiationMessage", "priced", {"negotiation_id",
                 "buyer_price"})) >>

NegotiationRoundResponseVectors ==
  << Golden("counter_active",
         Of("NegotiationRoundResponse", {"rounds_remaining"})
         \cup Of("NegotiationRound", {})),
     Golden("accepted_terminal", Of("NegotiationRoundResponse", {})
         \cup Of("NegotiationRound", {})) >>

JsonRpcRequestVectors ==
  LET base == Of("JsonRpcRequest", {})
          \cup Of("MessageSendParams", {"context_id"}) \cup Of("A2AMessage", {})
          \cup Says("A2APart", "text", {"text"})
  IN  << Golden("message_send_text", base),
         Golden("message_send_data", Of("JsonRpcRequest", {})
             \cup Of("MessageSendParams", {}) \cup Of("A2AMessage", {})
             \cup Says("A2APart", "data", {"data"})),
         MustIgnore("request_with_unknown_fields", base) >>

JsonRpcResponseVectors ==
  << Golden("result_response", Of("JsonRpcResponse", {"result"})
         \cup Of("A2AResult", {}) \cup Says("A2APart", "text", {"text"})),
     Golden("method_not_found_error", Of("JsonRpcResponse", {"error"})
         \cup Of("JsonRpcError", {})),
     Breaks("result_and_error_rejected", "exactly_one",
         Of("JsonRpcResponse", {"result", "error"}) \cup Of("JsonRpcError", {})
         \cup Of("A2AResult", {})) >>

AgentDiscoveryRequestVectors ==
  LET base == Of("AgentDiscoveryRequest", {})
  IN  << Golden("discover_seller", base),
         Golden("discover_buyer", base) >>

AgentTrustVerificationVectors ==
  << Golden("approved_by_registry",
         Of("AgentTrustVerification", {"agent_id", "registry_id",
             "verified_at"})),
     Golden("unknown_unregistered", Of("AgentTrustVerification", {})) >>

ErrorEnvelopeVectors ==
  LET base == Of("ErrorEnvelope", {}) \cup Of("ErrorDetail", {})
          \cup Of("UnsupportedItem", {"path"})
      base2 == Of("ErrorEnvelope", {}) \cup Of("ErrorDetail", {})
  IN  << Golden("fd6_linear_tv_rejection", base),
         Golden("validation_error", base2),
         Golden("idempotency_conflict", base2),
         MustIgnore("error_with_unknown_fields", base) >>

EventVectors ==
  LET base == Of("Event", {"deal_id", "order_id"})
  IN  << Golden("deal_booked", base),
         Golden("negotiation_round",
             Of("Event", {"proposal_id", "session_id"})),
         MustIgnore("event_with_unknown_fields", base),
         Breaks("naive_timestamp_rejected", "aware_timestamp",
             Says("Event", "naive", {})) >>

-----------------------------------------------------------------------------
(* The sequences of state_fixture_docs.                                    *)

Legal(name, states) == [name |-> name, expect |-> "legal", states |-> states,
                        fails_at |-> 0]
Illegal(name, states, at) ==
  [name |-> name, expect |-> "illegal", states |-> states, fails_at |-> at]

DealSequences ==
  << Legal("happy_path", <<"proposed", "negotiating", "accepted", "booked",
       "active", "completed">>),
     Legal("makegood_cycle", <<"proposed", "accepted", "booked", "active",
       "makegood_pending", "active", "completed">>),
     Legal("negotiation_rework_walkaway", <<"proposed", "negotiating",
       "proposed", "negotiating", "rejected">>),
     Legal("partial_cancellation", <<"proposed", "accepted", "booked",
       "partially_cancelled", "cancelled">>),
     Illegal("terminal_completed_reopened",
       <<"active", "completed", "active">>, 1),
     Illegal("skip_acceptance", <<"proposed", "booked">>, 0),
     Illegal("booked_back_to_negotiating",
       <<"accepted", "booked", "negotiating">>, 1) >>

OrderSequences ==
  << Legal("human_approval_path", <<"draft", "submitted", "pending_approval",
       "approved", "in_progress", "booked", "completed">>),
     Legal("auto_approval_path", <<"draft", "submitted", "approved",
       "in_progress", "booked", "completed">>),
     Legal("rejection_recovery", <<"draft", "submitted", "pending_approval",
       "rejected", "draft", "cancelled">>),
     Legal("unbooked_recovery", <<"in_progress", "booked", "unbooked", "draft",
       "submitted">>),
     Illegal("terminal_completed_reopened",
       <<"booked", "completed", "draft">>, 1),
     Illegal("skip_execution", <<"draft", "booked">>, 0) >>

ChangeRequestSequences ==
  << Legal("minor_auto_approved",
       <<"pending", "validating", "approved", "applied">>),
     Legal("material_human_rejected",
       <<"pending", "validating", "pending_approval", "rejected">>),
     Legal("approved_apply_failed",
       <<"pending", "validating", "pending_approval", "approved", "failed">>),
     Illegal("terminal_applied_reopened",
       <<"pending", "validating", "approved", "applied", "pending">>, 3),
     Illegal("skip_validation", <<"pending", "approved">>, 0) >>

-----------------------------------------------------------------------------
(* fixture_documents(): the documents of each area, as they are checked in *)
(* and in the order the runner reads them.                                 *)

PrimitiveDocs ==
  << "Account", "Agent", "Assignment", "ChangeRequest",
     "ConsentContext", "Creative", "CreativeApproval", "Deal",
     "DecisionRecord", "Line", "MediaKit", "Negotiation", "Order",
     "Organization", "Package", "Product", "Proposal", "Quote", "RateCard",
     "SellersJsonEntry", "Session", "SupplyChain" >>

ProtocolDocs ==
  << "AgentDiscoveryRequest", "AgentTrustVerification",
     "Avails", "AvailsCollection", "AvailsRequest", "AvailsResponse",
     "ChangeRequestCreate", "ChangeRequestResponse", "DealBookingRequest",
     "DealBookingResponse", "ErrorEnvelope", "JsonRpcRequest",
     "JsonRpcResponse", "NegotiationMessage", "NegotiationRoundResponse",
     "ProductAvailsSearch", "ProductListRequest", "ProductListResponse",
     "QuoteRequest", "QuoteResponse" >>

EventDocs == << "Event" >>

VectorsOf ==
  "Account" :> AccountVectors @@ "Agent" :> AgentVectors
  @@ "Assignment" :> AssignmentVectors
  @@ "ChangeRequest" :> ChangeRequestVectors
  @@ "ConsentContext" :> ConsentContextVectors
  @@ "Creative" :> CreativeVectors
  @@ "CreativeApproval" :> CreativeApprovalVectors @@ "Deal" :> DealVectors
  @@ "DecisionRecord" :> DecisionRecordVectors @@ "Line" :> LineVectors
  @@ "MediaKit" :> MediaKitVectors @@ "Negotiation" :> NegotiationVectors
  @@ "Order" :> OrderVectors @@ "Organization" :> OrganizationVectors
  @@ "Package" :> PackageVectors @@ "Product" :> ProductVectors
  @@ "Proposal" :> ProposalVectors @@ "Quote" :> QuoteVectors
  @@ "RateCard" :> RateCardVectors
  @@ "SellersJsonEntry" :> SellersJsonEntryVectors
  @@ "Session" :> SessionVectors @@ "SupplyChain" :> SupplyChainVectors
  @@ "AgentDiscoveryRequest" :> AgentDiscoveryRequestVectors
  @@ "AgentTrustVerification" :> AgentTrustVerificationVectors
  @@ "Avails" :> AvailsVectors
  @@ "AvailsCollection" :> AvailsCollectionVectors
  @@ "AvailsRequest" :> AvailsRequestVectors
  @@ "AvailsResponse" :> AvailsResponseVectors
  @@ "ChangeRequestCreate" :> ChangeRequestCreateVectors
  @@ "ChangeRequestResponse" :> ChangeRequestResponseVectors
  @@ "DealBookingRequest" :> DealBookingRequestVectors
  @@ "DealBookingResponse" :> DealBookingResponseVectors
  @@ "ErrorEnvelope" :> ErrorEnvelopeVectors
  @@ "JsonRpcRequest" :> JsonRpcRequestVectors
  @@ "JsonRpcResponse" :> JsonRpcResponseVectors
  @@ "NegotiationMessage" :> NegotiationMessageVectors
  @@ "NegotiationRoundResponse" :> NegotiationRoundResponseVectors
  @@ "ProductAvailsSearch" :> ProductAvailsSearchVectors
  @@ "ProductListRequest" :> ProductListRequestVectors
  @@ "ProductListResponse" :> ProductListResponseVectors
  @@ "QuoteRequest" :> QuoteRequestVectors
  @@ "QuoteResponse" :> QuoteResponseVectors @@ "Event" :> EventVectors

(* Every instance is of a known model and gives fields that model has.     *)
ASSUME VectorsFitTheModels ==
  \A t \in DOMAIN VectorsOf : \A k \in DOMAIN VectorsOf[t] :
     \A i \in VectorsOf[t][k].holds :
        /\ i.model \in Closure[t]
        /\ i.given \subseteq Models[i.model].may

SequencesOf ==
  [deal |-> DealSequences, order |-> OrderSequences,
   change_request |-> ChangeRequestSequences]
=============================================================================
