----------------------------- MODULE Lifecycles -----------------------------
(***************************************************************************)
(* The three canonical lifecycle tables: deal_lifecycle.py,                *)
(* order_lifecycle.py and change_request_lifecycle.py.  No canonical rule  *)
(* carries a guard.                                                        *)
(***************************************************************************)
EXTENDS StateMachine

Move(from, to) == [from |-> from, to |-> to, rework |-> FALSE, guarded |-> FALSE]
Rework(from, to) == [from |-> from, to |-> to, rework |-> TRUE, guarded |-> FALSE]

DealStatuses ==
  {"proposed", "negotiating", "accepted", "booked", "active", "completed",
   "rejected", "failed", "cancelled", "expired", "makegood_pending",
   "partially_cancelled"}

DEAL_TERMINAL_STATES == {"completed", "rejected", "failed", "cancelled", "expired"}

DealRules == <<
  Move("proposed", "negotiating"),         Move("proposed", "accepted"),
  Move("negotiating", "accepted"),         Rework("negotiating", "proposed"),
  Move("accepted", "booked"),              Move("booked", "active"),
  Move("active", "completed"),             Move("proposed", "rejected"),
  Move("negotiating", "rejected"),         Move("proposed", "failed"),
  Move("negotiating", "failed"),           Move("accepted", "failed"),
  Move("active", "failed"),                Move("proposed", "cancelled"),
  Move("negotiating", "cancelled"),        Move("accepted", "cancelled"),
  Move("booked", "cancelled"),             Move("active", "cancelled"),
  Move("proposed", "expired"),             Move("negotiating", "expired"),
  Move("active", "makegood_pending"),      Rework("makegood_pending", "active"),
  Move("makegood_pending", "completed"),   Move("makegood_pending", "failed"),
  Move("booked", "partially_cancelled"),   Move("partially_cancelled", "active"),
  Move("partially_cancelled", "cancelled") >>

DEAL_LIFECYCLE ==
  [name |-> "deal", states |-> DealStatuses, initial |-> "proposed",
   terminal |-> DEAL_TERMINAL_STATES, rules |-> DealRules]

OrderStatuses ==
  {"draft", "submitted", "pending_approval", "approved", "rejected",
   "in_progress", "booked", "completed", "failed", "cancelled", "unbooked"}

ORDER_TERMINAL_STATES == {"completed", "cancelled"}

OrderForwardRules == <<
  Move("draft", "submitted"),              Move("submitted", "pending_approval"),
  Move("submitted", "approved"),           Move("pending_approval", "approved"),
  Move("pending_approval", "rejected"),    Move("approved", "in_progress"),
  Move("in_progress", "booked"),           Move("booked", "completed"),
  Move("booked", "unbooked"),              Move("draft", "cancelled"),
  Move("submitted", "cancelled"),          Move("submitted", "failed"),
  Move("pending_approval", "cancelled"),   Move("approved", "cancelled"),
  Move("in_progress", "failed"),           Move("in_progress", "cancelled") >>

(* Fault: an order taken off its bookings cannot be drafted again.         *)
OrderRulesUnbookedStuck ==
  OrderForwardRules \o << Rework("rejected", "draft"), Rework("failed", "draft") >>
OrderRules ==
  OrderForwardRules
    \o << Rework("rejected", "draft"), Rework("failed", "draft"), Rework("unbooked", "draft") >>

ORDER_LIFECYCLE ==
  [name |-> "order", states |-> OrderStatuses, initial |-> "draft",
   terminal |-> ORDER_TERMINAL_STATES, rules |-> OrderRules]

ChangeRequestStatuses ==
  {"pending", "validating", "pending_approval", "approved", "applied",
   "rejected", "failed"}

CHANGE_REQUEST_TERMINAL_STATES == {"applied", "rejected", "failed"}

ChangeRequestRules == <<
  Move("pending", "validating"),           Move("validating", "failed"),
  Move("validating", "approved"),          Move("validating", "pending_approval"),
  Move("pending_approval", "approved"),    Move("pending_approval", "rejected"),
  Move("approved", "applied"),             Move("approved", "failed") >>

CHANGE_REQUEST_LIFECYCLE ==
  [name |-> "change_request", states |-> ChangeRequestStatuses,
   initial |-> "pending", terminal |-> CHANGE_REQUEST_TERMINAL_STATES,
   rules |-> ChangeRequestRules]

CanonicalLifecycles == {DEAL_LIFECYCLE, ORDER_LIFECYCLE, CHANGE_REQUEST_LIFECYCLE}

(* Each table is built at import time, so every importer relies on this.   *)
ASSUME CanonicalTablesAreValid == \A M \in CanonicalLifecycles : Valid(M)
=============================================================================
