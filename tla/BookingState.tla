---------------------------- MODULE BookingState ----------------------------
(***************************************************************************)
(* The two transition rules every booking handler consults:                *)
(*   - BookingStateService, the operational status (booking-state.service) *)
(*   - assertCommercialTransition, the commercial (quote) status           *)
(* together with the enumerations of the Booking and Payment schemas.      *)
(* A document without the optional field reads as the value "none".        *)
(***************************************************************************)

Statuses ==
  {"pending", "confirmed", "assigned", "in_progress", "completed",
   "cancelled", "paid"}

Sources == {"admin", "employee", "webhook"}

CommercialStatuses ==
  {"none", "quote_requested", "under_review", "quoted_draft", "quote_sent",
   "quote_accepted", "quote_rejected", "quote_expired",
   "closed_without_sale", "legacy_direct_booking"}

LifecycleStatuses ==
  {"none", "not_ready", "invoice_ready", "checkout_created",
   "payment_pending", "paid", "payment_failed", "refunded", "voided"}

QuoteStatuses == {"none", "draft", "sent", "accepted", "rejected", "expired"}

\* BookingStateService.canTransition
CanTransition(from, to) ==
  \/ from = to
  \/ /\ to = "cancelled"
     /\ from \in {"pending", "confirmed", "assigned", "in_progress", "paid"}
  \/ <<from, to>> \in {<<"pending", "confirmed">>, <<"confirmed", "assigned">>,
                       <<"assigned", "in_progress">>,
                       <<"in_progress", "completed">>}
  \/ /\ to = "paid"
     /\ from \in {"confirmed", "assigned", "in_progress", "completed"}

\* Who may ask for a transition into `next` (the ForbiddenException checks).
\* The code restricts `confirmed` only when it is reached from `pending`,
\* which canTransition makes the only way to reach it.
SourcesFor(next) ==
  CASE next \in {"confirmed", "assigned", "cancelled"} -> {"admin"}
    [] next \in {"in_progress", "completed"} -> {"admin", "employee"}
    [] next = "paid" -> {"webhook"}
    [] OTHER -> Sources

\* A bug in its place: the caller is checked, the transition is not.
TransitionUnchecked(current, next, source) ==
  current = next \/ source \in SourcesFor(next)

\* BookingStateService.transitionBooking does not throw.
TransitionAllowed(current, next, source) ==
  \/ current = next
  \/ CanTransition(current, next) /\ source \in SourcesFor(next)

\* A bug in its place: any commercial status may be left.
CommercialUnchecked(current, next, allowedFrom) ==
  current = next \/ current # "none"

\* BookingService.assertCommercialTransition does not throw.
CommercialAllowed(current, next, allowedFrom) ==
  \/ current = next
  \/ current # "none" /\ current \in allowedFrom

\* A booking outside the quote flow is payable as soon as it is confirmed.
IsQuoteFlow(commercial) == commercial \notin {"none", "legacy_direct_booking"}
=============================================================================
