--------------------------- MODULE PaymentPromise ---------------------------
(***************************************************************************)
(* What the booking backend promises about one booking and its money, with *)
(* no word on handlers, rows or sessions: the operational status moves     *)
(* along BookingStateService.canTransition, the customer is offered one    *)
(* payment link with one amount, is charged through that link once at      *)
(* most, and the booking is settled only after the charge and never once   *)
(* it was cancelled.                                                       *)
(***************************************************************************)
EXTENDS BookingState, Naturals

CONSTANTS Links, NoLink, Dues

VARIABLES
  status,    \* operational status
  link,      \* the payment link on offer
  due,       \* the amount behind the link, 0 without one
  charges,   \* the links the customer paid
  settled,   \* the booking counts as paid
  removed

money == <<link, due, charges, settled>>

Init ==
  /\ status \in {"pending", "confirmed"}
  /\ link = NoLink /\ due = 0
  /\ charges = {}
  /\ settled = FALSE
  /\ removed = FALSE

\* The status follows the operational flow; cancelled and completed are ends.
Operate ==
  /\ ~removed
  /\ \E next \in Statuses \ {status, "paid"} :
       CanTransition(status, next) /\ status' = next
  /\ UNCHANGED <<money, removed>>

\* The first link is the only one; offering it may confirm the booking.
Offer ==
  /\ ~removed /\ ~settled
  /\ status # "cancelled"
  /\ link = NoLink
  /\ link' \in Links /\ due' \in Dues \ {0}
  /\ status' \in {s \in {status, "confirmed"} : CanTransition(status, s)}
  /\ UNCHANGED <<charges, settled, removed>>

\* The link stays payable after a cancellation or a removal.
Charge ==
  /\ link # NoLink /\ charges = {}
  /\ charges' = {link}
  /\ UNCHANGED <<status, link, due, settled, removed>>

Settle ==
  /\ ~removed /\ ~settled
  /\ status # "cancelled"
  /\ charges = {link}
  /\ settled' = TRUE
  /\ UNCHANGED <<status, link, due, charges, removed>>

Remove ==
  /\ ~removed /\ removed' = TRUE
  /\ UNCHANGED <<status, money>>

Next == Operate \/ Offer \/ Charge \/ Settle \/ Remove

Spec == Init /\ [][Next]_<<status, money, removed>>
=============================================================================
