--------------------------- MODULE OverlapPromise ---------------------------
(***************************************************************************)
(* What is left of PaymentPromise when the handlers of one booking overlap *)
(* and read a document that others are about to change.  More than one     *)
(* payment link may be handed out then, but no more than there are         *)
(* handlers in flight together, each once, with one amount that never      *)
(* changes; each link is charged once at most, the booking is settled once *)
(* and only after a charge, and nothing but charges follows its removal.   *)
(***************************************************************************)
EXTENDS Naturals, FiniteSets

CONSTANTS Links, NoLink, Dues,
          Overlap  \* how many handlers may be in flight together

VARIABLES
  link,      \* the link shown with the booking, the last one handed out
  dues,      \* the amount behind each link, 0 before it is handed out
  charges,   \* the links the customer paid
  settled,   \* the booking counts as paid
  removed

vars == <<link, dues, charges, settled, removed>>

HandedOut == {l \in Links : dues[l] # 0}

Init ==
  /\ link = NoLink
  /\ dues = [l \in Links |-> 0]
  /\ charges = {}
  /\ settled = FALSE
  /\ removed = FALSE

Offer(l) ==
  /\ ~removed
  /\ l \notin HandedOut
  /\ Cardinality(HandedOut) < Overlap
  /\ link' = l
  /\ \E due \in Dues \ {0} : dues' = [dues EXCEPT ![l] = due]
  /\ UNCHANGED <<charges, settled, removed>>

Charge(l) ==
  /\ l \in HandedOut \ charges
  /\ charges' = charges \cup {l}
  /\ UNCHANGED <<link, dues, settled, removed>>

Settle ==
  /\ ~removed /\ ~settled
  /\ charges # {}
  /\ settled' = TRUE
  /\ UNCHANGED <<link, dues, charges, removed>>

Remove ==
  /\ ~removed /\ removed' = TRUE
  /\ UNCHANGED <<link, dues, charges, settled>>

Next == (\E l \in Links : Offer(l) \/ Charge(l)) \/ Settle \/ Remove

Spec == Init /\ [][Next]_vars
=============================================================================
