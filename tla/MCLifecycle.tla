----------------------------- MODULE MCLifecycle -----------------------------
(* BookingLifecycle on small instances, and its refinement of the promise. *)
EXTENDS BookingLifecycle, TLC

\* Sessions and requests are interchangeable: no action names one of them.
Interchangeable == Permutations(Sessions) \cup Permutations(Requests)

Promise == INSTANCE PaymentPromise WITH
  Links <- Sessions, NoLink <- NoSession, Dues <- Amounts,
  status <- booking.status,
  link <- booking.url,
  due <- IF booking.url = NoSession THEN 0
                                    ELSE sessions[booking.url].terms.amount,
  charges <- {s \in Sessions : sessions[s].state = "paid"},
  settled <- booking.paid,
  removed <- ~exists

\* Run one after the other, the handlers keep the promise PaymentPromise makes:
\* one link, one charge of its amount, settlement only after the charge and
\* before any cancellation, and a status that follows canTransition.
KeepsPromise == Promise!Spec

Overlapped == INSTANCE OverlapPromise WITH
  Links <- Sessions, NoLink <- NoSession, Dues <- Amounts,
  Overlap <- Cardinality(Requests),
  link <- booking.url,
  dues <- [s \in Sessions |-> IF s \in HandedOut THEN sessions[s].terms.amount
                                                ELSE 0],
  charges <- {s \in Sessions : sessions[s].state = "paid"},
  settled <- booking.paid,
  removed <- ~exists

\* However the handlers interleave and wherever they are cut off, they keep
\* what OverlapPromise says: no more payment links than handlers overlap, one
\* charge of each, settlement only after a charge and never after a removal.
KeepsOverlapPromise == Overlapped!Spec
=============================================================================
