----------------------- MODULE LifecycleOverlap_proofs -----------------------
(***************************************************************************)
(* The refinement of OverlapPromise by BookingLifecycle, for any finite    *)
(* number of handlers in flight together and any number of sessions,       *)
(* prices and versions, wherever the handlers are cut off.                 *)
(***************************************************************************)
EXTENDS MCLifecycle, BookingLifecycle_proofs, FiniteSetTheorems

-----------------------------------------------------------------------------
(* The inductive invariant *)

\* A request that may still hand out a link.
Opening(q) == q.pc = "checkout" \/ Owns(q)

Openers == {r \in Requests : Opening(req[r])}

\* What a request under way knows of its money: a link will demand a positive
\* amount, the one its session was opened with, and the booking is marked paid
\* on behalf of a paid session only.
Trail(q) ==
  /\ Opening(q) => q.offer.amount > 0
  /\ Owns(q) => sessions[q.session].terms = q.offer
  /\ "paid" \in DOMAIN q.set => /\ q.op = "handleWebhook"
                                /\ q.session \in Sessions
                                /\ sessions[q.session].state = "paid"

Priced == \A s \in HandedOut : sessions[s].terms.amount > 0

\* No handler starts to open a session for a booking that has its link, so
\* from the first link on, those handed out and those still to come together
\* are no more than the handlers that were in flight when it was stored.
Counted ==
  /\ IsFiniteSet(HandedOut)
  /\ booking.url = NoSession => HandedOut = {}
  /\ booking.url # NoSession =>
       Cardinality(HandedOut) + Cardinality(Openers) <= Cardinality(Requests)

OverlapInv ==
  /\ \A r \in Requests : Trail(req[r])
  /\ Priced
  /\ Counted

LEMMA OpenersAreFew ==
  /\ IsFiniteSet(Openers)
  /\ Cardinality(Openers) \in Nat
  /\ Cardinality(Openers) <= Cardinality(Requests)
  /\ Cardinality(Requests) \in Nat
<1>1. Openers \in SUBSET Requests
  BY DEF Openers
<1> QED
  BY <1>1, RequestsAssumption, FS_Subset, FS_CardinalityType

-----------------------------------------------------------------------------
(* The handlers that start *)

\* A handler asks Stripe for a session only while the booking has no link, and
\* for a positive amount.
LEMMA OpensOnlyUnlinked ==
  ASSUME TypeOK, NEW r \in Requests,
         QuoteHandlers(r) \/ StatusHandlers(r) \/ PaymentHandlers(r),
         req'[r].pc = "checkout"
  PROVE  booking.url = NoSession /\ req'[r].offer.amount > 0
<1>d. DOMAIN req = Requests
  BY DEF TypeOK
<1>s. ASSUME NEW op, NEW update, NEW mail, Saves(r, op, update, mail)
      PROVE  FALSE
  BY <1>s, <1>d DEF Saves, Becomes
<1>o. ASSUME NEW op, NEW offer, NEW update, NEW refused, NEW mail,
             OpensCheckout(r, op, offer, update, refused, mail)
      PROVE  req'[r].offer = offer
  BY <1>o, <1>d DEF OpensCheckout, Becomes
<1>1. CASE QuoteHandlers(r)
  BY <1>1, <1>s
  DEF QuoteHandlers, StartQuoteReview, SaveQuoteDraft, SendQuote, RejectQuote,
      ExpireQuote, ReopenQuote, ReviseQuote, ReturnsToReview
<1>2. CASE StatusHandlers(r)
  <2>1. ASSUME NEW next, UpdateStatus(r, next) PROVE FALSE
    BY <2>1, <1>s DEF UpdateStatus
  <2>2. CASE CancelByAdmin(r)
    BY <2>2, <1>s DEF CancelByAdmin
  <2>3. CASE DeleteAdminPermanent(r)
    BY <2>3, <1>d DEF DeleteAdminPermanent, Becomes
  <2>4. CASE AssignBooking(r) \/ StartBooking(r) \/ CompleteBooking(r)
    BY <2>4 DEF AssignBooking, StartBooking, CompleteBooking, Writes, Loads
  <2> QED
    BY <1>2, <2>1, <2>2, <2>3, <2>4 DEF StatusHandlers
<1>3. CASE PaymentHandlers(r)
  <2>1. CASE ConfirmDirectBooking(r)
    <3> DEFINE offer == [amount |-> booking.preview, via |-> "legacy",
                         version |-> 0]
    <3>1. OpensCheckout(r, "updateStatus", offer, [status |-> "confirmed"],
                        FALSE, "payment_link")
      BY <2>1 DEF ConfirmDirectBooking
    <3>2. booking.url = NoSession /\ booking.preview > 0
      BY <2>1 DEF ConfirmDirectBooking
    <3>3. offer.amount = booking.preview
      OBVIOUS
    <3> HIDE DEF offer
    <3>4. req'[r].offer = offer
      BY <3>1, <1>o
    <3> QED
      BY <3>2, <3>3, <3>4
  <2>2. CASE ConfirmAndSendPayment(r)
    BY <2>2, <1>o DEF ConfirmAndSendPayment, Chargeable
  <2>3. CASE CreateCheckoutSessionUrl(r)
    <3> DEFINE amount == IF IsQuoteFlow(booking.commercial)
                           THEN booking.quote.price ELSE booking.preview
               offer == IF IsQuoteFlow(booking.commercial)
                          THEN [amount |-> amount, via |-> "quote",
                                version |-> booking.quote.version]
                          ELSE [amount |-> amount, via |-> "legacy",
                                version |-> 0]
               update == [lifecycle |-> IF IsQuoteFlow(booking.commercial)
                                          THEN "checkout_created"
                                          ELSE booking.lifecycle]
    <3>1. OpensCheckout(r, "createCheckoutSessionUrl", offer, update, FALSE,
                        "none")
      BY <2>3 DEF CreateCheckoutSessionUrl
    <3>2. booking.url = NoSession /\ amount > 0
      BY <2>3 DEF CreateCheckoutSessionUrl, Chargeable
    <3>3. offer.amount = amount
      OBVIOUS
    <3> HIDE DEF offer, update, amount
    <3>4. req'[r].offer = offer
      BY <3>1, <1>o
    <3> QED
      BY <3>2, <3>3, <3>4
  <2>4. ASSUME NEW s \in Sessions, DeliverSessionCompleted(r, s) PROVE FALSE
    BY <2>4, <1>d DEF DeliverSessionCompleted, Becomes
  <2> QED
    BY <1>3, <2>1, <2>2, <2>3, <2>4 DEF PaymentHandlers
<1> QED
  BY <1>1, <1>2, <1>3

-----------------------------------------------------------------------------
(* The steps of the handlers *)

\* What holds of a request stays true while its session is left alone.
LEMMA TrailStays ==
  ASSUME NEW x \in Requests, Trail(req[x]), req'[x] = req[x],
         \A s \in Sessions :
           sessions[s].state = "paid" => sessions'[s] = sessions[s],
         Owns(req[x]) =>
           sessions'[req[x].session].terms = sessions[req[x].session].terms
  PROVE  Trail(req[x])'
BY DEF Trail, Opening, Owns, StoresLink

\* While nothing is handed out, no request may become an opener once the
\* booking has its link.
LEMMA CountedStays ==
  ASSUME Counted, booking'.url = booking.url, HandedOut' = HandedOut,
         booking.url # NoSession => Openers' \subseteq Openers
  PROVE  Counted'
<1>1. CASE booking.url = NoSession
  BY <1>1 DEF Counted
<1>2. CASE booking.url # NoSession
  <2>1. /\ Cardinality(HandedOut) \in Nat
        /\ Cardinality(HandedOut) + Cardinality(Openers)
             <= Cardinality(Requests)
    BY <1>2, FS_CardinalityType DEF Counted
  <2> DEFINE next == Openers'
  <2>2. next \in SUBSET Openers
    BY <1>2
  <2>3. Cardinality(next) \in Nat /\ Cardinality(next) <= Cardinality(Openers)
    <3> HIDE DEF next
    <3> QED
      BY <2>2, OpenersAreFew, FS_Subset, FS_CardinalityType
  <2>4. Cardinality(HandedOut) + Cardinality(next) <= Cardinality(Requests)
    <3> HIDE DEF next
    <3> QED
      BY <2>1, <2>3, OpenersAreFew
  <2> QED
    BY <1>2, <2>4 DEF Counted
<1> QED
  BY <1>1, <1>2

\* A request that ends holds nothing.
LEMMA EndedTrail ==
  ASSUME NEW q, q.pc \notin {"checkout", "upsert", "save"}, q.set = NoChange
  PROVE  Trail(q)' /\ ~Opening(q)
BY DEF Trail, Opening, Owns, NoChange

\* A step of request r that hands out no link.
LEMMA QuietKeepsOverlap ==
  ASSUME TypeOK, OverlapInv, NEW r \in Requests,
         booking'.url = booking.url,
         \A x \in Requests \ {r} : req'[x] = req[x],
         \A s \in HandedOut : sessions'[s] = sessions[s],
         HandedOut' = HandedOut,
         \A x \in Requests \ {r} : Owns(req[x]) =>
           sessions'[req[x].session].terms = sessions[req[x].session].terms,
         Trail(req[r])',
         Opening(req'[r]) => Opening(req[r]) \/ booking.url = NoSession
  PROVE  OverlapInv'
<1>1. \A x \in Requests : Trail(req[x])'
  <2>1. \A s \in Sessions :
          sessions[s].state = "paid" => sessions'[s] = sessions[s]
    BY DEF HandedOut
  <2>2. ASSUME NEW x \in Requests \ {r} PROVE Trail(req[x])'
    BY <2>1, TrailStays DEF OverlapInv
  <2> QED
    BY <2>2
<1>2. Priced'
  BY DEF OverlapInv, Priced
<1>3. booking.url # NoSession => Openers' \subseteq Openers
  BY DEF Openers, Opening, Owns, StoresLink
<1>4. Counted'
  BY <1>3, CountedStays DEF OverlapInv
<1> QED
  BY <1>1, <1>2, <1>4 DEF OverlapInv

LEMMA LoadKeepsOverlap ==
  ASSUME TypeOK, OverlapInv, NEW r \in Requests, NEW q, Planned(q),
         Becomes(r, q),
         q.pc = "checkout" => booking.url = NoSession /\ q.offer.amount > 0
  PROVE  OverlapInv'
<1>1. /\ req'[r] = q /\ \A x \in Requests \ {r} : req'[x] = req[x]
      /\ UNCHANGED <<booking, sessions>>
  BY DEF Becomes, TypeOK
<1>2. ~Owns(q)
  BY DEF Planned, Owns, StoresLink
<1>3. Trail(req[r])'
  BY <1>1, <1>2 DEF Trail, Opening, Planned, Owns, StoresLink
<1>4. HandedOut' = HandedOut
  BY <1>1 DEF HandedOut
<1>5. Opening(req'[r]) => booking.url = NoSession
  BY <1>1, <1>2 DEF Opening
<1> QED
  BY <1>1, <1>3, <1>4, <1>5, QuietKeepsOverlap

LEMMA HandlersKeepOverlap ==
  ASSUME TypeOK, OverlapInv, NEW r \in Requests,
         QuoteHandlers(r) \/ StatusHandlers(r) \/ PaymentHandlers(r)
  PROVE  OverlapInv'
<1>1. booking \in Bookings
  BY DEF TypeOK
<1>2. CrewWrites \/ \E q : Planned(q) /\ Becomes(r, q)
  BY <1>1, QuoteHandlersPlan, StatusHandlersPlan, PaymentHandlersPlan
<1>3. CASE CrewWrites
  <2>1. UNCHANGED <<sessions, req>> /\ booking'.url = booking.url
    BY <1>3 DEF CrewWrites
  <2>2. HandedOut' = HandedOut /\ (Trail(req[r]) => Trail(req[r])')
    BY <2>1 DEF HandedOut, Trail, Opening, Owns, StoresLink
  <2> QED
    BY <2>1, <2>2, QuietKeepsOverlap DEF OverlapInv
<1>4. ASSUME NEW q, Planned(q), Becomes(r, q) PROVE OverlapInv'
  <2>1. req'[r] = q
    BY <1>4 DEF Becomes, TypeOK
  <2>2. q.pc = "checkout" => booking.url = NoSession /\ q.offer.amount > 0
    BY <2>1, OpensOnlyUnlinked
  <2> QED
    BY <1>4, <2>2, LoadKeepsOverlap
<1> QED
  BY <1>2, <1>3, <1>4

LEMMA IssueKeepsOverlap ==
  ASSUME TypeOK, LifecycleInv, OverlapInv, NEW r \in Requests,
         NEW s \in Sessions, IssueSession(r, s)
  PROVE  OverlapInv'
<1>1. /\ req[r].pc = "checkout" /\ InFlight(req[r]) /\ IsRequest(req[r])
      /\ Trail(req[r])
      /\ \A x \in Requests \ {r} : req'[x] = req[x]
      /\ booking'.url = booking.url
  BY DEF IssueSession, LifecycleInv, OverlapInv, TypeOK
<1>2. /\ sessions'[s].state = "open" /\ sessions'[s].terms = req[r].offer
      /\ \A t \in Sessions \ {s} : sessions'[t] = sessions[t]
      /\ sessions[s].state = "unused"
  BY DEF IssueSession, TypeOK
<1>3. HandedOut' = HandedOut /\ s \notin HandedOut
  BY <1>2 DEF HandedOut
<1>4. \A t \in HandedOut : sessions'[t] = sessions[t]
  BY <1>2, <1>3 DEF HandedOut
<1>5. ASSUME NEW x \in Requests \ {r}, Owns(req[x])
      PROVE  sessions'[req[x].session] = sessions[req[x].session]
  BY <1>2, <1>5 DEF LifecycleInv, InFlight
<1>6. Opening(req[r])
  BY <1>1 DEF Opening
<1>7. Trail(req[r])'
  <2>1. CASE req[r].refused
    <3>1. req'[r] = Idle
      BY <2>1 DEF IssueSession, TypeOK
    <3> QED
      BY <3>1 DEF Trail, Opening, Owns, Idle, NoChange
  <2>2. CASE ~req[r].refused
    <3>1. req'[r] = [req[r] EXCEPT !.pc = "upsert", !.session = s]
      BY <2>2 DEF IssueSession, TypeOK
    <3>2. /\ req'[r].session = s /\ req'[r].set = req[r].set
          /\ req'[r].offer = req[r].offer
      BY <1>1, <3>1 DEF IsRequest
    <3>3. "paid" \notin DOMAIN req[r].set /\ req[r].offer.amount > 0
      BY <1>1, <1>6 DEF InFlight, Trail
    <3> QED
      BY <1>2, <3>2, <3>3 DEF Trail
  <2> QED
    BY <2>1, <2>2
<1> QED
  BY <1>1, <1>3, <1>4, <1>5, <1>6, <1>7, QuietKeepsOverlap

LEMMA RowKeepsOverlap ==
  ASSUME TypeOK, LifecycleInv, OverlapInv, NEW r \in Requests,
         UpsertPayment(r) \/ RecordPayment(r)
  PROVE  OverlapInv'
<1>1. /\ InFlight(req[r]) /\ IsRequest(req[r]) /\ Trail(req[r])
      /\ UNCHANGED <<booking, sessions>>
      /\ \A x \in Requests \ {r} : req'[x] = req[x]
  BY DEF UpsertPayment, RecordPayment, LifecycleInv, OverlapInv, TypeOK
<1>2. /\ req[r].pc \in {"upsert", "record"}
      /\ req'[r] \in {Idle, [req[r] EXCEPT !.pc = "save"]}
  BY DEF UpsertPayment, RecordPayment, TypeOK
<1>3. HandedOut' = HandedOut
  BY <1>1 DEF HandedOut
<1>4. CASE req'[r] = Idle
  <2>1. Trail(req[r])' /\ ~Opening(req'[r])
    BY <1>4 DEF Trail, Opening, Owns, Idle, NoChange
  <2> QED
    BY <1>1, <1>3, <2>1, QuietKeepsOverlap
<1>5. CASE req'[r] = [req[r] EXCEPT !.pc = "save"]
  <2>1. /\ req'[r].pc = "save" /\ req'[r].session = req[r].session
        /\ req'[r].set = req[r].set /\ req'[r].op = req[r].op
        /\ req'[r].offer = req[r].offer
    BY <1>1, <1>5 DEF IsRequest
  <2>2. Owns(req'[r]) => Owns(req[r])
    BY <1>1, <1>2, <2>1 DEF Owns, StoresLink, InFlight
  <2>3. Opening(req'[r]) => Opening(req[r])
    BY <2>1, <2>2 DEF Opening
  <2>4. Trail(req[r])'
    BY <1>1, <2>1, <2>2, <2>3 DEF Trail, Opening, Owns, StoresLink
  <2> QED
    BY <1>1, <1>3, <2>3, <2>4, QuietKeepsOverlap
<1> QED
  BY <1>2, <1>4, <1>5

\* Emit, the two steps of the deletion, and the end of a cut-off execution.
LEMMA EndKeepsOverlap ==
  ASSUME TypeOK, OverlapInv, NEW r \in Requests,
         Emit(r) \/ DropPayments(r) \/ DropBooking(r) \/ Abandon(r)
  PROVE  OverlapInv'
<1>1. /\ UNCHANGED <<booking, sessions>> /\ Trail(req[r]) /\ IsRequest(req[r])
      /\ \A x \in Requests \ {r} : req'[x] = req[x]
  BY DEF Emit, DropPayments, DropBooking, Abandon, Becomes, OverlapInv, TypeOK
<1>2. HandedOut' = HandedOut
  BY <1>1 DEF HandedOut
<1>3. CASE DropPayments(r)
  <2>1. req'[r] = [req[r] EXCEPT !.pc = "dropBooking"]
    BY <1>3 DEF DropPayments, TypeOK
  <2>2. /\ req'[r].pc = "dropBooking" /\ req'[r].set = req[r].set
        /\ req'[r].op = req[r].op /\ req'[r].session = req[r].session
    BY <1>1, <2>1 DEF IsRequest
  <2>3. Trail(req[r])' /\ ~Opening(req'[r])
    BY <1>1, <2>2 DEF Trail, Opening, Owns
  <2> QED
    BY <1>1, <1>2, <2>3, QuietKeepsOverlap
<1>4. CASE Emit(r) \/ DropBooking(r) \/ Abandon(r)
  <2>1. req'[r] = Idle
    BY <1>4 DEF Emit, DropBooking, Abandon, Becomes, TypeOK
  <2>2. Trail(req[r])' /\ ~Opening(req'[r])
    BY <2>1 DEF Trail, Opening, Owns, Idle, NoChange
  <2> QED
    BY <1>1, <1>2, <2>2, QuietKeepsOverlap
<1> QED
  BY <1>3, <1>4

LEMMA CustomerKeepsOverlap ==
  ASSUME TypeOK, LifecycleInv, OverlapInv, NEW s \in Sessions, CustomerPays(s)
  PROVE  OverlapInv'
<1>1. /\ UNCHANGED <<booking, req>>
      /\ sessions[s].state = "published" /\ sessions'[s].state = "paid"
      /\ sessions'[s].terms = sessions[s].terms
      /\ \A t \in Sessions \ {s} : sessions'[t] = sessions[t]
  BY DEF CustomerPays, TypeOK
<1>2. HandedOut' = HandedOut
  BY <1>1 DEF HandedOut
<1>3. Priced'
  BY <1>1, <1>2 DEF OverlapInv, Priced, HandedOut
<1>4. Openers' = Openers
  BY <1>1 DEF Openers, Opening, Owns, StoresLink
<1>5. Counted'
  BY <1>1, <1>2, <1>4, CountedStays DEF OverlapInv
<1>6. ASSUME NEW x \in Requests PROVE Trail(req[x])'
  <2>1. Trail(req[x]) /\ InFlight(req[x])
    BY DEF OverlapInv, LifecycleInv
  <2>2. Owns(req[x]) =>
          sessions'[req[x].session].terms = sessions[req[x].session].terms
    BY <1>1, <2>1 DEF InFlight
  <2> QED
    BY <1>1, <2>1, <2>2, TrailStays
<1> QED
  BY <1>3, <1>5, <1>6 DEF OverlapInv

\* What a save that hands out a link does: the link is the request's own
\* session, nobody had it, and the request opens nothing more.
LEMMA HandsOut ==
  ASSUME TypeOK, LifecycleInv, OverlapInv, NEW r \in Requests, Save(r),
         StoresLink(req[r])
  PROVE  LET s == req[r].session IN
         /\ s \in Sessions \ HandedOut
         /\ sessions[s].terms.amount > 0
         /\ sessions'[s].state = "published"
         /\ sessions'[s].terms = sessions[s].terms
         /\ \A t \in Sessions \ {s} : sessions'[t] = sessions[t]
         /\ HandedOut' = HandedOut \cup {s}
         /\ booking'.url = s
         /\ booking'.paid = booking.paid
<1> DEFINE s == req[r].session
<1>1. /\ InFlight(req[r]) /\ Trail(req[r]) /\ req[r].pc = "save"
      /\ Owns(req[r]) /\ Opening(req[r]) /\ req[r].op # "handleWebhook"
  BY DEF Save, LifecycleInv, OverlapInv, Owns, Opening, StoresLink
<1>2. s \in Sessions /\ sessions[s].state = "open"
  BY <1>1 DEF InFlight
<1>3. sessions[s].terms.amount > 0
  BY <1>1 DEF Trail
<1>4. /\ sessions'[s].state = "published"
      /\ sessions'[s].terms = sessions[s].terms
      /\ \A t \in Sessions \ {s} : sessions'[t] = sessions[t]
  BY <1>2 DEF Save, TypeOK
<1>5. HandedOut' = HandedOut \cup {s} /\ s \notin HandedOut
  BY <1>2, <1>4 DEF HandedOut
<1>6. booking'.url = s
  BY DEF Save, Stored
<1>7. booking'.paid = booking.paid
  BY <1>1 DEF Save, Stored, Trail
<1> QED
  BY <1>2, <1>3, <1>4, <1>5, <1>6, <1>7

LEMMA SaveEnds ==
  ASSUME TypeOK, NEW r \in Requests, Save(r)
  PROVE  Trail(req[r])' /\ ~Opening(req'[r])
<1>1. CASE req[r].mail = "none"
  <2>1. req'[r] = Idle
    BY <1>1 DEF Save, AfterSave, TypeOK
  <2> QED
    BY <2>1 DEF Trail, Opening, Owns, Idle, NoChange
<1>2. CASE req[r].mail # "none"
  <2>1. req'[r] = [pc |-> "emit", op |-> "none", set |-> NoChange,
                   offer |-> NoTerms, session |-> NoSession,
                   refused |-> FALSE, mail |-> req[r].mail]
    BY <1>2 DEF Save, AfterSave, Emitting, TypeOK
  <2> QED
    BY <2>1 DEF Trail, Opening, Owns, NoChange
<1> QED
  BY <1>1, <1>2

\* The link that is handed out was counted as one still to come.
LEMMA HandingOutCounts ==
  ASSUME Counted, NEW r \in Requests, NEW s, s \notin HandedOut,
         HandedOut' = HandedOut \cup {s}, booking'.url # NoSession,
         Openers' = Openers \ {r}, r \in Openers
  PROVE  Counted' /\ Cardinality(HandedOut) < Cardinality(Requests)
<1> DEFINE out == Cardinality(HandedOut)
           left == Cardinality(Openers)
           more == Cardinality(HandedOut \cup {s})
           less == Cardinality(Openers \ {r})
<1>1. /\ IsFiniteSet(HandedOut) /\ IsFiniteSet(Openers)
      /\ out \in Nat /\ left \in Nat /\ less \in Nat
      /\ left <= Cardinality(Requests) /\ Cardinality(Requests) \in Nat
  BY OpenersAreFew, FS_CardinalityType, FS_RemoveElement DEF Counted
<1>2. more = out + 1 /\ IsFiniteSet(HandedOut \cup {s})
  BY <1>1, FS_AddElement
<1>3. less = left - 1
  BY <1>1, FS_RemoveElement
<1>4. out + left <= Cardinality(Requests)
  <2>1. CASE booking.url = NoSession
    <3>1. out = 0
      BY <2>1, FS_EmptySet DEF Counted
    <3> QED
      BY <1>1, <3>1
  <2>2. CASE booking.url # NoSession
    BY <2>2 DEF Counted
  <2> QED
    BY <2>1, <2>2
<1>5. more + less <= Cardinality(Requests) /\ out < Cardinality(Requests)
  <2> HIDE DEF out, left, more, less
  <2> QED
    BY <1>1, <1>2, <1>3, <1>4
<1>6. Counted'
  BY <1>2, <1>5 DEF Counted
<1> QED
  BY <1>5, <1>6

\* The count of a save that hands out a link.
LEMMA HandsOutInTime ==
  ASSUME TypeOK, LifecycleInv, OverlapInv, NEW r \in Requests, Save(r),
         StoresLink(req[r])
  PROVE  Counted' /\ Cardinality(HandedOut) < Cardinality(Requests)
<1>1. /\ req[r].session \in Sessions \ HandedOut
      /\ HandedOut' = HandedOut \cup {req[r].session}
      /\ booking'.url = req[r].session
  BY HandsOut
<1>2. booking'.url # NoSession
  BY <1>1, SessionsAssumption
<1>3. r \in Openers
  BY DEF Openers, Opening, Owns, Save
<1>4. /\ ~Opening(req'[r])
      /\ \A x \in Requests \ {r} : req'[x] = req[x]
  BY SaveEnds DEF Save, TypeOK
<1>5. Openers' = Openers \ {r}
  BY <1>4 DEF Openers, Opening, Owns, StoresLink
<1> QED
  BY <1>1, <1>2, <1>3, <1>5, HandingOutCounts DEF OverlapInv

LEMMA SaveKeepsOverlap ==
  ASSUME TypeOK, LifecycleInv, OverlapInv, NEW r \in Requests, Save(r)
  PROVE  OverlapInv'
<1>1. /\ Trail(req[r])' /\ ~Opening(req'[r])
      /\ \A x \in Requests \ {r} : req'[x] = req[x]
  BY SaveEnds DEF Save, TypeOK
<1>2. CASE ~StoresLink(req[r])
  <2>1. sessions' = sessions /\ booking'.url = booking.url
    BY <1>2 DEF Save, Stored
  <2>2. HandedOut' = HandedOut
    BY <2>1 DEF HandedOut
  <2> QED
    BY <1>1, <2>1, <2>2, QuietKeepsOverlap
<1>3. CASE StoresLink(req[r])
  <2> DEFINE s == req[r].session
  <2>1. /\ s \in Sessions \ HandedOut
        /\ sessions[s].terms.amount > 0
        /\ sessions'[s].terms = sessions[s].terms
        /\ \A t \in Sessions \ {s} : sessions'[t] = sessions[t]
        /\ HandedOut' = HandedOut \cup {s}
    BY <1>3, HandsOut
  <2>2. Priced'
    BY <2>1 DEF OverlapInv, Priced, HandedOut
  <2>3. Counted'
    BY <1>3, HandsOutInTime
  <2>4. \A t \in Sessions :
          sessions[t].state = "paid" => sessions'[t] = sessions[t]
    BY <2>1 DEF HandedOut
  <2>5. ASSUME NEW x \in Requests \ {r} PROVE Trail(req[x])'
    <3>1. Owns(req[x]) =>
            sessions'[req[x].session].terms = sessions[req[x].session].terms
      BY <2>1 DEF LifecycleInv, InFlight
    <3> QED
      BY <1>1, <2>4, <3>1, TrailStays DEF OverlapInv
  <2> QED
    BY <1>1, <2>2, <2>3, <2>5 DEF OverlapInv
<1> QED
  BY <1>2, <1>3

LEMMA OverlapInit == Init => OverlapInv
<1> SUFFICES ASSUME Init PROVE OverlapInv
  OBVIOUS
<1>1. \A r \in Requests : req[r] = Idle
  BY DEF Init
<1>2. HandedOut = {}
  BY DEF Init, HandedOut
<1>3. booking.url = NoSession
  BY DocumentsAssumption DEF Init, StoredDocument
<1>4. Counted
  BY <1>2, <1>3, FS_EmptySet DEF Counted
<1> QED
  BY <1>1, <1>2, <1>4
  DEF OverlapInv, Trail, Opening, Owns, Idle, NoChange, Priced

LEMMA OverlapStep ==
  TypeOK /\ LifecycleInv /\ OverlapInv /\ [Next]_vars => OverlapInv'
<1> SUFFICES ASSUME TypeOK, LifecycleInv, OverlapInv, [Next]_vars
             PROVE  OverlapInv'
  OBVIOUS
<1>1. ASSUME NEW r \in Requests,
             QuoteHandlers(r) \/ StatusHandlers(r) \/ PaymentHandlers(r)
      PROVE  OverlapInv'
  BY <1>1, HandlersKeepOverlap
<1>2. ASSUME NEW r \in Requests, Continues(r) PROVE OverlapInv'
  BY <1>2, IssueKeepsOverlap, RowKeepsOverlap, SaveKeepsOverlap,
     EndKeepsOverlap
  DEF Continues
<1>3. ASSUME NEW r \in Requests, Abandon(r) PROVE OverlapInv'
  BY <1>3, EndKeepsOverlap
<1>4. ASSUME NEW s \in Sessions, CustomerPays(s) PROVE OverlapInv'
  BY <1>4, CustomerKeepsOverlap
<1>5. CASE UNCHANGED vars
  <2>1. HandedOut' = HandedOut /\ Openers' = Openers
    BY <1>5 DEF vars, HandedOut, Openers, Opening, Owns, StoresLink
  <2>2. Counted'
    BY <1>5, <2>1, CountedStays DEF OverlapInv, vars
  <2>3. Priced' /\ \A r \in Requests : Trail(req[r])'
    BY <1>5, <2>1
    DEF OverlapInv, vars, Priced, Trail, Opening, Owns, StoresLink
  <2> QED
    BY <2>2, <2>3 DEF OverlapInv
<1> QED
  BY <1>1, <1>2, <1>3, <1>4, <1>5 DEF Next

\* With any finite number of handlers in flight, cut off anywhere, the links
\* handed out and those that may still follow are counted, each demands what
\* its session was opened for, and `paid` is written for a paid session only.
THEOREM OverlapInvariantHolds == Spec => []OverlapInv
<1>1. Init => TypeOK /\ LifecycleInv /\ OverlapInv
  BY TypeInit, InvInit, OverlapInit
<1>2. /\ TypeOK /\ LifecycleInv /\ OverlapInv /\ [Next]_vars
      => TypeOK' /\ LifecycleInv' /\ OverlapInv'
  BY TypeStep, InvStep, OverlapStep
<1> QED
  BY <1>1, <1>2, PTL DEF Spec

-----------------------------------------------------------------------------
(* The refinement of OverlapPromise *)

PaidFor == {s \in Sessions : sessions[s].state = "paid"}

DueBehind == [s \in Sessions |-> IF s \in HandedOut THEN sessions[s].terms.amount
                                                   ELSE 0]

OverlapPromiseStep ==
  \/ Overlapped!Next
  \/ UNCHANGED <<booking.url, DueBehind, PaidFor, booking.paid, exists>>

LEMMA SameCardinality ==
  \A S : Overlapped!Cardinality(S) = Cardinality(S)
BY DEF Overlapped!Cardinality, Cardinality

LEMMA SameHandedOut ==
  ASSUME TypeOK, Priced
  PROVE  Overlapped!HandedOut = HandedOut
<1>1. ASSUME NEW s \in HandedOut PROVE sessions[s].terms.amount # 0
  BY <1>1 DEF TypeOK, Terms, Amounts, Priced
<1>2. HandedOut \subseteq Sessions
  BY DEF HandedOut
<1> QED
  BY <1>1, <1>2 DEF Overlapped!HandedOut

LEMMA NothingSeen ==
  ASSUME booking'.url = booking.url, booking'.paid = booking.paid,
         UNCHANGED <<exists, sessions>>
  PROVE  OverlapPromiseStep
BY DEF OverlapPromiseStep, DueBehind, PaidFor, HandedOut

LEMMA SaveKeepsOverlapPromise ==
  ASSUME TypeOK, TypeOK', LifecycleInv, OverlapInv, OverlapInv',
         NEW r \in Requests, Save(r)
  PROVE  OverlapPromiseStep
<1>1. exists /\ exists' = exists
  BY DEF Save
<1>2. CASE StoresLink(req[r])
  <2>1. PICK s \in Sessions : s = req[r].session
    BY <1>2, HandsOut
  <2>2. PICK due : due = sessions[s].terms.amount
    OBVIOUS
  <2>3. /\ s \in Sessions \ HandedOut
        /\ due > 0
        /\ sessions'[s].state = "published"
        /\ sessions'[s].terms = sessions[s].terms
        /\ \A t \in Sessions \ {s} : sessions'[t] = sessions[t]
        /\ HandedOut' = HandedOut \cup {s}
        /\ booking'.url = s
        /\ booking'.paid = booking.paid
    BY <1>2, <2>1, <2>2, HandsOut
  <2>4. due \in Amounts \ {0}
    BY <2>2, <2>3 DEF TypeOK, Terms
  <2>5. DueBehind' = [DueBehind EXCEPT ![s] = due]
    BY <2>2, <2>3 DEF DueBehind
  <2>6. PaidFor' = PaidFor
    BY <2>3 DEF PaidFor, HandedOut
  <2>7. Cardinality(HandedOut) < Cardinality(Requests)
    BY <1>2, HandsOutInTime
  <2>8. Overlapped!HandedOut = HandedOut
    BY SameHandedOut DEF OverlapInv
  <2>9. \E d \in Amounts \ {0} : DueBehind' = [DueBehind EXCEPT ![s] = d]
    BY <2>4, <2>5
  <2>10. ~~exists /\ s \notin HandedOut /\ booking'.url = s
         /\ UNCHANGED <<PaidFor, booking.paid, ~exists>>
    BY <1>1, <2>3, <2>6
  <2>11. Overlapped!Offer(s)
    BY <2>7, <2>8, <2>9, <2>10, SameCardinality
    DEF Overlapped!Offer, DueBehind, PaidFor
  <2> QED
    BY <2>11 DEF OverlapPromiseStep, Overlapped!Next
<1>3. CASE ~StoresLink(req[r])
  <2>1. sessions' = sessions /\ booking'.url = booking.url
    BY <1>3 DEF Save, Stored
  <2>2. CASE "paid" \in DOMAIN req[r].set /\ ~booking.paid
    <3>1. PaidFor # {}
      BY <2>2 DEF OverlapInv, Trail, PaidFor
    <3>2. booking'.paid = TRUE
      BY <2>2 DEF Save, Stored, TypeOK, IsRequest, IsChange
    <3>3. Overlapped!Settle
      BY <1>1, <2>1, <2>2, <3>1, <3>2
      DEF Overlapped!Settle, PaidFor, HandedOut
    <3> QED
      BY <3>3 DEF OverlapPromiseStep, Overlapped!Next
  <2>3. CASE ~("paid" \in DOMAIN req[r].set /\ ~booking.paid)
    <3>1. booking'.paid = booking.paid
      BY <2>3 DEF Save, Stored, TypeOK, IsRequest, IsChange, Bookings
    <3> QED
      BY <1>1, <2>1, <3>1, NothingSeen
  <2> QED
    BY <2>2, <2>3
<1> QED
  BY <1>2, <1>3

LEMMA StepKeepsOverlapPromise ==
  ASSUME TypeOK, TypeOK', LifecycleInv, OverlapInv, OverlapInv', [Next]_vars
  PROVE  OverlapPromiseStep
<1>1. ASSUME NEW r \in Requests,
             QuoteHandlers(r) \/ StatusHandlers(r) \/ PaymentHandlers(r)
      PROVE  OverlapPromiseStep
  <2>1. booking \in Bookings
    BY DEF TypeOK
  <2>2. CrewWrites \/ \E q : Planned(q) /\ Becomes(r, q)
    BY <1>1, <2>1, QuoteHandlersPlan, StatusHandlersPlan, PaymentHandlersPlan
  <2> QED
    BY <2>2, NothingSeen DEF CrewWrites, Becomes
<1>2. ASSUME NEW r \in Requests, NEW s \in Sessions, IssueSession(r, s)
      PROVE  OverlapPromiseStep
  <2>1. /\ sessions[s].state = "unused" /\ sessions'[s].state = "open"
        /\ \A t \in Sessions \ {s} : sessions'[t] = sessions[t]
        /\ UNCHANGED <<booking, exists>>
    BY <1>2 DEF IssueSession, TypeOK
  <2>2. PaidFor' = PaidFor
    BY <2>1 DEF PaidFor
  <2>3. DueBehind' = DueBehind
    BY <2>1 DEF DueBehind, HandedOut
  <2> QED
    BY <2>1, <2>2, <2>3 DEF OverlapPromiseStep
<1>3. ASSUME NEW r \in Requests,
             UpsertPayment(r) \/ RecordPayment(r) \/ Emit(r)
               \/ DropPayments(r) \/ Abandon(r)
      PROVE  OverlapPromiseStep
  BY <1>3, NothingSeen
  DEF UpsertPayment, RecordPayment, Emit, DropPayments, Abandon, Becomes
<1>4. ASSUME NEW r \in Requests, DropBooking(r)
      PROVE  OverlapPromiseStep
  <2>1. exists' = FALSE /\ UNCHANGED <<booking, sessions>>
    BY <1>4 DEF DropBooking
  <2>2. CASE exists
    <3>1. Overlapped!Remove
      BY <2>1, <2>2 DEF Overlapped!Remove, HandedOut
    <3> QED
      BY <3>1 DEF OverlapPromiseStep, Overlapped!Next
  <2>3. CASE ~exists
    <3>1. exists' = exists
      BY <2>1, <2>3 DEF TypeOK
    <3> QED
      BY <2>1, <3>1, NothingSeen
  <2> QED
    BY <2>2, <2>3
<1>5. ASSUME NEW s \in Sessions, CustomerPays(s)
      PROVE  OverlapPromiseStep
  <2>1. /\ UNCHANGED <<exists, booking>>
        /\ sessions[s].state = "published" /\ sessions'[s].state = "paid"
        /\ sessions'[s].terms = sessions[s].terms
        /\ \A t \in Sessions \ {s} : sessions'[t] = sessions[t]
    BY <1>5 DEF CustomerPays, TypeOK
  <2>2. s \in HandedOut /\ s \notin PaidFor /\ PaidFor' = PaidFor \cup {s}
    BY <2>1 DEF HandedOut, PaidFor
  <2>3. HandedOut' = HandedOut
    BY <2>1 DEF HandedOut
  <2>4. DueBehind' = DueBehind
    BY <2>1, <2>3 DEF DueBehind, HandedOut
  <2>5. Overlapped!HandedOut = HandedOut
    BY SameHandedOut DEF OverlapInv
  <2>6. Overlapped!Charge(s)
    BY <2>1, <2>2, <2>4, <2>5
    DEF Overlapped!Charge, PaidFor, DueBehind
  <2> QED
    BY <2>6 DEF OverlapPromiseStep, Overlapped!Next
<1>6. CASE UNCHANGED vars
  BY <1>6, NothingSeen DEF vars
<1>7. ASSUME NEW r \in Requests, Continues(r) PROVE OverlapPromiseStep
  BY <1>2, <1>3, <1>4, <1>7, SaveKeepsOverlapPromise DEF Continues
<1> QED
  BY <1>1, <1>3, <1>5, <1>6, <1>7 DEF Next

\* However the handlers interleave and wherever they are cut off, every step
\* is, seen from outside, a step of OverlapPromise or no step at all: as many
\* links as handlers overlap at most, each charged once, and the booking
\* settled once, after a charge.
THEOREM OverlapPromiseIsKept == Spec => KeepsOverlapPromise
<1>1. Init => Overlapped!Init
  <2> SUFFICES ASSUME Init PROVE Overlapped!Init
    OBVIOUS
  <2>1. booking.url = NoSession /\ booking.paid = FALSE
    BY DocumentsAssumption DEF Init, StoredDocument
  <2>2. HandedOut = {} /\ PaidFor = {} /\ exists
    BY DEF Init, HandedOut, PaidFor
  <2> QED
    BY <2>1, <2>2 DEF Overlapped!Init, PaidFor
<1>2. TypeOK /\ TypeOK' /\ LifecycleInv /\ OverlapInv /\ OverlapInv'
        /\ [Next]_vars => [Overlapped!Next]_(Overlapped!vars)
  <2> SUFFICES ASSUME TypeOK, TypeOK', LifecycleInv, OverlapInv, OverlapInv',
                      [Next]_vars
               PROVE  [Overlapped!Next]_(Overlapped!vars)
    OBVIOUS
  <2>1. OverlapPromiseStep
    BY StepKeepsOverlapPromise
  <2> QED
    BY <2>1 DEF OverlapPromiseStep, Overlapped!vars, DueBehind, PaidFor
<1> QED
  BY <1>1, <1>2, TypeCorrect, InvariantHolds, OverlapInvariantHolds, PTL
     DEF Spec, KeepsOverlapPromise, Overlapped!Spec
=============================================================================
