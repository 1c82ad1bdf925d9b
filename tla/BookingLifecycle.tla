-------------------------- MODULE BookingLifecycle --------------------------
(***************************************************************************)
(* The life of one booking document: BookingService's administrative and   *)
(* operational handlers, PaymentsService and PaymentsWebhookService, with  *)
(* the Payment record and the Stripe checkout sessions they share.         *)
(*                                                                         *)
(* A handler runs in steps that are separated by its awaits: it loads the  *)
(* document and decides (one action per handler), may open a checkout      *)
(* session, upserts the Payment, saves the fields it changed and mails the *)
(* customer.  `Requests` are the handler executions in flight; with one    *)
(* request the handlers run one after the other, with two they interleave. *)
(* A handler that refuses the call changes nothing and is no step.         *)
(***************************************************************************)
EXTENDS BookingState, Naturals, FiniteSets

CONSTANTS
  Requests,      \* handler executions that can be in flight together
  Sessions,      \* the checkout sessions Stripe can still open
  NoSession,
  Prices,        \* dollar amounts; 0 is a booking that was never priced
  MaxVersion,    \* bound on quote.version
  Documents,     \* the kinds of documents a behaviour may start from
  Handlers,      \* the handlers that are called
  Failures,      \* whether an execution may stop halfway
  MailCap        \* how far the mails of an event are counted

HandlerNames ==
  {"updateStatus", "startQuoteReview", "saveQuoteDraft", "sendQuote",
   "rejectQuote", "reopenQuote", "reviseQuote", "expireQuote",
   "confirmAndSendPayment", "cancelByAdmin", "deleteAdminPermanent",
   "assignBooking", "startBooking", "completeBooking",
   "createCheckoutSessionUrl", "handleWebhook"}

ASSUME PricesAssumption == Prices \subseteq Nat
ASSUME RequestsAssumption == IsFiniteSet(Requests)
ASSUME SessionsAssumption == NoSession \notin Sessions
ASSUME DocumentsAssumption ==
  Documents \subseteq {"direct", "quote", "confirmed", "invoiced"}
ASSUME VersionAssumption == MaxVersion \in Nat \ {0}
ASSUME HandlersAssumption == Handlers \subseteq HandlerNames
ASSUME FailuresAssumption == Failures \in BOOLEAN
ASSUME MailAssumption == MailCap \in Nat

VARIABLES
  exists,    \* the document is still in the collection
  booking,   \* the document as stored
  payment,   \* the Payment row of <bookingId, 'stripe'> (unique index)
  purged,    \* deleteAdminPermanent has removed the booking's Payment rows
  sessions,  \* what Stripe knows of each checkout session
  req,       \* the handler executions
  mails      \* how often the customer was mailed about each event, up to MailCap

vars == <<exists, booking, payment, purged, sessions, req, mails>>

-----------------------------------------------------------------------------
Amounts == Prices \cup {0}

\* No quote subdocument, or one that lacks the field, reads as 0 and "none".
Quotes == [version: 0..MaxVersion, status: QuoteStatuses, price: Amounts]
NoQuote == [version |-> 0, status |-> "none", price |-> 0]

\* crew stands for assignedEmployees, assignedEmployeeId, assignedSupervisor.
Bookings ==
  [status: Statuses, commercial: CommercialStatuses,
   lifecycle: LifecycleStatuses, quote: Quotes, preview: Amounts,
   url: Sessions \cup {NoSession}, paid: BOOLEAN, crew: BOOLEAN,
   started: BOOLEAN, completed: BOOLEAN]

Payments == [status: {"none", "pending", "paid"}, amount: Amounts,
             session: Sessions \cup {NoSession}]
NoPayment == [status |-> "none", amount |-> 0, session |-> NoSession]

\* metadata.quoteVersion: 'legacy', 'admin_confirmed' or the quote's version.
Terms == [amount: Amounts, via: {"none", "legacy", "admin_confirmed", "quote"},
          version: 0..MaxVersion]
NoTerms == [amount |-> 0, via |-> "none", version |-> 0]

\* `payment_link` is the confirmation mail of a booking that has its link.
Mails == {"confirmed", "payment_link", "cancelled", "payment_received"}

\* A bug in its place: save() sends the whole document as it was loaded.
WholeDocument(update) ==
  [f \in {"status", "commercial", "lifecycle", "quote", "preview", "paid"}
     |-> IF f \in DOMAIN update THEN update[f] ELSE booking[f]]

\* What save() sends: a $set of the fields that differ from the loaded ones.
\* The handlers always assign a fresh quote object, so `quote` is sent whole.
Changed(update) ==
  [f \in {g \in DOMAIN update : update[g] # booking[g] \/ g = "quote"}
     |-> update[f]]
NoChange == [f \in {} |-> FALSE]

Idle == [pc |-> "idle", op |-> "none", set |-> NoChange, offer |-> NoTerms,
         session |-> NoSession, refused |-> FALSE, mail |-> "none"]

\* Bookings the two creation endpoints store, and documents that only the
\* schema and the payment tests know: confirmed before confirmation opened a
\* session by itself, and accepted with its invoice ready.
StoredDocument(kind, price) ==
  LET new == [status |-> "pending", commercial |-> "none",
              lifecycle |-> "none", quote |-> NoQuote, preview |-> price,
              url |-> NoSession, paid |-> FALSE, crew |-> FALSE,
              started |-> FALSE, completed |-> FALSE]
  IN CASE kind = "direct" -> new
       [] kind = "quote" -> [new EXCEPT !.commercial = "quote_requested",
                                        !.lifecycle = "not_ready"]
       [] kind = "confirmed" -> [new EXCEPT !.status = "confirmed"]
       [] kind = "invoiced" ->
            [new EXCEPT !.commercial = "quote_accepted",
                        !.lifecycle = "invoice_ready",
                        !.quote = [version |-> 1, status |-> "accepted",
                                   price |-> price]]

Init ==
  /\ exists = TRUE
  /\ \E kind \in Documents, p \in Prices : booking = StoredDocument(kind, p)
  /\ payment = NoPayment
  /\ purged = FALSE
  /\ sessions = [s \in Sessions |-> [state |-> "unused", terms |-> NoTerms]]
  /\ req = [r \in Requests |-> Idle]
  /\ mails = [m \in Mails |-> 0]

-----------------------------------------------------------------------------
(* Loading the document and deciding *)

Loads(r, op) == op \in Handlers /\ exists /\ req[r].pc = "idle"

Becomes(r, request) ==
  /\ req' = [req EXCEPT ![r] = request]
  /\ UNCHANGED <<exists, booking, payment, purged, sessions, mails>>

\* The handler has only its save() left, and the mail that follows it.
Saves(r, op, update, mail) ==
  Becomes(r, [pc |-> "save", op |-> op, set |-> Changed(update),
              offer |-> NoTerms, session |-> NoSession, refused |-> FALSE,
              mail |-> mail])

\* The handler asks Stripe for a session first; `refused` when it finds out
\* that the call is illegal only once the session exists.
OpensCheckout(r, op, offer, update, refused, mail) ==
  Becomes(r, [pc |-> "checkout", op |-> op, set |-> Changed(update),
              offer |-> offer, session |-> NoSession, refused |-> refused,
              mail |-> mail])

\* A stored amount that differs from the one about to be charged is refused.
PaymentMatches(amount) == payment.status = "none" \/ payment.amount = amount

Versioned == IF booking.quote.version > 0 THEN booking.quote.version ELSE 1

\* paymentLifecycleStatus ?? 'not_ready'
LifecycleOrNotReady ==
  IF booking.lifecycle = "none" THEN "not_ready" ELSE booking.lifecycle

QuoteUpdate(commercial, quote) ==
  [commercial |-> commercial, lifecycle |-> LifecycleOrNotReady,
   quote |-> quote]

\* A bug in its place: the status inside the quote is not moved along.
QuoteStatusForgotten(status) == [booking.quote EXCEPT !.version = Versioned]

QuoteBecomes(status) ==
  [booking.quote EXCEPT !.version = Versioned, !.status = status]

StartQuoteReview(r) ==
  /\ Loads(r, "startQuoteReview")
  /\ CommercialAllowed(booking.commercial, "under_review", {"quote_requested"})
  /\ Saves(r, "startQuoteReview", QuoteUpdate("under_review", booking.quote),
           "none")

\* The price is the engine's base less the chosen discount, any positive
\* amount here; the first-service discount also becomes the booking's price.
SaveQuoteDraft(r, price, firstTimeCustomer) ==
  /\ Loads(r, "saveQuoteDraft")
  /\ \/ booking.commercial = "none"
     \/ CommercialAllowed(booking.commercial, "quoted_draft",
                          {"quote_requested", "under_review"})
  /\ price > 0
  /\ Saves(r, "saveQuoteDraft",
           [commercial |-> "quoted_draft", lifecycle |-> LifecycleOrNotReady,
            quote |-> [QuoteBecomes("draft") EXCEPT !.price = price],
            preview |-> IF firstTimeCustomer THEN price ELSE booking.preview],
           "none")

SendQuote(r) ==
  /\ Loads(r, "sendQuote")
  /\ CommercialAllowed(booking.commercial, "quote_sent",
                       {"under_review", "quoted_draft"})
  /\ booking.quote.price > 0
  /\ Saves(r, "sendQuote", QuoteUpdate("quote_sent", QuoteBecomes("sent")),
           "none")

RejectQuote(r) ==
  /\ Loads(r, "rejectQuote")
  /\ CommercialAllowed(booking.commercial, "quote_rejected",
                       {"quote_requested", "under_review", "quoted_draft",
                        "quote_sent"})
  /\ Saves(r, "rejectQuote",
           QuoteUpdate("quote_rejected", QuoteBecomes("rejected")), "none")

ExpireQuote(r) ==
  /\ Loads(r, "expireQuote")
  /\ CommercialAllowed(booking.commercial, "quote_expired", {"quote_sent"})
  /\ Saves(r, "expireQuote",
           QuoteUpdate("quote_expired", QuoteBecomes("expired")), "none")

\* A bug in its place: the revision keeps the version it revises.
SameVersionAgain == [booking.quote EXCEPT !.status = "draft"]

Revised == [booking.quote EXCEPT !.status = "draft", !.version = @ + 1]

\* reopenQuote and reviseQuote differ in the status they start from only.
ReturnsToReview(r, op, from) ==
  /\ Loads(r, op)
  /\ CommercialAllowed(booking.commercial, "under_review", {from})
  /\ booking.status \notin {"paid", "completed", "cancelled"}
  /\ ~booking.paid
  /\ booking.lifecycle \notin {"checkout_created", "payment_pending", "paid",
                               "refunded"}
  /\ booking.quote.version < MaxVersion
  /\ Saves(r, op, QuoteUpdate("under_review", Revised), "none")

ReopenQuote(r) == ReturnsToReview(r, "reopenQuote", "quote_rejected")
ReviseQuote(r) == ReturnsToReview(r, "reviseQuote", "quote_sent")

\* updateStatus, when it does not open a checkout session.
UpdateStatus(r, next) ==
  /\ Loads(r, "updateStatus")
  /\ booking.status # next
  /\ TransitionAllowed(booking.status, next, "admin")
  /\ next = "confirmed" => IsQuoteFlow(booking.commercial)
  /\ Saves(r, "updateStatus", [status |-> next],
           CASE next = "cancelled" -> "cancelled"
             [] next = "confirmed" ->
                  IF booking.url = NoSession THEN "confirmed"
                                             ELSE "payment_link"
             [] OTHER -> "none")

\* updateStatus to `confirmed` of a booking outside the quote flow.  The
\* branch that keeps an existing link is left out: PendingHasNoLink.
ConfirmDirectBooking(r) ==
  /\ Loads(r, "updateStatus")
  /\ booking.status # "confirmed"
  /\ TransitionAllowed(booking.status, "confirmed", "admin")
  /\ ~IsQuoteFlow(booking.commercial)
  /\ booking.url = NoSession
  /\ booking.preview > 0
  /\ PaymentMatches(booking.preview)
  /\ OpensCheckout(r, "updateStatus",
                   [amount |-> booking.preview, via |-> "legacy",
                    version |-> 0],
                   [status |-> "confirmed"], FALSE, "payment_link")

\* A bug in its place: a second link for a booking that has one.
ChargeableAgain == booking.status \notin {"cancelled", "paid"} /\ ~booking.paid

\* No session is opened for a booking that is over, is paid or has its link.
Chargeable ==
  /\ booking.status \notin {"cancelled", "paid"}
  /\ ~booking.paid
  /\ booking.url = NoSession

\* The early return for a booking that has its link is no step.  Whether the
\* status may become `confirmed` is decided after the session was created.
ConfirmAndSendPayment(r) ==
  LET price == IF booking.quote.price > 0 THEN booking.quote.price
                                          ELSE booking.preview
  IN /\ Loads(r, "confirmAndSendPayment")
     /\ Chargeable
     /\ price > 0
     /\ OpensCheckout(r, "confirmAndSendPayment",
          [amount |-> price, via |-> "admin_confirmed", version |-> 0],
          [status |-> "confirmed", commercial |-> "quote_accepted",
           lifecycle |-> "payment_pending",
           quote |-> [version |-> Versioned, status |-> "accepted",
                      price |-> price]],
          ~TransitionAllowed(booking.status, "confirmed", "admin"),
          IF booking.status = "confirmed" THEN "none" ELSE "payment_link")

\* A bug in its place: outside the quote flow any booking may be paid.
PayableUnconfirmed ==
  IsQuoteFlow(booking.commercial) =>
    booking.commercial = "quote_accepted" /\ booking.lifecycle = "invoice_ready"

\* An accepted quote with its invoice ready, or a confirmed direct booking.
Payable ==
  IF IsQuoteFlow(booking.commercial)
    THEN /\ booking.commercial = "quote_accepted"
         /\ booking.lifecycle = "invoice_ready"
    ELSE booking.status = "confirmed"

\* PaymentsService.createCheckoutSessionUrl, of a booking without a link.
CreateCheckoutSessionUrl(r) ==
  LET quoteFlow == IsQuoteFlow(booking.commercial)
      amount == IF quoteFlow THEN booking.quote.price ELSE booking.preview
  IN /\ Loads(r, "createCheckoutSessionUrl")
     /\ Chargeable
     /\ Payable
     /\ amount > 0
     /\ PaymentMatches(amount)
     /\ OpensCheckout(r, "createCheckoutSessionUrl",
          IF quoteFlow
            THEN [amount |-> amount, via |-> "quote",
                  version |-> booking.quote.version]
            ELSE [amount |-> amount, via |-> "legacy", version |-> 0],
          [lifecycle |-> IF quoteFlow THEN "checkout_created"
                                      ELSE booking.lifecycle],
          FALSE, "none")

\* A bug in its place: only cancelByAdmin itself counts as a cancellation.
OpenUntilVoided == booking.lifecycle # "voided"

\* cancelByAdmin tells the customer only of a booking it really cancels.
StillOpen == booking.status # "cancelled"

CancelByAdmin(r) ==
  LET rejects == StillOpen /\ booking.commercial \in
                   {"none", "quote_requested", "under_review", "quoted_draft",
                    "quote_sent", "quote_accepted", "legacy_direct_booking"}
  IN /\ Loads(r, "cancelByAdmin")
     /\ TransitionAllowed(booking.status, "cancelled", "admin")
     /\ Saves(r, "cancelByAdmin",
              [status |-> "cancelled",
               commercial |-> IF rejects THEN "quote_rejected"
                                         ELSE booking.commercial,
               lifecycle |-> "voided", quote |-> QuoteBecomes("rejected")],
              IF StillOpen THEN "cancelled" ELSE "none")

\* A bug in its place: the booking is deleted and its Payment rows stay.
DeleteBookingOnly(r) ==
  /\ Loads(r, "deleteAdminPermanent")
  /\ Becomes(r, [Idle EXCEPT !.pc = "dropBooking"])

DeleteAdminPermanent(r) ==
  /\ Loads(r, "deleteAdminPermanent")
  /\ Becomes(r, [pc |-> "dropPayments", op |-> "deleteAdminPermanent",
                 set |-> NoChange, offer |-> NoTerms, session |-> NoSession,
                 refused |-> FALSE, mail |-> "none"])

\* A bug in its place: a completed checkout counts before it is paid.
CheckoutCompleted(s) == sessions[s].state \in {"published", "paid"}

\* payment_status of a checkout.session.completed event is 'paid'.
Collected(s) == sessions[s].state = "paid"

\* A bug in its place: a direct booking is settled in status `confirmed` only.
SettleableWhenConfirmed(terms) ==
  ~IsQuoteFlow(booking.commercial) /\ booking.status = "confirmed"
    /\ booking.preview = terms.amount

\* resolveWebhookPaymentContext: what was charged is what the booking owes.
Settleable(terms) ==
  IF IsQuoteFlow(booking.commercial)
    THEN /\ booking.commercial = "quote_accepted"
         /\ booking.lifecycle \in {"invoice_ready", "checkout_created",
                                   "payment_pending", "paid"}
         /\ terms.via = "quote"
         /\ terms.version = booking.quote.version
         /\ booking.quote.price = terms.amount
    ELSE /\ booking.status \in {"confirmed", "assigned", "in_progress",
                                "completed"}
         /\ booking.preview = terms.amount

\* handleCheckoutSessionCompleted up to its last check before it writes;
\* Stripe may repeat an event.
DeliverSessionCompleted(r, s) ==
  LET quoteFlow == IsQuoteFlow(booking.commercial)
      terms == sessions[s].terms
  IN /\ Loads(r, "handleWebhook")
     /\ Collected(s)
     /\ booking.status \notin {"cancelled", "paid"}
     /\ ~booking.paid
     /\ Settleable(terms)
     /\ Becomes(r, [pc |-> "record", op |-> "handleWebhook",
                    set |-> Changed([paid |-> TRUE,
                                     lifecycle |-> IF quoteFlow THEN "paid"
                                                   ELSE booking.lifecycle]),
                    offer |-> terms, session |-> s, refused |-> FALSE,
                    mail |-> "payment_received"])

-----------------------------------------------------------------------------
(* Handlers whose write is one conditional findOneAndUpdate *)

Writes(r, op, update) ==
  /\ Loads(r, op)
  /\ booking' = update
  /\ UNCHANGED <<exists, payment, purged, sessions, req, mails>>

\* A bug in its place: the crew may be changed while it works.
AssignWhileWorking(r) ==
  /\ booking.status \in {"confirmed", "assigned", "in_progress"}
  /\ ~booking.paid
  /\ Writes(r, "assignBooking",
            [booking EXCEPT !.status = "assigned", !.crew = TRUE])

AssignBooking(r) ==
  /\ booking.status \in {"confirmed", "assigned"}
  /\ ~booking.paid
  /\ Writes(r, "assignBooking",
            [booking EXCEPT !.status = "assigned", !.crew = TRUE])

StartBooking(r) ==
  /\ booking.crew
  /\ booking.status = "assigned"
  /\ ~booking.started
  /\ Writes(r, "startBooking",
            [booking EXCEPT !.status = "in_progress", !.started = TRUE])

CompleteBooking(r) ==
  /\ booking.crew
  /\ booking.status = "in_progress"
  /\ ~booking.completed
  /\ Writes(r, "completeBooking",
            [booking EXCEPT !.status = "completed", !.completed = TRUE])

-----------------------------------------------------------------------------
(* The steps after the load *)

\* sessions.create: Stripe opens a session nobody has the link of yet.
IssueSession(r, s) ==
  /\ req[r].pc = "checkout"
  /\ sessions[s].state = "unused"
  /\ sessions' = [sessions EXCEPT ![s] = [state |-> "open",
                                          terms |-> req[r].offer]]
  /\ req' = [req EXCEPT ![r] = IF @.refused THEN Idle
                               ELSE [@ EXCEPT !.pc = "upsert", !.session = s]]
  /\ UNCHANGED <<exists, booking, payment, purged, mails>>

\* Upsert: $setOnInsert the pending row with its amount, $set the session.
UpsertPayment(r) ==
  LET offer == req[r].offer
      row == IF payment.status = "none"
               THEN [status |-> "pending", amount |-> offer.amount,
                     session |-> req[r].session]
               ELSE [payment EXCEPT !.session = req[r].session]
  IN /\ req[r].pc = "upsert"
     /\ payment' = row
     /\ req' = [req EXCEPT ![r] =
                  IF @.op = "createCheckoutSessionUrl"
                     /\ row.amount # offer.amount
                    THEN Idle ELSE [@ EXCEPT !.pc = "save"]]
     /\ UNCHANGED <<exists, booking, purged, sessions, mails>>

\* A bug in its place: `paid` is set only when the webhook inserts the row.
PaidOnInsert(request) ==
  [status |-> IF payment.status = "none" THEN "paid" ELSE payment.status,
   session |-> request.session,
   amount |-> IF payment.status = "none" THEN request.offer.amount
                                         ELSE payment.amount]

\* Upsert of the webhook: $set paid, the amount only when it inserts the row.
PaidRow(request) ==
  [status |-> "paid", session |-> request.session,
   amount |-> IF payment.status = "none" THEN request.offer.amount
                                         ELSE payment.amount]

\* A row with another amount stays paid, and the booking is left as it was.
RecordPayment(r) ==
  /\ req[r].pc = "record"
  /\ payment' = PaidRow(req[r])
  /\ req' = [req EXCEPT ![r] = IF PaidRow(@).amount # @.offer.amount THEN Idle
                               ELSE [@ EXCEPT !.pc = "save"]]
  /\ UNCHANGED <<exists, booking, purged, sessions, mails>>

\* A checkout handler stores the link of the session it opened.
StoresLink(request) == request.op # "handleWebhook" /\ request.session # NoSession

Stored(request) ==
  LET set == request.set
      Field(f) == IF f \in DOMAIN set THEN set[f] ELSE booking[f]
  IN [status |-> Field("status"), commercial |-> Field("commercial"),
      lifecycle |-> Field("lifecycle"), quote |-> Field("quote"),
      preview |-> Field("preview"), paid |-> Field("paid"),
      url |-> IF StoresLink(request) THEN request.session ELSE booking.url,
      crew |-> booking.crew, started |-> booking.started,
      completed |-> booking.completed]

Emitting(event) ==
  [pc |-> "emit", op |-> "none", set |-> NoChange, offer |-> NoTerms,
   session |-> NoSession, refused |-> FALSE, mail |-> event]

\* A bug in its place: the event is emitted whether or not there is one.
AlwaysEmits(request) == Emitting(request.mail)

AfterSave(request) ==
  IF request.mail = "none" THEN Idle ELSE Emitting(request.mail)

\* booking.save(): no version check, the fields the handler left alone keep
\* what the collection holds.  The link leaves the server with the response.
Save(r) ==
  /\ req[r].pc = "save"
  /\ exists
  /\ booking' = Stored(req[r])
  /\ sessions' = IF StoresLink(req[r])
                   THEN [sessions EXCEPT ![req[r].session].state = "published"]
                   ELSE sessions
  /\ req' = [req EXCEPT ![r] = AfterSave(@)]
  /\ UNCHANGED <<exists, payment, purged, mails>>

\* eventEmitter.emit and BookingEmailListener, whose failures are swallowed.
Emit(r) ==
  /\ req[r].pc = "emit"
  /\ mails' = [mails EXCEPT ![req[r].mail] = IF @ < MailCap THEN @ + 1 ELSE @]
  /\ req' = [req EXCEPT ![r] = Idle]
  /\ UNCHANGED <<exists, booking, payment, purged, sessions>>

DropPayments(r) ==
  /\ req[r].pc = "dropPayments"
  /\ payment' = NoPayment
  /\ purged' = TRUE
  /\ req' = [req EXCEPT ![r].pc = "dropBooking"]
  /\ UNCHANGED <<exists, booking, sessions, mails>>

DropBooking(r) ==
  /\ req[r].pc = "dropBooking"
  /\ exists' = FALSE
  /\ req' = [req EXCEPT ![r] = Idle]
  /\ UNCHANGED <<booking, payment, purged, sessions, mails>>

\* The rest of the execution never happens: save() finds the document deleted,
\* Stripe opens no further session or, with Failures, an await rejects or the
\* process stops.
Abandon(r) ==
  /\ req[r].pc # "idle"
  /\ \/ Failures
     \/ req[r].pc = "save" /\ ~exists
     \/ req[r].pc = "checkout" /\ \A s \in Sessions : sessions[s].state # "unused"
  /\ Becomes(r, Idle)

\* The customer pays a session whose link was handed out.
CustomerPays(s) ==
  /\ sessions[s].state = "published"
  /\ sessions' = [sessions EXCEPT ![s].state = "paid"]
  /\ UNCHANGED <<exists, booking, payment, purged, req, mails>>

-----------------------------------------------------------------------------
QuoteHandlers(r) ==
  \/ StartQuoteReview(r)
  \/ \E p \in Prices, firstTime \in BOOLEAN : SaveQuoteDraft(r, p, firstTime)
  \/ SendQuote(r) \/ RejectQuote(r) \/ ExpireQuote(r)
  \/ ReopenQuote(r) \/ ReviseQuote(r)

StatusHandlers(r) ==
  \/ \E next \in Statuses : UpdateStatus(r, next)
  \/ CancelByAdmin(r) \/ DeleteAdminPermanent(r)
  \/ AssignBooking(r) \/ StartBooking(r) \/ CompleteBooking(r)

PaymentHandlers(r) ==
  \/ ConfirmDirectBooking(r) \/ ConfirmAndSendPayment(r)
  \/ CreateCheckoutSessionUrl(r)
  \/ \E s \in Sessions : DeliverSessionCompleted(r, s)

Continues(r) ==
  \/ \E s \in Sessions : IssueSession(r, s)
  \/ UpsertPayment(r) \/ RecordPayment(r) \/ Save(r) \/ Emit(r)
  \/ DropPayments(r) \/ DropBooking(r)

Next ==
  \/ \E r \in Requests : \/ QuoteHandlers(r) \/ StatusHandlers(r)
                         \/ PaymentHandlers(r) \/ Continues(r) \/ Abandon(r)
  \/ \E s \in Sessions : CustomerPays(s)

Spec == Init /\ [][Next]_vars

\* Stripe repeats an event until the webhook answers 200, which it does not
\* when the execution stopped halfway, and no failure recurs at the same await
\* for ever; a request that was not cut off runs to its end.  Nothing obliges
\* an administrator to call a handler, or the customer to pay.
SettlesBooking(r) == req[r].op = "handleWebhook" /\ Save(r)

Fairness ==
  /\ SF_vars(\E r \in Requests, s \in Sessions : DeliverSessionCompleted(r, s))
  /\ \A r \in Requests : /\ WF_vars(Continues(r) \/ Abandon(r))
                         /\ SF_vars(RecordPayment(r))
                         /\ SF_vars(SettlesBooking(r))

FairSpec == Spec /\ Fairness

-----------------------------------------------------------------------------
(* Types *)

PCs == {"idle", "checkout", "upsert", "record", "save", "emit",
        "dropPayments", "dropBooking"}

IsChange(set) ==
  /\ DOMAIN set \subseteq {"status", "commercial", "lifecycle", "quote",
                           "preview", "paid"}
  /\ "status" \in DOMAIN set => set["status"] \in Statuses
  /\ "commercial" \in DOMAIN set => set["commercial"] \in CommercialStatuses
  /\ "lifecycle" \in DOMAIN set => set["lifecycle"] \in LifecycleStatuses
  /\ "quote" \in DOMAIN set => set["quote"] \in Quotes
  /\ "preview" \in DOMAIN set => set["preview"] \in Amounts
  /\ "paid" \in DOMAIN set => set["paid"] = TRUE

IsRequest(q) ==
  /\ q = [pc |-> q.pc, op |-> q.op, set |-> q.set, offer |-> q.offer,
          session |-> q.session, refused |-> q.refused, mail |-> q.mail]
  /\ q.pc \in PCs
  /\ q.op \in HandlerNames \cup {"none"}
  /\ IsChange(q.set)
  /\ q.offer \in Terms
  /\ q.session \in Sessions \cup {NoSession}
  /\ q.refused \in BOOLEAN
  /\ q.mail \in Mails \cup {"none"}
  /\ q.pc \in {"upsert", "record"} => q.session \in Sessions
  /\ q.pc = "emit" => q.mail \in Mails

\* Every variable holds a value the schemas of the collections accept.
TypeOK ==
  /\ exists \in BOOLEAN
  /\ booking \in Bookings
  /\ payment \in Payments
  /\ purged \in BOOLEAN
  /\ sessions \in [Sessions -> [state: {"unused", "open", "published", "paid"},
                                terms: Terms]]
  /\ DOMAIN req = Requests
  /\ \A r \in Requests : IsRequest(req[r])
  /\ mails \in [Mails -> 0..MailCap]

-----------------------------------------------------------------------------
(* What holds whatever handlers run concurrently *)

PaidSessionOf(amount) ==
  \E s \in Sessions : /\ sessions[s].state = "paid"
                      /\ sessions[s].terms.amount = amount

\* A booking marked paid by the webhook has its Payment row, the row is paid,
\* and Stripe really collected the amount the row states.
PaidIsBacked ==
  exists /\ booking.paid /\ ~purged
    => payment.status = "paid" /\ PaidSessionOf(payment.amount)

\* updateStatus never finds a link on a pending booking outside the quote
\* flow: its branch that would confirm without asking Stripe is never taken.
PendingHasNoLink ==
  booking.status = "pending" /\ ~IsQuoteFlow(booking.commercial)
    => booking.url = NoSession

\* Stale saves included, no step takes back what the money flow has recorded:
\* a paid booking or row stays paid, the amount of a row never changes, a
\* link is never cleared, a booking never returns to pending.
NothingRecordedIsLost ==
  /\ booking.paid => booking'.paid
  /\ booking.url # NoSession => booking'.url # NoSession
  /\ booking'.status = "pending" => booking.status = "pending"
  /\ payment.status # "none" /\ payment'.status # "none"
       => payment'.amount = payment.amount
  /\ payment.status = "paid" /\ ~purged' => payment'.status = "paid"
NothingIsLost == [][NothingRecordedIsLost]_vars

-----------------------------------------------------------------------------
(* What holds when the handlers run one after the other *)

HandedOut == {s \in Sessions : sessions[s].state \in {"published", "paid"}}

\* confirmAndSendPayment, updateStatus and createCheckoutSessionUrl together
\* hand out one link at most, so the customer can be charged only once.
OnePayableSession == \A s, t \in HandedOut : s = t

Coherent(document) ==
  LET commercial == document.commercial
      quote == document.quote
  IN document.lifecycle # "voided" =>
       /\ ~IsQuoteFlow(commercial) => quote = NoQuote
       /\ commercial = "quote_requested" => quote = NoQuote
       /\ commercial = "under_review" => quote.status \in {"none", "draft"}
       /\ commercial = "quoted_draft" => quote.status = "draft"
       /\ commercial = "quote_sent" => quote.status = "sent"
       /\ commercial = "quote_accepted" => quote.status = "accepted"
       /\ commercial = "quote_rejected" => quote.status = "rejected"
       /\ commercial = "quote_expired" => quote.status = "expired"
       /\ commercial \in {"quoted_draft", "quote_sent", "quote_expired"}
            => quote.price > 0 /\ quote.version > 0

\* The commercial status and the quote's own status tell the same story until
\* cancelByAdmin voids the booking.
QuoteCoherent == Coherent(booking)

\* While a booking waits for its payment, its link leads to a session that
\* charges exactly the accepted quote.
PendingPaymentHasLink ==
  booking.lifecycle \in {"payment_pending", "checkout_created"} =>
    /\ booking.commercial = "quote_accepted"
    /\ booking.quote.status = "accepted"
    /\ booking.url \in HandedOut
    /\ sessions[booking.url].terms.amount = booking.quote.price

\* The three records of one payment agree: the session behind the booking's
\* link was paid, the row names it, and the row's amount is what it charged.
LedgerAgrees ==
  exists /\ booking.paid /\ ~purged =>
    /\ booking.url \in Sessions
    /\ sessions[booking.url].state = "paid"
    /\ payment.session = booking.url
    /\ payment.amount = sessions[booking.url].terms.amount

Clocked(document) ==
  /\ document.started =>
       document.status \in {"in_progress", "completed", "cancelled"}
  /\ document.completed => document.status = "completed"

\* The time stamps of the crew's work agree with the operational status.
WorkClockAgrees == Clocked(booking)

\* deleteAdminPermanent leaves no Payment row of a booking that is gone.
NoOrphanPayment == ~exists => payment = NoPayment

\* The customer is told once at most of a confirmation, a cancellation and a
\* payment, and of a payment only when the booking has been marked paid.
OneMailPerFact ==
  /\ mails["confirmed"] + mails["payment_link"] <= 1
  /\ mails["cancelled"] <= 1
  /\ mails["payment_received"] <= IF booking.paid THEN 1 ELSE 0

Revises(quote, next) ==
  /\ next.version >= quote.version
  /\ quote.status \in {"sent", "accepted"} =>
       /\ next.price = quote.price
       /\ next.status = "draft" => next.version > quote.version

\* The terms of a quote that was sent change only under a new version: a sent
\* or accepted quote becomes a draft again with a higher version, its price
\* stays, and no version is ever taken back.
QuoteRevisions == [][Revises(booking.quote, booking'.quote)]_vars

-----------------------------------------------------------------------------
(* What must eventually happen *)

\* Money the customer paid for a booking outside the quote flow reaches the
\* booking, however its updates interleave and wherever a webhook is cut off,
\* unless the booking is cancelled or deleted.
EventuallySettled ==
  \A s \in Sessions :
    sessions[s].state = "paid"
      ~> booking.paid \/ booking.status = "cancelled" \/ ~exists

-----------------------------------------------------------------------------
(* What the repository says of the code and the code does not do *)

\* BookingStateService's claim that bookings follow a permitted flow, of the
\* stored status: no save moves it along an edge canTransition forbids.
StatusFollowsFlow ==
  [][CanTransition(booking.status, booking'.status)]_vars

\* reviseQuote and reopenQuote: a quote returns to review only while the
\* customer holds no checkout session.
ReviewWithoutSession ==
  [][booking.commercial \in {"quote_sent", "quote_rejected"}
       /\ booking'.commercial = "under_review" => HandedOut = {}]_vars

\* confirmAndSendPayment: once it has issued the link and no handler is under
\* way, the customer was mailed a confirmation with the link.
LinkWasMailed ==
  booking.lifecycle = "payment_pending" /\ (\A r \in Requests : req[r] = Idle)
    => mails["payment_link"] > 0
=============================================================================
