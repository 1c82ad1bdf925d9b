----------------------- MODULE BookingLifecycle_proofs -----------------------
(***************************************************************************)
(* Proofs about BookingLifecycle for any number of concurrent requests,    *)
(* sessions, prices and quote versions.                                    *)
(***************************************************************************)
EXTENDS BookingLifecycle, TLAPS

-----------------------------------------------------------------------------
(* The shape of requests and documents *)

\* The $set of a handler has the shape of the fields the handler assigns.
LEMMA ChangedIsChange ==
  ASSUME NEW update, IsChange(update)
  PROVE  IsChange(Changed(update))
BY DEF IsChange, Changed

LEMMA NoChangeIsChange == IsChange(NoChange)
BY DEF IsChange, NoChange

LEMMA IdleIsRequest == IsRequest(Idle)
<1>1. IsChange(Idle.set)
  BY NoChangeIsChange DEF Idle
<1>2. Idle.offer \in Terms
  BY VersionAssumption DEF Idle, Terms, NoTerms, Amounts
<1> QED
  BY <1>1, <1>2 DEF IsRequest, Idle, PCs

\* A document that a well-formed request stores is a well-formed document.
LEMMA StoredIsBooking ==
  ASSUME booking \in Bookings, NEW q, IsRequest(q)
  PROVE  Stored(q) \in Bookings
BY DEF Bookings, Stored, IsRequest, IsChange

\* A step that replaces one request by a well-formed one, and nothing else,
\* keeps the types.
LEMMA BecomesKeepsTypes ==
  ASSUME TypeOK, NEW r \in Requests, NEW q, IsRequest(q), Becomes(r, q)
  PROVE  TypeOK'
<1>1. UNCHANGED <<exists, booking, payment, purged, sessions, mails>>
  BY DEF Becomes
<1>2. DOMAIN req' = Requests /\ \A x \in Requests : IsRequest(req'[x])
  BY DEF Becomes, TypeOK
<1> QED
  BY <1>1, <1>2 DEF TypeOK, IsRequest, IsChange

LEMMA SavesKeepsTypes ==
  ASSUME TypeOK, NEW r \in Requests, NEW op \in HandlerNames,
         NEW update, IsChange(update), NEW mail \in Mails \cup {"none"},
         Saves(r, op, update, mail)
  PROVE  TypeOK'
<1> DEFINE q == [pc |-> "save", op |-> op, set |-> Changed(update),
                 offer |-> NoTerms, session |-> NoSession, refused |-> FALSE,
                 mail |-> mail]
<1>2. IsChange(Changed(update))
  BY ChangedIsChange
<1>3. NoTerms \in Terms
  BY IdleIsRequest DEF IsRequest, Idle
<1>4. IsRequest(q)
  BY <1>2, <1>3 DEF IsRequest, PCs
<1>5. Becomes(r, q)
  BY DEF Saves
<1> HIDE DEF q
<1> QED
  BY <1>4, <1>5, BecomesKeepsTypes

LEMMA OpensCheckoutKeepsTypes ==
  ASSUME TypeOK, NEW r \in Requests, NEW op \in HandlerNames,
         NEW offer \in Terms, NEW update, IsChange(update),
         NEW refused \in BOOLEAN, NEW mail \in Mails \cup {"none"},
         OpensCheckout(r, op, offer, update, refused, mail)
  PROVE  TypeOK'
<1> DEFINE q == [pc |-> "checkout", op |-> op, set |-> Changed(update),
                 offer |-> offer, session |-> NoSession, refused |-> refused,
                 mail |-> mail]
<1>2. IsChange(Changed(update))
  BY ChangedIsChange
<1>3. IsRequest(q)
  BY <1>2 DEF IsRequest, PCs
<1>4. Becomes(r, q)
  BY DEF OpensCheckout
<1> HIDE DEF q
<1> QED
  BY <1>3, <1>4, BecomesKeepsTypes

-----------------------------------------------------------------------------
(* Type correctness *)

LEMMA BookingTypes ==
  ASSUME booking \in Bookings
  PROVE  /\ booking.status \in Statuses
         /\ booking.commercial \in CommercialStatuses
         /\ booking.lifecycle \in LifecycleStatuses
         /\ booking.quote \in Quotes
         /\ booking.quote.version \in 0..MaxVersion
         /\ booking.quote.price \in Amounts
         /\ booking.preview \in Amounts
         /\ booking.url \in Sessions \cup {NoSession}
BY DEF Bookings, Quotes

LEMMA LifecycleTypes ==
  ASSUME booking \in Bookings
  PROVE  LifecycleOrNotReady \in LifecycleStatuses
BY BookingTypes DEF LifecycleOrNotReady, LifecycleStatuses

LEMMA QuoteBecomesQuote ==
  ASSUME booking \in Bookings, NEW status \in QuoteStatuses
  PROVE  QuoteBecomes(status) \in Quotes
<1>1. Versioned \in 0..MaxVersion
  BY BookingTypes, VersionAssumption DEF Versioned
<1> QED
  BY <1>1, BookingTypes DEF QuoteBecomes, Quotes

LEMMA QuoteUpdateIsChange ==
  ASSUME booking \in Bookings, NEW commercial \in CommercialStatuses,
         NEW quote \in Quotes
  PROVE  IsChange(QuoteUpdate(commercial, quote))
BY LifecycleTypes DEF QuoteUpdate, IsChange

\* The quote workflow.
LEMMA QuoteHandlersKeepTypes ==
  ASSUME TypeOK, NEW r \in Requests, QuoteHandlers(r)
  PROVE  TypeOK'
<1> USE DEF CommercialStatuses, QuoteStatuses
<1>0. booking \in Bookings
  BY DEF TypeOK
<1>h. /\ "startQuoteReview" \in HandlerNames /\ "saveQuoteDraft" \in HandlerNames
      /\ "sendQuote" \in HandlerNames /\ "rejectQuote" \in HandlerNames
      /\ "expireQuote" \in HandlerNames /\ "reopenQuote" \in HandlerNames
      /\ "reviseQuote" \in HandlerNames
  BY DEF HandlerNames
<1>1. CASE StartQuoteReview(r)
  <2>1. IsChange(QuoteUpdate("under_review", booking.quote))
    BY <1>0, BookingTypes, QuoteUpdateIsChange
  <2> QED
    BY <1>1, <2>1, <1>h, SavesKeepsTypes DEF StartQuoteReview
<1>2. ASSUME NEW p \in Prices, NEW firstTime \in BOOLEAN,
             SaveQuoteDraft(r, p, firstTime)
      PROVE  TypeOK'
  <2> DEFINE quote == [QuoteBecomes("draft") EXCEPT !.price = p]
             update == [commercial |-> "quoted_draft",
                        lifecycle |-> LifecycleOrNotReady, quote |-> quote,
                        preview |-> IF firstTime THEN p ELSE booking.preview]
  <2>1. quote \in Quotes
    BY <1>0, QuoteBecomesQuote DEF Quotes, Amounts
  <2>2. IsChange(update)
    BY <1>0, <2>1, BookingTypes, LifecycleTypes DEF IsChange, Amounts
  <2>3. Saves(r, "saveQuoteDraft", update, "none")
    BY <1>2 DEF SaveQuoteDraft
  <2> HIDE DEF update
  <2> QED
    BY <2>2, <2>3, <1>h, SavesKeepsTypes
<1>3. CASE SendQuote(r)
  <2>1. IsChange(QuoteUpdate("quote_sent", QuoteBecomes("sent")))
    BY <1>0, QuoteBecomesQuote, QuoteUpdateIsChange
  <2> QED
    BY <1>3, <2>1, <1>h, SavesKeepsTypes DEF SendQuote
<1>4. CASE RejectQuote(r)
  <2>1. IsChange(QuoteUpdate("quote_rejected", QuoteBecomes("rejected")))
    BY <1>0, QuoteBecomesQuote, QuoteUpdateIsChange
  <2> QED
    BY <1>4, <2>1, <1>h, SavesKeepsTypes DEF RejectQuote
<1>5. CASE ExpireQuote(r)
  <2>1. IsChange(QuoteUpdate("quote_expired", QuoteBecomes("expired")))
    BY <1>0, QuoteBecomesQuote, QuoteUpdateIsChange
  <2> QED
    BY <1>5, <2>1, <1>h, SavesKeepsTypes DEF ExpireQuote
<1>6. ASSUME NEW op \in HandlerNames, NEW from, ReturnsToReview(r, op, from)
      PROVE  TypeOK'
  <2> DEFINE quote == [booking.quote EXCEPT !.status = "draft",
                                            !.version = @ + 1]
  <2>1. booking.quote.version + 1 \in 0..MaxVersion
    BY <1>0, <1>6, BookingTypes, VersionAssumption DEF ReturnsToReview
  <2>2. quote \in Quotes
    BY <1>0, <2>1, BookingTypes DEF Quotes
  <2>3. IsChange(QuoteUpdate("under_review", quote))
    BY <1>0, <2>2, QuoteUpdateIsChange
  <2>4. Saves(r, op, QuoteUpdate("under_review", quote), "none")
    BY <1>6 DEF ReturnsToReview, Revised
  <2> QED
    BY <2>3, <2>4, SavesKeepsTypes
<1> QED
  BY <1>1, <1>2, <1>3, <1>4, <1>5, <1>6, <1>h
  DEF QuoteHandlers, ReopenQuote, ReviseQuote

\* Operational status, cancellation, deletion and the crew's handlers.
LEMMA StatusHandlersKeepTypes ==
  ASSUME TypeOK, NEW r \in Requests, StatusHandlers(r)
  PROVE  TypeOK'
<1>0. booking \in Bookings
  BY DEF TypeOK
<1>h. "updateStatus" \in HandlerNames /\ "cancelByAdmin" \in HandlerNames
  BY DEF HandlerNames
<1>1. ASSUME NEW next \in Statuses, UpdateStatus(r, next)
      PROVE  TypeOK'
  <2>1. IsChange([status |-> next])
    BY DEF IsChange
  <2>2. PICK mail \in Mails \cup {"none"} :
          Saves(r, "updateStatus", [status |-> next], mail)
    BY <1>1 DEF UpdateStatus, Mails
  <2> QED
    BY <2>1, <2>2, <1>h, SavesKeepsTypes
<1>2. CASE CancelByAdmin(r)
  <2> DEFINE update(c) == [status |-> "cancelled", commercial |-> c,
                           lifecycle |-> "voided",
                           quote |-> QuoteBecomes("rejected")]
  <2>1. QuoteBecomes("rejected") \in Quotes
    BY <1>0, QuoteBecomesQuote DEF QuoteStatuses
  <2>2. ASSUME NEW c \in CommercialStatuses PROVE IsChange(update(c))
    BY <2>1 DEF IsChange, Statuses, LifecycleStatuses
  <2>3. PICK c \in CommercialStatuses, mail \in Mails \cup {"none"} :
          Saves(r, "cancelByAdmin", update(c), mail)
    <3>1. "quote_rejected" \in CommercialStatuses
      BY DEF CommercialStatuses
    <3>2. booking.commercial \in CommercialStatuses
      BY <1>0, BookingTypes
    <3>3. "cancelled" \in Mails
      BY DEF Mails
    <3> QED
      BY <1>2, <3>1, <3>2, <3>3 DEF CancelByAdmin
  <2> HIDE DEF update
  <2> QED
    BY <2>2, <2>3, <1>h, SavesKeepsTypes
<1>3. CASE DeleteAdminPermanent(r)
  <2> DEFINE q == [pc |-> "dropPayments", op |-> "deleteAdminPermanent",
                   set |-> NoChange, offer |-> NoTerms, session |-> NoSession,
                   refused |-> FALSE, mail |-> "none"]
  <2>1. IsRequest(q)
    BY IdleIsRequest, NoChangeIsChange
    DEF IsRequest, Idle, PCs, HandlerNames
  <2>2. Becomes(r, q)
    BY <1>3 DEF DeleteAdminPermanent
  <2> HIDE DEF q
  <2> QED
    BY <2>1, <2>2, BecomesKeepsTypes
<1>4. ASSUME NEW op, NEW b \in Bookings, Writes(r, op, b)
      PROVE  TypeOK'
  BY <1>4 DEF Writes, TypeOK, IsRequest, IsChange
<1>5. CASE AssignBooking(r) \/ StartBooking(r) \/ CompleteBooking(r)
  <2>1. PICK op, b : b \in Bookings /\ Writes(r, op, b)
    BY <1>0, <1>5
    DEF AssignBooking, StartBooking, CompleteBooking, Bookings, Statuses
  <2> QED
    BY <2>1, <1>4
<1> QED
  BY <1>1, <1>2, <1>3, <1>5 DEF StatusHandlers

\* The four handlers that deal with checkout sessions.
LEMMA PaymentHandlersKeepTypes ==
  ASSUME TypeOK, NEW r \in Requests, PaymentHandlers(r)
  PROVE  TypeOK'
<1>0. booking \in Bookings
  BY DEF TypeOK
<1>h. /\ {"updateStatus", "confirmAndSendPayment", "handleWebhook",
          "createCheckoutSessionUrl"} \subseteq HandlerNames
      /\ {"none", "payment_link", "payment_received"}
           \subseteq Mails \cup {"none"}
  BY DEF HandlerNames, Mails
<1>s. {"confirmed", "cancelled"} \subseteq Statuses
  BY DEF Statuses
<1>l. {"payment_pending", "paid", "checkout_created"} \subseteq LifecycleStatuses
  BY DEF LifecycleStatuses
<1>o. ASSUME NEW amount \in Amounts, NEW version \in 0..MaxVersion,
             NEW via \in {"legacy", "admin_confirmed", "quote"}
      PROVE  [amount |-> amount, via |-> via, version |-> version] \in Terms
  BY DEF Terms
<1>v. 0 \in 0..MaxVersion
  BY VersionAssumption
<1>1. CASE ConfirmDirectBooking(r)
  <2> DEFINE offer == [amount |-> booking.preview, via |-> "legacy",
                       version |-> 0]
  <2>1. offer \in Terms
    BY <1>0, <1>o, <1>v, BookingTypes
  <2>2. IsChange([status |-> "confirmed"])
    BY <1>s DEF IsChange
  <2>3. OpensCheckout(r, "updateStatus", offer, [status |-> "confirmed"],
                      FALSE, "payment_link")
    BY <1>1 DEF ConfirmDirectBooking
  <2> HIDE DEF offer
  <2> QED
    BY <2>1, <2>2, <2>3, <1>h, OpensCheckoutKeepsTypes
<1>2. CASE ConfirmAndSendPayment(r)
  <2> DEFINE price == IF booking.quote.price > 0 THEN booking.quote.price
                                                 ELSE booking.preview
             offer == [amount |-> price, via |-> "admin_confirmed",
                       version |-> 0]
             quote == [version |-> Versioned, status |-> "accepted",
                       price |-> price]
             update == [status |-> "confirmed",
                        commercial |-> "quote_accepted",
                        lifecycle |-> "payment_pending", quote |-> quote]
             refused == ~TransitionAllowed(booking.status, "confirmed", "admin")
  <2>1. price \in Amounts
    BY <1>0, BookingTypes
  <2>2. offer \in Terms
    BY <2>1, <1>o, <1>v
  <2>3. Versioned \in 0..MaxVersion
    BY <1>0, BookingTypes, VersionAssumption DEF Versioned
  <2>4. quote \in Quotes
    BY <2>1, <2>3 DEF Quotes, QuoteStatuses
  <2>5. IsChange(update)
    BY <2>4, <1>s, <1>l DEF IsChange, CommercialStatuses
  <2>6. PICK mail \in Mails \cup {"none"} :
          OpensCheckout(r, "confirmAndSendPayment", offer, update, refused, mail)
    BY <1>2, <1>h DEF ConfirmAndSendPayment
  <2>7. refused \in BOOLEAN
    BY DEF TransitionAllowed, CanTransition
  <2> HIDE DEF offer, update, refused
  <2> QED
    BY <2>2, <2>5, <2>6, <2>7, <1>h, OpensCheckoutKeepsTypes
<1>3. CASE CreateCheckoutSessionUrl(r)
  <2> DEFINE quoteFlow == IsQuoteFlow(booking.commercial)
             amount == IF quoteFlow THEN booking.quote.price
                                    ELSE booking.preview
             offer == IF quoteFlow
                        THEN [amount |-> amount, via |-> "quote",
                              version |-> booking.quote.version]
                        ELSE [amount |-> amount, via |-> "legacy",
                              version |-> 0]
             update == [lifecycle |-> IF quoteFlow THEN "checkout_created"
                                                   ELSE booking.lifecycle]
  <2>1. offer \in Terms
    BY <1>0, <1>o, <1>v, BookingTypes
  <2>2. IsChange(update)
    BY <1>0, <1>l, BookingTypes DEF IsChange
  <2>3. OpensCheckout(r, "createCheckoutSessionUrl", offer, update, FALSE,
                      "none")
    BY <1>3 DEF CreateCheckoutSessionUrl
  <2> HIDE DEF offer, update
  <2> QED
    BY <2>1, <2>2, <2>3, <1>h, OpensCheckoutKeepsTypes
<1>4. ASSUME NEW s \in Sessions, DeliverSessionCompleted(r, s)
      PROVE  TypeOK'
  <2> DEFINE update == [paid |-> TRUE,
                        lifecycle |-> IF IsQuoteFlow(booking.commercial)
                                        THEN "paid" ELSE booking.lifecycle]
             q == [pc |-> "record", op |-> "handleWebhook",
                   set |-> Changed(update), offer |-> sessions[s].terms,
                   session |-> s, refused |-> FALSE,
                   mail |-> "payment_received"]
  <2>1. IsChange(Changed(update))
    <3>1. IsChange(update)
      BY <1>0, <1>l, BookingTypes DEF IsChange
    <3> HIDE DEF update
    <3> QED
      BY <3>1, ChangedIsChange
  <2>2. sessions[s].terms \in Terms
    BY DEF TypeOK
  <2>3. IsRequest(q)
    <3> HIDE DEF update
    <3> QED
      BY <2>1, <2>2, <1>h DEF IsRequest, PCs
  <2>4. Becomes(r, q)
    BY <1>4 DEF DeliverSessionCompleted
  <2> HIDE DEF q
  <2> QED
    BY <2>3, <2>4, BecomesKeepsTypes
<1> QED
  BY <1>1, <1>2, <1>3, <1>4 DEF PaymentHandlers

\* A step that moves one request and touches the stores within their types.
LEMMA StoresKeepTypes ==
  ASSUME TypeOK, NEW r \in Requests, NEW q, IsRequest(q),
         req' = [req EXCEPT ![r] = q],
         exists' \in BOOLEAN, booking' \in Bookings, payment' \in Payments,
         purged' \in BOOLEAN,
         sessions' \in [Sessions -> [state: {"unused", "open", "published",
                                             "paid"}, terms: Terms]],
         mails' \in [Mails -> 0..MailCap]
  PROVE  TypeOK'
<1>1. DOMAIN req' = Requests /\ \A x \in Requests : IsRequest(req'[x])
  BY DEF TypeOK
<1> QED
  BY <1>1 DEF TypeOK, IsRequest, IsChange

\* The steps after the load, up to the last.
LEMMA ContinuesKeepsTypes ==
  ASSUME TypeOK, NEW r \in Requests, Continues(r)
  PROVE  TypeOK'
<1> DEFINE q == req[r]
<1>0. IsRequest(q)
  BY DEF TypeOK
<1>t. /\ exists \in BOOLEAN /\ booking \in Bookings /\ payment \in Payments
      /\ purged \in BOOLEAN /\ mails \in [Mails -> 0..MailCap]
      /\ sessions \in [Sessions -> [state: {"unused", "open", "published",
                                            "paid"}, terms: Terms]]
  BY DEF TypeOK
<1>m. ASSUME NEW s \in Sessions
      PROVE  IsRequest([q EXCEPT !.pc = "upsert", !.session = s])
  <2> DEFINE p == [q EXCEPT !.pc = "upsert"]
  <2>1. IsChange(p.set) /\ p.set = q.set /\ p.offer = q.offer /\ p.op = q.op
        /\ p.refused = q.refused /\ p.mail = q.mail /\ p.pc = "upsert"
    BY <1>0 DEF IsRequest
  <2>2. p = [pc |-> p.pc, op |-> p.op, set |-> p.set, offer |-> p.offer,
             session |-> p.session, refused |-> p.refused, mail |-> p.mail]
    BY <1>0 DEF IsRequest
  <2>3. [q EXCEPT !.pc = "upsert", !.session = s] = [p EXCEPT !.session = s]
    OBVIOUS
  <2> HIDE DEF p, q
  <2>4. IsRequest([p EXCEPT !.session = s])
    BY <1>0, <2>1, <2>2 DEF IsRequest, PCs
  <2> QED
    BY <2>3, <2>4
<1>n. ASSUME NEW pc \in {"save", "dropBooking"}
      PROVE  IsRequest([q EXCEPT !.pc = pc])
  BY <1>0 DEF IsRequest, PCs
<1>1. ASSUME NEW s \in Sessions, IssueSession(r, s)
      PROVE  TypeOK'
  <2>1. PICK next : /\ next \in {Idle, [q EXCEPT !.pc = "upsert", !.session = s]}
                    /\ req' = [req EXCEPT ![r] = next]
    BY <1>1 DEF IssueSession
  <2>2. IsRequest(next)
    BY <1>m, <2>1, IdleIsRequest
  <2>3. sessions' \in [Sessions -> [state: {"unused", "open", "published",
                                            "paid"}, terms: Terms]]
    BY <1>0, <1>t, <1>1 DEF IssueSession, IsRequest
  <2> QED
    BY <1>1, <1>t, <2>1, <2>2, <2>3, StoresKeepTypes DEF IssueSession
<1>2. CASE UpsertPayment(r)
  <2>1. PICK next : /\ next \in {Idle, [q EXCEPT !.pc = "save"]}
                    /\ req' = [req EXCEPT ![r] = next]
    BY <1>2 DEF UpsertPayment
  <2>2. IsRequest(next)
    BY <1>n, <2>1, IdleIsRequest
  <2>3. payment' \in Payments
    BY <1>0, <1>t, <1>2 DEF UpsertPayment, IsRequest, Payments, Terms
  <2> QED
    BY <1>2, <1>t, <2>1, <2>2, <2>3, StoresKeepTypes DEF UpsertPayment
<1>3. CASE RecordPayment(r)
  <2>1. PICK next : /\ next \in {Idle, [q EXCEPT !.pc = "save"]}
                    /\ req' = [req EXCEPT ![r] = next]
    BY <1>3 DEF RecordPayment
  <2>2. IsRequest(next)
    BY <1>n, <2>1, IdleIsRequest
  <2>3. payment' \in Payments
    BY <1>0, <1>t, <1>3 DEF RecordPayment, PaidRow, IsRequest, Payments, Terms
  <2> QED
    BY <1>3, <1>t, <2>1, <2>2, <2>3, StoresKeepTypes DEF RecordPayment
<1>4. CASE Save(r)
  <2> DEFINE emit == [pc |-> "emit", op |-> "none", set |-> NoChange,
                      offer |-> NoTerms, session |-> NoSession,
                      refused |-> FALSE, mail |-> q.mail]
  <2>1. PICK next : /\ next = IF q.mail = "none" THEN Idle ELSE emit
                    /\ req' = [req EXCEPT ![r] = next]
    BY <1>4 DEF Save, AfterSave, Emitting
  <2>2. IsRequest(next)
    BY <1>0, <2>1, IdleIsRequest, NoChangeIsChange DEF IsRequest, Idle, PCs
  <2>3. booking' \in Bookings
    BY <1>0, <1>t, <1>4, StoredIsBooking DEF Save
  <2>4. sessions' \in [Sessions -> [state: {"unused", "open", "published",
                                            "paid"}, terms: Terms]]
    BY <1>t, <1>4 DEF Save
  <2> QED
    BY <1>4, <1>t, <2>1, <2>2, <2>3, <2>4, StoresKeepTypes DEF Save
<1>5. CASE Emit(r)
  <2>1. q.mail \in Mails
    BY <1>0, <1>5 DEF Emit, IsRequest
  <2>2. mails' \in [Mails -> 0..MailCap]
    BY <1>t, <1>5, <2>1, MailAssumption DEF Emit
  <2> QED
    BY <1>5, <1>t, <2>2, IdleIsRequest, StoresKeepTypes DEF Emit
<1>6. CASE DropPayments(r)
  <2>1. NoPayment \in Payments
    BY DEF NoPayment, Payments, Amounts
  <2>2. req' = [req EXCEPT ![r] = [q EXCEPT !.pc = "dropBooking"]]
    BY <1>6 DEF DropPayments
  <2> QED
    BY <1>6, <1>n, <1>t, <2>1, <2>2, StoresKeepTypes DEF DropPayments
<1>7. CASE DropBooking(r)
  BY <1>7, <1>t, IdleIsRequest, StoresKeepTypes DEF DropBooking
<1> QED
  BY <1>1, <1>2, <1>3, <1>4, <1>5, <1>6, <1>7 DEF Continues

LEMMA TypeInit == Init => TypeOK
<1> SUFFICES ASSUME Init PROVE TypeOK
  OBVIOUS
<1>1. booking \in Bookings
  <2>1. PICK kind \in Documents, p \in Prices :
          booking = StoredDocument(kind, p)
    BY DEF Init
  <2>2. NoQuote \in Quotes
    BY VersionAssumption DEF NoQuote, Quotes, QuoteStatuses, Amounts
  <2>3. [version |-> 1, status |-> "accepted", price |-> p] \in Quotes
    BY VersionAssumption DEF Quotes, QuoteStatuses, Amounts
  <2> QED
    BY <2>1, <2>2, <2>3, DocumentsAssumption
    DEF StoredDocument, Bookings, Statuses, CommercialStatuses,
        LifecycleStatuses, Amounts
<1>2. NoPayment \in Payments /\ NoTerms \in Terms
  BY VersionAssumption DEF NoPayment, Payments, NoTerms, Terms, Amounts
<1>3. \A r \in Requests : IsRequest(req[r])
  BY IdleIsRequest DEF Init
<1>4. sessions \in [Sessions -> [state: {"unused", "open", "published",
                                      "paid"}, terms: Terms]]
  BY <1>2 DEF Init
<1>5. mails \in [Mails -> 0..MailCap]
  BY MailAssumption DEF Init
<1> QED
  BY <1>1, <1>2, <1>3, <1>4, <1>5 DEF Init, TypeOK

LEMMA TypeStep == TypeOK /\ [Next]_vars => TypeOK'
<1> SUFFICES ASSUME TypeOK, [Next]_vars PROVE TypeOK'
  OBVIOUS
<1>1. ASSUME NEW r \in Requests, QuoteHandlers(r) PROVE TypeOK'
  BY <1>1, QuoteHandlersKeepTypes
<1>2. ASSUME NEW r \in Requests, StatusHandlers(r) PROVE TypeOK'
  BY <1>2, StatusHandlersKeepTypes
<1>3. ASSUME NEW r \in Requests, PaymentHandlers(r) PROVE TypeOK'
  BY <1>3, PaymentHandlersKeepTypes
<1>4. ASSUME NEW r \in Requests, Continues(r) PROVE TypeOK'
  BY <1>4, ContinuesKeepsTypes
<1>5. ASSUME NEW r \in Requests, Abandon(r) PROVE TypeOK'
  BY <1>5, IdleIsRequest, BecomesKeepsTypes DEF Abandon
<1>6. ASSUME NEW s \in Sessions, CustomerPays(s) PROVE TypeOK'
  BY <1>6 DEF CustomerPays, TypeOK, IsRequest, IsChange
<1>7. CASE UNCHANGED vars
  BY <1>7 DEF vars, TypeOK, IsRequest, IsChange
<1> QED
  BY <1>1, <1>2, <1>3, <1>4, <1>5, <1>6, <1>7 DEF Next

\* Every variable always holds a value of the collections' schemas, for any
\* number of requests, sessions, prices and versions.
THEOREM TypeCorrect == Spec => []TypeOK
BY TypeInit, TypeStep, PTL DEF Spec

-----------------------------------------------------------------------------
(* What a handler plans when it loads the document *)

\* A request that starts never plans to store a pending status, never takes
\* the booking out of the quote flow, plans `paid` only on behalf of a paid
\* session, and asks Stripe for a session only for a booking that is
\* confirmed, about to be, or in the quote flow.
Planned(q) ==
  /\ q.pc \in {"save", "checkout", "record", "dropPayments"}
  /\ "status" \in DOMAIN q.set => q.set["status"] # "pending"
  /\ "commercial" \in DOMAIN q.set => IsQuoteFlow(q.set["commercial"])
  /\ "paid" \in DOMAIN q.set => q.pc = "record"
  /\ q.pc # "record" => q.session = NoSession
  /\ q.pc = "record" => /\ q.op = "handleWebhook"
                        /\ q.session \in Sessions
                        /\ sessions[q.session].state = "paid"
                        /\ sessions[q.session].terms = q.offer
  /\ q.pc = "checkout" => \/ "status" \in DOMAIN q.set
                          \/ booking.status # "pending"
                          \/ IsQuoteFlow(booking.commercial)

\* The crew's handlers write to the document at once.
CrewWrites ==
  /\ UNCHANGED <<exists, payment, purged, sessions, req, mails>>
  /\ booking'.status # "pending"
  /\ booking'.commercial = booking.commercial
  /\ booking'.url = booking.url
  /\ booking'.paid = booking.paid

LEMMA SavesPlans ==
  ASSUME NEW r \in Requests, NEW op, NEW update, NEW mail,
         Saves(r, op, update, mail), "paid" \notin DOMAIN update,
         "status" \in DOMAIN update => update["status"] # "pending",
         "commercial" \in DOMAIN update =>
           \/ update["commercial"] = booking["commercial"]
           \/ IsQuoteFlow(update["commercial"])
  PROVE  \E q : Planned(q) /\ Becomes(r, q)
<1> DEFINE q == [pc |-> "save", op |-> op, set |-> Changed(update),
                 offer |-> NoTerms, session |-> NoSession, refused |-> FALSE,
                 mail |-> mail]
<1>1. Planned(q)
  BY DEF Planned, Changed
<1>2. Becomes(r, q)
  BY DEF Saves
<1> HIDE DEF q
<1> QED
  BY <1>1, <1>2

LEMMA OpensCheckoutPlans ==
  ASSUME NEW r \in Requests, NEW op, NEW offer, NEW update, NEW refused,
         NEW mail, OpensCheckout(r, op, offer, update, refused, mail),
         "paid" \notin DOMAIN update,
         "status" \in DOMAIN update => update["status"] # "pending",
         "commercial" \in DOMAIN update => IsQuoteFlow(update["commercial"]),
         \/ "status" \in DOMAIN update
         \/ booking.status # "pending"
         \/ IsQuoteFlow(booking.commercial)
  PROVE  \E q : Planned(q) /\ Becomes(r, q)
<1> DEFINE q == [pc |-> "checkout", op |-> op, set |-> Changed(update),
                 offer |-> offer, session |-> NoSession, refused |-> refused,
                 mail |-> mail]
<1>1. Planned(q)
  BY DEF Planned, Changed
<1>2. Becomes(r, q)
  BY DEF OpensCheckout
<1> HIDE DEF q
<1> QED
  BY <1>1, <1>2

LEMMA QuoteHandlersPlan ==
  ASSUME NEW r \in Requests, QuoteHandlers(r)
  PROVE  \E q : Planned(q) /\ Becomes(r, q)
<1>1. ASSUME NEW op, NEW commercial, IsQuoteFlow(commercial), NEW quote,
             Saves(r, op, QuoteUpdate(commercial, quote), "none")
      PROVE  \E q : Planned(q) /\ Becomes(r, q)
  BY <1>1, SavesPlans DEF QuoteUpdate
<1>2. ASSUME NEW p, NEW firstTime, SaveQuoteDraft(r, p, firstTime)
      PROVE  \E q : Planned(q) /\ Becomes(r, q)
  BY <1>2, SavesPlans DEF SaveQuoteDraft, IsQuoteFlow
<1>3. /\ IsQuoteFlow("under_review") /\ IsQuoteFlow("quote_sent")
      /\ IsQuoteFlow("quote_rejected") /\ IsQuoteFlow("quote_expired")
  BY DEF IsQuoteFlow
<1> QED
  BY <1>1, <1>2, <1>3
  DEF QuoteHandlers, StartQuoteReview, SendQuote, RejectQuote, ExpireQuote,
      ReopenQuote, ReviseQuote, ReturnsToReview

LEMMA StatusHandlersPlan ==
  ASSUME booking \in Bookings, NEW r \in Requests, StatusHandlers(r)
  PROVE  CrewWrites \/ \E q : Planned(q) /\ Becomes(r, q)
<1>1. ASSUME NEW next \in Statuses, UpdateStatus(r, next)
      PROVE  \E q : Planned(q) /\ Becomes(r, q)
  <2>1. next # "pending"
    BY <1>1 DEF UpdateStatus, TransitionAllowed, CanTransition
  <2>2. PICK mail : Saves(r, "updateStatus", [status |-> next], mail)
    BY <1>1 DEF UpdateStatus
  <2> QED
    BY <2>1, <2>2, SavesPlans
<1>2. CASE CancelByAdmin(r)
  <2> DEFINE update(c) == [status |-> "cancelled", commercial |-> c,
                           lifecycle |-> "voided",
                           quote |-> QuoteBecomes("rejected")]
  <2>1. PICK c, mail : /\ c \in {"quote_rejected", booking.commercial}
                       /\ Saves(r, "cancelByAdmin", update(c), mail)
    BY <1>2 DEF CancelByAdmin
  <2> QED
    BY <2>1, SavesPlans DEF IsQuoteFlow
<1>3. CASE DeleteAdminPermanent(r)
  <2> DEFINE q == [pc |-> "dropPayments", op |-> "deleteAdminPermanent",
                   set |-> NoChange, offer |-> NoTerms, session |-> NoSession,
                   refused |-> FALSE, mail |-> "none"]
  <2>1. Planned(q)
    BY DEF Planned, NoChange
  <2>2. Becomes(r, q)
    BY <1>3 DEF DeleteAdminPermanent
  <2> HIDE DEF q
  <2> QED
    BY <2>1, <2>2
<1>4. CASE AssignBooking(r) \/ StartBooking(r) \/ CompleteBooking(r)
  BY <1>4
  DEF AssignBooking, StartBooking, CompleteBooking, Writes, CrewWrites, Bookings
<1> QED
  BY <1>1, <1>2, <1>3, <1>4 DEF StatusHandlers

LEMMA PaymentHandlersPlan ==
  ASSUME TypeOK, NEW r \in Requests, PaymentHandlers(r)
  PROVE  \E q : Planned(q) /\ Becomes(r, q)
<1>1. CASE ConfirmDirectBooking(r)
  <2>1. PICK offer : OpensCheckout(r, "updateStatus", offer,
                                   [status |-> "confirmed"], FALSE,
                                   "payment_link")
    BY <1>1 DEF ConfirmDirectBooking
  <2> DEFINE update == [status |-> "confirmed"]
  <2>2. /\ DOMAIN update = {"status"}
        /\ update["status"] = "confirmed"
    OBVIOUS
  <2>3. OpensCheckout(r, "updateStatus", offer, update, FALSE, "payment_link")
    BY <2>1
  <2> HIDE DEF update
  <2> QED
    BY <2>2, <2>3, OpensCheckoutPlans
<1>2. CASE ConfirmAndSendPayment(r)
  <2> DEFINE update(quote) == [status |-> "confirmed",
                               commercial |-> "quote_accepted",
                               lifecycle |-> "payment_pending",
                               quote |-> quote]
  <2>1. PICK offer, quote, refused, mail :
          OpensCheckout(r, "confirmAndSendPayment", offer, update(quote),
                        refused, mail)
    BY <1>2 DEF ConfirmAndSendPayment
  <2>2. /\ DOMAIN update(quote) = {"status", "commercial", "lifecycle", "quote"}
        /\ update(quote)["status"] = "confirmed"
        /\ IsQuoteFlow(update(quote)["commercial"])
    BY DEF IsQuoteFlow
  <2> HIDE DEF update
  <2> QED
    BY <2>1, <2>2, OpensCheckoutPlans
<1>3. CASE CreateCheckoutSessionUrl(r)
  <2> DEFINE update(l) == [lifecycle |-> l]
  <2>1. PICK offer, l :
          OpensCheckout(r, "createCheckoutSessionUrl", offer, update(l), FALSE,
                        "none")
    BY <1>3 DEF CreateCheckoutSessionUrl
  <2>3. DOMAIN update(l) = {"lifecycle"}
    OBVIOUS
  <2> HIDE DEF update
  <2>2. booking.status # "pending" \/ IsQuoteFlow(booking.commercial)
    BY <1>3 DEF CreateCheckoutSessionUrl, Payable
  <2> QED
    BY <2>1, <2>2, <2>3, OpensCheckoutPlans
<1>4. ASSUME NEW s \in Sessions, DeliverSessionCompleted(r, s)
      PROVE  \E q : Planned(q) /\ Becomes(r, q)
  <2> DEFINE update == [paid |-> TRUE,
                        lifecycle |-> IF IsQuoteFlow(booking.commercial)
                                        THEN "paid" ELSE booking.lifecycle]
             q == [pc |-> "record", op |-> "handleWebhook",
                   set |-> Changed(update), offer |-> sessions[s].terms,
                   session |-> s, refused |-> FALSE,
                   mail |-> "payment_received"]
  <2>1. sessions[s].state = "paid"
    BY <1>4 DEF DeliverSessionCompleted, Collected
  <2>2. DOMAIN Changed(update) \subseteq {"paid", "lifecycle"}
    BY DEF Changed
  <2>3. Planned(q)
    <3> HIDE DEF update
    <3> QED
      BY <2>1, <2>2 DEF Planned
  <2>4. Becomes(r, q)
    BY <1>4 DEF DeliverSessionCompleted
  <2> HIDE DEF q
  <2> QED
    BY <2>3, <2>4
<1> QED
  BY <1>1, <1>2, <1>3, <1>4 DEF PaymentHandlers

-----------------------------------------------------------------------------
(* The inductive invariant *)

\* The request has the only reference to a session nobody was told of.
Owns(q) == q.pc \in {"upsert", "save"} /\ StoresLink(q)

RowBacked == payment.status = "paid" /\ PaidSessionOf(payment.amount)

\* What a request under way relies on, whatever the others do meanwhile: its
\* plan is still that of Planned, the session it is about to publish is still
\* its own, and when it is about to mark the booking paid the row is backed.
InFlight(q) ==
  /\ "status" \in DOMAIN q.set => q.set["status"] # "pending"
  /\ "commercial" \in DOMAIN q.set => IsQuoteFlow(q.set["commercial"])
  /\ "paid" \in DOMAIN q.set => q.pc \in {"record", "save"}
  /\ q.pc = "record" => /\ q.op = "handleWebhook"
                        /\ q.session \in Sessions
                        /\ sessions[q.session].state = "paid"
                        /\ sessions[q.session].terms = q.offer
  /\ q.pc = "checkout" => q.session = NoSession
  /\ q.pc = "save" /\ "paid" \in DOMAIN q.set /\ ~purged => RowBacked
  /\ Owns(q) => q.session \in Sessions /\ sessions[q.session].state = "open"
  /\ q.pc = "checkout" \/ Owns(q) => \/ "status" \in DOMAIN q.set
                                     \/ booking.status # "pending"
                                     \/ IsQuoteFlow(booking.commercial)

NoSharedSession ==
  \A a, b \in Requests :
    Owns(req[a]) /\ Owns(req[b]) /\ req[a].session = req[b].session => a = b

\* PaidIsBacked and PendingHasNoLink are not inductive: a stale save may store
\* what was decided many steps before, so the invariant has to say what every
\* request in flight still relies on.
LifecycleInv ==
  /\ PaidIsBacked
  /\ PendingHasNoLink
  /\ \A r \in Requests : InFlight(req[r])
  /\ NoSharedSession

\* What no step of anybody may do to the stores under a request in flight.
Calm ==
  /\ booking.status # "pending" => booking'.status # "pending"
  /\ IsQuoteFlow(booking.commercial) => IsQuoteFlow(booking'.commercial)
  /\ \A s \in Sessions :
       sessions[s].state = "paid" => sessions'[s] = sessions[s]
  /\ ~purged' => ~purged /\ (RowBacked => RowBacked')

LEMMA InFlightStays ==
  ASSUME NEW x \in Requests, InFlight(req[x]), Calm, req'[x] = req[x],
         Owns(req[x]) => sessions'[req[x].session] = sessions[req[x].session]
  PROVE  InFlight(req[x])'
<1>1. RowBacked /\ ~purged' => RowBacked'
  BY DEF Calm
<1> QED
  BY <1>1 DEF InFlight, Calm, Owns, StoresLink

\* A step of request r keeps the invariant if it is calm, leaves the other
\* requests and their sessions alone, and leaves r itself in good order.
LEMMA StepKeepsInv ==
  ASSUME LifecycleInv, NEW r \in Requests, Calm,
         \A x \in Requests \ {r} :
           /\ req'[x] = req[x]
           /\ Owns(req[x]) =>
                /\ sessions'[req[x].session] = sessions[req[x].session]
                /\ Owns(req'[r]) => req'[r].session # req[x].session,
         InFlight(req[r])', PaidIsBacked', PendingHasNoLink'
  PROVE  LifecycleInv'
<1>1. \A x \in Requests : InFlight(req[x])'
  <2>1. ASSUME NEW x \in Requests \ {r} PROVE InFlight(req[x])'
    BY InFlightStays DEF LifecycleInv
  <2> QED
    BY <2>1
<1>2. NoSharedSession'
  BY DEF LifecycleInv, NoSharedSession
<1> QED
  BY <1>1, <1>2 DEF LifecycleInv

LEMMA LoadKeepsInv ==
  ASSUME TypeOK, LifecycleInv, NEW r \in Requests, NEW q, Planned(q),
         Becomes(r, q)
  PROVE  LifecycleInv'
<1>1. req'[r] = q /\ \A x \in Requests \ {r} : req'[x] = req[x]
  BY DEF Becomes, TypeOK
<1>2. ~Owns(q)
  BY DEF Planned, Owns, StoresLink
<1>3. InFlight(req[r])'
  BY <1>1, <1>2 DEF InFlight, Planned, Becomes, PaidSessionOf, RowBacked
<1>4. Calm
  BY DEF Calm, Becomes, RowBacked, PaidSessionOf
<1>5. PaidIsBacked' /\ PendingHasNoLink'
  BY DEF LifecycleInv, PaidIsBacked, PaidSessionOf, PendingHasNoLink, Becomes
<1> QED
  BY <1>1, <1>2, <1>3, <1>4, <1>5, StepKeepsInv DEF Becomes

LEMMA CrewKeepsInv ==
  ASSUME LifecycleInv, CrewWrites
  PROVE  LifecycleInv'
<1>1. Calm
  BY DEF Calm, CrewWrites, RowBacked, PaidSessionOf
<1>2. ASSUME NEW x \in Requests PROVE InFlight(req[x])'
  BY <1>1, InFlightStays DEF LifecycleInv, CrewWrites
<1>3. PaidIsBacked' /\ PendingHasNoLink'
  BY DEF LifecycleInv, PaidIsBacked, PaidSessionOf, PendingHasNoLink, CrewWrites
<1>4. NoSharedSession'
  BY DEF LifecycleInv, NoSharedSession, CrewWrites
<1> QED
  BY <1>2, <1>3, <1>4 DEF LifecycleInv

\* A request that ends holds nothing.
LEMMA IdleInFlight ==
  ASSUME NEW r \in Requests, req'[r] = Idle
  PROVE  InFlight(req[r])' /\ ~Owns(req'[r])
BY DEF InFlight, Idle, NoChange, Owns

LEMMA IssueSessionKeepsInv ==
  ASSUME TypeOK, LifecycleInv, NEW r \in Requests, NEW s \in Sessions,
         IssueSession(r, s)
  PROVE  LifecycleInv'
<1>1. /\ req[r].pc = "checkout" /\ InFlight(req[r]) /\ IsRequest(req[r])
      /\ \A x \in Requests \ {r} : req'[x] = req[x]
      /\ UNCHANGED <<booking, payment, purged, exists>>
  BY DEF IssueSession, LifecycleInv, TypeOK
<1>2. /\ sessions'[s].state = "open"
      /\ \A t \in Sessions \ {s} : sessions'[t] = sessions[t]
      /\ sessions[s].state = "unused"
  BY DEF IssueSession, TypeOK
<1>3. Calm
  BY <1>1, <1>2 DEF Calm, RowBacked, PaidSessionOf
<1>4. ASSUME NEW x \in Requests \ {r}, Owns(req[x])
      PROVE  req[x].session \in Sessions \ {s}
  BY <1>2, <1>4 DEF LifecycleInv, InFlight
<1>5. PaidIsBacked' /\ PendingHasNoLink'
  BY <1>1, <1>2
  DEF LifecycleInv, PaidIsBacked, PaidSessionOf, PendingHasNoLink
<1>6. CASE req[r].refused
  <2>1. req'[r] = Idle
    BY <1>6 DEF IssueSession, TypeOK
  <2>2. InFlight(req[r])' /\ ~Owns(req'[r])
    BY <2>1, IdleInFlight DEF Owns, Idle
  <2> QED
    BY <1>1, <1>2, <1>3, <1>4, <1>5, <2>2, StepKeepsInv
<1>7. CASE ~req[r].refused
  <2>1. req'[r] = [req[r] EXCEPT !.pc = "upsert", !.session = s]
    BY <1>7 DEF IssueSession, TypeOK
  <2>2. /\ req'[r].pc = "upsert" /\ req'[r].session = s
        /\ req'[r].set = req[r].set
    BY <1>1, <2>1 DEF IsRequest
  <2>3. InFlight(req[r])'
    BY <1>1, <1>2, <2>2 DEF InFlight, Owns
  <2> QED
    BY <1>1, <1>2, <1>3, <1>4, <1>5, <2>2, <2>3, StepKeepsInv
<1> QED
  BY <1>6, <1>7

\* A step that only writes the Payment row, for a request that goes on to its
\* save or stops, keeps a backed row backed.
LEMMA RowStepKeepsInv ==
  ASSUME TypeOK, LifecycleInv, NEW r \in Requests,
         req[r].pc \in {"upsert", "record"},
         req' = [req EXCEPT ![r] = req'[r]],
         req'[r] \in {Idle, [req[r] EXCEPT !.pc = "save"]},
         UNCHANGED <<exists, booking, purged, sessions, mails>>,
         RowBacked => RowBacked',
         req[r].pc = "record" /\ req'[r] # Idle => RowBacked'
  PROVE  LifecycleInv'
<1>1. /\ InFlight(req[r]) /\ IsRequest(req[r])
      /\ \A x \in Requests \ {r} : req'[x] = req[x]
  BY DEF LifecycleInv, TypeOK
<1>2. Calm
  BY DEF Calm
<1>3. PaidIsBacked' /\ PendingHasNoLink'
  BY DEF LifecycleInv, PaidIsBacked, PendingHasNoLink, RowBacked
<1>4. CASE req'[r] = Idle
  <2>1. InFlight(req[r])' /\ ~Owns(req'[r])
    BY <1>4, IdleInFlight DEF Owns, Idle
  <2> QED
    BY <1>1, <1>2, <1>3, <2>1, StepKeepsInv
<1>5. CASE req'[r] # Idle
  <2>1. /\ req'[r].pc = "save" /\ req'[r].session = req[r].session
        /\ req'[r].set = req[r].set /\ req'[r].op = req[r].op
    BY <1>1, <1>5 DEF IsRequest
  <2>2. Owns(req'[r]) => Owns(req[r])
    BY <2>1, <1>1 DEF Owns, StoresLink, InFlight
  <2>3. InFlight(req[r])'
    BY <1>1, <1>5, <2>1, <2>2 DEF InFlight, Owns, StoresLink
  <2>4. \A x \in Requests \ {r} :
          Owns(req[x]) /\ Owns(req[r]) => req[r].session # req[x].session
    BY DEF LifecycleInv, NoSharedSession
  <2> QED
    BY <1>1, <1>2, <1>3, <2>1, <2>2, <2>3, <2>4, StepKeepsInv
<1> QED
  BY <1>4, <1>5

LEMMA UpsertKeepsInv ==
  ASSUME TypeOK, LifecycleInv, NEW r \in Requests, UpsertPayment(r)
  PROVE  LifecycleInv'
<1>1. RowBacked => RowBacked'
  BY DEF UpsertPayment, RowBacked, PaidSessionOf, TypeOK, Payments
<1>2. /\ req[r].pc = "upsert"
      /\ req' = [req EXCEPT ![r] = req'[r]]
      /\ req'[r] \in {Idle, [req[r] EXCEPT !.pc = "save"]}
  BY DEF UpsertPayment, TypeOK
<1>3. UNCHANGED <<exists, booking, purged, sessions, mails>>
  BY DEF UpsertPayment
<1> QED
  BY <1>1, <1>2, <1>3, RowStepKeepsInv

LEMMA RecordKeepsInv ==
  ASSUME TypeOK, LifecycleInv, NEW r \in Requests, RecordPayment(r)
  PROVE  LifecycleInv'
<1>1. /\ req[r].pc = "record"
      /\ req[r].session \in Sessions
      /\ sessions[req[r].session].state = "paid"
      /\ sessions[req[r].session].terms = req[r].offer
  BY DEF RecordPayment, LifecycleInv, InFlight
<1>2. /\ UNCHANGED <<exists, booking, purged, sessions, mails>>
      /\ payment'.status = "paid"
      /\ payment'.amount = IF payment.status = "none" THEN req[r].offer.amount
                                                      ELSE payment.amount
  BY DEF RecordPayment, PaidRow
<1>3. RowBacked => RowBacked'
  BY <1>2 DEF RowBacked, PaidSessionOf
<1>4. /\ req' = [req EXCEPT ![r] = req'[r]]
      /\ req'[r] \in {Idle, [req[r] EXCEPT !.pc = "save"]}
      /\ req'[r] # Idle => payment'.amount = req[r].offer.amount
  BY DEF RecordPayment, TypeOK
<1>5. req'[r] # Idle => RowBacked'
  BY <1>1, <1>2, <1>4 DEF RowBacked, PaidSessionOf
<1> QED
  BY <1>1, <1>2, <1>3, <1>4, <1>5, RowStepKeepsInv

\* What save() may change: a status away from pending, a commercial status
\* into the quote flow, the link of the request's own session, and `paid`.
LEMMA StoredShape ==
  ASSUME TypeOK, NEW r \in Requests, InFlight(req[r]), req[r].pc = "save"
  PROVE  LET new == Stored(req[r]) IN
         /\ booking.status # "pending" => new.status # "pending"
         /\ IsQuoteFlow(booking.commercial) => IsQuoteFlow(new.commercial)
         /\ new.url = IF StoresLink(req[r]) THEN req[r].session
                                            ELSE booking.url
         /\ StoresLink(req[r]) =>
              /\ req[r].session \in Sessions
              /\ sessions[req[r].session].state = "open"
              /\ new.status # "pending" \/ IsQuoteFlow(new.commercial)
         /\ booking.paid => new.paid
         /\ new.paid => booking.paid \/ purged \/ RowBacked
<1>1. /\ booking.paid \in BOOLEAN
      /\ "paid" \in DOMAIN req[r].set => req[r].set["paid"] = TRUE
  BY DEF TypeOK, Bookings, IsRequest, IsChange
<1>2. Owns(req[r]) <=> StoresLink(req[r])
  BY DEF Owns
<1> QED
  BY <1>1, <1>2 DEF Stored, InFlight

LEMMA SaveKeepsInv ==
  ASSUME TypeOK, LifecycleInv, NEW r \in Requests, Save(r)
  PROVE  LifecycleInv'
<1> DEFINE own == StoresLink(req[r])
           s == req[r].session
<1>1. /\ InFlight(req[r]) /\ req[r].pc = "save"
      /\ \A x \in Requests \ {r} : req'[x] = req[x]
      /\ UNCHANGED <<exists, payment, purged>>
      /\ own <=> Owns(req[r])
  BY DEF Save, LifecycleInv, TypeOK, Owns
<1>2. /\ booking.status # "pending" => booking'.status # "pending"
      /\ IsQuoteFlow(booking.commercial) => IsQuoteFlow(booking'.commercial)
      /\ booking'.url = IF own THEN s ELSE booking.url
      /\ own => /\ s \in Sessions
                /\ sessions[s].state = "open"
                /\ \/ booking'.status # "pending"
                   \/ IsQuoteFlow(booking'.commercial)
      /\ booking'.paid => booking.paid \/ purged \/ RowBacked
  BY <1>1, StoredShape DEF Save
<1>3. /\ ~own => sessions' = sessions
      /\ own => \A t \in Sessions \ {s} : sessions'[t] = sessions[t]
  BY DEF Save, TypeOK
<1>4. \A t \in Sessions :
        sessions[t].state = "paid" => sessions'[t] = sessions[t]
  BY <1>2, <1>3
<1>5. Calm
  BY <1>1, <1>2, <1>4 DEF Calm, RowBacked, PaidSessionOf
<1>6. InFlight(req[r])' /\ ~Owns(req'[r])
  <2>1. CASE req[r].mail = "none"
    <3>1. req'[r] = Idle
      BY <2>1 DEF Save, AfterSave, TypeOK
    <3> QED
      BY <3>1, IdleInFlight
  <2>2. CASE req[r].mail # "none"
    <3>1. req'[r] = [pc |-> "emit", op |-> "none", set |-> NoChange,
                     offer |-> NoTerms, session |-> NoSession,
                     refused |-> FALSE, mail |-> req[r].mail]
      BY <2>2 DEF Save, AfterSave, Emitting, TypeOK
    <3> QED
      BY <3>1 DEF InFlight, Owns, NoChange
  <2> QED
    BY <2>1, <2>2
<1>7. ASSUME NEW x \in Requests \ {r}, Owns(req[x])
      PROVE  sessions'[req[x].session] = sessions[req[x].session]
  <2>1. req[x].session \in Sessions
    BY <1>7 DEF LifecycleInv, InFlight
  <2>2. own => req[x].session # s
    BY <1>1, <1>7 DEF LifecycleInv, NoSharedSession
  <2> QED
    BY <1>3, <2>1, <2>2
<1>8. PaidIsBacked'
  BY <1>1, <1>2, <1>5 DEF LifecycleInv, PaidIsBacked, Calm, RowBacked, Save
<1>9. PendingHasNoLink'
  BY <1>2 DEF LifecycleInv, PendingHasNoLink
<1> QED
  BY <1>1, <1>5, <1>6, <1>7, <1>8, <1>9, StepKeepsInv

\* Emit, the two steps of the deletion, and the end of a cut-off execution.
LEMMA EndKeepsInv ==
  ASSUME TypeOK, LifecycleInv, NEW r \in Requests,
         Emit(r) \/ DropPayments(r) \/ DropBooking(r) \/ Abandon(r)
  PROVE  LifecycleInv'
<1>1. /\ UNCHANGED <<booking, sessions>>
      /\ \A x \in Requests \ {r} : req'[x] = req[x]
      /\ exists' => exists
      /\ purged' \/ UNCHANGED <<payment, purged>>
  BY DEF Emit, DropPayments, DropBooking, Abandon, Becomes, TypeOK
<1>2. Calm
  BY <1>1 DEF Calm, RowBacked, PaidSessionOf, TypeOK
<1>3. PaidIsBacked' /\ PendingHasNoLink'
  BY <1>1
  DEF LifecycleInv, PaidIsBacked, PaidSessionOf, PendingHasNoLink
<1>4. CASE DropPayments(r)
  <2>1. InFlight(req[r]) /\ req[r].pc = "dropPayments" /\ IsRequest(req[r])
    BY <1>4 DEF LifecycleInv, TypeOK, DropPayments
  <2>2. req'[r] = [req[r] EXCEPT !.pc = "dropBooking"]
    BY <1>4 DEF DropPayments, TypeOK
  <2>3. req'[r].pc = "dropBooking" /\ req'[r].set = req[r].set
    BY <2>1, <2>2 DEF IsRequest
  <2>4. InFlight(req[r])' /\ ~Owns(req'[r])
    BY <2>1, <2>3 DEF InFlight, Owns
  <2> QED
    BY <1>1, <1>2, <1>3, <2>4, StepKeepsInv
<1>5. CASE Emit(r) \/ DropBooking(r) \/ Abandon(r)
  <2>1. req'[r] = Idle
    BY <1>5 DEF Emit, DropBooking, Abandon, Becomes, TypeOK
  <2>2. InFlight(req[r])' /\ ~Owns(req'[r])
    BY <2>1, IdleInFlight
  <2> QED
    BY <1>1, <1>2, <1>3, <2>2, StepKeepsInv
<1> QED
  BY <1>4, <1>5

LEMMA CustomerKeepsInv ==
  ASSUME TypeOK, LifecycleInv, NEW s \in Sessions, CustomerPays(s)
  PROVE  LifecycleInv'
<1>1. /\ UNCHANGED <<exists, booking, payment, purged, req>>
      /\ sessions[s].state = "published"
      /\ sessions'[s].terms = sessions[s].terms
      /\ \A t \in Sessions \ {s} : sessions'[t] = sessions[t]
  BY DEF CustomerPays, TypeOK
<1>2. Calm
  BY <1>1 DEF Calm, RowBacked, PaidSessionOf
<1>3. ASSUME NEW x \in Requests PROVE InFlight(req[x])'
  <2>1. InFlight(req[x])
    BY DEF LifecycleInv
  <2>2. Owns(req[x]) => sessions'[req[x].session] = sessions[req[x].session]
    BY <1>1, <2>1 DEF InFlight
  <2> QED
    BY <1>1, <1>2, <2>1, <2>2, InFlightStays
<1>4. PaidIsBacked' /\ PendingHasNoLink'
  BY <1>1, <1>2
  DEF LifecycleInv, PaidIsBacked, PendingHasNoLink, Calm, RowBacked
<1>5. NoSharedSession'
  BY <1>1 DEF LifecycleInv, NoSharedSession
<1> QED
  BY <1>3, <1>4, <1>5 DEF LifecycleInv

LEMMA InvInit == Init => LifecycleInv
<1> SUFFICES ASSUME Init PROVE LifecycleInv
  OBVIOUS
<1>1. PICK kind \in Documents, p \in Prices : booking = StoredDocument(kind, p)
  BY DEF Init
<1>2. ~booking.paid /\ booking.url = NoSession
  BY <1>1, DocumentsAssumption DEF StoredDocument
<1>3. \A r \in Requests : req[r] = Idle
  BY DEF Init
<1> QED
  BY <1>2, <1>3
  DEF LifecycleInv, PaidIsBacked, PendingHasNoLink, InFlight, Owns,
      NoSharedSession, Idle, NoChange

LEMMA InvStep == TypeOK /\ LifecycleInv /\ [Next]_vars => LifecycleInv'
<1> SUFFICES ASSUME TypeOK, LifecycleInv, [Next]_vars PROVE LifecycleInv'
  OBVIOUS
<1>1. ASSUME NEW r \in Requests, QuoteHandlers(r) PROVE LifecycleInv'
  BY <1>1, QuoteHandlersPlan, LoadKeepsInv
<1>2. ASSUME NEW r \in Requests, StatusHandlers(r) PROVE LifecycleInv'
  <2>1. booking \in Bookings
    BY DEF TypeOK
  <2> QED
    BY <1>2, <2>1, StatusHandlersPlan, LoadKeepsInv, CrewKeepsInv
<1>3. ASSUME NEW r \in Requests, PaymentHandlers(r) PROVE LifecycleInv'
  BY <1>3, PaymentHandlersPlan, LoadKeepsInv
<1>4. ASSUME NEW r \in Requests, Continues(r) PROVE LifecycleInv'
  BY <1>4, IssueSessionKeepsInv, UpsertKeepsInv, RecordKeepsInv, SaveKeepsInv,
     EndKeepsInv
  DEF Continues
<1>5. ASSUME NEW r \in Requests, Abandon(r) PROVE LifecycleInv'
  BY <1>5, EndKeepsInv
<1>6. ASSUME NEW s \in Sessions, CustomerPays(s) PROVE LifecycleInv'
  BY <1>6, CustomerKeepsInv
<1>7. CASE UNCHANGED vars
  BY <1>7
  DEF vars, LifecycleInv, PaidIsBacked, PaidSessionOf, PendingHasNoLink,
      InFlight, Owns, StoresLink, RowBacked, NoSharedSession
<1> QED
  BY <1>1, <1>2, <1>3, <1>4, <1>5, <1>6, <1>7 DEF Next

-----------------------------------------------------------------------------
(* The theorems *)

\* The invariant holds in every reachable state, however many handlers are in
\* flight, wherever they are cut off and however many sessions Stripe opens.
THEOREM InvariantHolds == Spec => []LifecycleInv
<1>1. Init => TypeOK /\ LifecycleInv
  BY TypeInit, InvInit
<1>2. TypeOK /\ LifecycleInv /\ [Next]_vars => TypeOK' /\ LifecycleInv'
  BY TypeStep, InvStep
<1> QED
  BY <1>1, <1>2, PTL DEF Spec

\* A booking the webhook marked paid has a paid Payment row whose amount
\* Stripe collected, with any number of concurrent handlers.
THEOREM PaidIsBackedAlways == Spec => []PaidIsBacked
<1>1. LifecycleInv => PaidIsBacked
  BY DEF LifecycleInv
<1> QED
  BY <1>1, InvariantHolds, PTL

\* updateStatus never finds a link on a pending booking outside the quote
\* flow, with any number of concurrent handlers.
THEOREM PendingNeverLinked == Spec => []PendingHasNoLink
<1>1. LifecycleInv => PendingHasNoLink
  BY DEF LifecycleInv
<1> QED
  BY <1>1, InvariantHolds, PTL

LEMMA StepLosesNothing ==
  TypeOK /\ LifecycleInv /\ [Next]_vars => NothingRecordedIsLost
<1> SUFFICES ASSUME TypeOK, LifecycleInv, [Next]_vars
             PROVE  NothingRecordedIsLost
  OBVIOUS
<1>1. ASSUME UNCHANGED <<booking, payment>>
      PROVE  NothingRecordedIsLost
  BY <1>1 DEF NothingRecordedIsLost
<1>2. ASSUME CrewWrites PROVE NothingRecordedIsLost
  BY <1>2 DEF NothingRecordedIsLost, CrewWrites
<1>3. ASSUME NEW r \in Requests, NEW q, Becomes(r, q)
      PROVE  NothingRecordedIsLost
  BY <1>1, <1>3 DEF Becomes
<1>4. ASSUME NEW r \in Requests,
             QuoteHandlers(r) \/ StatusHandlers(r) \/ PaymentHandlers(r)
      PROVE  NothingRecordedIsLost
  <2>1. booking \in Bookings
    BY DEF TypeOK
  <2> QED
    BY <1>2, <1>3, <1>4, <2>1, QuoteHandlersPlan, StatusHandlersPlan,
       PaymentHandlersPlan
<1>5. ASSUME NEW r \in Requests, UpsertPayment(r)
      PROVE  NothingRecordedIsLost
  BY <1>5 DEF UpsertPayment, NothingRecordedIsLost, TypeOK, Payments
<1>6. ASSUME NEW r \in Requests, RecordPayment(r)
      PROVE  NothingRecordedIsLost
  BY <1>6 DEF RecordPayment, PaidRow, NothingRecordedIsLost
<1>7. ASSUME NEW r \in Requests, Save(r)
      PROVE  NothingRecordedIsLost
  <2>1. InFlight(req[r]) /\ req[r].pc = "save"
    BY <1>7 DEF LifecycleInv, Save
  <2>2. /\ booking.status # "pending" => booking'.status # "pending"
        /\ booking'.url = IF StoresLink(req[r]) THEN req[r].session
                                                ELSE booking.url
        /\ StoresLink(req[r]) => req[r].session \in Sessions
        /\ booking.paid => booking'.paid
    BY <1>7, <2>1, StoredShape DEF Save
  <2> QED
    BY <1>7, <2>2, SessionsAssumption DEF NothingRecordedIsLost, Save
<1>8. ASSUME NEW r \in Requests, DropPayments(r)
      PROVE  NothingRecordedIsLost
  BY <1>8 DEF DropPayments, NothingRecordedIsLost, NoPayment
<1>9. ASSUME NEW r \in Requests,
             \/ \E s \in Sessions : IssueSession(r, s)
             \/ Emit(r) \/ DropBooking(r) \/ Abandon(r)
      PROVE  NothingRecordedIsLost
  BY <1>1, <1>9 DEF IssueSession, Emit, DropBooking, Abandon, Becomes
<1>10. ASSUME NEW s \in Sessions, CustomerPays(s)
       PROVE  NothingRecordedIsLost
  BY <1>1, <1>10 DEF CustomerPays
<1>11. CASE UNCHANGED vars
  BY <1>1, <1>11 DEF vars
<1> QED
  BY <1>4, <1>5, <1>6, <1>7, <1>8, <1>9, <1>10, <1>11 DEF Next, Continues

\* No step, stale save or redelivered webhook takes back what the money flow
\* has recorded.
THEOREM NothingLost == Spec => NothingIsLost
<1>1. TypeOK /\ LifecycleInv /\ [Next]_vars => [NothingRecordedIsLost]_vars
  BY StepLosesNothing
<1> QED
  BY <1>1, TypeCorrect, InvariantHolds, PTL DEF Spec, NothingIsLost
=============================================================================
