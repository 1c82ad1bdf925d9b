----------------------- MODULE LifecycleSerial_proofs -----------------------
(***************************************************************************)
(* Proofs about BookingLifecycle when its handlers run one after the       *)
(* other, each of which may be cut off at any await: the properties that   *)
(* overlapping handlers violate, and the refinement of PaymentPromise, for *)
(* any number of sessions, prices, versions and any choice of handlers.    *)
(***************************************************************************)
EXTENDS MCLifecycle, BookingLifecycle_proofs

OneAtATime == \A r, s \in Requests : r = s

-----------------------------------------------------------------------------
(* The inductive invariant *)

Awaiting == {"payment_pending", "checkout_created"}

\* What is true of every document a handler stores.
Sound(b) ==
  /\ Coherent(b)
  /\ Clocked(b)
  /\ b.quote.status = "sent" => /\ b.commercial = "quote_sent"
                                /\ b.quote.price > 0
  /\ b.quote.status = "accepted" => /\ b.commercial = "quote_accepted"
                                    /\ b.quote.price > 0 \/ b.preview = 0
  /\ b.lifecycle \in Awaiting => /\ b.commercial = "quote_accepted"
                                 /\ b.quote.status = "accepted"

\* The booking's link is the only session anybody was told of.
StoresInv ==
  /\ \A s \in HandedOut : s = booking.url
  /\ booking.url \in Sessions => booking.url \in HandedOut
  /\ booking.lifecycle \in Awaiting =>
       /\ booking.url \in Sessions
       /\ sessions[booking.url].terms.amount = booking.quote.price
  /\ booking.paid => booking.url \in Sessions
  /\ LedgerAgrees
  /\ NoOrphanPayment

\* A mail goes out once its fact is stored, and a fact is stored once.
Due(mail) == \E r \in Requests : req[r].pc = "emit" /\ req[r].mail = mail

MailInv ==
  /\ OneMailPerFact
  /\ booking.status = "pending" \/ Due("confirmed") \/ Due("payment_link") =>
       mails["confirmed"] = 0 /\ mails["payment_link"] = 0
  /\ Due("confirmed") \/ Due("payment_link") => booking.status # "pending"
  /\ booking.status # "cancelled" \/ Due("cancelled") => mails["cancelled"] = 0
  /\ Due("cancelled") => booking.status = "cancelled"
  /\ ~booking.paid \/ Due("payment_received") => mails["payment_received"] = 0
  /\ Due("payment_received") => booking.paid

\* A checkout handler under way.
Collecting(q) ==
  /\ q.op # "handleWebhook"
  /\ q.pc \in {"checkout", "upsert"} \/ q.session # NoSession

\* From the document a handler has loaded to the one it will save.
Leads(q, new) ==
  /\ Sound(new)
  /\ new.status # booking.status => /\ CanTransition(booking.status, new.status)
                                    /\ new.status # "paid"
  /\ Revises(booking.quote, new.quote)
  /\ q.mail \in {"confirmed", "payment_link"} => /\ booking.status = "pending"
                                                 /\ new.status # "pending"
  /\ q.mail = "cancelled" => /\ booking.status # "cancelled"
                             /\ new.status = "cancelled"
  /\ q.mail = "payment_received" => q.op = "handleWebhook"
  /\ q.op # "handleWebhook" => new.paid = booking.paid
  /\ ~Collecting(q) /\ new.lifecycle \in Awaiting =>
       booking.lifecycle \in Awaiting /\ new.quote.price = booking.quote.price
  /\ Collecting(q) =>
       /\ booking.url = NoSession /\ q.offer.amount > 0
       /\ booking.status # "cancelled"
       /\ new.status \in {booking.status, "confirmed"}
       /\ new.lifecycle \in Awaiting => new.quote.price = q.offer.amount
  /\ q.op = "handleWebhook" =>
       /\ new.paid /\ ~booking.paid
       /\ new.status = booking.status /\ booking.status # "cancelled"

\* The sessions and the row the execution relies on.
Holds(q) ==
  /\ q.pc = "upsert" \/ (q.pc = "save" /\ Collecting(q)) =>
       /\ q.session \in Sessions
       /\ sessions[q.session] = [state |-> "open", terms |-> q.offer]
  /\ q.op = "handleWebhook" =>
       /\ q.pc \in {"record", "save"}
       /\ q.session \in Sessions
       /\ sessions[q.session] = [state |-> "paid", terms |-> q.offer]
  /\ q.op = "handleWebhook" /\ q.pc = "save" =>
       payment.session = q.session /\ payment.amount = q.offer.amount

InHand(q) ==
  /\ q.pc # "idle" => exists
  /\ q.pc = "dropBooking" => payment = NoPayment
  /\ q.refused => q.pc = "checkout"
  /\ q.pc \in {"checkout", "upsert", "record", "save"} /\ ~q.refused =>
       Leads(q, Stored(q)) /\ Holds(q)
  /\ q.pc = "record" => q.op = "handleWebhook"

\* No other handler changes the document between the load and the save.
SerialInv ==
  /\ Sound(booking)
  /\ StoresInv
  /\ MailInv
  /\ \A r \in Requests : InHand(req[r])

-----------------------------------------------------------------------------
(* What a handler leads to *)

\* The document that the execution will save, field by field.
LEMMA StoredFields ==
  ASSUME booking \in Bookings, NEW update, NEW q, q.set = Changed(update)
  PROVE  LET new == Stored(q)
             Field(f) == IF f \in DOMAIN update THEN update[f] ELSE booking[f]
         IN /\ new.status = Field("status")
            /\ new.commercial = Field("commercial")
            /\ new.lifecycle = Field("lifecycle")
            /\ new.quote = Field("quote")
            /\ new.preview = Field("preview")
            /\ new.paid = Field("paid")
            /\ new.started = booking.started
            /\ new.completed = booking.completed
BY DEF Stored, Changed

\* No handler but the webhook is about to do anything with the money yet.
LEMMA SavesInHand ==
  ASSUME TypeOK, NEW r \in Requests, NEW op, NEW update, NEW mail,
         Saves(r, op, update, mail), exists, op # "handleWebhook",
         mail # "payment_received",
         \A q : q.set = Changed(update) =>
           LET new == Stored(q)
           IN /\ Sound(new)
              /\ new.status # booking.status =>
                   /\ CanTransition(booking.status, new.status)
                   /\ new.status # "paid"
              /\ Revises(booking.quote, new.quote)
              /\ new.paid = booking.paid
              /\ new.lifecycle \in Awaiting =>
                   /\ booking.lifecycle \in Awaiting
                   /\ new.quote.price = booking.quote.price
              /\ mail \in {"confirmed", "payment_link"} =>
                   booking.status = "pending" /\ new.status # "pending"
              /\ mail = "cancelled" =>
                   booking.status # "cancelled" /\ new.status = "cancelled"
  PROVE  InHand(req[r])'
<1> DEFINE q == [pc |-> "save", op |-> op, set |-> Changed(update),
                 offer |-> NoTerms, session |-> NoSession, refused |-> FALSE,
                 mail |-> mail]
<1>1. req'[r] = q /\ UNCHANGED <<exists, booking, payment, purged, sessions>>
  BY DEF Saves, Becomes, TypeOK
<1>2. Leads(q, Stored(q))
  BY DEF Leads, Collecting
<1>3. Holds(q) /\ ~Collecting(q)
  BY DEF Holds, Collecting
<1>4. InHand(q)
  BY <1>2, <1>3 DEF InHand
<1> HIDE DEF q
<1> QED
  BY <1>1, <1>4 DEF InHand, Leads, Holds, Stored, StoresLink, Collecting

\* The document a handler of the quote workflow makes of the stored one.
Requoted(commercial, quote, preview) ==
  [status |-> booking.status, commercial |-> commercial,
   lifecycle |-> LifecycleOrNotReady, quote |-> quote, preview |-> preview,
   started |-> booking.started, completed |-> booking.completed]

LEMMA RequotedInHand ==
  ASSUME TypeOK, NEW r \in Requests, NEW op, exists, op # "handleWebhook",
         NEW commercial, NEW quote, NEW preview, NEW update,
         Saves(r, op, update, "none"),
         \/ update = QuoteUpdate(commercial, quote) /\ preview = booking.preview
         \/ update = [commercial |-> commercial,
                      lifecycle |-> LifecycleOrNotReady,
                      quote |-> quote, preview |-> preview],
         Sound(Requoted(commercial, quote, preview)),
         Revises(booking.quote, quote),
         booking.lifecycle \in Awaiting => quote.price = booking.quote.price
  PROVE  InHand(req[r])'
<1>0. booking \in Bookings
  BY DEF TypeOK
<1>1. /\ {"commercial", "lifecycle", "quote"} \subseteq DOMAIN update
      /\ DOMAIN update
           \subseteq {"commercial", "lifecycle", "quote", "preview"}
      /\ update["commercial"] = commercial
      /\ update["lifecycle"] = LifecycleOrNotReady
      /\ update["quote"] = quote
      /\ "preview" \in DOMAIN update => update["preview"] = preview
      /\ "preview" \notin DOMAIN update => preview = booking.preview
  BY DEF QuoteUpdate
<1>2. ASSUME NEW q, q.set = Changed(update)
      PROVE  LET new == Stored(q)
             IN /\ new.status = booking.status /\ new.commercial = commercial
                /\ new.lifecycle = LifecycleOrNotReady /\ new.quote = quote
                /\ new.preview = preview /\ new.paid = booking.paid
                /\ new.started = booking.started
                /\ new.completed = booking.completed
  BY <1>0, <1>1, <1>2, StoredFields
<1>3. LifecycleOrNotReady \in Awaiting => booking.lifecycle \in Awaiting
  BY DEF LifecycleOrNotReady, Awaiting
<1>4. ASSUME NEW q, q.set = Changed(update)
      PROVE  Sound(Stored(q))
  BY <1>2, <1>4 DEF Sound, Coherent, Clocked, Requoted
<1> QED
  BY <1>2, <1>3, <1>4, SavesInHand

LEMMA QuoteHandlersInHand ==
  ASSUME TypeOK, Sound(booking), NEW r \in Requests, QuoteHandlers(r)
  PROVE  InHand(req[r])'
<1>0. booking \in Bookings
  BY DEF TypeOK
<1>t. /\ booking.quote.version \in Nat /\ booking.quote.price \in Nat
      /\ booking.preview \in Nat
      /\ booking.quote = [version |-> booking.quote.version,
                          status |-> booking.quote.status,
                          price |-> booking.quote.price]
  <2>1. booking.quote \in Quotes /\ booking.preview \in Amounts
    BY <1>0 DEF Bookings
  <2>2. Amounts \subseteq Nat /\ 0..MaxVersion \subseteq Nat
    BY PricesAssumption, VersionAssumption DEF Amounts
  <2> QED
    BY <2>1, <2>2 DEF Quotes
<1>l. /\ booking.lifecycle = "voided" <=> LifecycleOrNotReady = "voided"
      /\ booking.lifecycle \in Awaiting <=> LifecycleOrNotReady \in Awaiting
  BY DEF LifecycleOrNotReady, Awaiting
<1>1. CASE StartQuoteReview(r)
  <2>1. /\ exists /\ booking.commercial \in {"under_review", "quote_requested"}
        /\ Saves(r, "startQuoteReview",
                 QuoteUpdate("under_review", booking.quote), "none")
    BY <1>1 DEF StartQuoteReview, Loads, CommercialAllowed
  <2>2. Sound(Requoted("under_review", booking.quote, booking.preview))
    BY <1>t, <1>l, <2>1
       DEF Sound, Coherent, Clocked, Requoted, NoQuote, IsQuoteFlow
  <2>3. Revises(booking.quote, booking.quote)
    BY <1>t, <2>1 DEF Revises, Sound
  <2> QED
    BY <2>1, <2>2, <2>3, RequotedInHand
<1>2. ASSUME NEW p \in Prices, NEW firstTime \in BOOLEAN,
             SaveQuoteDraft(r, p, firstTime)
      PROVE  InHand(req[r])'
  <2> DEFINE quote == [QuoteBecomes("draft") EXCEPT !.price = p]
             preview == IF firstTime THEN p ELSE booking.preview
             update == [commercial |-> "quoted_draft",
                        lifecycle |-> LifecycleOrNotReady,
                        quote |-> quote, preview |-> preview]
  <2>1. /\ exists /\ p > 0
        /\ booking.commercial \in {"none", "quote_requested", "under_review",
                                   "quoted_draft"}
        /\ Saves(r, "saveQuoteDraft", update, "none")
    BY <1>2 DEF SaveQuoteDraft, Loads, CommercialAllowed
  <2>2. /\ quote.status = "draft" /\ quote.price = p
        /\ quote.version > 0 /\ quote.version >= booking.quote.version
    BY <1>t DEF QuoteBecomes, Versioned
  <2>3. /\ booking.quote.status \notin {"sent", "accepted"}
        /\ booking.lifecycle \notin Awaiting
    BY <2>1 DEF Sound
  <2> HIDE DEF quote, preview
  <2>4. Sound(Requoted("quoted_draft", quote, preview))
    BY <1>t, <1>l, <2>1, <2>2, <2>3
       DEF Sound, Coherent, Clocked, Requoted, IsQuoteFlow
  <2>5. Revises(booking.quote, quote)
    BY <2>2, <2>3 DEF Revises
  <2> QED
    BY <2>1, <2>3, <2>4, <2>5, RequotedInHand
<1>3. ASSUME NEW status \in QuoteStatuses
      PROVE  LET quote == QuoteBecomes(status)
             IN /\ quote.status = status
                /\ quote.price = booking.quote.price
                /\ quote.version > 0
                /\ quote.version >= booking.quote.version
  BY <1>t DEF QuoteBecomes, Versioned
<1>4. CASE SendQuote(r)
  <2> DEFINE quote == QuoteBecomes("sent")
  <2>1. /\ exists /\ booking.quote.price > 0
        /\ booking.commercial \in {"under_review", "quoted_draft", "quote_sent"}
        /\ Saves(r, "sendQuote", QuoteUpdate("quote_sent", quote), "none")
    BY <1>4 DEF SendQuote, Loads, CommercialAllowed
  <2>2. /\ quote.status = "sent" /\ quote.price = booking.quote.price
        /\ quote.version > 0 /\ quote.version >= booking.quote.version
    BY <1>3 DEF QuoteStatuses
  <2> HIDE DEF quote
  <2>3. booking.lifecycle \notin Awaiting
    BY <2>1 DEF Sound
  <2>4. Sound(Requoted("quote_sent", quote, booking.preview))
    BY <1>t, <1>l, <2>1, <2>2, <2>3
       DEF Sound, Coherent, Clocked, Requoted, IsQuoteFlow
  <2>5. Revises(booking.quote, quote)
    BY <2>2 DEF Revises
  <2> QED
    BY <2>1, <2>2, <2>4, <2>5, RequotedInHand
<1>5. CASE RejectQuote(r)
  <2> DEFINE quote == QuoteBecomes("rejected")
  <2>1. /\ exists
        /\ booking.commercial \in {"quote_requested", "under_review",
                                   "quoted_draft", "quote_sent",
                                   "quote_rejected"}
        /\ Saves(r, "rejectQuote", QuoteUpdate("quote_rejected", quote), "none")
    BY <1>5 DEF RejectQuote, Loads, CommercialAllowed
  <2>2. /\ quote.status = "rejected" /\ quote.price = booking.quote.price
        /\ quote.version > 0 /\ quote.version >= booking.quote.version
    BY <1>3 DEF QuoteStatuses
  <2> HIDE DEF quote
  <2>3. booking.lifecycle \notin Awaiting
    BY <2>1 DEF Sound
  <2>4. Sound(Requoted("quote_rejected", quote, booking.preview))
    BY <1>t, <1>l, <2>1, <2>2, <2>3
       DEF Sound, Coherent, Clocked, Requoted, IsQuoteFlow
  <2>5. Revises(booking.quote, quote)
    BY <2>2 DEF Revises
  <2> QED
    BY <2>1, <2>2, <2>4, <2>5, RequotedInHand
<1>6. CASE ExpireQuote(r)
  <2> DEFINE quote == QuoteBecomes("expired")
  <2>1. /\ exists /\ booking.commercial \in {"quote_sent", "quote_expired"}
        /\ Saves(r, "expireQuote", QuoteUpdate("quote_expired", quote), "none")
    BY <1>6 DEF ExpireQuote, Loads, CommercialAllowed
  <2>2. /\ quote.status = "expired" /\ quote.price = booking.quote.price
        /\ quote.version > 0 /\ quote.version >= booking.quote.version
    BY <1>3 DEF QuoteStatuses
  <2> HIDE DEF quote
  <2>3. booking.lifecycle \notin Awaiting
    BY <2>1 DEF Sound
  <2>4. Sound(Requoted("quote_expired", quote, booking.preview))
    BY <1>t, <1>l, <2>1, <2>2, <2>3
       DEF Sound, Coherent, Clocked, Requoted, IsQuoteFlow
  <2>5. Revises(booking.quote, quote)
    BY <2>2 DEF Revises
  <2> QED
    BY <2>1, <2>2, <2>4, <2>5, RequotedInHand
<1>7. ASSUME NEW op \in {"reopenQuote", "reviseQuote"},
             NEW from \in {"quote_rejected", "quote_sent"},
             ReturnsToReview(r, op, from)
      PROVE  InHand(req[r])'
  <2> DEFINE quote == Revised
  <2>1. /\ exists /\ booking.commercial \in {from, "under_review"}
        /\ Saves(r, op, QuoteUpdate("under_review", quote), "none")
    BY <1>7 DEF ReturnsToReview, Loads, CommercialAllowed
  <2>2. /\ quote.status = "draft" /\ quote.price = booking.quote.price
        /\ quote.version = booking.quote.version + 1
    BY <1>t DEF Revised
  <2> HIDE DEF quote
  <2>3. booking.lifecycle \notin Awaiting
    BY <2>1 DEF Sound
  <2>4. Sound(Requoted("under_review", quote, booking.preview))
    BY <1>t, <1>l, <2>1, <2>2, <2>3
       DEF Sound, Coherent, Clocked, Requoted, IsQuoteFlow
  <2>5. Revises(booking.quote, quote)
    BY <1>t, <2>2 DEF Revises
  <2> QED
    BY <2>1, <2>2, <2>4, <2>5, RequotedInHand
<1> QED
  BY <1>1, <1>2, <1>4, <1>5, <1>6, <1>7
     DEF QuoteHandlers, ReopenQuote, ReviseQuote

\* What an administrator may do to the status.
LEMMA AdminTransitions ==
  ASSUME NEW from \in Statuses, NEW next, next # from,
         TransitionAllowed(from, next, "admin")
  PROVE  /\ CanTransition(from, next) /\ next # "paid"
         /\ next = "confirmed" => from = "pending"
         /\ from = "in_progress" => next \in {"completed", "cancelled"}
         /\ from \notin {"completed", "cancelled"}
<1>1. CanTransition(from, next) /\ "admin" \in SourcesFor(next)
  BY DEF TransitionAllowed
<1>2. next # "paid"
  BY <1>1 DEF SourcesFor
<1> QED
  BY <1>1, <1>2 DEF CanTransition

LEMMA StatusHandlersInHand ==
  ASSUME TypeOK, Sound(booking), NEW r \in Requests,
         \/ \E next \in Statuses : UpdateStatus(r, next)
         \/ CancelByAdmin(r) \/ DeleteAdminPermanent(r)
  PROVE  InHand(req[r])'
<1>0. booking \in Bookings
  BY DEF TypeOK
<1>t. /\ booking.quote \in Quotes /\ booking.quote.version \in Nat
      /\ booking.status \in Statuses
  <2>1. booking.quote \in Quotes /\ booking.status \in Statuses
    BY <1>0 DEF Bookings
  <2> QED
    BY <2>1, VersionAssumption DEF Quotes
<1>1. ASSUME NEW next \in Statuses, UpdateStatus(r, next)
      PROVE  InHand(req[r])'
  <2> DEFINE update == [status |-> next]
             mail == CASE next = "cancelled" -> "cancelled"
                       [] next = "confirmed" ->
                            IF booking.url = NoSession THEN "confirmed"
                                                       ELSE "payment_link"
                       [] OTHER -> "none"
  <2>1. /\ exists /\ booking.status # next
        /\ TransitionAllowed(booking.status, next, "admin")
        /\ Saves(r, "updateStatus", update, mail)
    BY <1>1 DEF UpdateStatus, Loads
  <2>2. /\ mail = "cancelled" => next = "cancelled"
        /\ mail \in {"confirmed", "payment_link"} => next = "confirmed"
        /\ mail # "payment_received"
    OBVIOUS
  <2>3. DOMAIN update = {"status"} /\ update["status"] = next
    OBVIOUS
  <2> HIDE DEF update, mail
  <2>4. /\ CanTransition(booking.status, next) /\ next # "paid"
        /\ next = "confirmed" => booking.status = "pending"
        /\ booking.status = "in_progress" => next \in {"completed", "cancelled"}
        /\ booking.status \notin {"completed", "cancelled"}
    BY <1>t, <2>1, AdminTransitions
  <2>5. ASSUME NEW q, q.set = Changed(update)
        PROVE  LET new == Stored(q)
               IN /\ new.status = next
                  /\ new.commercial = booking.commercial
                  /\ new.lifecycle = booking.lifecycle
                  /\ new.quote = booking.quote
                  /\ new.preview = booking.preview /\ new.paid = booking.paid
                  /\ new.started = booking.started
                  /\ new.completed = booking.completed
    BY <1>0, <2>3, <2>5, StoredFields
  <2>6. ASSUME NEW q, q.set = Changed(update)
        PROVE  Sound(Stored(q))
    BY <2>4, <2>5, <2>6 DEF Sound, Coherent, Clocked
  <2>7. Revises(booking.quote, booking.quote)
    BY <1>t DEF Revises, Sound, Coherent, IsQuoteFlow
  <2> QED
    BY <2>1, <2>2, <2>4, <2>5, <2>6, <2>7, SavesInHand
<1>2. CASE CancelByAdmin(r)
  <2> DEFINE quote == QuoteBecomes("rejected")
             update(c) == [status |-> "cancelled", commercial |-> c,
                           lifecycle |-> "voided", quote |-> quote]
             mail == IF StillOpen THEN "cancelled" ELSE "none"
  <2>1. /\ exists /\ TransitionAllowed(booking.status, "cancelled", "admin")
        /\ \E c : Saves(r, "cancelByAdmin", update(c), mail)
    BY <1>2 DEF CancelByAdmin, Loads
  <2>c. PICK c : Saves(r, "cancelByAdmin", update(c), mail)
    BY <2>1
  <2>2. /\ mail = "cancelled" => booking.status # "cancelled"
        /\ mail \notin {"confirmed", "payment_link", "payment_received"}
    BY DEF StillOpen
  <2>3. /\ DOMAIN update(c) = {"status", "commercial", "lifecycle", "quote"}
        /\ update(c)["status"] = "cancelled"
        /\ update(c)["commercial"] = c
        /\ update(c)["lifecycle"] = "voided"
        /\ update(c)["quote"] = quote
    OBVIOUS
  <2>4. /\ quote.status = "rejected" /\ quote.price = booking.quote.price
        /\ quote.version >= booking.quote.version
    BY <1>t DEF QuoteBecomes, Versioned, Quotes
  <2> HIDE DEF update, mail, quote
  <2>5. booking.status # "cancelled" =>
          /\ CanTransition(booking.status, "cancelled")
          /\ booking.status \notin {"completed", "cancelled"}
    BY <1>t, <2>1, AdminTransitions
  <2>6. ASSUME NEW q, q.set = Changed(update(c))
        PROVE  LET new == Stored(q)
               IN /\ new.status = "cancelled" /\ new.commercial = c
                  /\ new.lifecycle = "voided" /\ new.quote = quote
                  /\ new.preview = booking.preview /\ new.paid = booking.paid
                  /\ new.started = booking.started
                  /\ new.completed = booking.completed
    BY <1>0, <2>3, <2>6, StoredFields
  <2>7. ASSUME NEW q, q.set = Changed(update(c))
        PROVE  Sound(Stored(q))
    BY <2>4, <2>5, <2>6, <2>7 DEF Sound, Coherent, Clocked, Awaiting
  <2>8. Revises(booking.quote, quote)
    BY <2>4 DEF Revises
  <2>9. "voided" \notin Awaiting
    BY DEF Awaiting
  <2> QED
    BY <2>1, <2>c, <2>2, <2>5, <2>6, <2>7, <2>8, <2>9, SavesInHand
<1>3. CASE DeleteAdminPermanent(r)
  <2>1. /\ exists' /\ req'[r].pc = "dropPayments" /\ ~req'[r].refused
        /\ req'[r].op # "handleWebhook"
    BY <1>3 DEF DeleteAdminPermanent, Loads, Becomes, TypeOK
  <2> QED
    BY <2>1 DEF InHand
<1> QED
  BY <1>1, <1>2, <1>3

\* A handler that opens a session has no link yet and leads to one.
LEMMA OpensInHand ==
  ASSUME TypeOK, NEW r \in Requests, NEW op, NEW offer, NEW update,
         NEW refused \in BOOLEAN, NEW mail,
         OpensCheckout(r, op, offer, update, refused, mail),
         exists, op # "handleWebhook", mail \in {"none", "payment_link"},
         booking.url = NoSession, offer.amount > 0,
         booking.status # "cancelled",
         ~refused =>
           \A q : q.set = Changed(update) =>
             LET new == Stored(q)
             IN /\ Sound(new)
                /\ new.status # booking.status =>
                     /\ CanTransition(booking.status, new.status)
                     /\ new.status # "paid"
                /\ new.status \in {booking.status, "confirmed"}
                /\ Revises(booking.quote, new.quote)
                /\ new.paid = booking.paid
                /\ new.lifecycle \in Awaiting => new.quote.price = offer.amount
                /\ mail = "payment_link" =>
                     booking.status = "pending" /\ new.status # "pending"
  PROVE  InHand(req[r])'
<1> DEFINE q == [pc |-> "checkout", op |-> op, set |-> Changed(update),
                 offer |-> offer, session |-> NoSession, refused |-> refused,
                 mail |-> mail]
<1>1. req'[r] = q /\ UNCHANGED <<exists, booking, payment, purged, sessions>>
  BY DEF OpensCheckout, Becomes, TypeOK
<1>2. ~refused => Leads(q, Stored(q))
  BY DEF Leads, Collecting
<1>3. Holds(q)
  BY DEF Holds
<1>4. InHand(q)
  BY <1>2, <1>3 DEF InHand
<1> HIDE DEF q
<1> QED
  BY <1>1, <1>4 DEF InHand, Leads, Holds, Stored, StoresLink, Collecting

LEMMA PaymentHandlersInHand ==
  ASSUME TypeOK, Sound(booking), StoresInv, NEW r \in Requests,
         PaymentHandlers(r)
  PROVE  InHand(req[r])'
<1>0. booking \in Bookings
  BY DEF TypeOK
<1>t. /\ booking.quote \in Quotes /\ booking.quote.version \in Nat
      /\ booking.quote.price \in Nat /\ booking.preview \in Nat
      /\ booking.status \in Statuses /\ booking.paid \in BOOLEAN
  <2>1. /\ booking.quote \in Quotes /\ booking.status \in Statuses
        /\ booking.preview \in Amounts /\ booking.paid \in BOOLEAN
    BY <1>0 DEF Bookings
  <2>2. Amounts \subseteq Nat /\ 0..MaxVersion \subseteq Nat
    BY PricesAssumption, VersionAssumption DEF Amounts
  <2> QED
    BY <2>1, <2>2 DEF Quotes
<1>r. Revises(booking.quote, booking.quote)
  BY <1>t DEF Revises, Sound, Coherent, IsQuoteFlow
<1>1. CASE ConfirmDirectBooking(r)
  <2> DEFINE offer == [amount |-> booking.preview, via |-> "legacy",
                       version |-> 0]
             update == [status |-> "confirmed"]
  <2>1. /\ exists /\ booking.status # "confirmed"
        /\ TransitionAllowed(booking.status, "confirmed", "admin")
        /\ ~IsQuoteFlow(booking.commercial)
        /\ booking.url = NoSession /\ booking.preview > 0
        /\ OpensCheckout(r, "updateStatus", offer, update, FALSE,
                         "payment_link")
    BY <1>1 DEF ConfirmDirectBooking, Loads
  <2>2. offer.amount = booking.preview
    OBVIOUS
  <2>3. DOMAIN update = {"status"} /\ update["status"] = "confirmed"
    OBVIOUS
  <2> HIDE DEF update, offer
  <2>4. /\ CanTransition(booking.status, "confirmed")
        /\ booking.status = "pending"
    BY <1>t, <2>1, AdminTransitions
  <2>5. ASSUME NEW q, q.set = Changed(update)
        PROVE  LET new == Stored(q)
               IN /\ new.status = "confirmed"
                  /\ new.commercial = booking.commercial
                  /\ new.lifecycle = booking.lifecycle
                  /\ new.quote = booking.quote
                  /\ new.preview = booking.preview /\ new.paid = booking.paid
                  /\ new.started = booking.started
                  /\ new.completed = booking.completed
    BY <1>0, <2>3, <2>5, StoredFields
  <2>6. ASSUME NEW q, q.set = Changed(update)
        PROVE  Sound(Stored(q))
    BY <2>4, <2>5, <2>6 DEF Sound, Coherent, Clocked
  <2>7. booking.lifecycle \notin Awaiting
    BY <2>1 DEF Sound, IsQuoteFlow
  <2> QED
    BY <1>r, <2>1, <2>2, <2>4, <2>5, <2>6, <2>7, OpensInHand
<1>2. CASE ConfirmAndSendPayment(r)
  <2> DEFINE price == IF booking.quote.price > 0 THEN booking.quote.price
                                                 ELSE booking.preview
             offer == [amount |-> price, via |-> "admin_confirmed",
                       version |-> 0]
             quote == [version |-> Versioned, status |-> "accepted",
                       price |-> price]
             update == [status |-> "confirmed",
                        commercial |-> "quote_accepted",
                        lifecycle |-> "payment_pending", quote |-> quote]
             refused == ~TransitionAllowed(booking.status, "confirmed", "admin")
             mail == IF booking.status = "confirmed" THEN "none"
                                                     ELSE "payment_link"
  <2>1. /\ exists /\ booking.url = NoSession /\ price > 0
        /\ booking.status # "cancelled"
        /\ OpensCheckout(r, "confirmAndSendPayment", offer, update, refused,
                         mail)
    BY <1>2 DEF ConfirmAndSendPayment, Loads, Chargeable
  <2>2. /\ offer.amount = price /\ refused \in BOOLEAN
        /\ mail \in {"none", "payment_link"}
        /\ mail = "payment_link" => booking.status # "confirmed"
    BY DEF TransitionAllowed, CanTransition
  <2>3. /\ DOMAIN update = {"status", "commercial", "lifecycle", "quote"}
        /\ update["status"] = "confirmed"
        /\ update["commercial"] = "quote_accepted"
        /\ update["lifecycle"] = "payment_pending"
        /\ update["quote"] = quote
    OBVIOUS
  <2>4. /\ quote.status = "accepted" /\ quote.price = price
        /\ quote.version >= booking.quote.version
    BY <1>t DEF Versioned
  <2>5. booking.quote.status \in {"sent", "accepted"} =>
          quote.price = booking.quote.price
    BY <1>t, <2>1, <2>4 DEF Sound
  <2>6. ~refused /\ booking.status # "confirmed" =>
          booking.status = "pending" /\ CanTransition(booking.status, "confirmed")
    BY <1>t, AdminTransitions
  <2> HIDE DEF update, offer, quote, price, refused, mail
  <2>7. ASSUME NEW q, q.set = Changed(update)
        PROVE  LET new == Stored(q)
               IN /\ new.status = "confirmed"
                  /\ new.commercial = "quote_accepted"
                  /\ new.lifecycle = "payment_pending" /\ new.quote = quote
                  /\ new.preview = booking.preview /\ new.paid = booking.paid
                  /\ new.started = booking.started
                  /\ new.completed = booking.completed
    BY <1>0, <2>3, <2>7, StoredFields
  <2>8. ASSUME NEW q, q.set = Changed(update), ~refused
        PROVE  Sound(Stored(q))
    BY <2>1, <2>4, <2>6, <2>7, <2>8 DEF Sound, Coherent, Clocked, IsQuoteFlow
  <2>9. Revises(booking.quote, quote)
    BY <2>4, <2>5 DEF Revises
  <2> QED
    BY <2>1, <2>2, <2>4, <2>6, <2>7, <2>8, <2>9, OpensInHand
<1>3. CASE CreateCheckoutSessionUrl(r)
  <2> DEFINE flow == IsQuoteFlow(booking.commercial)
             amount == IF flow THEN booking.quote.price ELSE booking.preview
             offer == IF flow
                        THEN [amount |-> amount, via |-> "quote",
                              version |-> booking.quote.version]
                        ELSE [amount |-> amount, via |-> "legacy",
                              version |-> 0]
             lifecycle == IF flow THEN "checkout_created"
                                  ELSE booking.lifecycle
             update == [lifecycle |-> lifecycle]
  <2>1. /\ exists /\ booking.url = NoSession /\ amount > 0 /\ Payable
        /\ booking.status # "cancelled"
        /\ OpensCheckout(r, "createCheckoutSessionUrl", offer, update, FALSE,
                         "none")
    BY <1>3 DEF CreateCheckoutSessionUrl, Loads, Chargeable
  <2>2. offer.amount = amount
    OBVIOUS
  <2>3. DOMAIN update = {"lifecycle"} /\ update["lifecycle"] = lifecycle
    OBVIOUS
  <2>4. IF flow THEN /\ booking.commercial = "quote_accepted"
                     /\ booking.lifecycle = "invoice_ready"
                     /\ lifecycle = "checkout_created"
                     /\ amount = booking.quote.price
                ELSE /\ lifecycle = booking.lifecycle
                     /\ booking.lifecycle \notin Awaiting
    BY <2>1 DEF Payable, Sound, IsQuoteFlow
  <2> HIDE DEF update, offer, lifecycle, amount
  <2>7. ASSUME NEW q, q.set = Changed(update)
        PROVE  LET new == Stored(q)
               IN /\ new.status = booking.status
                  /\ new.commercial = booking.commercial
                  /\ new.lifecycle = lifecycle /\ new.quote = booking.quote
                  /\ new.preview = booking.preview /\ new.paid = booking.paid
                  /\ new.started = booking.started
                  /\ new.completed = booking.completed
    BY <1>0, <2>3, <2>7, StoredFields
  <2>8. ASSUME NEW q, q.set = Changed(update)
        PROVE  Sound(Stored(q))
    BY <2>4, <2>7, <2>8 DEF Sound, Coherent, Clocked, IsQuoteFlow
  <2> QED
    BY <1>r, <2>1, <2>2, <2>4, <2>7, <2>8, OpensInHand
<1>4. ASSUME NEW s \in Sessions, DeliverSessionCompleted(r, s)
      PROVE  InHand(req[r])'
  <2> DEFINE flow == IsQuoteFlow(booking.commercial)
             lifecycle == IF flow THEN "paid" ELSE booking.lifecycle
             update == [paid |-> TRUE, lifecycle |-> lifecycle]
             q == [pc |-> "record", op |-> "handleWebhook",
                   set |-> Changed(update), offer |-> sessions[s].terms,
                   session |-> s, refused |-> FALSE,
                   mail |-> "payment_received"]
  <2>1. /\ exists /\ sessions[s].state = "paid" /\ ~booking.paid
        /\ booking.status # "cancelled" /\ Becomes(r, q)
    BY <1>4 DEF DeliverSessionCompleted, Loads, Collected
  <2>2. /\ DOMAIN update = {"paid", "lifecycle"} /\ update["paid"] = TRUE
        /\ update["lifecycle"] = lifecycle
    OBVIOUS
  <2>3. lifecycle \notin Awaiting
    BY DEF Awaiting, Sound, IsQuoteFlow
  <2>4. lifecycle # "voided" => booking.lifecycle # "voided" \/ flow
    OBVIOUS
  <2>5. flow => booking.lifecycle # "voided"
    BY <1>4 DEF DeliverSessionCompleted, Settleable
  <2>6. /\ q.set = Changed(update) /\ q.pc = "record" /\ q.session = s
        /\ q.op = "handleWebhook" /\ q.offer = sessions[s].terms /\ ~q.refused
        /\ q.mail = "payment_received"
    OBVIOUS
  <2>7. sessions[s] = [state |-> "paid", terms |-> q.offer]
    BY <2>1 DEF TypeOK
  <2> HIDE DEF update, lifecycle, q
  <2>8. LET new == Stored(q)
        IN /\ new.status = booking.status
           /\ new.commercial = booking.commercial
           /\ new.lifecycle = lifecycle /\ new.quote = booking.quote
           /\ new.preview = booking.preview /\ new.paid
           /\ new.started = booking.started
           /\ new.completed = booking.completed
    BY <1>0, <2>2, <2>6, StoredFields
  <2>9. Sound(Stored(q))
    BY <2>3, <2>4, <2>5, <2>8 DEF Sound, Coherent, Clocked
  <2>10. Leads(q, Stored(q))
    BY <1>r, <2>1, <2>3, <2>6, <2>8, <2>9 DEF Leads, Collecting
  <2>11. Holds(q)
    BY <2>6, <2>7 DEF Holds, Collecting
  <2>12. InHand(q)
    BY <2>1, <2>6, <2>10, <2>11 DEF InHand
  <2>13. /\ req'[r] = q
         /\ UNCHANGED <<exists, booking, payment, purged, sessions>>
    BY <2>1 DEF Becomes, TypeOK
  <2> QED
    BY <2>12, <2>13 DEF InHand, Leads, Holds, Stored, StoresLink, Collecting
<1> QED
  BY <1>1, <1>2, <1>3, <1>4 DEF PaymentHandlers

-----------------------------------------------------------------------------
(* Every step keeps the invariant *)

\* What concerns nobody but the execution under way.
LEMMA AloneInHand ==
  ASSUME OneAtATime, NEW r \in Requests, InHand(req[r])'
  PROVE  \A x \in Requests : InHand(req[x])'
BY DEF OneAtATime

LEMMA AloneIsDue ==
  ASSUME OneAtATime, NEW r \in Requests, NEW mail
  PROVE  /\ Due(mail) <=> req[r].pc = "emit" /\ req[r].mail = mail
         /\ Due(mail)' <=> req'[r].pc = "emit" /\ req'[r].mail = mail
BY DEF OneAtATime, Due

LEMMA LoadKeepsSerial ==
  ASSUME TypeOK, OneAtATime, SerialInv, NEW r \in Requests, NEW q,
         Planned(q), Becomes(r, q), req[r].pc = "idle", InHand(req[r])'
  PROVE  SerialInv'
<1>1. /\ UNCHANGED <<exists, booking, payment, purged, sessions, mails>>
      /\ req'[r].pc # "emit"
  BY DEF Becomes, Planned, TypeOK
<1>2. Sound(booking)' /\ StoresInv'
  BY <1>1 DEF SerialInv, StoresInv, HandedOut, LedgerAgrees, NoOrphanPayment
<1>3. \A mail : ~Due(mail) /\ ~Due(mail)'
  BY <1>1, AloneIsDue
<1>4. MailInv'
  BY <1>1, <1>3 DEF SerialInv, MailInv, OneMailPerFact
<1> QED
  BY <1>2, <1>4, AloneInHand DEF SerialInv

LEMMA CrewKeepsSerial ==
  ASSUME TypeOK, OneAtATime, SerialInv, NEW r \in Requests,
         AssignBooking(r) \/ StartBooking(r) \/ CompleteBooking(r)
  PROVE  SerialInv'
<1>1. /\ exists /\ req[r].pc = "idle" /\ req' = req
      /\ UNCHANGED <<exists, payment, purged, sessions, mails>>
  BY DEF AssignBooking, StartBooking, CompleteBooking, Writes, Loads
<1>2. /\ booking'.commercial = booking.commercial
      /\ booking'.lifecycle = booking.lifecycle
      /\ booking'.quote = booking.quote /\ booking'.preview = booking.preview
      /\ booking'.url = booking.url /\ booking'.paid = booking.paid
      /\ booking'.status = "pending" <=> booking.status = "pending"
      /\ booking'.status = "cancelled" <=> booking.status = "cancelled"
  BY DEF AssignBooking, StartBooking, CompleteBooking, Writes, TypeOK, Bookings
<1>3. Clocked(booking)'
  BY DEF SerialInv, Sound, Clocked, AssignBooking, StartBooking,
         CompleteBooking, Writes, TypeOK, Bookings
<1>4. Sound(booking)'
  BY <1>2, <1>3 DEF SerialInv, Sound, Coherent
<1>5. StoresInv'
  BY <1>1, <1>2
     DEF SerialInv, StoresInv, HandedOut, LedgerAgrees, NoOrphanPayment
<1>6. MailInv'
  BY <1>1, <1>2 DEF SerialInv, MailInv, OneMailPerFact, Due
<1>7. InHand(req[r])'
  BY <1>1 DEF InHand, SerialInv
<1> QED
  BY <1>4, <1>5, <1>6, <1>7, AloneInHand DEF SerialInv

\* The execution ends, and with it what it was about to do.
LEMMA EndsInHand ==
  ASSUME NEW r \in Requests, req'[r] = Idle
  PROVE  InHand(req[r])' /\ req'[r].pc # "emit"
BY DEF InHand, Idle

\* The execution goes on with the plan it made.
LEMMA LeadsOn ==
  ASSUME NEW r \in Requests, Leads(req[r], Stored(req[r])),
         booking' = booking, req'[r].set = req[r].set,
         req'[r].op = req[r].op, req'[r].mail = req[r].mail,
         req'[r].offer = req[r].offer,
         Collecting(req[r])' <=> Collecting(req[r])
  PROVE  Leads(req[r], Stored(req[r]))'
<1> DEFINE old == Stored(req[r])
           new == Stored(req[r])'
<1>1. /\ new.status = old.status /\ new.commercial = old.commercial
      /\ new.lifecycle = old.lifecycle /\ new.quote = old.quote
      /\ new.preview = old.preview /\ new.paid = old.paid
      /\ new.started = old.started /\ new.completed = old.completed
  BY DEF Stored
<1> HIDE DEF old, new
<1>2. Sound(old) => Sound(new)
  BY <1>1 DEF Sound, Coherent, Clocked
<1>3. Leads(req'[r], new)
  BY <1>1, <1>2 DEF Leads, old
<1> QED
  BY <1>3 DEF Leads, new

LEMMA IssueSessionKeepsSerial ==
  ASSUME TypeOK, OneAtATime, SerialInv, NEW r \in Requests, NEW s \in Sessions,
         IssueSession(r, s)
  PROVE  SerialInv'
<1>1. /\ req[r].pc = "checkout" /\ InHand(req[r]) /\ IsRequest(req[r])
      /\ sessions[s].state = "unused"
      /\ sessions'[s] = [state |-> "open", terms |-> req[r].offer]
      /\ \A t \in Sessions \ {s} : sessions'[t] = sessions[t]
      /\ UNCHANGED <<exists, booking, payment, purged, mails>>
  BY DEF IssueSession, SerialInv, TypeOK
<1>2. /\ HandedOut' = HandedOut /\ s \notin HandedOut
      /\ booking.url # s
  BY <1>1 DEF HandedOut, SerialInv, StoresInv
<1>3. Sound(booking)'
  BY <1>1 DEF SerialInv
<1>4. StoresInv'
  BY <1>1, <1>2
     DEF SerialInv, StoresInv, LedgerAgrees, NoOrphanPayment
<1>5. InHand(req[r])' /\ req'[r].pc # "emit"
  <2>1. CASE req[r].refused
    <3>1. req'[r] = Idle
      BY <2>1 DEF IssueSession, TypeOK
    <3> QED
      BY <3>1, EndsInHand
  <2>2. CASE ~req[r].refused
    <3>1. req'[r] = [req[r] EXCEPT !.pc = "upsert", !.session = s]
      BY <2>2 DEF IssueSession, TypeOK
    <3>2. /\ req'[r].pc = "upsert" /\ req'[r].session = s
          /\ req'[r].set = req[r].set /\ req'[r].op = req[r].op
          /\ req'[r].mail = req[r].mail /\ req'[r].offer = req[r].offer
          /\ req'[r].refused = req[r].refused
      BY <1>1, <3>1 DEF IsRequest
    <3>3. req[r].op # "handleWebhook"
      BY <1>1, <2>2 DEF InHand, Holds
    <3>4. Collecting(req[r])' /\ Collecting(req[r])
      BY <1>1, <3>2, <3>3 DEF Collecting
    <3>5. Leads(req[r], Stored(req[r]))'
      BY <1>1, <2>2, <3>2, <3>4, LeadsOn DEF InHand
    <3>6. Holds(req[r])'
      BY <1>1, <3>2, <3>3 DEF Holds
    <3> QED
      BY <1>1, <2>2, <3>2, <3>5, <3>6 DEF InHand
  <2> QED
    BY <2>1, <2>2
<1>6. \A mail : ~Due(mail) /\ ~Due(mail)'
  BY <1>1, <1>5, AloneIsDue
<1>7. MailInv'
  BY <1>1, <1>6 DEF SerialInv, MailInv, OneMailPerFact
<1> QED
  BY <1>3, <1>4, <1>5, <1>7, AloneInHand DEF SerialInv

\* A step that writes the Payment row before the booking is saved.
LEMMA RowStepKeepsSerial ==
  ASSUME TypeOK, OneAtATime, SerialInv, NEW r \in Requests,
         req[r].pc \in {"upsert", "record"},
         req' = [req EXCEPT ![r] = req'[r]],
         req'[r] \in {Idle, [req[r] EXCEPT !.pc = "save"]},
         UNCHANGED <<exists, booking, purged, sessions, mails>>,
         req[r].pc = "record" /\ req'[r] # Idle =>
           /\ payment'.session = req[r].session
           /\ payment'.amount = req[r].offer.amount
  PROVE  SerialInv'
<1>1. /\ InHand(req[r]) /\ IsRequest(req[r]) /\ exists
      /\ Leads(req[r], Stored(req[r])) /\ Holds(req[r])
  BY DEF SerialInv, InHand, TypeOK
<1>2. ~booking.paid
  <2>1. CASE req[r].op = "handleWebhook"
    BY <1>1, <2>1 DEF Leads
  <2>2. CASE req[r].op # "handleWebhook"
    <3>1. Collecting(req[r])
      BY <1>1, <2>2 DEF Collecting, InHand
    <3> QED
      BY <1>1, <3>1, SessionsAssumption DEF Leads, SerialInv, StoresInv
  <2> QED
    BY <2>1, <2>2
<1>3. Sound(booking)'
  BY DEF SerialInv
<1>4. StoresInv'
  BY <1>1, <1>2
     DEF SerialInv, StoresInv, LedgerAgrees, NoOrphanPayment, HandedOut
<1>5. InHand(req[r])' /\ req'[r].pc # "emit"
  <2>1. CASE req'[r] = Idle
    BY <2>1, EndsInHand
  <2>2. CASE req'[r] # Idle
    <3>1. req'[r] = [req[r] EXCEPT !.pc = "save"]
      BY <2>2
    <3>2. /\ req'[r].pc = "save" /\ req'[r].session = req[r].session
          /\ req'[r].set = req[r].set /\ req'[r].op = req[r].op
          /\ req'[r].mail = req[r].mail /\ req'[r].offer = req[r].offer
          /\ req'[r].refused = req[r].refused
      BY <1>1, <3>1 DEF IsRequest
    <3>3. /\ req[r].pc = "record" <=> req[r].op = "handleWebhook"
          /\ req[r].pc = "upsert" => req[r].session \in Sessions
      BY <1>1 DEF Holds, InHand
    <3>4. Collecting(req[r])' <=> Collecting(req[r])
      BY <3>2, <3>3, SessionsAssumption DEF Collecting
    <3>5. Leads(req[r], Stored(req[r]))'
      BY <1>1, <3>2, <3>4, LeadsOn
    <3>6. Holds(req[r])'
      BY <1>1, <2>2, <3>2, <3>3 DEF Holds, Collecting
    <3> QED
      BY <1>1, <3>2, <3>5, <3>6 DEF InHand
  <2> QED
    BY <2>1, <2>2
<1>6. \A mail : ~Due(mail) /\ ~Due(mail)'
  BY <1>5, AloneIsDue
<1>7. MailInv'
  BY <1>6 DEF SerialInv, MailInv, OneMailPerFact
<1> QED
  BY <1>3, <1>4, <1>5, <1>7, AloneInHand DEF SerialInv

LEMMA UpsertKeepsSerial ==
  ASSUME TypeOK, OneAtATime, SerialInv, NEW r \in Requests, UpsertPayment(r)
  PROVE  SerialInv'
<1>1. /\ req[r].pc = "upsert"
      /\ req' = [req EXCEPT ![r] = req'[r]]
      /\ req'[r] \in {Idle, [req[r] EXCEPT !.pc = "save"]}
  BY DEF UpsertPayment, TypeOK
<1>2. UNCHANGED <<exists, booking, purged, sessions, mails>>
  BY DEF UpsertPayment
<1> QED
  BY <1>1, <1>2, RowStepKeepsSerial

LEMMA RecordKeepsSerial ==
  ASSUME TypeOK, OneAtATime, SerialInv, NEW r \in Requests, RecordPayment(r)
  PROVE  SerialInv'
<1>1. /\ req[r].pc = "record"
      /\ req' = [req EXCEPT ![r] = req'[r]]
      /\ req'[r] \in {Idle, [req[r] EXCEPT !.pc = "save"]}
      /\ payment'.session = req[r].session
      /\ req'[r] # Idle => payment'.amount = req[r].offer.amount
  BY DEF RecordPayment, PaidRow, TypeOK
<1>2. UNCHANGED <<exists, booking, purged, sessions, mails>>
  BY DEF RecordPayment
<1> QED
  BY <1>1, <1>2, RowStepKeepsSerial

LEMMA SaveKeepsSerial ==
  ASSUME TypeOK, OneAtATime, SerialInv, NEW r \in Requests, Save(r)
  PROVE  SerialInv'
<1> DEFINE q == req[r]
           new == Stored(q)
           own == StoresLink(q)
<1>1. /\ q.pc = "save" /\ exists /\ InHand(q) /\ booking' = new
      /\ UNCHANGED <<exists, payment, purged, mails>>
      /\ IsRequest(q)
  BY DEF Save, SerialInv, TypeOK
<1>2. /\ Leads(q, new) /\ Holds(q)
      /\ own <=> Collecting(q)
  BY <1>1 DEF InHand, StoresLink, Collecting
<1>3. new.url = IF own THEN q.session ELSE booking.url
  BY DEF Stored
<1>4. Sound(booking)'
  <2>1. Sound(new)
    BY <1>2 DEF Leads
  <2> QED
    BY <1>1, <2>1 DEF Sound
<1>5. StoresInv'
  <2>1. CASE own
    <3>1. /\ q.session \in Sessions /\ booking.url = NoSession
          /\ sessions[q.session] = [state |-> "open", terms |-> q.offer]
          /\ new.paid = booking.paid
          /\ new.lifecycle \in Awaiting => new.quote.price = q.offer.amount
      BY <1>1, <1>2, <2>1 DEF Leads, Holds, StoresLink
    <3>2. ~booking.paid /\ HandedOut = {}
      BY <3>1, SessionsAssumption DEF SerialInv, StoresInv, HandedOut
    <3>3. /\ sessions'[q.session] = [state |-> "published", terms |-> q.offer]
          /\ \A t \in Sessions \ {q.session} : sessions'[t] = sessions[t]
      BY <2>1, <3>1 DEF Save, TypeOK
    <3>4. HandedOut' = {q.session}
      BY <3>1, <3>2, <3>3 DEF HandedOut
    <3> HIDE DEF new, q, own
    <3> QED
      BY <1>1, <1>3, <2>1, <3>1, <3>2, <3>3, <3>4
         DEF StoresInv, LedgerAgrees, NoOrphanPayment
  <2>2. CASE ~own
    <3>1. /\ sessions' = sessions /\ HandedOut' = HandedOut
          /\ new.url = booking.url
      BY <1>3, <2>2 DEF Save, HandedOut
    <3>2. new.lifecycle \in Awaiting =>
            booking.lifecycle \in Awaiting /\ new.quote.price = booking.quote.price
      BY <1>2, <2>2 DEF Leads
    <3>3. CASE q.op = "handleWebhook"
      <4>1. /\ q.session \in Sessions
            /\ sessions[q.session] = [state |-> "paid", terms |-> q.offer]
            /\ payment.session = q.session /\ payment.amount = q.offer.amount
        BY <1>1, <1>2, <3>3 DEF Holds
      <4>2. booking.url = q.session
        BY <4>1 DEF SerialInv, StoresInv, HandedOut
      <4> HIDE DEF new, q, own
      <4> QED
        BY <1>1, <3>1, <3>2, <4>1, <4>2
           DEF SerialInv, StoresInv, LedgerAgrees, NoOrphanPayment
    <3>4. CASE q.op # "handleWebhook"
      <4>1. new.paid = booking.paid
        BY <1>2, <3>4 DEF Leads
      <4> HIDE DEF new, q, own
      <4> QED
        BY <1>1, <3>1, <3>2, <4>1
           DEF SerialInv, StoresInv, LedgerAgrees, NoOrphanPayment
    <3> QED
      BY <3>3, <3>4
  <2> QED
    BY <2>1, <2>2
<1>6. InHand(req[r])' /\ (req'[r].pc = "emit" => req'[r].mail = q.mail)
  <2>1. CASE q.mail = "none"
    <3>1. req'[r] = Idle
      BY <2>1 DEF Save, AfterSave, TypeOK
    <3> QED
      BY <3>1, EndsInHand
  <2>2. CASE q.mail # "none"
    <3>1. req'[r] = Emitting(q.mail)
      BY <2>2 DEF Save, AfterSave, TypeOK
    <3> QED
      BY <1>1, <3>1 DEF InHand, Emitting
  <2> QED
    BY <2>1, <2>2
<1>7. MailInv'
  <2>1. \A mail : ~Due(mail) /\ (Due(mail)' => mail = q.mail)
    BY <1>1, <1>6, AloneIsDue
  <2>2. /\ new.status = "pending" => booking.status = "pending"
        /\ booking.status = "cancelled" => new.status = "cancelled"
        /\ q.mail \in {"confirmed", "payment_link"} =>
             booking.status = "pending" /\ new.status # "pending"
        /\ q.mail = "cancelled" =>
             booking.status # "cancelled" /\ new.status = "cancelled"
    BY <1>2 DEF Leads, CanTransition
  <2>3. /\ booking.paid => new.paid
        /\ q.mail = "payment_received" => ~booking.paid /\ new.paid
    BY <1>2 DEF Leads
  <2> HIDE DEF new, q, own
  <2> QED
    BY <1>1, <2>1, <2>2, <2>3 DEF SerialInv, MailInv, OneMailPerFact
<1> QED
  BY <1>4, <1>5, <1>6, <1>7, AloneInHand DEF SerialInv

LEMMA EmitKeepsSerial ==
  ASSUME TypeOK, OneAtATime, SerialInv, NEW r \in Requests, Emit(r)
  PROVE  SerialInv'
<1> DEFINE m == req[r].mail
<1>1. /\ req[r].pc = "emit" /\ m \in Mails /\ req'[r] = Idle
      /\ mails' = [mails EXCEPT ![m] = IF @ < MailCap THEN @ + 1 ELSE @]
      /\ UNCHANGED <<exists, booking, payment, purged, sessions>>
  BY DEF Emit, TypeOK, IsRequest
<1>2. InHand(req[r])' /\ req'[r].pc # "emit"
  BY <1>1, EndsInHand
<1>3. \A mail : (Due(mail) <=> mail = m) /\ ~Due(mail)'
  BY <1>1, <1>2, AloneIsDue
<1>4. Sound(booking)' /\ StoresInv'
  BY <1>1 DEF SerialInv, StoresInv, HandedOut, LedgerAgrees, NoOrphanPayment
<1>5. /\ mails \in [Mails -> Nat]
      /\ mails'[m] \in {mails[m], mails[m] + 1}
      /\ \A n \in Mails \ {m} : mails'[n] = mails[n]
  BY <1>1, MailAssumption DEF TypeOK
<1>6. MailInv'
  <2> HIDE DEF m
  <2> QED
    BY <1>1, <1>3, <1>5 DEF SerialInv, MailInv, OneMailPerFact, Mails
<1> QED
  BY <1>2, <1>4, <1>6, AloneInHand DEF SerialInv

LEMMA EndKeepsSerial ==
  ASSUME TypeOK, OneAtATime, SerialInv, NEW r \in Requests,
         DropPayments(r) \/ DropBooking(r) \/ Abandon(r)
  PROVE  SerialInv'
<1>1. /\ UNCHANGED <<booking, sessions, mails>> /\ HandedOut' = HandedOut
      /\ InHand(req[r]) /\ IsRequest(req[r])
  BY DEF DropPayments, DropBooking, Abandon, Becomes, HandedOut, SerialInv,
         TypeOK
<1>2. /\ \/ UNCHANGED <<payment, purged>>
         \/ purged' /\ payment' = NoPayment
      /\ exists' => exists
      /\ ~exists' => exists' = exists \/ payment' = NoPayment
  BY <1>1 DEF DropPayments, DropBooking, Abandon, Becomes, InHand
<1>3. Sound(booking)'
  BY <1>1 DEF SerialInv
<1>4. StoresInv'
  BY <1>1, <1>2 DEF SerialInv, StoresInv, LedgerAgrees, NoOrphanPayment
<1>5. InHand(req[r])' /\ req'[r].pc # "emit"
  <2>1. CASE DropPayments(r)
    <3>1. /\ req'[r].pc = "dropBooking" /\ req'[r].refused = req[r].refused
          /\ payment' = NoPayment /\ exists' = exists
          /\ req[r].pc = "dropPayments"
      BY <1>1, <2>1 DEF DropPayments, TypeOK, IsRequest
    <3> QED
      BY <1>1, <3>1 DEF InHand
  <2>2. CASE DropBooking(r) \/ Abandon(r)
    <3>1. req'[r] = Idle
      BY <2>2 DEF DropBooking, Abandon, Becomes, TypeOK
    <3> QED
      BY <3>1, EndsInHand
  <2> QED
    BY <2>1, <2>2
<1>6. MailInv'
  <2>1. \A mail : ~Due(mail)'
    BY <1>5, AloneIsDue
  <2> QED
    BY <1>1, <2>1 DEF SerialInv, MailInv, OneMailPerFact
<1> QED
  BY <1>3, <1>4, <1>5, <1>6, AloneInHand DEF SerialInv

LEMMA CustomerKeepsSerial ==
  ASSUME TypeOK, OneAtATime, SerialInv, NEW s \in Sessions, CustomerPays(s)
  PROVE  SerialInv'
<1>1. /\ UNCHANGED <<exists, booking, payment, purged, req, mails>>
      /\ sessions[s].state = "published" /\ sessions'[s].state = "paid"
      /\ sessions'[s].terms = sessions[s].terms
      /\ \A t \in Sessions \ {s} : sessions'[t] = sessions[t]
  BY DEF CustomerPays, TypeOK
<1>2. HandedOut' = HandedOut
  BY <1>1 DEF HandedOut
<1>3. Sound(booking)'
  BY <1>1 DEF SerialInv
<1>4. StoresInv'
  BY <1>1, <1>2 DEF SerialInv, StoresInv, LedgerAgrees, NoOrphanPayment
<1>5. ASSUME NEW r \in Requests PROVE InHand(req[r])'
  <2>1. Holds(req[r]) => Holds(req[r])'
    BY <1>1 DEF Holds, Collecting
  <2>2. Leads(req[r], Stored(req[r])) <=> Leads(req[r], Stored(req[r]))'
    BY <1>1 DEF Leads, Stored, StoresLink, Collecting
  <2> QED
    BY <1>1, <2>1, <2>2 DEF InHand, SerialInv
<1>6. MailInv'
  BY <1>1 DEF SerialInv, MailInv, OneMailPerFact, Due
<1> QED
  BY <1>3, <1>4, <1>5, <1>6 DEF SerialInv

LEMMA SerialInit == Init => SerialInv
<1> SUFFICES ASSUME Init PROVE SerialInv
  OBVIOUS
<1>1. PICK kind \in Documents, p \in Prices : booking = StoredDocument(kind, p)
  BY DEF Init
<1>2. /\ ~booking.paid /\ booking.url = NoSession
      /\ booking.lifecycle \notin Awaiting
  BY <1>1, DocumentsAssumption DEF StoredDocument, Awaiting
<1>3. Sound(booking)
  BY <1>1, PricesAssumption, DocumentsAssumption
     DEF StoredDocument, Sound, Coherent, Clocked, NoQuote, IsQuoteFlow,
         Awaiting
<1>4. StoresInv
  <2>1. HandedOut = {} /\ exists
    BY DEF Init, HandedOut
  <2> QED
    BY <1>2, <2>1, SessionsAssumption
       DEF StoresInv, LedgerAgrees, NoOrphanPayment
<1>5. \A r \in Requests : InHand(req[r]) /\ req[r].pc # "emit"
  BY DEF Init, InHand, Idle
<1>6. MailInv
  BY <1>5 DEF Init, MailInv, OneMailPerFact, Due, Mails
<1> QED
  BY <1>3, <1>4, <1>5, <1>6 DEF SerialInv

LEMMA SerialStep ==
  ASSUME OneAtATime
  PROVE  TypeOK /\ SerialInv /\ [Next]_vars => SerialInv'
<1> SUFFICES ASSUME TypeOK, SerialInv, [Next]_vars PROVE SerialInv'
  OBVIOUS
<1>0. booking \in Bookings /\ Sound(booking) /\ StoresInv
  BY DEF TypeOK, SerialInv
<1>l. ASSUME NEW r \in Requests, NEW q, Planned(q), Becomes(r, q),
             QuoteHandlers(r) \/ StatusHandlers(r) \/ PaymentHandlers(r)
      PROVE  req[r].pc = "idle"
  BY <1>l
     DEF QuoteHandlers, StartQuoteReview, SaveQuoteDraft, SendQuote,
         RejectQuote, ExpireQuote, ReopenQuote, ReviseQuote, ReturnsToReview,
         StatusHandlers, UpdateStatus, CancelByAdmin, DeleteAdminPermanent,
         AssignBooking, StartBooking, CompleteBooking, Writes,
         PaymentHandlers, ConfirmDirectBooking, ConfirmAndSendPayment,
         CreateCheckoutSessionUrl, DeliverSessionCompleted, Loads
<1>1. ASSUME NEW r \in Requests, QuoteHandlers(r) PROVE SerialInv'
  BY <1>0, <1>1, <1>l, QuoteHandlersPlan, QuoteHandlersInHand, LoadKeepsSerial
<1>2. ASSUME NEW r \in Requests, StatusHandlers(r) PROVE SerialInv'
  <2>1. CASE AssignBooking(r) \/ StartBooking(r) \/ CompleteBooking(r)
    BY <2>1, CrewKeepsSerial
  <2>2. CASE \/ \E next \in Statuses : UpdateStatus(r, next)
             \/ CancelByAdmin(r) \/ DeleteAdminPermanent(r)
    <3>1. InHand(req[r])'
      BY <1>0, <2>2, StatusHandlersInHand
    <3>2. \E q : Planned(q) /\ Becomes(r, q)
      <4>1. CrewWrites => req'[r].pc = req[r].pc
        BY DEF CrewWrites
      <4>2. ASSUME NEW op, NEW update, NEW mail, Saves(r, op, update, mail)
            PROVE  req'[r].pc # "idle"
        BY <4>2 DEF Saves, Becomes, TypeOK
      <4>3. req'[r].pc # "idle"
        <5>1. ASSUME NEW next \in Statuses, UpdateStatus(r, next)
              PROVE  \E op, update, mail : Saves(r, op, update, mail)
          BY <5>1 DEF UpdateStatus
        <5>2. CASE CancelByAdmin(r)
          BY <4>2, <5>2 DEF CancelByAdmin
        <5>3. CASE DeleteAdminPermanent(r)
          BY <5>3 DEF DeleteAdminPermanent, Becomes, TypeOK
        <5> QED
          BY <2>2, <4>2, <5>1, <5>2, <5>3
      <4>4. req[r].pc = "idle"
        BY <2>2 DEF UpdateStatus, CancelByAdmin, DeleteAdminPermanent, Loads
      <4> QED
        BY <1>0, <1>2, <4>1, <4>3, <4>4, StatusHandlersPlan
    <3> QED
      BY <1>2, <1>l, <3>1, <3>2, LoadKeepsSerial
  <2> QED
    BY <1>2, <2>1, <2>2 DEF StatusHandlers
<1>3. ASSUME NEW r \in Requests, PaymentHandlers(r) PROVE SerialInv'
  BY <1>0, <1>3, <1>l, PaymentHandlersPlan, PaymentHandlersInHand,
     LoadKeepsSerial
<1>4. ASSUME NEW r \in Requests, Continues(r) PROVE SerialInv'
  BY <1>4, IssueSessionKeepsSerial, UpsertKeepsSerial, RecordKeepsSerial,
     SaveKeepsSerial, EmitKeepsSerial, EndKeepsSerial
     DEF Continues
<1>5. ASSUME NEW r \in Requests, Abandon(r) PROVE SerialInv'
  BY <1>5, EndKeepsSerial
<1>6. ASSUME NEW s \in Sessions, CustomerPays(s) PROVE SerialInv'
  BY <1>6, CustomerKeepsSerial
<1>7. CASE UNCHANGED vars
  <2>1. UNCHANGED <<exists, booking, payment, purged, sessions, req, mails>>
    BY <1>7 DEF vars
  <2>2. Sound(booking)' /\ StoresInv'
    BY <2>1 DEF SerialInv, StoresInv, HandedOut, LedgerAgrees, NoOrphanPayment
  <2>3. MailInv'
    BY <2>1 DEF SerialInv, MailInv, OneMailPerFact, Due
  <2>4. ASSUME NEW r \in Requests PROVE InHand(req[r])'
    BY <2>1 DEF SerialInv, InHand, Leads, Holds, Collecting, Stored, StoresLink
  <2> QED
    BY <2>2, <2>3, <2>4 DEF SerialInv
<1> QED
  BY <1>1, <1>2, <1>3, <1>4, <1>5, <1>6, <1>7 DEF Next

-----------------------------------------------------------------------------
(* The theorems *)

\* The records of one booking agree after every step, wherever an execution is
\* cut off, as long as no two executions overlap.
THEOREM SerialInvariantHolds ==
  ASSUME OneAtATime
  PROVE  Spec => []SerialInv
<1>1. Init => TypeOK /\ SerialInv
  BY TypeInit, SerialInit
<1>2. TypeOK /\ SerialInv /\ [Next]_vars => TypeOK' /\ SerialInv'
  BY TypeStep, SerialStep
<1> QED
  BY <1>1, <1>2, PTL DEF Spec

\* confirmAndSendPayment, updateStatus and createCheckoutSessionUrl hand out
\* one link at most, whatever attempts are cut off and retried.
THEOREM OneSessionPayable ==
  ASSUME OneAtATime
  PROVE  Spec => []OnePayableSession
<1>1. SerialInv => OnePayableSession
  BY DEF SerialInv, StoresInv, OnePayableSession
<1> QED
  BY <1>1, SerialInvariantHolds, PTL

\* The quote handlers, confirmAndSendPayment and cancelByAdmin keep the
\* commercial status and the quote's own status in agreement.
THEOREM QuotesAreCoherent ==
  ASSUME OneAtATime
  PROVE  Spec => []QuoteCoherent
<1>1. SerialInv => QuoteCoherent
  BY DEF SerialInv, Sound, QuoteCoherent
<1> QED
  BY <1>1, SerialInvariantHolds, PTL

\* A booking that waits for its payment has the link of a session that charges
\* its accepted quote.
THEOREM PendingPaymentsHaveLink ==
  ASSUME OneAtATime
  PROVE  Spec => []PendingPaymentHasLink
<1>1. SerialInv => PendingPaymentHasLink
  BY DEF SerialInv, StoresInv, Sound, Awaiting, PendingPaymentHasLink
<1> QED
  BY <1>1, SerialInvariantHolds, PTL

\* The webhook leaves booking, Payment row and session in agreement, also when
\* it is cut off between its two writes and Stripe repeats the event.
THEOREM LedgersAgree ==
  ASSUME OneAtATime
  PROVE  Spec => []LedgerAgrees
<1>1. SerialInv => LedgerAgrees
  BY DEF SerialInv, StoresInv
<1> QED
  BY <1>1, SerialInvariantHolds, PTL

\* startBooking, completeBooking and updateStatus leave time stamps that agree
\* with the operational status.
THEOREM WorkClocksAgree ==
  ASSUME OneAtATime
  PROVE  Spec => []WorkClockAgrees
<1>1. SerialInv => WorkClockAgrees
  BY DEF SerialInv, Sound, WorkClockAgrees
<1> QED
  BY <1>1, SerialInvariantHolds, PTL

\* deleteAdminPermanent, which may be cut off between its two deletions, never
\* leaves a Payment row without its booking.
THEOREM NoPaymentIsOrphaned ==
  ASSUME OneAtATime
  PROVE  Spec => []NoOrphanPayment
<1>1. SerialInv => NoOrphanPayment
  BY DEF SerialInv, StoresInv
<1> QED
  BY <1>1, SerialInvariantHolds, PTL

\* The customer is told of each fact once at most, whatever is repeated.
THEOREM EachFactMailedOnce ==
  ASSUME OneAtATime
  PROVE  Spec => []OneMailPerFact
<1>1. SerialInv => OneMailPerFact
  BY DEF SerialInv, MailInv
<1> QED
  BY <1>1, SerialInvariantHolds, PTL

\* What a step does to the document, seen from outside.
LEMMA DocumentStep ==
  ASSUME OneAtATime, TypeOK, SerialInv, [Next]_vars
  PROVE  \/ booking' = booking
         \/ \E r \in Requests : Save(r)
         \/ \E r \in Requests :
              AssignBooking(r) \/ StartBooking(r) \/ CompleteBooking(r)
<1>1. ASSUME NEW r \in Requests, NEW q, Becomes(r, q) PROVE booking' = booking
  BY <1>1 DEF Becomes
<1>2. ASSUME NEW r \in Requests, QuoteHandlers(r) \/ PaymentHandlers(r)
      PROVE  booking' = booking
  BY <1>1, <1>2, QuoteHandlersPlan, PaymentHandlersPlan
<1>3. ASSUME NEW r \in Requests,
             \/ \E next \in Statuses : UpdateStatus(r, next)
             \/ CancelByAdmin(r) \/ DeleteAdminPermanent(r) \/ Abandon(r)
      PROVE  booking' = booking
  BY <1>3 DEF UpdateStatus, CancelByAdmin, DeleteAdminPermanent, Abandon,
              Saves, Becomes
<1>4. ASSUME NEW r \in Requests, Continues(r), ~Save(r)
      PROVE  booking' = booking
  BY <1>4 DEF Continues, IssueSession, UpsertPayment, RecordPayment, Emit,
              DropPayments, DropBooking
<1>5. ASSUME NEW s \in Sessions, CustomerPays(s) PROVE booking' = booking
  BY <1>5 DEF CustomerPays
<1> QED
  BY <1>2, <1>3, <1>4, <1>5 DEF Next, StatusHandlers, vars

\* sendQuote's terms change only under a higher version, which no handler
\* takes back.
THEOREM QuotesAreRevised ==
  ASSUME OneAtATime
  PROVE  Spec => QuoteRevisions
<1>1. TypeOK /\ SerialInv /\ [Next]_vars =>
        Revises(booking.quote, booking'.quote)
  <2> SUFFICES ASSUME TypeOK, SerialInv, [Next]_vars
               PROVE  Revises(booking.quote, booking'.quote)
    OBVIOUS
  <2>1. Revises(booking.quote, booking.quote)
    <3>1. booking.quote \in Quotes
      BY DEF TypeOK, Bookings
    <3>2. booking.quote.version \in Nat
      BY <3>1, VersionAssumption DEF Quotes
    <3> QED
      BY <3>2 DEF Revises, SerialInv, Sound
  <2>2. ASSUME NEW r \in Requests, Save(r)
        PROVE  Revises(booking.quote, booking'.quote)
    BY <2>2 DEF Save, SerialInv, InHand, Leads
  <2>3. ASSUME NEW r \in Requests,
               AssignBooking(r) \/ StartBooking(r) \/ CompleteBooking(r)
        PROVE  booking'.quote = booking.quote
    BY <2>3 DEF AssignBooking, StartBooking, CompleteBooking, Writes, TypeOK,
                Bookings
  <2> QED
    BY <2>1, <2>2, <2>3, DocumentStep
<1> QED
  BY <1>1, TypeCorrect, SerialInvariantHolds, PTL DEF Spec, QuoteRevisions

-----------------------------------------------------------------------------
(* The refinement of PaymentPromise *)

Charged == {s \in Sessions : sessions[s].state = "paid"}

Owed == IF booking.url = NoSession THEN 0
                                   ELSE sessions[booking.url].terms.amount

PromiseStep ==
  \/ Promise!Next
  \/ UNCHANGED <<booking.status, booking.url, booking.paid, exists, Owed,
                 Charged>>

LEMMA PromiseTransitions ==
  /\ Promise!Statuses = Statuses
  /\ \A from, to : Promise!CanTransition(from, to) <=> CanTransition(from, to)
BY DEF Promise!Statuses, Statuses, Promise!CanTransition, CanTransition

\* The status moves and the money does not.
LEMMA Operates ==
  ASSUME TypeOK', exists, exists' = exists,
         booking'.status # booking.status =>
           /\ CanTransition(booking.status, booking'.status)
           /\ booking'.status # "paid",
         booking'.url = booking.url, booking'.paid = booking.paid,
         Owed' = Owed, Charged' = Charged
  PROVE  PromiseStep
<1>1. CASE booking'.status = booking.status
  BY <1>1 DEF PromiseStep
<1>2. CASE booking'.status # booking.status
  <2>1. booking'.status \in Statuses \ {booking.status, "paid"}
    BY <1>2 DEF TypeOK, Bookings
  <2>2. Promise!Operate
    BY <1>2, <2>1, PromiseTransitions
       DEF Promise!Operate, Promise!money, Owed, Charged
  <2> QED
    BY <2>2 DEF PromiseStep, Promise!Next
<1> QED
  BY <1>1, <1>2

\* A session that is not the booking's is of no account.
LEMMA NewSessionUnseen ==
  ASSUME TypeOK, SerialInv, NEW r \in Requests, NEW s \in Sessions,
         IssueSession(r, s)
  PROVE  Owed' = Owed /\ Charged' = Charged
<1>1. /\ sessions[s].state = "unused" /\ sessions'[s].state = "open"
      /\ \A t \in Sessions \ {s} : sessions'[t] = sessions[t]
      /\ booking' = booking
  BY DEF IssueSession, TypeOK
<1>2. Charged' = Charged
  BY <1>1 DEF Charged
<1>3. booking.url = NoSession \/ booking.url \in Sessions \ {s}
  BY <1>1 DEF SerialInv, StoresInv, HandedOut, TypeOK, Bookings
<1>4. Owed' = Owed
  BY <1>1, <1>3 DEF Owed
<1> QED
  BY <1>2, <1>4

LEMMA SaveKeepsPromise ==
  ASSUME TypeOK, SerialInv, TypeOK', NEW r \in Requests, Save(r)
  PROVE  PromiseStep
<1> DEFINE q == req[r]
           new == Stored(q)
           own == StoresLink(q)
<1>1. /\ q.pc = "save" /\ exists /\ InHand(q) /\ booking' = new
      /\ exists' = exists
  BY DEF Save, SerialInv, TypeOK
<1>2. /\ Leads(q, new) /\ Holds(q)
      /\ own <=> Collecting(q)
  BY <1>1 DEF InHand, StoresLink, Collecting
<1>3. new.url = IF own THEN q.session ELSE booking.url
  BY DEF Stored
<1>4. new.status # booking.status =>
        CanTransition(booking.status, new.status) /\ new.status # "paid"
  BY <1>2 DEF Leads
<1>5. CASE own
  <2>1. /\ q.session \in Sessions /\ booking.url = NoSession
        /\ sessions[q.session] = [state |-> "open", terms |-> q.offer]
        /\ new.paid = booking.paid /\ q.offer.amount > 0
        /\ booking.status # "cancelled"
        /\ new.status \in {booking.status, "confirmed"}
    BY <1>1, <1>2, <1>5 DEF Leads, Holds, StoresLink
  <2>2. ~booking.paid /\ Charged = {}
    BY <2>1, SessionsAssumption
       DEF SerialInv, StoresInv, HandedOut, Charged
  <2>3. /\ sessions'[q.session] = [state |-> "published", terms |-> q.offer]
        /\ \A t \in Sessions \ {q.session} : sessions'[t] = sessions[t]
    BY <1>5, <2>1 DEF Save, TypeOK
  <2>4. Charged' = Charged
    BY <2>1, <2>3 DEF Charged
  <2>5. q.offer.amount \in Amounts \ {0}
    BY <1>1, <2>1 DEF TypeOK, IsRequest, Terms
  <2> HIDE DEF new, q, own
  <2>6. booking'.url = q.session /\ booking'.status = new.status
        /\ booking'.paid = booking.paid
    BY <1>1, <1>3, <1>5, <2>1
  <2>7. Owed' = q.offer.amount
    BY <2>1, <2>3, <2>6, SessionsAssumption DEF Owed
  <2>8. booking'.status \in {s \in {booking.status, "confirmed"} :
                               Promise!CanTransition(booking.status, s)}
    <3>1. CanTransition(booking.status, booking.status)
      BY DEF CanTransition
    <3> QED
      BY <1>4, <2>1, <2>6, <3>1, PromiseTransitions
  <2>9. Promise!Offer
    BY <1>1, <2>1, <2>2, <2>4, <2>5, <2>6, <2>7, <2>8
       DEF Promise!Offer, Owed, Charged
  <2> QED
    BY <2>9 DEF PromiseStep, Promise!Next
<1>6. CASE ~own
  <2>1. /\ sessions' = sessions /\ booking'.url = booking.url
        /\ booking'.status = new.status /\ booking'.paid = new.paid
    BY <1>1, <1>3, <1>6 DEF Save
  <2>2. Owed' = Owed /\ Charged' = Charged
    BY <2>1 DEF Owed, Charged
  <2>3. CASE q.op = "handleWebhook"
    <3>1. /\ q.session \in Sessions
          /\ sessions[q.session] = [state |-> "paid", terms |-> q.offer]
          /\ new.paid /\ ~booking.paid
          /\ new.status = booking.status /\ booking.status # "cancelled"
      BY <1>1, <1>2, <2>3 DEF Holds, Leads
    <3>2. new.paid = TRUE
      BY <2>1, <3>1 DEF TypeOK, Bookings
    <3>3. Charged = {booking.url}
      BY <3>1 DEF SerialInv, StoresInv, HandedOut, Charged
    <3> HIDE DEF new, q, own
    <3>4. Promise!Settle
      BY <1>1, <2>1, <2>2, <3>1, <3>2, <3>3
         DEF Promise!Settle, Owed, Charged
    <3> QED
      BY <3>4 DEF PromiseStep, Promise!Next
  <2>4. CASE q.op # "handleWebhook"
    <3>1. new.paid = booking.paid
      BY <1>2, <2>4 DEF Leads
    <3> HIDE DEF new, q, own
    <3> QED
      BY <1>1, <1>4, <2>1, <2>2, <3>1, Operates
  <2> QED
    BY <2>3, <2>4
<1> QED
  BY <1>5, <1>6

LEMMA StepKeepsPromise ==
  ASSUME OneAtATime, TypeOK, SerialInv, TypeOK', [Next]_vars
  PROVE  PromiseStep
<1>q. ASSUME UNCHANGED <<exists, booking, sessions>>
      PROVE  PromiseStep
  BY <1>q DEF PromiseStep, Owed, Charged
<1>1. ASSUME NEW r \in Requests, QuoteHandlers(r) \/ PaymentHandlers(r)
      PROVE  PromiseStep
  BY <1>1, <1>q, QuoteHandlersPlan, PaymentHandlersPlan DEF Becomes
<1>2. ASSUME NEW r \in Requests,
             \/ \E next \in Statuses : UpdateStatus(r, next)
             \/ CancelByAdmin(r) \/ DeleteAdminPermanent(r) \/ Abandon(r)
      PROVE  PromiseStep
  BY <1>2, <1>q DEF UpdateStatus, CancelByAdmin, DeleteAdminPermanent, Abandon,
                    Saves, Becomes
<1>3. ASSUME NEW r \in Requests,
             AssignBooking(r) \/ StartBooking(r) \/ CompleteBooking(r)
      PROVE  PromiseStep
  <2>1. /\ exists /\ exists' = exists /\ sessions' = sessions
        /\ booking'.url = booking.url /\ booking'.paid = booking.paid
        /\ CanTransition(booking.status, booking'.status)
        /\ booking'.status # "paid"
    BY <1>3 DEF AssignBooking, StartBooking, CompleteBooking, Writes, Loads,
                TypeOK, Bookings, CanTransition
  <2>2. Owed' = Owed /\ Charged' = Charged
    BY <2>1 DEF Owed, Charged
  <2> QED
    BY <2>1, <2>2, Operates
<1>4. ASSUME NEW r \in Requests, NEW s \in Sessions, IssueSession(r, s)
      PROVE  PromiseStep
  BY <1>4, NewSessionUnseen DEF PromiseStep, IssueSession
<1>5. ASSUME NEW r \in Requests,
             UpsertPayment(r) \/ RecordPayment(r) \/ Emit(r) \/ DropPayments(r)
      PROVE  PromiseStep
  BY <1>5, <1>q DEF UpsertPayment, RecordPayment, Emit, DropPayments
<1>6. ASSUME NEW r \in Requests, DropBooking(r)
      PROVE  PromiseStep
  <2>1. /\ exists /\ exists' = FALSE
        /\ UNCHANGED <<booking, sessions>>
    BY <1>6 DEF DropBooking, SerialInv, InHand
  <2>2. Promise!Remove
    BY <2>1 DEF Promise!Remove, Promise!money
  <2> QED
    BY <2>2 DEF PromiseStep, Promise!Next
<1>7. ASSUME NEW s \in Sessions, CustomerPays(s)
      PROVE  PromiseStep
  <2>1. /\ UNCHANGED <<exists, booking>>
        /\ sessions[s].state = "published" /\ sessions'[s].state = "paid"
        /\ sessions'[s].terms = sessions[s].terms
        /\ \A t \in Sessions \ {s} : sessions'[t] = sessions[t]
    BY <1>7 DEF CustomerPays, TypeOK
  <2>2. booking.url = s /\ Charged = {}
    BY <2>1 DEF SerialInv, StoresInv, HandedOut, Charged
  <2>3. Charged' = {s} /\ Owed' = Owed
    BY <2>1, <2>2 DEF Charged, Owed
  <2>4. Promise!Charge
    BY <2>1, <2>2, <2>3, SessionsAssumption
       DEF Promise!Charge, Owed, Charged
  <2> QED
    BY <2>4 DEF PromiseStep, Promise!Next
<1>8. CASE UNCHANGED vars
  BY <1>8, <1>q DEF vars
<1>9. ASSUME NEW r \in Requests, Continues(r) PROVE PromiseStep
  BY <1>4, <1>5, <1>6, <1>9, SaveKeepsPromise DEF Continues
<1> QED
  BY <1>1, <1>2, <1>3, <1>7, <1>8, <1>9 DEF Next, StatusHandlers

\* Every execution that is cut off, repeated or completed is, seen from
\* outside, a step of PaymentPromise or no step at all.
THEOREM PromiseIsKept ==
  ASSUME OneAtATime
  PROVE  Spec => KeepsPromise
<1>1. Init => Promise!Init
  <2> SUFFICES ASSUME Init PROVE Promise!Init
    OBVIOUS
  <2>1. PICK kind \in Documents, p \in Prices :
          booking = StoredDocument(kind, p)
    BY DEF Init
  <2>2. /\ booking.status \in {"pending", "confirmed"}
        /\ booking.url = NoSession /\ booking.paid = FALSE
    BY <2>1, DocumentsAssumption DEF StoredDocument
  <2>3. Charged = {} /\ Owed = 0 /\ exists
    BY <2>2 DEF Init, Charged, Owed
  <2> QED
    BY <2>2, <2>3 DEF Promise!Init, Charged, Owed
<1>2. TypeOK /\ TypeOK' /\ SerialInv /\ [Next]_vars =>
        [Promise!Next]_<<booking.status, Promise!money, ~exists>>
  <2> SUFFICES ASSUME TypeOK, TypeOK', SerialInv, [Next]_vars
               PROVE  [Promise!Next]_<<booking.status, Promise!money, ~exists>>
    OBVIOUS
  <2>1. PromiseStep
    BY StepKeepsPromise
  <2> QED
    BY <2>1 DEF PromiseStep, Promise!money, Owed, Charged
<1> QED
  BY <1>1, <1>2, TypeCorrect, SerialInvariantHolds, PTL
     DEF Spec, KeepsPromise, Promise!Spec
=============================================================================
