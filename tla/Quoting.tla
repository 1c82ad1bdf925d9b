------------------------------- MODULE Quoting -------------------------------
(***************************************************************************)
(* The numbers of a quote: what previewPricing shows, what the two         *)
(* creation endpoints store, what saveQuoteDraft and                       *)
(* applyAdminFirstServiceDiscount make of it, and how an address uses up   *)
(* its first-service discount (DiscountsService).  Several administrators  *)
(* may be at work; each runs in steps separated by its awaits.  The rest   *)
(* of a booking's life is in BookingLifecycle.                             *)
(***************************************************************************)
EXTENDS PriceEngine

CONSTANTS
  Bookings,      \* the bookings that may be created
  Admins,        \* administrator calls that can be in flight together
  Submissions,   \* what customers select, with the rest of what they give:
                 \* address, e-mail, their wish for the discount, and the
                 \* endpoint, as the commercial status it stores
  Apart,         \* bound: whether bookings and calls meet as far only as
                 \* Orderable, MeetsInside and Free permit
  SharedOrders,  \* what they select where they do meet
  Addresses,     \* normalised addresses
  Emails,
  NoEmail,
  DiscountTypes, \* the discount types administrators choose from
  Failures       \* whether a call may stop, or an insert fail, halfway

Percents == [none |-> 0, regular_client |-> 10, first_time_customer |-> 15,
             loyalty_customer |-> 20]

Orders == {x.order : x \in Submissions}

ASSUME NoEmailAssumption == NoEmail \notin Emails
ASSUME SubmissionsAssumption == \A x \in Submissions :
  /\ x.address \in Addresses /\ x.email \in Emails
  /\ x.requested \in BOOLEAN
  /\ x.commercial \in {"none", "quote_requested"}
  /\ DOMAIN x.order = OrderFields
\* The engine answers with whole cents, and nothing costs less than a dollar.
ASSUME AmountsAssumption == \A o \in Orders, zone \in Zones : Priced(o) =>
  LET p == Breakdown(o, FALSE, DistanceFee(Surcharged(zone)), zone)
  IN /\ p.base \in Nat /\ p.bedrooms \in Nat /\ p.special \in Nat
     /\ p.extras \in Nat /\ p.pets \in Nat /\ p.distance \in Nat
     /\ p.borderline \in Nat
     /\ p.estimated \in Nat /\ p.estimated >= Dollars(1)
ASSUME SharedAssumption == SharedOrders \subseteq Orders
ASSUME TypesAssumption == DiscountTypes \subseteq DOMAIN Percents
ASSUME FailuresAssumption == Failures \in BOOLEAN

VARIABLES
  shown,    \* the last preview: the selection, its zone, the amounts
  booking,  \* the bookings' pricing fields, by booking
  rows,     \* the DiscountUsed collection: addresses and e-mails
  warned,   \* bookings named by a mark_address_used_failed log line
  req       \* the administrators' calls

vars == <<shown, booking, rows, warned, req>>

-----------------------------------------------------------------------------
NoQuote == [type |-> "none", base |-> 0, amount |-> 0, final |-> 0]
NotCreated == [commercial |-> "absent"]
Created == {b \in Bookings : booking[b].commercial # "absent"}

Idle == [pc |-> "idle"]

Init ==
  /\ shown = [status |-> "nothing"]
  /\ booking = [b \in Bookings |-> NotCreated]
  /\ rows = {}
  /\ warned = {}
  /\ req = [a \in Admins |-> Idle]

-----------------------------------------------------------------------------
(* The customer *)

\* moveMode, postConstruction and windowCleaning have no field of their own in
\* the document: it keeps them only inside dynamicFields.
Unkept == [mode |-> "none", hours |-> 0, cleaners |-> 0, windows |-> 0]

\* The order as it is stored, with the fee it was priced with.
Kept(o, fee) ==
  [f \in DOMAIN o |-> IF f = "fee" THEN fee
                      ELSE IF f \in DOMAIN Unkept /\ ~o.dynamic THEN Unkept[f]
                      ELSE o[f]]

IsShared(b) == \E o \in SharedOrders :
                 booking[b].order = Kept(o, booking[b].order.fee)

\* Bound: bookings meet inside of the zones, on the shared orders, before
\* an administrator is at work.
Meets(b) ==
  /\ IsShared(b) /\ booking[b].order.fee = 0
  /\ booking[b].quote = NoQuote

Orderable ==
  CASE ~Apart \/ Created = {} -> Orders
    [] /\ Apart /\ Created # {} /\ Created # Bookings
       /\ \A b \in Created : Meets(b)
       /\ \A a \in Admins : req[a] = Idle -> SharedOrders
    [] OTHER -> {}

MeetsInside(zone) == Apart /\ Created # {} => zone = "INSIDE"

\* A bug in its place: the special service is left out of the lines.
LinesWithoutSpecial(p) == p.base + p.bedrooms + p.extras + p.pets + p.borderline
                            + (IF p.borderline = 0 THEN p.distance ELSE 0)

\* The lines under the total of a preview, added up.
Lines(p) == p.base + p.bedrooms + p.special + p.extras + p.pets + p.borderline
              + (IF p.borderline = 0 THEN p.distance ELSE 0)

\* A selection the engine refuses, or outside of the zones, gets no price.
PreviewPricing(o, zone) ==
  LET price == Breakdown(o, FALSE, DistanceFee(Surcharged(zone)), zone)
      offered == Priced(o) /\ ~(o.model = "V2" /\ zone = "OUTSIDE")
  IN /\ shown.status = "nothing" /\ o \in Orderable
     /\ MeetsInside(zone)
     /\ shown' = [status |-> IF offered THEN "priced" ELSE "refused",
                  order |-> o, zone |-> zone,
                  final |-> IF offered THEN price.final ELSE 0,
                  lines |-> IF offered THEN Lines(price) ELSE 0]
     /\ UNCHANGED <<booking, rows, warned, req>>

\* The customer changes the selection, or leaves.
StartOver ==
  /\ shown.status # "nothing"
  /\ shown' = [status |-> "nothing"]
  /\ UNCHANGED <<booking, rows, warned, req>>

Submitted == IF shown.status # "priced" THEN {}
             ELSE {x \in Submissions : x.order = shown.order}

\* createBooking and createQuoteRequest, with the customer going on from a
\* preview.  Only the latter accepts an address that cannot be classified now.
Create(b, zone, x) ==
  LET o == shown.order
      price == Breakdown(o, FALSE, DistanceFee(Surcharged(zone)), zone)
  IN /\ b \notin Created /\ shown.status = "priced"
     /\ zone \in {shown.zone, "unresolved"}
     /\ o \in Orderable
     /\ MeetsInside(zone)
     /\ zone = "unresolved" => x.commercial = "quote_requested"
     /\ booking' = [booking EXCEPT ![b] =
          [commercial |-> x.commercial, address |-> x.address,
           email |-> x.email, requested |-> x.requested,
           order |-> Kept(o, price.borderline),
           surcharge |-> Surcharged(zone), estimated |-> price.estimated,
           preview |-> price.final, applied |-> FALSE, amount |-> 0,
           quote |-> NoQuote]]
     /\ shown' = [status |-> "nothing"]
     /\ UNCHANGED <<rows, warned, req>>

-----------------------------------------------------------------------------
(* The administrators *)

\* Bounds: calls meet on the shared orders only, and where two bookings meet
\* each is drafted from its first state.
Free(a, b) ==
  /\ req[a].pc = "idle" /\ b \in Created
  /\ Apart => /\ IsShared(b) \/ \A c \in Admins : req[c].pc = "idle"
              /\ Cardinality(Created) > 1 => booking[b].quote = NoQuote

Becomes(a, request) ==
  /\ req' = [req EXCEPT ![a] = request]
  /\ UNCHANGED <<shown, booking, rows, warned>>

\* The fields of an update that differ from what was loaded; a fresh quote
\* object is always sent.
Changed(b, update) ==
  [f \in {g \in DOMAIN update : update[g] # booking[b][g] \/ g = "quote"}
     |-> update[f]]

\* The stored estimate plus the discount the document carries already.
StoredBase(doc) == doc.estimated + (IF doc.applied THEN doc.amount ELSE 0)

HigherOf(stored, engine) ==
  IF engine > 0 /\ stored <= engine THEN engine ELSE stored

\* A bug in its place: the base is the price the customer was shown last.
BaseFromPreview(doc) == doc.preview

\* A bug in its place: the base is the last quote's, its discount added back.
BaseFromQuote(doc) ==
  doc.quote.amount
    + (IF doc.quote.base > 0 THEN doc.quote.base ELSE doc.estimated)

\* recomputeUndiscountedAuthoritativeBase: the engine on the stored order, or
\* what is stored when that is higher or the engine refuses the document.
UndiscountedBase(doc) ==
  IF Priced(doc.order)
    THEN HigherOf(StoredBase(doc),
                  Breakdown(doc.order, TRUE, 0, "unresolved").estimated)
    ELSE StoredBase(doc)

Quoted(type, base) ==
  [type |-> type, base |-> base, amount |-> Share(base, Percents[type]),
   final |-> base - Share(base, Percents[type])]

\* A bug in its place: the quote's own status goes into the booking's.
QuoteStatusStored(quote) ==
  [commercial |-> IF quote.type = "none" THEN "draft" ELSE "quoted_draft",
   quote |-> quote]

\* The first-service discount also becomes the booking's own.
DraftUpdate(quote) ==
  IF quote.type # "first_time_customer"
    THEN [commercial |-> "quoted_draft", quote |-> quote]
    ELSE [commercial |-> "quoted_draft", quote |-> quote, applied |-> TRUE,
          amount |-> quote.amount, preview |-> quote.final]

Draftable == {"none", "quote_requested", "under_review", "quoted_draft"}

\* The discount is put on record before the draft is saved.
Marks(doc, type) == type = "first_time_customer" /\ ~doc.applied

\* saveQuoteDraft once it has loaded the booking.
Drafting(b, type) ==
  LET doc == booking[b]
  IN IF doc.commercial \notin Draftable THEN Idle
     ELSE [pc |-> IF Marks(doc, type) THEN "mark" ELSE "save", booking |-> b,
           set |-> Changed(b, DraftUpdate(Quoted(type, UndiscountedBase(doc))))]

SaveQuoteDraft(a, b, type) ==
  /\ Free(a, b)
  /\ booking[b].commercial \in Draftable
  /\ Becomes(a, Drafting(b, type))

\* sendQuote, as far as drafts are concerned.
SendQuote(a, b) ==
  /\ Free(a, b)
  /\ booking[b].commercial \in {"under_review", "quoted_draft"}
  /\ booking[b].quote.final > 0
  /\ Becomes(a, [pc |-> "save", booking |-> b,
                 set |-> Changed(b, [commercial |-> "quote_sent",
                                     quote |-> booking[b].quote])])

\* applyAdminFirstServiceDiscount up to its first query of the collection.
ApplyFirstService(a, b) ==
  /\ Free(a, b)
  /\ ~booking[b].applied /\ booking[b].requested
  /\ Becomes(a, [pc |-> "eligible", booking |-> b,
                 editable |-> booking[b].commercial \in Draftable])

AddressUsed(address) == \E row \in rows : row.address = address

\* hasUsedDiscountByNormalizedAddress
CheckAddress(a) ==
  LET b == req[a].booking
  IN /\ req[a].pc = "eligible"
     /\ Becomes(a, IF AddressUsed(booking[b].address) THEN Idle
                   ELSE [pc |-> IF req[a].editable THEN "draft" ELSE "revise",
                         booking |-> b])

\* reviseQuote, and its refusal of a quote that is no longer sent.
ReviseForDiscount(a) ==
  LET b == req[a].booking
  IN /\ req[a].pc = "revise"
     /\ Becomes(a, IF booking[b].commercial # "quote_sent" THEN Idle
                   ELSE [pc |-> "saveRevision", booking |-> b,
                         set |-> Changed(b, [commercial |-> "under_review",
                                             quote |-> booking[b].quote])])

\* The delegated saveQuoteDraft loads the booking again.
DraftForDiscount(a) ==
  /\ req[a].pc = "draft"
  /\ Becomes(a, Drafting(req[a].booking, "first_time_customer"))

-----------------------------------------------------------------------------
(* markAddressAsUsed, with the unique indexes on address and e-mail *)

EmailUsed(email) == email # NoEmail /\ \E row \in rows : row.email = email

Inserts(a, email) ==
  /\ rows' = rows \cup {[address |-> booking[req[a].booking].address,
                         email |-> email]}
  /\ req' = [req EXCEPT ![a].pc = "save"]
  /\ UNCHANGED <<shown, booking, warned>>

\* A bug in its place: so is a duplicate e-mail, without a second insert.
SwallowsAnyDuplicate(a) ==
  /\ \/ AddressUsed(booking[req[a].booking].address)
     \/ EmailUsed(booking[req[a].booking].email)
  /\ Becomes(a, [req[a] EXCEPT !.pc = "save"])

\* A duplicate address is no error to saveQuoteDraft.
SwallowsDuplicate(a) ==
  /\ AddressUsed(booking[req[a].booking].address)
  /\ Becomes(a, [req[a] EXCEPT !.pc = "save"])

\* Nor is any other failure, which is logged.
LogsFailure(a) ==
  /\ Failures
  /\ warned' = warned \cup {req[a].booking}
  /\ req' = [req EXCEPT ![a].pc = "save"]
  /\ UNCHANGED <<shown, booking, rows>>

MarkAddress(a) ==
  LET doc == booking[req[a].booking]
  IN /\ req[a].pc = "mark"
     /\ \/ ~AddressUsed(doc.address) /\ ~EmailUsed(doc.email)
             /\ Inserts(a, doc.email)
        \/ EmailUsed(doc.email)
             /\ Becomes(a, [req[a] EXCEPT !.pc = "markAddressOnly"])
        \/ SwallowsDuplicate(a)
        \/ LogsFailure(a)

\* The second insert, without the e-mail that was used already.
MarkAddressOnly(a) ==
  /\ req[a].pc = "markAddressOnly"
  /\ \/ /\ ~AddressUsed(booking[req[a].booking].address)
        /\ Inserts(a, NoEmail)
     \/ SwallowsDuplicate(a)
     \/ LogsFailure(a)

Save(a) ==
  LET b == req[a].booking
      set == req[a].set
  IN /\ req[a].pc \in {"save", "saveRevision"}
     /\ booking' = [booking EXCEPT ![b] =
          [f \in DOMAIN @ |-> IF f \in DOMAIN set THEN set[f] ELSE @[f]]]
     /\ req' = [req EXCEPT ![a] = IF @.pc = "save" THEN Idle
                                  ELSE [pc |-> "draft", booking |-> b]]
     /\ UNCHANGED <<shown, rows, warned>>

Abandon(a) == Failures /\ req[a].pc # "idle" /\ Becomes(a, Idle)

-----------------------------------------------------------------------------
Administers(a) ==
  \/ \E b \in Bookings, type \in DiscountTypes : SaveQuoteDraft(a, b, type)
  \/ \E b \in Bookings : SendQuote(a, b) \/ ApplyFirstService(a, b)
  \/ CheckAddress(a) \/ ReviseForDiscount(a) \/ DraftForDiscount(a)
  \/ MarkAddress(a) \/ MarkAddressOnly(a) \/ Save(a) \/ Abandon(a)

Next ==
  \/ \E o \in Orderable, zone \in Zones : PreviewPricing(o, zone)
  \/ StartOver
  \/ \E b \in Bookings \ Created, zone \in Zones, x \in Submitted :
       Create(b, zone, x)
  \/ \E a \in Admins : Administers(a)

Spec == Init /\ [][Next]_vars

-----------------------------------------------------------------------------
(* buildDisplayPricing: what every listing of bookings shows *)

Drafted(doc) == doc.quote.base > 0
QuoteDiscounts(doc) == doc.quote.type # "none" /\ doc.quote.amount > 0

Total(doc) == IF Drafted(doc) THEN doc.quote.final ELSE doc.preview

\* A bug in its place: the discount shown is always the engine's.
ItemsOfTheEngine(doc) ==
  LET applied == doc.applied \/ QuoteDiscounts(doc)
      p == Breakdown(doc.order, applied, DistanceFee(doc.surcharge),
                     "unresolved")
  IN p.base + p.bedrooms + p.special + p.extras + p.pets + p.distance
       + p.borderline - p.discount

\* The engine on the stored order, its discount replaced by the quote's.
PricedItems(doc) ==
  LET applied == doc.applied \/ QuoteDiscounts(doc)
      p == Breakdown(doc.order, applied, DistanceFee(doc.surcharge),
                     "unresolved")
      discount == IF QuoteDiscounts(doc) THEN doc.quote.amount
                  ELSE IF applied THEN p.discount ELSE 0
  IN (p.base + p.bedrooms + p.special + p.extras + p.pets + p.distance
        + p.borderline) - discount

\* The items of a document the engine cannot price.
StoredItems(doc) ==
  doc.estimated
    + (IF Total(doc) > doc.estimated THEN Total(doc) - doc.estimated ELSE 0)
    - (IF QuoteDiscounts(doc) THEN doc.quote.amount ELSE 0)

Items(doc) == IF Priced(doc.order) THEN PricedItems(doc) ELSE StoredItems(doc)

-----------------------------------------------------------------------------
(* Properties *)

Quotes == [type : DOMAIN Percents, base : Nat, amount : Nat, final : Nat]
Documents ==
  [commercial : {"none", "quote_requested", "under_review", "quoted_draft",
                 "quote_sent"},
   address : Addresses, email : Emails,
   requested : BOOLEAN, surcharge : BOOLEAN, estimated : Nat, preview : Nat,
   applied : BOOLEAN, amount : Nat, quote : Quotes]
Rows == [address : Addresses, email : Emails \cup {NoEmail}]
Steps == {"idle", "eligible", "revise", "saveRevision", "draft", "mark",
          "markAddressOnly", "save"}

\* Amounts are whole numbers of cents, never negative, and every document has
\* the fields the schema gives it.
TypeOK ==
  /\ shown.status \in {"nothing", "priced", "refused"}
  /\ \A b \in Created :
       /\ [f \in DOMAIN booking[b] \ {"order"} |-> booking[b][f]] \in Documents
       /\ booking[b].order.fee \in Nat
  /\ rows \subseteq Rows
  /\ warned \subseteq Created
  /\ \A a \in Admins : req[a].pc \in Steps
                     /\ req[a].pc # "idle" => req[a].booking \in Created

\* previewPricing: the lines shown under a preview add up to its total, for
\* either model, with every supplement, although a borderline address has the
\* legacy surcharge as well as the V2 fee.
PreviewAddsUp == shown.status = "priced" => shown.lines = shown.final

\* calculateExtrasV2 refuses a selection of catalogued extras exactly when
\* explainExtraUnavailabilityV2, which is there for whoever shows the
\* catalogue and is not what the engine validates by, gives a reason for one
\* of its extras, or a quantity is above the catalogue's.
RefusalsAreExplained ==
  shown.status # "nothing" /\ shown.order.model = "V2" =>
    LET o == shown.order
        chosen == DOMAIN o.extras
    IN chosen \subseteq DOMAIN ExtraPricesV2 =>
       ExtrasAccepted(o.extras, o.special) <=>
         \A e \in chosen :
           /\ ~Unavailable(e, o.special, chosen)
           /\ e \in DOMAIN MaxQuantities => o.extras[e] <= MaxQuantities[e]

\* buildDisplayPricing recomputes its items from the stored document, after
\* the zone that priced it is no longer known: they still add up to the total,
\* before a quote is drafted, and for a V2 booking whose draft started from
\* the stored estimate and was not reset to "none" after a discount.
ItemsAddUp ==
  \A b \in Created :
    LET doc == booking[b]
    IN ~Drafted(doc) \/ (/\ doc.order.model = "V2"
                         /\ doc.quote.base = doc.estimated
                         /\ doc.applied => doc.quote.type # "none")
         => Items(doc) = Total(doc)

\* However often a quote is drafted, revised and drafted again, by whichever
\* administrators at once, discounts are never taken one on top of the other:
\* the price quoted is the estimate less at most the largest discount.
OneDiscountAtMost ==
  \A b \in Created : Drafted(booking[b]) =>
    100 * booking[b].quote.final >= 80 * booking[b].estimated - 100

\* A booking carries the first-service discount only once its address is in
\* the collection, or a log line says that it could not be put there: the
\* draft may be abandoned at any await, e-mails may be used already, and
\* several bookings may share the address.
DiscountOnRecord ==
  \A b \in Created : booking[b].applied =>
    AddressUsed(booking[b].address) \/ b \in warned

\* saveQuoteDraft recomputes the base from the amount the last draft took off,
\* which it adds to an estimate that was never lowered: the base climbs with
\* every draft of the first-service discount, but not beyond estimate / 0.85.
InflationBounded ==
  \A b \in Created : Drafted(booking[b]) =>
    85 * booking[b].quote.base <= 100 * booking[b].estimated + 100

\* What recomputeUndiscountedAuthoritativeBase says it returns: the
\* undiscounted price, which for V2 is the stored estimate, however often the
\* quote is drafted.
BaseIsUndiscounted ==
  \A b \in Created :
    Drafted(booking[b]) /\ booking[b].order.model = "V2" =>
      booking[b].quote.base = booking[b].estimated
=============================================================================
