# Verification of the booking backend

TLA+ models, TLC runs and TLAPS proofs kept beside the NestJS backend of a
cleaning company: customers book or ask for a quote, administrators price,
confirm and staff the booking, Stripe collects the money and calls back.
Source paths below are relative to `src/src/`.

## 1. Inventory

| Component | State | Operations | What makes it correct |
|---|---|---|---|
| Booking state machine (`booking/booking-state.service.ts`) | none | `canTransition`, `transitionBooking` | the operational status moves along the permitted edges, asked for by the permitted source |
| Booking lifecycle (`booking/booking.service.ts`) | the booking document: status, commercial status, payment lifecycle, quote, link, paid flag, crew, time stamps | seven quote handlers, `updateStatus`, `confirmAndSendPayment`, `cancelByAdmin`, `deleteAdminPermanent`, `assignBooking`, `startBooking`, `completeBooking` | the status fields tell one story; a sent quote changes under a new version only; one link, one charge |
| Payments (`payments/payments.service.ts`) | the Payment row, unique per booking and provider | `createCheckoutSessionUrl` | row, link and session agree on the amount |
| Stripe webhook (`payments/payments.webhook.service.ts`) | the Payment row and the booking | `handleWebhook` | idempotent; money paid reaches the booking; nothing is paid that was not collected |
| Stripe gateway (`payments/stripe.service.ts`) | sessions at Stripe (external) | `createCheckoutSessionDetails` | metadata that the webhook accepts |
| E-mail events (`email/email.listener.ts`) | none | events of these handlers that mail | each fact is told once |
| Pricing engine (`booking/booking.service.ts` 2941-3960, 4360-4670, `booking/catalogs/`) | none; what it answers is stored | `calculatePricingBreakdown`, V1 and V2, catalogues, `buildDisplayPricing` | totals add up; what is refused is explained; a stored booking is shown at its price |
| Quotes and discounts (`booking.service.ts` 909-1242, 5180-5250, `discounts/`) | the pricing fields, `DiscountUsed` | `previewPricing`, `saveQuoteDraft`, `applyAdminFirstServiceDiscount`, `markAddressAsUsed` | discounts do not stack; a discount given is on record |
| Intake (`booking.service.ts` 370-725, 2725-2877) | the recent bookings | `createBooking`, `createQuoteRequest` | duplicates bounded; each booking announced once; every request answered |
| Coverage and geocoding (`booking/geo-pricing.service.ts`) | Redis cache, provider cooldown | `computeFromInput`, `geocodeAddress` | the deadline bounds the retries; a provider that refused is left alone; nobody is served out of reach |
| Employees and assignment (`employees/`, `booking.service.ts` 1892-2200) | Employee and User documents, the crew of a booking | create, change, delete, role, assign, start, complete | the two documents agree; nobody with work is deactivated; started work goes on |
| Rate limiter (`common/rate-limit/`) | a Redis counter | middleware | at most `max` requests of a window while Redis answers; a client is free again after it |
| Authentication (`auth/`) | tokens held by users | `login`, `JwtStrategy.validate` | an inactive user is not admitted |
| E-mail rendering, contact form, controllers, migrations | - | - | I/O or shapes |

How they interact: the handlers share Mongo collections and hold no lock. A
handler loads the whole booking, decides, awaits Stripe or Mongo, and calls
`save()`, which sends a `$set` of the fields it changed **without a version
check**. The crew's handlers use one conditional `findOneAndUpdate` instead. The
two intake endpoints share the geocoder's cache (Redis) and its cooldown (memory
of the process). Events are emitted after the save; the listener sends the mail
and swallows failures. Stripe repeats a webhook until it is answered with 200.

What is hard here: stale documents saved by overlapping handlers; an execution
that stops between two writes; a repeated or late webhook; three different
places that open a checkout session; four status fields that must agree; a
price that is recomputed from what was stored of it; a check in one collection
and a write in another; retries under a deadline against a shared cooldown.
`PROJECT.json` lists each hazard at its line with the properties aimed at it.

## 2. Modules

| Module | Models |
|---|---|
| `BookingState` | the enumerations of the schemas, `CanTransition`, `TransitionAllowed` (with sources), `CommercialAllowed` |
| `BookingLifecycle` | one booking, its Payment row, its sessions, the handler executions and the mails |
| `PaymentPromise` | the abstract specification of handlers that follow one another: status, one link, one amount, one charge, settlement, removal |
| `OverlapPromise` | the abstract specification of handlers that overlap: as many links as handlers in flight, each with its amount, one charge of each, one settlement |
| `PriceEngine` | both engines and their catalogues as operators on cents |
| `Quoting` | previews, creation, drafts, revisions, the administrator's discount and `DiscountUsed`, over `PriceEngine` |
| `Coverage` | zones and client coordinates, as operators on a road |
| `Geocoding` | cache, attempts, deadline, cooldown, over `Coverage` |
| `Intake` | the two creation endpoints from schedule rules to event, over `Geocoding` |
| `RateLimiter` | the middleware for one rule and one client |
| `Staff` | employees, users, logins and the work on one booking, over `RateLimiter` and `BookingState` |
| `MCLifecycle`, `MCQuoting`, `MCIntake`, `MCStaff` | instances for TLC; the refinements `KeepsPromise` and `KeepsOverlapPromise` |
| `BookingLifecycle_proofs`, `LifecycleSerial_proofs`, `LifecycleOverlap_proofs`, `Quoting_proofs`, `Intake_proofs`, `Staff_proofs` | the theorems |

Beside some definitions stands a variant with a comment "A bug in its place".
No specification uses it: the mutants of `PROJECT.json` put it in place of the
definition and the named property must then fail.

### BookingLifecycle

**State.** `booking` is the document reduced to the fields that guards read.
Optional fields that are absent read as `"none"`, 0 or `NoSession`. `crew`
stands for the three assignment fields, `preview` for `finalPricePreview`,
`quote.price` for `finalQuotedPrice`. `payment` is the row of the booking (the
unique index is assumed, see `payments/schemas/payment.schema.ts:35`).
`sessions` is Stripe: a session is *unused*, then *open* (created, its URL known
to one execution), *published* (the URL was saved and returned) and *paid*; its
`terms` are the amount and the metadata. `purged` is a history variable.

**Executions.** `req[r]` is one handler execution between two awaits. The
action named after a handler is its load, all its guards and its computation;
`IssueSession`, `UpsertPayment`, `RecordPayment`, `Save`, `Emit`,
`DropPayments`, `DropBooking` are the awaits that follow. `set` is the patch
that `save()` will send: `Changed` keeps the fields that differ from the loaded
document, as Mongoose does; the quote is always reassigned and sent whole. So a
stale save overwrites exactly the fields it would overwrite in Mongo. With one
request the handlers run one after the other, and with `Failures` each may
still stop at any await, which is a crash, a rejected promise or a closed
connection. A handler that throws before it changed anything is no step.

**Abstractions.** The price that `saveQuoteDraft` computes is any positive
amount of `Prices`; whether the first-service discount was chosen is free. Its
call of `markAddressAsUsed` writes another collection, its failure is
swallowed and nothing here reads it. Names, notes, actors and dates are left
out; the role checks are assumed passed. A document starts as one of the two
creation endpoints stores it ("direct", "quote") or as one of two kinds that only
old data and the payment tests hold ("confirmed" without a link, "invoiced":
accepted with `invoice_ready`, which no handler of this version writes).
Sessions do not expire in the model. The branch of `updateStatus` that keeps an
existing link (776-791) is not an action: `PendingHasNoLink` is the proof that
it is never taken.

### PriceEngine and Quoting

An *order* is what the customer selected. `Priced` says that
`calculatePricingBreakdown` returns instead of throwing; `Breakdown` is what it
returns, in cents. The catalogues are copied number by number; only names, which
the code normalises from free text, are taken in their normal form. V1 and V2
are different bills: V1 discounts the rooms and puts extras, pets and distance
on top, V2 discounts the whole subtotal and has the borderline fee in it.
`explainExtraUnavailabilityV2` belongs to the catalogue; this backend does not call
it, and `RefusalsAreExplained` says that it agrees with what the engine refuses.

`booking[b]` has the pricing fields of a document. `Kept` is what the document
keeps of the order: move mode, post-construction hours and windows have no field
of their own and survive only inside `dynamicFields`. `rows` is `DiscountUsed`,
`warned` the bookings named in a `mark_address_used_failed` log line. A call of
`saveQuoteDraft` is load and computation (`SaveQuoteDraft`), `MarkAddress`,
perhaps `MarkAddressOnly`, then `Save`; `applyAdminFirstServiceDiscount` goes
over `CheckAddress`, perhaps `ReviseForDiscount` and its save, to a second load
(`DraftForDiscount`). Any call may stop at any await. The numbers here and the
statuses of `BookingLifecycle` are one document in the code; the two modules
abstract each other's half.

### Coverage, Geocoding and Intake

Positions are half kilometres on a road: the code compares haversine distances
with radii and thresholds, and the proofs use nothing but the triangle
inequality. `Geocoding` counts a request's time in quarters of a second from
its first attempt; an attempt ends with a position, with nothing, with a refusal
(which opens the cooldown of all requests) or unavailable after any permitted
time. The cooldown and the cache entries end at any time. `during` counts
attempts begun under an open cooldown. A request of `Intake` is `Submit` (the schedule
rules), `LookUp`, `Attempt`s, `StoreCoordinates`, `Resolve` (client coordinates, coverage
rule), `Check` (duplicates), `Create`, `Emit`. `recent` holds the bookings of
the last ten minutes with what became of their announcement. `Crash` is a
restart: requests, events and cooldown are gone, Redis and Mongo stay.

### Staff and RateLimiter

`account[e]` is a person's User (activity, role) and Employee (activity): two
documents. `createEmployee` is a transaction or, where Mongo has none, two
inserts and a compensating delete (`InsertUser`, `InsertEmployee`, `UndoHire`); `updateEmployee` and
`deleteEmployee` are load, check, `SaveEmployee`, `UpdateUser`. `assignBooking` loads the
booking, the crew and the supervisor in three awaits and then updates on a
condition (`Assign`). The webhook loads the booking (`BeginPay`) and later saves
the paid flag (`SavePaid`); it writes no status, so a paid booking is started,
completed, cancelled and kept from a deactivation of its crew like any other,
and only `assignBooking` asks whether it is paid. The Payment row in between is
in `BookingLifecycle`. The booking is reduced to status, crew, supervisor,
the two time stamps and the paid flag. `disturbed` and `overwritten` are
history variables, which say where a property stops being promised. The limiter's
key is `count`, `ttl`, its `age` and how many it let through.

### Where the model is coarser than the code

- Names, notes, actors and dates are left out; the role checks of the
  administrator's endpoints are assumed passed.
- An address has one spelling. In the code the duplicate check compares the
  trimmed text while cache and discounts use the normalised one.
- The geocoding key is configured. `request_denied` and `quota_exceeded` are
  both "refused". Redis answers or fails within its own timeouts, which are not
  part of the geocoding deadline.
- An insert of `createEmployee` that reports a failure has not happened.
  Administrators as employees are left out.
- `createWithDiscountRollback` and its transaction are dead code in this version
  (`discountApplied` is the constant false where they are called).

## 3. Runs

No run checks deadlock: a booking may be deleted, a store may be full of the few
bookings of an instance, and nobody has to call anything.

| Run | Instance | Distinct states | Shows |
|---|---|---|---|
| `serial` | `MCLifecycle`: 1 request, 2 sessions, prices 1-2, versions to 2, all documents, all 16 handlers, failures, mails counted to 2 | 2.1 million | `OnePayableSession`, `QuoteCoherent`, `PendingPaymentHasLink`, `LedgerAgrees`, `WorkClockAgrees`, `NoOrphanPayment`, `OneMailPerFact`, `QuoteRevisions`, and that the handlers implement `PaymentPromise` (`KeepsPromise`) |
| `concurrent` | `MCLifecycle`: 2 requests, 3 sessions, prices 1-2, five handlers that touch money or its price, failures | 0.9 million | `PaidIsBacked`, `PendingHasNoLink`, `NothingIsLost` survive every interleaving, and the handlers implement `OverlapPromise` (`KeepsOverlapPromise`) |
| `settles` | `MCLifecycle`: 2 requests, 2 sessions, prices 0-1, four handlers, failures, fairness | 75 thousand | `EventuallySettled` for bookings outside the quote flow |
| `quoting` | `MCQuoting`: 2 bookings, 2 administrators, a catalogue of orders that takes every branch of both engines, failures | 383 thousand | previews and items add up, refusals are explained, discounts neither stack nor go unrecorded, a base stays bounded |
| `front_door` | `MCIntake`: 2 requests, 4 addresses, 2 overlapping zones, both endpoints and both models, restarts and failures, fairness | 205 thousand | the deadline and the cooldown of the geocoder, sound zones, bounded duplicates, one event per booking, an answer for everybody that every step brings nearer (`EveryStepNearer`) |
| `staff` | `MCStaff`: 1 person, 2 callers, a limit of 2 logins in a window of 2 ticks, failures | 1.4 million | accounts agree, nobody with work is deactivated, started work goes on, a paid booking keeps its crew (`PaidCrewStays`), the limiter lets go and holds |
| `confirm_twice` | `MCLifecycle`: 2 requests, 2 sessions | - | violated: two payable sessions |
| `status_race` | `MCLifecycle`: 2 requests | - | violated: cancelled becomes confirmed |
| `admin_confirmed_paid` | `MCLifecycle`: 1 request, fairness | - | violated: the payment is refused for ever |
| `revise_with_session` | `MCLifecycle`: 1 request | - | violated: back to review with a live link |
| `confirm_without_mail` | `MCLifecycle`: 1 request | - | violated: a link nobody was mailed |
| `draft_twice` | `MCQuoting`: 1 booking, 1 administrator | - | violated: the second draft's base is above the undiscounted price |

### Why the bounds are enough

*Lifecycle.* Two sessions let a crashed attempt leak one and the retry open
another, and let a double charge happen. Two prices let a row, a quote and a
session disagree. Version 2 allows one revision, so a session of the old terms
can meet the new quote. Two executions give every pair of overlapping handlers.
Two mails are enough to see a fact told twice. The concurrent run has a third
session, so that two links, as many as the executions, are handed out and a
third could be. It leaves out `cancelByAdmin`, `confirmAndSendPayment` and the
pure quote handlers for size only: `updateStatus` and `createCheckoutSessionUrl`
open sessions in the same steps, `confirm_twice` overlaps
`confirmAndSendPayment` with itself, and the theorems include all sixteen
handlers.

*Quoting.* Every order of the catalogue is taken alone through preview, creation,
drafts and the administrator's discount; two bookings with two overlapping
administrators meet on one order only, because what they share is the address
and the e-mail, not the bill: one e-mail for two addresses and one address for
two e-mails both occur. The percentage customers ask for is its default of 15; of
the discounts an administrator chooses, `regular_client` differs from
`loyalty_customer` in its number only and is left to the theorems.

*Front door.* Two requests are in flight at once and a key (the form as the
duplicate check compares it) is submitted again and again. `Durations = {0}`
lets the provider answer at once or at the timeout of an attempt, which are the
two answers the deadline tells apart. One address is in the zone whose centre is not the
nearest, one is outside but within the client's reach of being borderline, one
is far away and one unknown. The longest wait still goes over all three attempts.

*Staff.* One person is employee and supervisor in turn; more people only repeat
it, since no handler compares two of them. Calls and logins do not overlap in
time there: what a login reads is one document.

The theorems of section 4 lift these bounds to any number. What may meet is
bounded by a constant of its own, `Apart`, which the instances set: in `Intake`
requests, bookings and cache entries that meet have one key (`Meets`); in
`Quoting` bookings and calls meet as far as `Orderable`, `MeetsInside` and `Free`
permit; in `Staff` logins and calls come one after the other. The theorems hold
for either value of `Apart`, so without these guards too.

**Serial and concurrent properties.** The serial properties of
`BookingLifecycle` really need the handlers not to overlap: `confirm_twice` and
`status_race` are the same questions with two requests. They are stated and
checked all the same because they hold in spite of crashes at every await and
any order of calls. `AccountsAgree` and `NobodyStranded` say in the same way of
which people they are promised: of those whose calls did not overlap.

**Fairness.** `FairSpec` of `BookingLifecycle`: an execution under way continues
or is cut off (weak fairness), because promises settle. The webhook is delivered
again and again (strong fairness over `DeliverSessionCompleted`): Stripe repeats
the event until it is answered 200, and a cut-off execution answers 500 or
nothing. Its two writes are strongly fair: the same await does not fail for
ever. No administrator has to call anything and the customer need not pay. In
the model Stripe keeps repeating an event that was answered, which the
idempotence of the handler makes harmless and which cannot help an execution the
code refused: `admin_confirmed_paid` fails although the event is repeated for
ever. `Intake` assumes weak fairness of `Continue(r)` alone, because whatever a
request awaits has a timeout or settles; nothing is assumed of the provider, of
the cooldown's end or of Redis.

## 4. Proofs

Every theorem is about `Spec` and holds for every value of the constants that
satisfies the named ASSUMEs of the modules; TLC evaluates these in every run.

| Module | Theorems | For any |
|---|---|---|
| `BookingLifecycle_proofs` | `TypeCorrect`, `InvariantHolds`, `PaidIsBackedAlways`, `PendingNeverLinked`, `NothingLost` | executions, sessions, prices, versions, choice of handlers, initial document |
| `LifecycleSerial_proofs` | `SerialInvariantHolds`, `PromiseIsKept`, `OneSessionPayable`, `QuotesAreCoherent`, `PendingPaymentsHaveLink`, `LedgersAgree`, `WorkClocksAgree`, `NoPaymentIsOrphaned`, `EachFactMailedOnce`, `QuotesAreRevised` | sessions, prices, versions, choice of handlers, initial document; one execution at a time (`OneAtATime`) |
| `LifecycleOverlap_proofs` | `OverlapInvariantHolds`, `OverlapPromiseIsKept` | finite set of executions, sessions, prices, versions, choice of handlers, initial document |
| `Quoting_proofs` | `TypeCorrect`, `PreviewsAddUp`, `RefusalsAlwaysExplained`, `ItemsAlwaysAddUp`, `OneDiscountOnly`, `DiscountAlwaysOnRecord`, `InflationIsBounded` | bookings, administrators, addresses, e-mails, discount types and percentage, and every selection for which `AmountsAssumption` holds |
| `Intake_proofs` | `TypeCorrect`, `GeocodingKeepsDeadline`, `AcceptedAreNear`, `EachAnnouncedOnce`, `DuplicatesAreBounded`, `ZonesByBoundary`, `CooldownIsShield`, `EachStepIsNearer` | finite sets of requests and zones, addresses, forms, answering times |
| `Staff_proofs` | `TypeCorrect`, `AccountsAlwaysAgree`, `NobodyIsStranded`, `WorkTakenBackOnlyBySave`, `PaidCrewIsKept`, `LimiterHoldsOneWindow`, `LimiterPassesAtMostMax` | people, callers, changes, limit and window |

### BookingLifecycle

The assumptions: prices are naturals, `NoSession` is no session, the kinds of
documents and handlers are those of the code. None of the properties is
inductive, because a save may store what was decided many steps before.
`LifecycleInv` adds what each execution in flight still relies on (`InFlight`):
it plans no pending status and no exit from the quote flow; it plans `paid` only
if it comes from a session that is paid and, once it is about to save, the row
is paid and backed; the session it is about to publish is still open, and
(`NoSharedSession`) no other execution's. `Planned` is that at the load, proved
once per group of handlers. `Calm` is what no step may do to the stores under
the others; `InFlightStays` carries an idle execution across a calm step, and
`StepKeepsInv` reduces each step to its own execution. The invariant was checked
by TLC on the concurrent instance before it was proved.

### BookingLifecycle, one handler after the other

The theorems of `LifecycleSerial_proofs` assume `OneAtATime`, that `Requests`
has one element at most; `confirm_twice` and `status_race` show that they need
it. An execution may still be cut off at any await and the next one starts from
what it left. `SerialInv` has four parts. `Sound(booking)`: the status fields
of the stored document tell one story. `StoresInv`: the booking's link is the
only session anybody was told of, and row, session and booking agree.
`MailInv`: a mail is due or sent only once its fact is stored. `InHand`: since
nobody else writes, the document an execution will save is known from its load
on; `Leads` says that it is sound and reached from the stored one by permitted
moves of status, quote and money, and `Holds` which session and which row the
execution relies on. Each handler establishes `InHand` at its load
(`SavesInHand`, `RequotedInHand`, `OpensInHand`), each await hands it on
(`LeadsOn`), and `Save` cashes it in. `PromiseIsKept` follows from the same
invariant: `Save` of a checkout handler is `Offer`, that of the webhook
`Settle`, every other one `Operate` or a stutter; a session that was opened and
never published is not seen from outside (`NewSessionUnseen`).

### BookingLifecycle, handlers that overlap

What `PaymentPromise` says of one link is false of handlers that overlap;
`LifecycleOverlap_proofs` shows what is left of it, `OverlapPromise`, for any
finite set of executions and with no assumption on how they interleave or
where they are cut off. The heart is `Counted`: while the booking has no link
nothing was handed out; once it has one, no handler starts to open a session
(`OpensOnlyUnlinked`), so the links handed out and the executions that may still
hand one out (`Openers`) are together no more than the executions, and stay
so, since `Save` moves one from the second set to the first (`HandsOut`,
`HandingOutCounts`). `Trail` says what an execution under way knows of its
money: the amount it will demand is positive and that of its session, and
`paid` is planned only for a session that was paid. It rests on `LifecycleInv`.
The bound is reached, `confirm_twice` ends in such a state; that each of these
links may be charged is the size of the damage an overlap can do.

### Quoting

`QuotingInv` is `ShownInv` (what a preview shows) and `BookInv`: every document
was created from a submission the engine accepted and stores the estimate the
engine gave (`CreatedFor`), every call in flight plans to save a document of
that kind (`IsUpdate`, `IsCall`), and a discount in the document or in such a plan is
on record or warned of (`OnRecord`). The heart is `Reproduces`: the engine,
given what the document kept of the order, answers the stored estimate again,
although the zone's fee and the fields without a column are gone;
`BaseIsStored` is its consequence for drafts. `OneDiscountAtMost` and
`InflationBounded` follow by arithmetic on cents from what `IsQuote` says of
base and discount. `LinesAddUp` and `LinesFoundAgain` give the two sums. The
sums over tables (`SumOf`) are not looked into: of what the engine answers the
proof uses `AmountsAssumption`, that a priced order costs whole cents and a dollar
at least, which TLC evaluates for the catalogue.

### Intake

`TypeInv` says what each stage of a request has established (`IsRequest`,
`Served`); `AnnInv` that a booking whose event is due belongs to exactly one
request at `emit`; `DupInv` (`KeyBounded`) bounds the bookings of a key together
with the requests that are about to create one. `AcceptedIsNear` needs `Triangle`, the
triangle inequality, for coordinates a customer moved within the permitted
mismatch; `NewIdIsNew` is a pigeonhole argument for the identity of a new booking.

`ZoneByBoundary` compares the zone the code chooses, the one with the nearest
centre, with the boundaries of all of them. That a nearest one exists is
`FiniteHasMin`: the library's minimum in a well-founded order, applied to the
subsets of a finite set of numbers; the only assumption is that the zones are
finitely many. It speaks of the class (inside, borderline, outside) and not of
which zone's name is stored.

`CooldownShields` bounds the attempts that are started while a cooldown lasts
(`during`) and is not inductive. `CooldownInv` adds those that may still come:
`Retries`, the pairs of a request that is past the head of `geocodeAddress` and
an attempt it has left. Under a cooldown the attempts started and the pairs left
are together at most `MaxRetries` for every request but the one that was refused.
A step closes the cooldown or finds it closed (`Closed`), opens it and leaves its own
request without a pair (`Opened`), retries, which takes at least one pair out and adds one
to the count (`Retried`), or at most shrinks the set (`Untouched`);
`StepTouchesCooldown` says that there is nothing else. The assumption is a finite,
non-empty set of requests.

`EveryStepNearer` is the safety half of `EveryRequestAnswered`: `StepsLeft`, an upper bound
of the steps a request still needs, falls with each step of the request and is not
touched by the steps of others. `EachStepIsNearer` has one lemma per
action. With it, what liveness adds is the fairness of `Continue(r)` alone.

### Staff

`LimiterInv` ties counter, age and expiry of the window. `AccInv` has one case
per unfinished call: its person is `Open`, and only then the two documents may
differ. `StrandInv` says that a call which is about to deactivate (`WillDeactivate`)
or about to assign (`WillAssign`) still stands on what it read, of a person who is
not disturbed. `WorkInv` says how far a booking that was started can go as long
as no save overwrote a status. `PaidCrewIsKept` needs only the types and which
steps write the booking (`WhatWritesBooking`): the conditional update of an
`assignBooking` that read the booking unpaid finds it paid. `SavePaid` gives and
takes no work (`SavePaidKeepsSpared`), so paying is no way around
`NobodyStranded`.

### Model-checked only

Every invariant and every action property of the passing runs is stated by a
theorem. The two liveness properties, `EventuallySettled` and
`EveryRequestAnswered`, are out of the prover's reach and stay with TLC.

## 5. Findings

The six violation runs:

- `confirm_twice`: `confirmAndSendPayment` is idempotent only for calls that do
  not overlap.
- `status_race`: the status machine is enforced against a status that may be stale.
- `admin_confirmed_paid`: the webhook refuses the sessions that
  `confirmAndSendPayment` opens because their `quoteVersion` is the text
  `admin_confirmed`.
- `revise_with_session`: `reviseQuote` sees a checkout session only if the payment
  lifecycle says so.
- `confirm_without_mail`: confirming payment for a booking that is already
  confirmed sends no mail.
- `draft_twice`: a second draft of the first-service discount adds the first
  draft's discount to an estimate that was never lowered. An estimate of 215.00
  gets the base 247.25 (`booking.service.ts:1158`). `InflationBounded` says where
  it ends.

Seen while modelling, without a run of its own:

- *Quotes.* A V1 draft omits extras, pets and distance. A draft of the
  first-service discount followed by one of type `none` leaves
  `discountApplied`, and the items no longer add up; `ItemsAddUp` excludes it.
  One discount per address (near `booking.service.ts:5222`) is not enforced
  between overlapping calls of the administrator's endpoint nor by
  `saveQuoteDraft`, which swallows the duplicate. The address is marked before
  the draft is saved: a crash in between burns it.
- *Catalogue.* An extra of type "bool" accepts a quantity above one, where a comment
  calls it fixed (near `pricing-catalogs-v2.ts:346`); the table in the comment
  over the compatibility matrix (near line 447) is not the matrix.
- *Intake.* A service a V2 form does not list is stored, and the response then
  fails with 400 before the event: a retry of `createBooking` gets 400 again, a retry
  of `createQuoteRequest` is told "saved", and nobody is mailed. A crash between
  insert and event loses the mail. An attempt in flight ignores a cooldown that
  another opens, and its late success ends it. Redis' time is not part of the
  geocoding deadline.
- *Staff.* `updateEmployee` with `role: null` saves the employee and then fails
  before the user's update; without transactions a failed compensation leaves a user
  that blocks the e-mail. The check before a deactivation does not look at
  `assignedSupervisor`. A booking that is paid before anybody was assigned keeps
  its empty crew for good (`PaidCrewStays`): `assignBooking` refuses it, and no
  crew can start it. `setEmployeeRole` of an assigned employee leaves a
  booking that nobody of its crew can start, and a stale `updateStatus` over a
  started booking one that only an administrator can complete.

## 6. Not modelled

- E-mail layout, transport and the contract attachment, the contact form,
  controllers and the validation of shapes: I/O.
- Tokens themselves, and `verifyCredentialsOnly`, a pure check.
- Migrations and start-up: run once. The unique indexes they leave are assumed.
  The index migration of `onModuleInit` and the unused `markAsUsed` of the
  discounts are left out with them.
- Stripe's expiry of sessions, refunds and failed payments: the code has no
  handler for them.
- `setEmployeeActive` has no endpoint; the V1 choice of a zone feeds log lines
  only; `createWithDiscountRollback` is dead code.
- Displays (`toFrontendBooking` and its helpers) change no state; only
  `buildDisplayPricing`, which recomputes a price, is modelled.
