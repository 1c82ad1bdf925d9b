---------------------------- MODULE Quoting_proofs ----------------------------
(***************************************************************************)
(* Proofs about Quoting for any bookings, administrators and selections.   *)
(* The tables of the engine are not looked into: that it answers a priced  *)
(* selection with whole cents is AmountsAssumption.                        *)
(***************************************************************************)
EXTENDS Quoting, FiniteSetTheorems, TLAPS

-----------------------------------------------------------------------------
(* The engine on what was stored *)

PriceOf(o, zone) == Breakdown(o, FALSE, DistanceFee(Surcharged(zone)), zone)

\* The parts of two bills, their discounts aside, are the same.
SameParts(p, q) ==
  /\ p.base = q.base /\ p.bedrooms = q.bedrooms /\ p.special = q.special
  /\ p.extras = q.extras /\ p.pets = q.pets
  /\ p.borderline = q.borderline /\ p.estimated = q.estimated

LEMMA Amounts ==
  ASSUME NEW o \in Orders, NEW zone \in Zones, Priced(o)
  PROVE  LET p == PriceOf(o, zone)
         IN /\ p.base \in Nat /\ p.bedrooms \in Nat /\ p.special \in Nat
            /\ p.extras \in Nat /\ p.pets \in Nat /\ p.distance \in Nat
            /\ p.borderline \in Nat
            /\ p.estimated \in Nat /\ p.estimated >= 100
<1>1. Dollars(1) = 100
  BY DEF Dollars
<1> DEFINE p == Breakdown(o, FALSE, DistanceFee(Surcharged(zone)), zone)
<1>2. /\ p.base \in Nat /\ p.bedrooms \in Nat /\ p.special \in Nat
      /\ p.extras \in Nat /\ p.pets \in Nat /\ p.distance \in Nat
      /\ p.borderline \in Nat
      /\ p.estimated \in Nat /\ p.estimated >= Dollars(1)
  BY AmountsAssumption, Zenon
<1> HIDE DEF p
<1>3. p.estimated >= 100
  BY <1>1, <1>2
<1> QED
  BY <1>2, <1>3 DEF PriceOf, p

LEMMA OrdersHaveFields ==
  ASSUME NEW o \in Orders
  PROVE  DOMAIN o = OrderFields
BY SubmissionsAssumption DEF Orders

LEMMA KeptFields ==
  ASSUME NEW o \in Orders, NEW fee
  PROVE  LET k == Kept(o, fee)
         IN /\ k.fee = fee
            /\ k.model = o.model /\ k.service = o.service /\ k.rooms = o.rooms
            /\ k.additional = o.additional /\ k.extras = o.extras
            /\ k.pets = o.pets /\ k.special = o.special
            /\ \/ /\ k.mode = o.mode /\ k.hours = o.hours
                  /\ k.cleaners = o.cleaners /\ k.windows = o.windows
               \/ /\ k.mode = "none" /\ k.hours = 0
                  /\ k.cleaners = 0 /\ k.windows = 0
BY OrdersHaveFields DEF Kept, Unkept, OrderFields

LEMMA SameV2 ==
  ASSUME NEW o, NEW k, NEW zone, NEW d, NEW e, NEW a,
         k.rooms = o.rooms, k.additional = o.additional, k.extras = o.extras,
         k.special = o.special, k.fee # NoFee,
         k.fee = BreakdownV2(o, FALSE, d, zone).borderline
  PROVE  SameParts(BreakdownV2(k, a, e, "unresolved"),
                   BreakdownV2(o, FALSE, d, zone))
<1>1. BorderlineFee(k, "unresolved", e) = k.fee
  BY DEF BorderlineFee
<1>2. k.fee = BorderlineFee(o, zone, d)
  BY DEF BreakdownV2, BillV2, Bill, PartsV2
<1> QED
  BY <1>1, <1>2 DEF SameParts, BreakdownV2, BillV2, Bill, PartsV2, SubtotalV2

LEMMA SameRooms ==
  ASSUME NEW o, NEW k, k.service = o.service, k.rooms = o.rooms,
         k.additional = o.additional, k.mode = o.mode \/ o.service # "move",
         o.service \in RoomServices
  PROVE  RoomsPrice(k) = RoomsPrice(o) /\ BedroomsPrice(k) = BedroomsPrice(o)
<1>1. RoomTables(k) = RoomTables(o)
  BY DEF RoomTables, RoomServices
<1>2. \A n : MoveShare(k, n) = MoveShare(o, n)
  BY DEF MoveShare
<1> QED
  BY <1>1, <1>2 DEF RoomsPrice, BedroomsPrice

\* A V1 selection whose details were not kept has no price any more; where it
\* has one, it is the same.
LEMMA SameV1 ==
  ASSUME NEW o, NEW k, NEW d, NEW e, NEW a,
         k.service = o.service, k.rooms = o.rooms,
         k.additional = o.additional, k.extras = o.extras, k.pets = o.pets,
         \/ /\ k.mode = o.mode /\ k.hours = o.hours
            /\ k.cleaners = o.cleaners /\ k.windows = o.windows
         \/ /\ k.mode = "none" /\ k.hours = 0
            /\ k.cleaners = 0 /\ k.windows = 0,
         PricedV1(k)
  PROVE  SameParts(BreakdownV1(k, a, e), BreakdownV1(o, FALSE, d))
<1>1. CASE o.service \in RoomServices
  <2>1. k.mode = o.mode \/ o.service # "move"
    BY DEF PricedV1, MoveModes
  <2>2. RoomsPrice(k) = RoomsPrice(o) /\ BedroomsPrice(k) = BedroomsPrice(o)
    BY <1>1, <2>1, SameRooms
  <2>3. BaseV1(k) = BaseV1(o)
    BY <1>1, <2>2 DEF BaseV1
  <2> QED
    BY <2>2, <2>3 DEF SameParts, BreakdownV1, BillV1, Bill, PartsV1
<1>2. CASE o.service = "post_construction"
  <2>1. k.hours = o.hours /\ k.cleaners = o.cleaners
    BY <1>2 DEF PricedV1
  <2>2. o.service \notin RoomServices
    BY <1>2 DEF RoomServices
  <2>3. BaseV1(k) = BaseV1(o)
    BY <1>2, <2>1, <2>2 DEF BaseV1
  <2> QED
    BY <2>2, <2>3 DEF SameParts, BreakdownV1, BillV1, Bill, PartsV1
<1>3. CASE o.service = "window"
  <2>1. k.windows = o.windows
    BY <1>3 DEF PricedV1
  <2>2. o.service \notin RoomServices
    BY <1>3 DEF RoomServices
  <2>3. BaseV1(k) = BaseV1(o)
    BY <1>3, <2>1, <2>2 DEF BaseV1
  <2> QED
    BY <2>2, <2>3 DEF SameParts, BreakdownV1, BillV1, Bill, PartsV1
<1> QED
  BY <1>1, <1>2, <1>3 DEF PricedV1, ServicesV1

\* The engine reproduces the estimate of a booking from its document, whatever
\* zone priced it, although the zone is no longer known.
LEMMA Reproduces ==
  ASSUME NEW o \in Orders, NEW zone \in Zones, Priced(o),
         NEW a, NEW e,
         Priced(Kept(o, PriceOf(o, zone).borderline))
  PROVE  SameParts(Breakdown(Kept(o, PriceOf(o, zone).borderline), a, e,
                             "unresolved"),
                   PriceOf(o, zone))
<1> DEFINE fee == PriceOf(o, zone).borderline
           k == Kept(o, fee)
           d == DistanceFee(Surcharged(zone))
<1>1. fee \in Nat
  BY Amounts
<1>2. fee # NoFee
  BY <1>1, NoFeeAssumption
<1>3. /\ k.fee = fee
      /\ k.model = o.model /\ k.service = o.service /\ k.rooms = o.rooms
      /\ k.additional = o.additional /\ k.extras = o.extras
      /\ k.pets = o.pets /\ k.special = o.special
      /\ \/ /\ k.mode = o.mode /\ k.hours = o.hours
            /\ k.cleaners = o.cleaners /\ k.windows = o.windows
         \/ /\ k.mode = "none" /\ k.hours = 0
            /\ k.cleaners = 0 /\ k.windows = 0
  BY KeptFields
<1>4. Priced(k)
  OBVIOUS
<1>5. PriceOf(o, zone) = Breakdown(o, FALSE, d, zone)
  BY DEF PriceOf
<1>6. CASE o.model = "V2"
  <2>1. PriceOf(o, zone) = BreakdownV2(o, FALSE, d, zone)
    BY <1>5, <1>6 DEF Breakdown
  <2>2. Breakdown(k, a, e, "unresolved") = BreakdownV2(k, a, e, "unresolved")
    BY <1>3, <1>6 DEF Breakdown
  <2>3. k.fee = BreakdownV2(o, FALSE, d, zone).borderline
    BY <1>3, <2>1
  <2> HIDE DEF k, d, fee
  <2>4. SameParts(BreakdownV2(k, a, e, "unresolved"),
                  BreakdownV2(o, FALSE, d, zone))
    BY <1>2, <1>3, <2>3, SameV2
  <2> QED
    BY <2>1, <2>2, <2>4 DEF k, fee
<1>7. CASE o.model # "V2"
  <2>1. PriceOf(o, zone) = BreakdownV1(o, FALSE, d)
    BY <1>5, <1>7 DEF Breakdown
  <2>2. Breakdown(k, a, e, "unresolved") = BreakdownV1(k, a, e)
    BY <1>3, <1>7 DEF Breakdown
  <2>3. PricedV1(k)
    BY <1>3, <1>4, <1>7 DEF Priced
  <2> HIDE DEF k, d, fee
  <2>4. SameParts(BreakdownV1(k, a, e), BreakdownV1(o, FALSE, d))
    BY <1>3, <2>3, SameV1
  <2> QED
    BY <2>1, <2>2, <2>4 DEF k, fee
<1> QED
  BY <1>6, <1>7

-----------------------------------------------------------------------------
(* How a bill is made up *)

\* All lines of a bill; those of a preview are the same, because a bill with a
\* borderline fee has no distance.
AllLines(p) ==
  p.base + p.bedrooms + p.special + p.extras + p.pets + p.distance
    + p.borderline

LEMMA LinesAddUp ==
  ASSUME NEW o \in Orders, NEW zone \in Zones, Priced(o)
  PROVE  LET p == PriceOf(o, zone)
         IN /\ Lines(p) = p.final /\ AllLines(p) = p.final
            /\ p.final \in Nat /\ p.final >= p.estimated
            /\ o.model = "V2" => p.final = p.estimated
<1> DEFINE p == PriceOf(o, zone)
           d == DistanceFee(Surcharged(zone))
<1>0. p = Breakdown(o, FALSE, d, zone)
  BY DEF PriceOf
<1>1. /\ p.base \in Nat /\ p.bedrooms \in Nat /\ p.special \in Nat
      /\ p.extras \in Nat /\ p.pets \in Nat /\ p.distance \in Nat
      /\ p.borderline \in Nat
      /\ p.estimated \in Nat /\ p.estimated >= 100
  BY Amounts
<1> HIDE DEF p, d
<1>3. CASE o.model = "V2"
  <2>1. /\ p.pets = 0 /\ p.distance = 0
        /\ p.estimated = p.base + p.bedrooms + p.special + p.extras
                           + p.borderline
        /\ p.final = p.estimated - 0 + 0
    BY <1>0, <1>3
       DEF Breakdown, BreakdownV2, BillV2, Bill, PartsV2, SubtotalV2, Discount
  <2>2. Lines(p) = p.base + p.bedrooms + p.special + p.extras + p.pets
                     + p.borderline + 0
    BY <2>1 DEF Lines
  <2>3. /\ Lines(p) = p.final /\ AllLines(p) = p.final
        /\ p.final \in Nat /\ p.final = p.estimated
    BY <1>1, <2>1, <2>2 DEF AllLines
  <2>4. p.final >= p.estimated
    BY <1>1, <2>3
  <2> QED
    BY <2>3, <2>4 DEF p
<1>4. CASE o.model # "V2"
  <2>1. /\ p.special = 0 /\ p.borderline = 0
        /\ p.estimated = p.base + p.bedrooms
        /\ p.final = p.estimated - 0 + (p.extras + p.pets + p.distance)
    BY <1>0, <1>4
       DEF Breakdown, BreakdownV1, BillV1, Bill, PartsV1, Discount
  <2>2. Lines(p) = p.base + p.bedrooms + p.special + p.extras + p.pets
                     + p.borderline + p.distance
    BY <2>1 DEF Lines
  <2>3. /\ Lines(p) = p.final /\ AllLines(p) = p.final
        /\ p.final \in Nat /\ p.final >= p.estimated
    BY <1>1, <2>1, <2>2 DEF AllLines
  <2> QED
    BY <1>4, <2>3 DEF p
<1> QED
  BY <1>3, <1>4

-----------------------------------------------------------------------------
(* Which extras go together *)

\* Of each group no two are chosen, exactly if none is in the way of another.
LEMMA GroupsAgree ==
  ASSUME NEW chosen
  PROVE  (\A g \in ExclusiveGroups : Cardinality(chosen \cap g) <= 1) <=>
         (\A e \in chosen, g \in ExclusiveGroups :
            ~(e \in g /\ chosen \cap (g \ {e}) # {}))
<1> DEFINE g == {"garage", "full_garage"}
           both == "garage" \in chosen /\ "full_garage" \in chosen
<1>1. ExclusiveGroups = {g}
  BY DEF ExclusiveGroups
<1>2. CASE both
  <2>1. chosen \cap g = g
    BY <1>2
  <2>2. Cardinality(g) = 2
    <3>1. IsFiniteSet({"garage"}) /\ Cardinality({"garage"}) = 1
      BY FS_Singleton
    <3>2. Cardinality({"garage"} \cup {"full_garage"}) = 2
      BY <3>1, FS_AddElement
    <3>3. {"garage"} \cup {"full_garage"} = g
      OBVIOUS
    <3> QED
      BY <3>2, <3>3
  <2>3. ~(Cardinality(chosen \cap g) <= 1)
    BY <2>1, <2>2
  <2>4. "garage" \in chosen /\ "garage" \in g
    BY <1>2
  <2>5. "full_garage" \in chosen \cap (g \ {"garage"})
    BY <1>2
  <2>6. \E e \in chosen : e \in g /\ chosen \cap (g \ {e}) # {}
    BY <2>4, <2>5
  <2> QED
    BY <1>1, <2>3, <2>6, Zenon
<1>3. CASE ~both
  <2>1. PICK e : chosen \cap g = {} \/ chosen \cap g = {e}
    <3>1. CASE "garage" \notin chosen /\ "full_garage" \notin chosen
      BY <3>1
    <3>2. CASE "garage" \in chosen /\ "full_garage" \notin chosen
      <4>1. chosen \cap g = {"garage"}
        BY <3>2
      <4> QED
        BY <4>1
    <3>3. CASE "garage" \notin chosen /\ "full_garage" \in chosen
      <4>1. chosen \cap g = {"full_garage"}
        BY <3>3
      <4> QED
        BY <4>1
    <3> QED
      BY <1>3, <3>1, <3>2, <3>3
  <2>2. Cardinality(chosen \cap g) <= 1
    <3>1. Cardinality({}) = 0
      BY FS_EmptySet
    <3>2. Cardinality({e}) = 1
      BY FS_Singleton
    <3> HIDE DEF g
    <3> QED
      BY <2>1, <3>1, <3>2
  <2>3. \A x \in chosen : ~(x \in g /\ chosen \cap (g \ {x}) # {})
    BY <1>3
  <2> QED
    BY <1>1, <2>2, <2>3
<1> QED
  BY <1>2, <1>3

\* calculateExtrasV2 refuses exactly what explainExtraUnavailabilityV2 explains,
\* quantities aside, whatever is selected.
LEMMA ExtrasExplained ==
  ASSUME NEW extras, NEW special, DOMAIN extras \subseteq DOMAIN ExtraPricesV2
  PROVE  ExtrasAccepted(extras, special) <=>
         \A e \in DOMAIN extras :
           /\ ~Unavailable(e, special, DOMAIN extras)
           /\ e \in DOMAIN MaxQuantities => extras[e] <= MaxQuantities[e]
<1> DEFINE chosen == DOMAIN extras
           max == DOMAIN MaxQuantities
           limit(e) == MaxQuantities[e]
           fits(e) == extras[e] <= limit(e)
           meet(e, g) == e \in g /\ chosen \cap (g \ {e}) # {}
<1>1. (\A g \in ExclusiveGroups : Cardinality(chosen \cap g) <= 1) <=>
      (\A e \in chosen, g \in ExclusiveGroups : ~meet(e, g))
  BY GroupsAgree
<1>2. ExtrasAccepted(extras, special) <=>
        /\ \A e \in chosen : Compatible(e, special)
        /\ \A e \in chosen \cap max : fits(e)
        /\ \A g \in ExclusiveGroups : Cardinality(chosen \cap g) <= 1
  BY Zenon DEF ExtrasAccepted
<1>3. \A e : Unavailable(e, special, chosen) <=>
        ~Compatible(e, special) \/ \E g \in ExclusiveGroups : meet(e, g)
  BY Zenon DEF Unavailable, Compatible
<1> HIDE DEF max, limit, fits, meet, chosen
<1>4. ExtrasAccepted(extras, special) <=>
      \A e \in chosen : /\ ~Unavailable(e, special, chosen)
                        /\ e \in max => fits(e)
  BY <1>1, <1>2, <1>3, Zenon
<1> QED
  BY <1>4 DEF max, limit, fits, chosen

-----------------------------------------------------------------------------
(* The preview *)

\* What is shown was priced by the engine for a selection on offer.
ShownInv ==
  /\ shown.status \in {"nothing", "priced", "refused"}
  /\ shown.status = "priced" =>
       /\ shown.order \in Orders /\ shown.zone \in Zones /\ Priced(shown.order)
       /\ shown.lines = Lines(PriceOf(shown.order, shown.zone))
       /\ shown.final = PriceOf(shown.order, shown.zone).final

LEMMA OrderableAreOrders == Orderable \subseteq Orders
BY SharedAssumption DEF Orderable

LEMMA PreviewShows ==
  ASSUME NEW o \in Orders, NEW zone \in Zones, PreviewPricing(o, zone)
  PROVE  ShownInv'
BY DEF PreviewPricing, ShownInv, PriceOf

LEMMA ShownStays ==
  ASSUME ShownInv, [Next]_vars
  PROVE  ShownInv'
<1>1. CASE UNCHANGED shown
  BY <1>1 DEF ShownInv
<1>2. CASE shown' = [status |-> "nothing"]
  BY <1>2 DEF ShownInv
<1>3. ASSUME NEW o \in Orderable, NEW zone \in Zones, PreviewPricing(o, zone)
      PROVE  ShownInv'
  BY <1>3, OrderableAreOrders, PreviewShows
<1>4. ASSUME NEW a \in Admins, Administers(a)
      PROVE  UNCHANGED shown
  BY <1>4
     DEF Administers, SaveQuoteDraft, SendQuote, ApplyFirstService,
         CheckAddress, ReviseForDiscount, DraftForDiscount, MarkAddress,
         MarkAddressOnly, Save, Abandon, Becomes, Inserts, SwallowsDuplicate,
         LogsFailure
<1> QED
  BY <1>1, <1>2, <1>3, <1>4 DEF Next, StartOver, Create, vars

\* previewPricing: the lines shown under a preview add up to its total, for any
\* selection the engine prices in whole cents.
THEOREM PreviewsAddUp == Spec => []PreviewAddsUp
<1>1. Init => ShownInv
  BY DEF Init, ShownInv
<1>2. ShownInv /\ [Next]_vars => ShownInv'
  BY ShownStays
<1>3. ShownInv => PreviewAddsUp
  BY LinesAddUp DEF ShownInv, PreviewAddsUp
<1> QED
  BY <1>1, <1>2, <1>3, PTL DEF Spec

\* calculateExtrasV2 and explainExtraUnavailabilityV2 agree on every selection,
\* of one special service and any extras in any quantities.
THEOREM RefusalsAlwaysExplained == Spec => []RefusalsAreExplained
<1>1. RefusalsAreExplained
  BY ExtrasExplained DEF RefusalsAreExplained
<1> QED
  BY <1>1, PTL

-----------------------------------------------------------------------------
(* The invariant: what a document, an update and a call in flight are *)

Fields == {"commercial", "address", "email", "requested", "order", "surcharge",
           "estimated", "preview", "applied", "amount", "quote"}

Commercial == {"none", "quote_requested", "under_review", "quoted_draft",
               "quote_sent"}

\* The booking was created for selection o, priced in this zone.
CreatedFor(doc, o, zone) ==
  /\ Priced(o)
  /\ doc.order = Kept(o, PriceOf(o, zone).borderline)
  /\ doc.estimated = PriceOf(o, zone).estimated
  /\ doc.surcharge = Surcharged(zone)
  /\ doc.quote = NoQuote => doc.preview = PriceOf(o, zone).final

\* A drafted quote: its base is not below the estimate and has not climbed
\* beyond estimate / 0.85; its amounts belong together.
IsQuote(quote, estimated) ==
  /\ quote \in Quotes
  /\ estimated <= quote.base /\ 85 * quote.base <= 100 * estimated + 100
  /\ quote.amount = Share(quote.base, Percents[quote.type])
  /\ quote.final = quote.base - quote.amount

\* What a document may hold as the discount of the last draft: enough less
\* than 15 / 85 of the estimate that the next base does not climb further.
IsAmount(amount, estimated) ==
  amount \in Nat /\ 85 * amount <= 15 * estimated + 100

IsDocument(doc) ==
  /\ DOMAIN doc = Fields
  /\ doc.commercial \in Commercial
  /\ doc.address \in Addresses /\ doc.email \in Emails
  /\ doc.requested \in BOOLEAN /\ doc.surcharge \in BOOLEAN
  /\ doc.estimated \in Nat /\ doc.estimated >= 100
  /\ doc.preview \in Nat /\ doc.applied \in BOOLEAN
  /\ doc.order.fee \in Nat
  /\ \E o \in Orders, zone \in Zones : CreatedFor(doc, o, zone)
  /\ IsAmount(doc.amount, doc.estimated)
  /\ \/ IsQuote(doc.quote, doc.estimated)
     \/ doc.quote = NoQuote /\ ~doc.applied /\ doc.commercial # "quote_sent"

\* What a save may send; a document that gets it remains one.
IsUpdate(set, estimated) ==
  /\ DOMAIN set \subseteq {"commercial", "quote", "applied", "amount", "preview"}
  /\ "quote" \in DOMAIN set /\ IsQuote(set.quote, estimated)
  /\ "commercial" \in DOMAIN set => set.commercial \in Commercial
  /\ "applied" \in DOMAIN set => set.applied = TRUE
  /\ "amount" \in DOMAIN set => IsAmount(set.amount, estimated)
  /\ "preview" \in DOMAIN set => set.preview \in Nat

OnRecord(b) == AddressUsed(booking[b].address) \/ b \in warned

Saving == {"save", "saveRevision"}

\* A call that is about to store the discount has put the address on record.
IsCall(q) ==
  /\ q.pc \in Steps
  /\ q.pc # "idle" => q.booking \in Created
  /\ q.pc \in Saving \cup {"mark", "markAddressOnly"} =>
       IsUpdate(q.set, booking[q.booking].estimated)
  /\ q.pc \in Saving /\ "applied" \in DOMAIN q.set => OnRecord(q.booking)

BookInv ==
  /\ DOMAIN booking = Bookings
  /\ \A b \in Created : IsDocument(booking[b])
  /\ \A b \in Created : booking[b].applied => OnRecord(b)
  /\ rows \subseteq Rows
  /\ warned \subseteq Created
  /\ DOMAIN req = Admins
  /\ \A a \in Admins : IsCall(req[a])

-----------------------------------------------------------------------------
(* Drafts *)

LEMMA PercentsRange ==
  ASSUME NEW type \in DOMAIN Percents
  PROVE  Percents[type] \in {0, 10, 15, 20}
BY DEF Percents

LEMMA SharesOf ==
  ASSUME NEW n \in Nat, NEW percent \in {0, 10, 15, 20}
  PROVE  /\ Share(n, percent) \in Nat /\ Share(n, percent) <= n
         /\ 100 * Share(n, percent) <= 20 * n + 50
         /\ percent = 15 => 100 * Share(n, percent) <= 15 * n + 50
         /\ percent = 0 => Share(n, percent) = 0
         /\ n >= 100 /\ percent # 0 => Share(n, percent) > 0
<1>1. CASE percent = 0
  BY <1>1 DEF Share
<1>2. CASE percent = 10
  BY <1>2 DEF Share
<1>3. CASE percent = 15
  BY <1>3 DEF Share
<1>4. CASE percent = 20
  BY <1>4 DEF Share
<1> QED
  BY <1>1, <1>2, <1>3, <1>4

\* recomputeUndiscountedAuthoritativeBase: the engine never gets the better of
\* what is stored, because it reproduces the estimate.
LEMMA BaseIsStored ==
  ASSUME NEW doc, IsDocument(doc)
  PROVE  /\ UndiscountedBase(doc) = StoredBase(doc)
         /\ StoredBase(doc) \in Nat /\ StoredBase(doc) >= doc.estimated
         /\ 85 * StoredBase(doc) <= 100 * doc.estimated + 100
<1> DEFINE e == doc.estimated
           base == StoredBase(doc)
<1>1. e \in Nat /\ doc.amount \in Nat /\ 85 * doc.amount <= 15 * e + 100
  BY DEF IsDocument, IsAmount
<1>2. base = e \/ base = e + doc.amount
  <2>1. CASE doc.applied
    BY <2>1 DEF StoredBase
  <2>2. CASE ~doc.applied
    BY <1>1, <2>2 DEF StoredBase
  <2> QED
    BY <2>1, <2>2
<1>3. base \in Nat /\ base >= e /\ 85 * base <= 100 * e + 100
  <2> HIDE DEF base, e
  <2> QED
    BY <1>1, <1>2
<1>4. CASE Priced(doc.order)
  <2> DEFINE engine == Breakdown(doc.order, TRUE, 0, "unresolved").estimated
  <2>1. PICK o \in Orders, zone \in Zones : CreatedFor(doc, o, zone)
    BY DEF IsDocument
  <2>2. engine = e
    BY <1>4, <2>1, Reproduces DEF CreatedFor, SameParts
  <2>3. HigherOf(base, engine) = base
    <3> HIDE DEF base, engine, e
    <3> QED
      BY <1>1, <1>3, <2>2 DEF HigherOf
  <2> QED
    BY <1>3, <1>4, <2>3 DEF UndiscountedBase
<1>5. CASE ~Priced(doc.order)
  BY <1>3, <1>5 DEF UndiscountedBase
<1> QED
  BY <1>4, <1>5

LEMMA QuotedIsQuote ==
  ASSUME NEW type \in DOMAIN Percents, NEW base \in Nat, NEW estimated \in Nat,
         estimated <= base, 85 * base <= 100 * estimated + 100
  PROVE  /\ IsQuote(Quoted(type, base), estimated)
         /\ type = "first_time_customer" =>
              IsAmount(Quoted(type, base).amount, estimated)
<1> DEFINE share == Share(base, Percents[type])
<1>1. Percents[type] \in {0, 10, 15, 20}
  BY PercentsRange
<1>2. share \in Nat /\ share <= base
  BY <1>1, SharesOf
<1>3. type = "first_time_customer" => 100 * share <= 15 * base + 50
  <2>1. type = "first_time_customer" => Percents[type] = 15
    BY DEF Percents
  <2> QED
    BY <1>1, <2>1, SharesOf
<1>4. base - share \in Nat
  <2> HIDE DEF share
  <2> QED
    BY <1>2
<1>5. IsQuote(Quoted(type, base), estimated)
  BY <1>2, <1>4 DEF IsQuote, Quotes, Quoted
<1>6. ASSUME type = "first_time_customer"
      PROVE  85 * share <= 15 * estimated + 100
  <2> HIDE DEF share
  <2> QED
    BY <1>2, <1>3, <1>6
<1> QED
  BY <1>2, <1>5, <1>6 DEF IsAmount, Quoted

\* saveQuoteDraft: what it decides on is an update, which goes over the record
\* of the address where it first applies the discount.
LEMMA DraftIsCall ==
  ASSUME BookInv, NEW b \in Created, NEW type \in DOMAIN Percents
  PROVE  IsCall(Drafting(b, type))
<1> DEFINE doc == booking[b]
           base == UndiscountedBase(doc)
           quote == Quoted(type, base)
           set == Changed(b, DraftUpdate(quote))
<1>1. IsDocument(doc)
  BY DEF BookInv
<1>2. doc.estimated \in Nat /\ doc.applied \in BOOLEAN
  BY <1>1 DEF IsDocument
<1>3. /\ base \in Nat /\ doc.estimated <= base
      /\ 85 * base <= 100 * doc.estimated + 100
  <2> HIDE DEF doc
  <2>1. base = StoredBase(doc)
    BY <1>1, BaseIsStored
  <2>2. doc.estimated <= StoredBase(doc)
    BY <1>1, <1>2, BaseIsStored
  <2> QED
    BY <1>1, <2>1, <2>2, BaseIsStored
<1>4. /\ IsQuote(quote, doc.estimated)
      /\ type = "first_time_customer" => IsAmount(quote.amount, doc.estimated)
  <2> HIDE DEF base, doc
  <2> QED
    BY <1>2, <1>3, QuotedIsQuote
<1>5. quote.final \in Nat /\ quote.type = type
  BY <1>4 DEF IsQuote, Quotes, Quoted
<1>6. CASE doc.commercial \notin Draftable
  BY <1>6 DEF Drafting, Idle, IsCall, Steps, Saving
<1>7. CASE doc.commercial \in Draftable
  <2> DEFINE q == [pc |-> IF Marks(doc, type) THEN "mark" ELSE "save",
                   booking |-> b, set |-> set]
  <2>1. Drafting(b, type) = q
    BY <1>7 DEF Drafting
  <2>2. IsUpdate(set, doc.estimated)
    <3> HIDE DEF quote
    <3>1. CASE type # "first_time_customer"
      BY <1>4, <1>5, <3>1 DEF IsUpdate, Changed, DraftUpdate, Commercial
    <3>2. CASE type = "first_time_customer"
      BY <1>4, <1>5, <3>2 DEF IsUpdate, Changed, DraftUpdate, Commercial
    <3> QED
      BY <3>1, <3>2
  <2>3. ~Marks(doc, type) => "applied" \notin DOMAIN set
    <3> HIDE DEF quote
    <3>1. CASE type # "first_time_customer"
      BY <1>5, <3>1 DEF Changed, DraftUpdate
    <3>2. CASE type = "first_time_customer"
      BY <1>2, <1>5, <3>2 DEF Changed, DraftUpdate, Marks
    <3> QED
      BY <3>1, <3>2
  <2> HIDE DEF set
  <2>4. IsCall(q)
    BY <2>2, <2>3 DEF IsCall, Steps, Saving
  <2> QED
    BY <2>1, <2>4
<1> QED
  BY <1>6, <1>7

-----------------------------------------------------------------------------
(* Steps of one call *)

\* A call that goes on, all else being as it was.
LEMMA CallGoesOn ==
  ASSUME BookInv, NEW a \in Admins, NEW q, IsCall(q), Becomes(a, q)
  PROVE  BookInv'
<1>1. /\ UNCHANGED <<booking, rows, warned>>
      /\ DOMAIN req' = Admins
      /\ req'[a] = q /\ \A c \in Admins \ {a} : req'[c] = req[c]
  BY DEF Becomes, BookInv
<1>2. UNCHANGED Created
  BY <1>1 DEF Created
<1>3. \A c \in Admins : IsCall(req[c])'
  BY <1>1, <1>2 DEF BookInv, IsCall, OnRecord, AddressUsed, Saving
<1> QED
  BY <1>1, <1>2, <1>3 DEF BookInv, OnRecord, AddressUsed

LEMMA SaveQuoteDraftKeeps ==
  ASSUME BookInv, NEW a \in Admins, NEW b \in Bookings,
         NEW type \in DiscountTypes, SaveQuoteDraft(a, b, type)
  PROVE  BookInv'
<1>1. type \in DOMAIN Percents
  BY TypesAssumption
<1>2. b \in Created
  BY DEF SaveQuoteDraft, Free
<1>3. IsCall(Drafting(b, type))
  BY <1>1, <1>2, DraftIsCall
<1> QED
  BY <1>3, CallGoesOn DEF SaveQuoteDraft

LEMMA SendQuoteKeeps ==
  ASSUME BookInv, NEW a \in Admins, NEW b \in Bookings, SendQuote(a, b)
  PROVE  BookInv'
<1> DEFINE doc == booking[b]
           update == [commercial |-> "quote_sent", quote |-> doc.quote]
           q == [pc |-> "save", booking |-> b, set |-> Changed(b, update)]
<1>1. b \in Created /\ doc.quote.final > 0
  BY DEF SendQuote, Free
<1>2. IsDocument(doc)
  BY <1>1 DEF BookInv
<1>3. IsQuote(doc.quote, doc.estimated)
  BY <1>1, <1>2 DEF IsDocument, NoQuote
<1>4. /\ IsUpdate(Changed(b, update), doc.estimated)
      /\ "applied" \notin DOMAIN Changed(b, update)
  BY <1>3 DEF IsUpdate, Changed, Commercial
<1>5. IsCall(q)
  <2> HIDE DEF update
  <2> QED
    BY <1>1, <1>4 DEF IsCall, Steps, Saving
<1>6. Becomes(a, q)
  BY DEF SendQuote
<1> QED
  BY <1>5, <1>6, CallGoesOn

LEMMA DiscountCallKeeps ==
  ASSUME BookInv, NEW a \in Admins,
         \/ \E b \in Bookings : ApplyFirstService(a, b)
         \/ CheckAddress(a) \/ DraftForDiscount(a) \/ Abandon(a)
  PROVE  BookInv'
<1>0. IsCall(req[a])
  BY DEF BookInv
<1>1. ASSUME NEW b \in Bookings, ApplyFirstService(a, b)
      PROVE  BookInv'
  <2> DEFINE q == [pc |-> "eligible", booking |-> b,
                   editable |-> booking[b].commercial \in Draftable]
  <2>1. b \in Created /\ Becomes(a, q)
    BY <1>1 DEF ApplyFirstService, Free
  <2>2. IsCall(q)
    BY <2>1 DEF IsCall, Steps, Saving
  <2> QED
    BY <2>1, <2>2, CallGoesOn
<1>2. CASE CheckAddress(a)
  <2> DEFINE b == req[a].booking
             q == IF AddressUsed(booking[b].address) THEN Idle
                  ELSE [pc |-> IF req[a].editable THEN "draft" ELSE "revise",
                        booking |-> b]
  <2>1. b \in Created /\ Becomes(a, q)
    BY <1>0, <1>2 DEF CheckAddress, IsCall
  <2>2. IsCall(q)
    BY <2>1 DEF IsCall, Steps, Saving, Idle
  <2> QED
    BY <2>1, <2>2, CallGoesOn
<1>3. CASE DraftForDiscount(a)
  <2>1. req[a].booking \in Created
    BY <1>0, <1>3 DEF DraftForDiscount, IsCall
  <2>2. IsCall(Drafting(req[a].booking, "first_time_customer"))
    <3>1. "first_time_customer" \in DOMAIN Percents
      BY DEF Percents
    <3> QED
      BY <2>1, <3>1, DraftIsCall
  <2> QED
    BY <1>3, <2>2, CallGoesOn DEF DraftForDiscount
<1>4. CASE Abandon(a)
  <2>1. IsCall(Idle)
    BY DEF IsCall, Idle, Steps, Saving
  <2> QED
    BY <1>4, <2>1, CallGoesOn DEF Abandon
<1> QED
  BY <1>1, <1>2, <1>3, <1>4

LEMMA ReviseKeeps ==
  ASSUME BookInv, NEW a \in Admins, ReviseForDiscount(a)
  PROVE  BookInv'
<1> DEFINE b == req[a].booking
           doc == booking[b]
           update == [commercial |-> "under_review", quote |-> doc.quote]
           q == [pc |-> "saveRevision", booking |-> b,
                 set |-> Changed(b, update)]
<1>1. b \in Created
  BY DEF ReviseForDiscount, BookInv, IsCall
<1>2. CASE doc.commercial # "quote_sent"
  <2>1. IsCall(Idle)
    BY DEF IsCall, Idle, Steps, Saving
  <2> QED
    BY <1>2, <2>1, CallGoesOn DEF ReviseForDiscount
<1>3. CASE doc.commercial = "quote_sent"
  <2>1. IsDocument(doc)
    BY <1>1 DEF BookInv
  <2>2. IsQuote(doc.quote, doc.estimated)
    BY <1>3, <2>1 DEF IsDocument
  <2>3. /\ IsUpdate(Changed(b, update), doc.estimated)
        /\ "applied" \notin DOMAIN Changed(b, update)
    BY <2>2 DEF IsUpdate, Changed, Commercial
  <2>4. IsCall(q)
    <3> HIDE DEF update
    <3> QED
      BY <1>1, <2>3 DEF IsCall, Steps, Saving
  <2>5. Becomes(a, q)
    BY <1>3 DEF ReviseForDiscount
  <2> QED
    BY <2>4, <2>5, CallGoesOn
<1> QED
  BY <1>2, <1>3

-----------------------------------------------------------------------------
(* Putting the address on record *)

Marking == {"mark", "markAddressOnly"}

\* A call that stops marking with the address on record goes on to its save.
LEMMA SavesOnceOnRecord ==
  ASSUME BookInv, NEW a \in Admins, req[a].pc \in Marking,
         rows \subseteq rows', warned \subseteq warned',
         rows' \subseteq Rows, warned' \subseteq Created,
         UNCHANGED booking,
         req' = [req EXCEPT ![a].pc = "save"],
         NEW b, b = req[a].booking, OnRecord(b)'
  PROVE  BookInv'
<1> DEFINE q == req[a]
<1>1. IsCall(q)
  BY DEF BookInv
<1>2. /\ q.booking \in Created
      /\ IsUpdate(q.set, booking[q.booking].estimated)
  BY <1>1 DEF IsCall, Marking
<1>3. UNCHANGED Created
  BY DEF Created
<1>4. /\ DOMAIN req' = Admins
      /\ \A c \in Admins \ {a} : req'[c] = req[c]
      /\ req'[a] = [req[a] EXCEPT !.pc = "save"]
  BY DEF BookInv
<1>5. \A c : OnRecord(c) => OnRecord(c)'
  BY DEF OnRecord, AddressUsed
<1>6. \A c \in Admins \ {a} : IsCall(req[c])'
  <2> TAKE c \in Admins \ {a}
  <2>1. IsCall(req[c])
    BY DEF BookInv
  <2> QED
    BY <1>3, <1>4, <1>5, <2>1 DEF IsCall
<1>7. IsCall(req[a])'
  <2>1. req'[a].pc = "save" /\ req'[a].booking = q.booking /\ req'[a].set = q.set
    BY <1>1, <1>4 DEF IsCall
  <2>2. /\ req'[a].booking = b /\ b \in Created
        /\ IsUpdate(req'[a].set, booking'[b].estimated)
    BY <1>2, <2>1
  <2> HIDE DEF q
  <2> QED
    BY <1>3, <2>1, <2>2 DEF IsCall, Steps, Saving
<1> QED
  BY <1>3, <1>4, <1>5, <1>6, <1>7 DEF BookInv

LEMMA MarkingKeeps ==
  ASSUME BookInv, NEW a \in Admins, MarkAddress(a) \/ MarkAddressOnly(a)
  PROVE  BookInv'
<1> DEFINE q == req[a]
           doc == booking[q.booking]
<1>0. PICK b : b = req[a].booking
  OBVIOUS
<1>1. q.pc \in Marking
  BY DEF MarkAddress, MarkAddressOnly, Marking
<1>2. IsCall(q)
  BY DEF BookInv
<1>3. q.booking \in Created /\ IsDocument(doc)
  BY <1>1, <1>2 DEF IsCall, Marking, BookInv
<1>4. doc.address \in Addresses /\ doc.email \in Emails
  BY <1>3 DEF IsDocument
<1>5. ASSUME NEW email \in Emails \cup {NoEmail}, Inserts(a, email)
      PROVE  BookInv'
  <2>1. rows' = rows \cup {[address |-> doc.address, email |-> email]}
    BY <1>5 DEF Inserts
  <2>2. OnRecord(b)'
    <3> DEFINE row == [address |-> doc.address, email |-> email]
    <3>1. row \in rows' /\ row.address = booking'[b].address
      BY <1>0, <1>5, <2>1 DEF Inserts
    <3> QED
      BY <3>1 DEF OnRecord, AddressUsed
  <2>3. rows' \subseteq Rows
    BY <1>4, <2>1 DEF BookInv, Rows
  <2> QED
    BY <1>0, <1>1, <1>5, <2>1, <2>2, <2>3, SavesOnceOnRecord DEF Inserts, BookInv
<1>6. ASSUME LogsFailure(a)
      PROVE  BookInv'
  <2>1. OnRecord(b)'
    BY <1>0, <1>6 DEF LogsFailure, OnRecord
  <2>2. warned' \subseteq Created
    BY <1>3, <1>6 DEF LogsFailure, BookInv
  <2> QED
    BY <1>0, <1>1, <1>6, <2>1, <2>2, SavesOnceOnRecord DEF LogsFailure, BookInv
<1>7. ASSUME SwallowsDuplicate(a)
      PROVE  BookInv'
  <2>1. AddressUsed(doc.address) /\ UNCHANGED <<booking, rows, warned>>
    BY <1>7 DEF SwallowsDuplicate, Becomes
  <2>2. OnRecord(b)'
    BY <1>0, <2>1 DEF OnRecord, AddressUsed
  <2>3. req' = [req EXCEPT ![a].pc = "save"]
    BY <1>7 DEF SwallowsDuplicate, Becomes
  <2> QED
    BY <1>0, <1>1, <2>1, <2>2, <2>3, SavesOnceOnRecord DEF BookInv
<1>8. ASSUME q.pc = "mark", Becomes(a, [q EXCEPT !.pc = "markAddressOnly"])
      PROVE  BookInv'
  <2>1. IsCall([q EXCEPT !.pc = "markAddressOnly"])
    BY <1>2, <1>8 DEF IsCall, Steps, Saving
  <2> QED
    BY <1>8, <2>1, CallGoesOn
<1> QED
  BY <1>4, <1>5, <1>6, <1>7, <1>8 DEF MarkAddress, MarkAddressOnly

-----------------------------------------------------------------------------
(* Saving and creating *)

\* A document that is sent an update.
Updated(doc, set) ==
  [f \in DOMAIN doc |-> IF f \in DOMAIN set THEN set[f] ELSE doc[f]]

LEMMA UpdatedIsDocument ==
  ASSUME NEW doc, NEW set, IsDocument(doc), IsUpdate(set, doc.estimated)
  PROVE  LET new == Updated(doc, set)
         IN /\ IsDocument(new)
            /\ new.estimated = doc.estimated /\ new.address = doc.address
            /\ new.applied => doc.applied \/ "applied" \in DOMAIN set
<1> DEFINE new == Updated(doc, set)
<1>1. /\ DOMAIN new = Fields
      /\ new.estimated = doc.estimated /\ new.address = doc.address
      /\ new.email = doc.email /\ new.requested = doc.requested
      /\ new.surcharge = doc.surcharge /\ new.order = doc.order
      /\ new.quote = set.quote
  BY DEF Updated, IsDocument, IsUpdate, Fields
<1>2. /\ new.commercial \in Commercial /\ new.applied \in BOOLEAN
      /\ new.preview \in Nat /\ IsAmount(new.amount, doc.estimated)
      /\ new.applied => doc.applied \/ "applied" \in DOMAIN set
  BY DEF Updated, IsDocument, IsUpdate, Fields
<1>3. IsQuote(new.quote, new.estimated)
  BY <1>1 DEF IsUpdate
<1>4. new.quote # NoQuote
  BY <1>1, <1>3 DEF IsQuote, NoQuote, IsDocument
<1> HIDE DEF new
<1>5. \E o \in Orders, zone \in Zones : CreatedFor(new, o, zone)
  BY <1>1, <1>4 DEF IsDocument, CreatedFor
<1>6. IsDocument(new)
  BY <1>1, <1>2, <1>3, <1>5 DEF IsDocument
<1> QED
  BY <1>1, <1>2, <1>6 DEF new

LEMMA SaveKeeps ==
  ASSUME BookInv, NEW a \in Admins, Save(a)
  PROVE  BookInv'
<1> DEFINE b == req[a].booking
           set == req[a].set
           new == Updated(booking[b], set)
<1>1. req[a].pc \in Saving /\ IsCall(req[a])
  BY DEF Save, Saving, BookInv
<1>2. /\ b \in Created /\ IsUpdate(set, booking[b].estimated)
      /\ "applied" \in DOMAIN set => OnRecord(b)
  BY <1>1 DEF IsCall, Saving
<1>3. b \in Bookings /\ IsDocument(booking[b])
  BY <1>2 DEF Created, BookInv
<1>4. /\ IsDocument(new)
      /\ new.estimated = booking[b].estimated
      /\ new.address = booking[b].address
      /\ new.applied => booking[b].applied \/ "applied" \in DOMAIN set
  BY <1>2, <1>3, UpdatedIsDocument
<1>5. /\ DOMAIN booking' = Bookings /\ booking'[b] = new
      /\ \A c \in Bookings \ {b} : booking'[c] = booking[c]
      /\ UNCHANGED <<rows, warned>>
  BY <1>3 DEF Save, BookInv, Updated
<1>6. new.commercial # "absent"
  BY <1>4 DEF IsDocument, Commercial
<1> HIDE DEF new
<1>7. UNCHANGED Created
  BY <1>2, <1>5, <1>6 DEF Created
<1>8. \A c \in Created : /\ booking'[c].address = booking[c].address
                         /\ booking'[c].estimated = booking[c].estimated
  BY <1>4, <1>5 DEF Created
<1>9. \A c \in Created : IsDocument(booking'[c])
  BY <1>4, <1>5 DEF BookInv, Created
<1>10. \A c \in Created : OnRecord(c) => OnRecord(c)'
  BY <1>5, <1>8 DEF OnRecord, AddressUsed
<1>11. \A c \in Created : booking'[c].applied => OnRecord(c)'
  BY <1>2, <1>4, <1>5, <1>10 DEF BookInv, Created
<1>12. \A c \in Admins : IsCall(req[c])'
  <2>1. \A c \in Admins \ {a} : req'[c] = req[c] /\ IsCall(req[c])
    BY DEF Save, BookInv
  <2>2. req'[a] = Idle \/ req'[a] = [pc |-> "draft", booking |-> b]
    BY DEF Save, BookInv
  <2>3. IsCall(req[a])'
    BY <1>2, <1>7, <2>2 DEF IsCall, Idle, Steps, Saving
  <2>4. \A c \in Admins \ {a} : IsCall(req[c])'
    <3> TAKE c \in Admins \ {a}
    <3>1. IsCall(req[c]) /\ req'[c] = req[c]
      BY <2>1
    <3> QED
      BY <1>7, <1>8, <1>10, <3>1 DEF IsCall, Saving
  <2> QED
    BY <2>3, <2>4
<1>13. DOMAIN req' = Admins
  BY DEF Save, BookInv
<1> QED
  BY <1>5, <1>7, <1>9, <1>11, <1>12, <1>13 DEF BookInv

LEMMA CreateKeeps ==
  ASSUME BookInv, ShownInv, NEW b \in Bookings, NEW zone \in Zones,
         NEW x \in Submitted, Create(b, zone, x)
  PROVE  BookInv'
<1> DEFINE o == shown.order
           price == PriceOf(o, zone)
           new == [commercial |-> x.commercial, address |-> x.address,
                   email |-> x.email, requested |-> x.requested,
                   order |-> Kept(o, price.borderline),
                   surcharge |-> Surcharged(zone),
                   estimated |-> price.estimated, preview |-> price.final,
                   applied |-> FALSE, amount |-> 0, quote |-> NoQuote]
<1>1. o \in Orders /\ Priced(o)
  BY DEF Create, ShownInv
<1>2. /\ price.borderline \in Nat
      /\ price.estimated \in Nat /\ price.estimated >= 100
      /\ price.final \in Nat
  BY <1>1, Amounts, LinesAddUp
<1>3. /\ x.address \in Addresses /\ x.email \in Emails
      /\ x.requested \in BOOLEAN
      /\ x.commercial \in {"none", "quote_requested"}
  BY SubmissionsAssumption DEF Submitted
<1>4. Kept(o, price.borderline).fee = price.borderline
  BY <1>1, KeptFields
<1>5. CreatedFor(new, o, zone)
  BY <1>1 DEF CreatedFor
<1>6. IsDocument(new)
  <2>1. IsAmount(0, price.estimated)
    BY <1>2 DEF IsAmount
  <2>2. Surcharged(zone) \in BOOLEAN
    BY DEF Surcharged
  <2>3. DOMAIN new = Fields
    BY DEF Fields
  <2> HIDE DEF price
  <2>4. new.commercial \in Commercial /\ new.commercial # "quote_sent"
    BY <1>3 DEF Commercial
  <2> QED
    BY <1>1, <1>2, <1>3, <1>4, <1>5, <2>1, <2>2, <2>3, <2>4
       DEF IsDocument
<1>7. booking' = [booking EXCEPT ![b] = new] /\ b \notin Created
  BY DEF Create, PriceOf
<1>8. new.commercial # "absent" /\ ~new.applied
  BY <1>3
<1> HIDE DEF new
<1>9. /\ DOMAIN booking' = Bookings /\ booking'[b] = new
      /\ \A c \in Bookings \ {b} : booking'[c] = booking[c]
      /\ UNCHANGED <<rows, warned, req>>
  BY <1>7 DEF Create, BookInv
<1>10. Created' = Created \cup {b}
  BY <1>8, <1>9 DEF Created
<1>11. \A c \in Created : booking'[c] = booking[c]
  BY <1>7, <1>9 DEF Created
<1>12. \A c \in Created : OnRecord(c) => OnRecord(c)'
  BY <1>9, <1>11 DEF OnRecord, AddressUsed
<1>13. \A c \in Created' : IsDocument(booking'[c])
  BY <1>6, <1>9, <1>10, <1>11 DEF BookInv
<1>14. \A c \in Created' : booking'[c].applied => OnRecord(c)'
  BY <1>8, <1>9, <1>10, <1>11, <1>12 DEF BookInv
<1>15. \A c \in Admins : IsCall(req[c])'
  <2> TAKE c \in Admins
  <2>1. IsCall(req[c]) /\ req'[c] = req[c]
    BY <1>9 DEF BookInv
  <2> QED
    BY <1>10, <1>11, <1>12, <2>1 DEF IsCall, Saving
<1> QED
  BY <1>9, <1>10, <1>13, <1>14, <1>15 DEF BookInv

-----------------------------------------------------------------------------
(* The invariant holds *)

QuotingInv == ShownInv /\ BookInv

LEMMA InitEstablishes == Init => QuotingInv
BY DEF Init, QuotingInv, ShownInv, BookInv, Created, NotCreated, IsCall, Idle,
       Steps, Saving, Rows

LEMMA AdministersKeeps ==
  ASSUME BookInv, NEW a \in Admins, Administers(a)
  PROVE  BookInv'
BY SaveQuoteDraftKeeps, SendQuoteKeeps, DiscountCallKeeps, ReviseKeeps,
   MarkingKeeps, SaveKeeps DEF Administers

LEMMA UnchangedKeeps ==
  ASSUME BookInv, UNCHANGED <<booking, rows, warned, req>>
  PROVE  BookInv'
<1>1. UNCHANGED Created
  BY DEF Created
<1>2. \A a \in Admins : IsCall(req[a])'
  <2> TAKE a \in Admins
  <2>1. IsCall(req[a])
    BY DEF BookInv
  <2> QED
    BY <1>1, <2>1 DEF IsCall, OnRecord, AddressUsed
<1> QED
  BY <1>1, <1>2 DEF BookInv, OnRecord, AddressUsed

LEMMA StepKeeps == QuotingInv /\ [Next]_vars => QuotingInv'
<1> SUFFICES ASSUME QuotingInv, [Next]_vars
             PROVE  QuotingInv'
  OBVIOUS
<1>1. ShownInv /\ BookInv
  BY DEF QuotingInv
<1>2. ShownInv'
  BY <1>1, ShownStays
<1>3. ASSUME NEW b \in Bookings \ Created, NEW zone \in Zones,
             NEW x \in Submitted, Create(b, zone, x)
      PROVE  BookInv'
  BY <1>1, <1>3, CreateKeeps
<1>4. ASSUME NEW a \in Admins, Administers(a)
      PROVE  BookInv'
  BY <1>1, <1>4, AdministersKeeps
<1>5. ASSUME UNCHANGED <<booking, rows, warned, req>>
      PROVE  BookInv'
  BY <1>1, <1>5, UnchangedKeeps
<1>6. BookInv'
  BY <1>3, <1>4, <1>5 DEF Next, PreviewPricing, StartOver, vars
<1> QED
  BY <1>2, <1>6 DEF QuotingInv

-----------------------------------------------------------------------------
(* What the invariant says *)

LEMMA DocumentIsTyped ==
  ASSUME NEW doc, IsDocument(doc)
  PROVE  [f \in DOMAIN doc \ {"order"} |-> doc[f]] \in Documents
<1> DEFINE rest == [f \in DOMAIN doc \ {"order"} |-> doc[f]]
<1>1. DOMAIN rest = {"commercial", "address", "email", "requested",
                     "surcharge", "estimated", "preview", "applied", "amount",
                     "quote"}
  BY DEF IsDocument, Fields
<1>2. NoQuote \in Quotes
  BY DEF NoQuote, Quotes, Percents
<1>3. /\ rest.commercial \in Commercial
      /\ rest.address \in Addresses /\ rest.email \in Emails
      /\ rest.requested \in BOOLEAN /\ rest.surcharge \in BOOLEAN
      /\ rest.estimated \in Nat /\ rest.preview \in Nat
      /\ rest.applied \in BOOLEAN /\ rest.amount \in Nat
      /\ rest.quote \in Quotes
  BY <1>1, <1>2 DEF IsDocument, IsAmount, IsQuote
<1>4. rest = [f \in DOMAIN rest |-> rest[f]]
  OBVIOUS
<1> HIDE DEF rest
<1>5. rest \in Documents
  BY <1>1, <1>3, <1>4 DEF Documents, Commercial
<1> QED
  BY <1>5 DEF rest

LEMMA DistanceOf ==
  ASSUME NEW o, NEW a, NEW d, NEW zone
  PROVE  Breakdown(o, a, d, zone).distance = IF o.model = "V2" THEN 0 ELSE d
BY DEF Breakdown, BreakdownV1, BillV1, BreakdownV2, BillV2, Bill, PartsV1,
       PartsV2

\* What is stored of a V2 selection still has a price.
LEMMA KeptV2Priced ==
  ASSUME NEW o \in Orders, Priced(o), o.model = "V2", NEW fee
  PROVE  Priced(Kept(o, fee))
BY KeptFields DEF Priced, PricedV2

\* The display finds the lines of the preview again.
LEMMA LinesFoundAgain ==
  ASSUME NEW doc, NEW o \in Orders, NEW zone \in Zones,
         CreatedFor(doc, o, zone), Priced(doc.order), NEW a,
         NEW p, p = Breakdown(doc.order, a, DistanceFee(doc.surcharge),
                              "unresolved")
  PROVE  p.base + p.bedrooms + p.special + p.extras + p.pets + p.distance
           + p.borderline = PriceOf(o, zone).final
<1> DEFINE q == PriceOf(o, zone)
           fee == q.borderline
           d == DistanceFee(Surcharged(zone))
<1>1. /\ Priced(o) /\ doc.order = Kept(o, fee)
      /\ doc.surcharge = Surcharged(zone)
  BY DEF CreatedFor
<1>2. p = Breakdown(Kept(o, fee), a, d, "unresolved")
  BY <1>1
<1>3. SameParts(p, q)
  BY <1>1, <1>2, Reproduces
<1>4. Kept(o, fee).model = o.model
  BY KeptFields
<1>5. q.distance = IF o.model = "V2" THEN 0 ELSE d
  BY DEF PriceOf, Breakdown, BreakdownV1, BillV1, BreakdownV2, BillV2, Bill,
         PartsV1, PartsV2
<1>6. p.distance = q.distance
  <2> HIDE DEF d, fee, q
  <2> QED
    BY <1>2, <1>4, <1>5, DistanceOf
<1>7. AllLines(q) = q.final
  BY <1>1, LinesAddUp
<1> QED
  BY <1>3, <1>6, <1>7 DEF AllLines, SameParts

LEMMA ItemsOfDocument ==
  ASSUME NEW doc, IsDocument(doc),
         ~Drafted(doc) \/ (/\ doc.order.model = "V2"
                           /\ doc.quote.base = doc.estimated
                           /\ doc.applied => doc.quote.type # "none")
  PROVE  Items(doc) = Total(doc)
<1>1. PICK o \in Orders, zone \in Zones : CreatedFor(doc, o, zone)
  BY DEF IsDocument
<1> DEFINE q == PriceOf(o, zone)
           a == doc.applied \/ QuoteDiscounts(doc)
           p == Breakdown(doc.order, a, DistanceFee(doc.surcharge),
                          "unresolved")
           lines == p.base + p.bedrooms + p.special + p.extras + p.pets
                      + p.distance + p.borderline
           discount == IF QuoteDiscounts(doc) THEN doc.quote.amount
                       ELSE IF a THEN p.discount ELSE 0
<1>0. PricedItems(doc) = lines - discount
  BY DEF PricedItems
<1>2. /\ doc.estimated = q.estimated /\ Priced(o)
      /\ doc.estimated \in Nat /\ doc.estimated >= 100
      /\ q.final \in Nat /\ q.final >= q.estimated
      /\ o.model = "V2" => q.final = q.estimated
  BY <1>1, Amounts, LinesAddUp DEF CreatedFor
<1>3. Priced(doc.order) => lines = q.final
  BY <1>1, LinesFoundAgain
<1>4. CASE ~Drafted(doc)
  <2>1. doc.quote = NoQuote /\ ~doc.applied
    <3>1. ~IsQuote(doc.quote, doc.estimated)
      BY <1>2, <1>4 DEF IsQuote, Quotes, Drafted
    <3> QED
      BY <3>1 DEF IsDocument
  <2>2. ~QuoteDiscounts(doc)
    BY <2>1 DEF QuoteDiscounts, NoQuote
  <2>3. doc.preview = q.final
    BY <1>1, <2>1 DEF CreatedFor
  <2>4. Total(doc) = q.final
    BY <1>4, <2>3 DEF Total
  <2>5. ASSUME Priced(doc.order)
        PROVE  Items(doc) = Total(doc)
    <3>1. discount = 0
      BY <2>1, <2>2
    <3> HIDE DEF lines, discount, q
    <3>2. PricedItems(doc) = q.final
      BY <1>0, <1>2, <1>3, <2>5, <3>1
    <3> QED
      BY <2>4, <2>5, <3>2 DEF Items
  <2>6. ASSUME ~Priced(doc.order)
        PROVE  Items(doc) = Total(doc)
    <3> HIDE DEF q
    <3>1. doc.estimated + (IF q.final > doc.estimated
                             THEN q.final - doc.estimated ELSE 0) - 0 = q.final
      BY <1>2
    <3>2. StoredItems(doc) = q.final
      BY <2>2, <2>4, <3>1 DEF StoredItems
    <3> QED
      BY <2>4, <2>6, <3>2 DEF Items
  <2> QED
    BY <2>5, <2>6
<1>5. ASSUME Drafted(doc), doc.order.model = "V2",
             doc.quote.base = doc.estimated,
             doc.applied => doc.quote.type # "none"
      PROVE  Items(doc) = Total(doc)
  <2>1. o.model = "V2" /\ Priced(doc.order)
    BY <1>1, <1>2, <1>5, KeptFields, KeptV2Priced DEF CreatedFor
  <2>2. IsQuote(doc.quote, doc.estimated)
    BY <1>5 DEF IsDocument, Drafted, NoQuote
  <2> DEFINE type == doc.quote.type
             amount == doc.quote.amount
  <2>3. /\ type \in DOMAIN Percents /\ amount \in Nat
        /\ amount = Share(doc.estimated, Percents[type])
        /\ Total(doc) = doc.estimated - amount
    BY <1>5, <2>2 DEF IsQuote, Quotes, Total
  <2>4. lines = doc.estimated
    BY <1>2, <1>3, <2>1
  <2>5. CASE type = "none"
    <3>1. Percents[type] = 0
      BY <2>5 DEF Percents
    <3>2. amount = 0
      BY <1>2, <2>3, <3>1, SharesOf
    <3>3. ~doc.applied /\ ~QuoteDiscounts(doc)
      BY <1>5, <2>5 DEF QuoteDiscounts
    <3>4. discount = 0
      BY <3>3
    <3> HIDE DEF lines, discount, amount
    <3> QED
      BY <1>0, <1>2, <2>1, <2>3, <2>4, <3>2, <3>4 DEF Items
  <2>6. CASE type # "none"
    <3>1. Percents[type] \in {0, 10, 15, 20} /\ Percents[type] # 0
      BY <2>3, <2>6 DEF Percents
    <3>2. amount > 0
      <4> DEFINE n == doc.estimated
                 percent == Percents[type]
      <4>1. n \in Nat /\ n >= 100
        BY <1>2
      <4> HIDE DEF n, percent
      <4>2. Share(n, percent) > 0
        BY <3>1, <4>1, SharesOf DEF percent
      <4> QED
        BY <2>3, <4>2 DEF n, percent
    <3>3. QuoteDiscounts(doc)
      BY <2>6, <3>2 DEF QuoteDiscounts
    <3>4. discount = amount
      BY <3>3
    <3> HIDE DEF lines, discount, amount
    <3> QED
      BY <1>0, <2>1, <2>3, <2>4, <3>4 DEF Items
  <2> QED
    BY <2>5, <2>6
<1> QED
  BY <1>4, <1>5

LEMMA QuoteBounds ==
  ASSUME NEW doc, IsDocument(doc), Drafted(doc)
  PROVE  /\ 100 * doc.quote.final >= 80 * doc.estimated - 100
         /\ 85 * doc.quote.base <= 100 * doc.estimated + 100
<1> DEFINE base == doc.quote.base
           e == doc.estimated
           share == Share(base, Percents[doc.quote.type])
<1>1. IsQuote(doc.quote, e) /\ e \in Nat
  BY DEF IsDocument, Drafted, NoQuote
<1>2. /\ base \in Nat /\ e <= base /\ 85 * base <= 100 * e + 100
      /\ doc.quote.final = base - share
      /\ doc.quote.type \in DOMAIN Percents
  BY <1>1 DEF IsQuote, Quotes
<1>3. share \in Nat /\ 100 * share <= 20 * base + 50
  BY <1>2, PercentsRange, SharesOf
<1> HIDE DEF base, share, e
<1>4. 100 * (base - share) >= 80 * e - 100
  BY <1>1, <1>2, <1>3
<1> QED
  BY <1>2, <1>4 DEF base, e

-----------------------------------------------------------------------------
(* Theorems *)

LEMMA AlwaysInv == Spec => []QuotingInv
<1>1. Init => QuotingInv
  BY InitEstablishes
<1>2. QuotingInv /\ [Next]_vars => QuotingInv'
  BY StepKeeps
<1> QED
  BY <1>1, <1>2, PTL DEF Spec

\* Amounts stay whole cents and documents complete, whoever saves what.
THEOREM TypeCorrect == Spec => []TypeOK
<1>1. QuotingInv => TypeOK
  <2> SUFFICES ASSUME QuotingInv
               PROVE  TypeOK
    OBVIOUS
  <2>1. ShownInv /\ BookInv
    BY DEF QuotingInv
  <2>2. \A b \in Created :
          /\ [f \in DOMAIN booking[b] \ {"order"} |-> booking[b][f]]
               \in Documents
          /\ booking[b].order.fee \in Nat
    BY <2>1, DocumentIsTyped DEF BookInv, IsDocument
  <2> QED
    BY <2>1, <2>2 DEF TypeOK, ShownInv, BookInv, IsCall
<1> QED
  BY <1>1, AlwaysInv, PTL

\* saveQuoteDraft and applyAdminFirstServiceDiscount: no booking carries the
\* first-service discount without its address, or a log line, to show for it,
\* for any number of bookings and of calls that overlap, fail or stop.
THEOREM DiscountAlwaysOnRecord == Spec => []DiscountOnRecord
<1>1. QuotingInv => DiscountOnRecord
  BY DEF QuotingInv, BookInv, OnRecord, DiscountOnRecord
<1> QED
  BY <1>1, AlwaysInv, PTL

\* Discounts never stack, however many drafts and revisions there are.
THEOREM OneDiscountOnly == Spec => []OneDiscountAtMost
<1>1. QuotingInv => OneDiscountAtMost
  BY QuoteBounds DEF QuotingInv, BookInv, OneDiscountAtMost
<1> QED
  BY <1>1, AlwaysInv, PTL

\* recomputeUndiscountedAuthoritativeBase: its base climbs, but not beyond
\* estimate / 0.85, after any number of drafts.
THEOREM InflationIsBounded == Spec => []InflationBounded
<1>1. QuotingInv => InflationBounded
  BY QuoteBounds DEF QuotingInv, BookInv, InflationBounded
<1> QED
  BY <1>1, AlwaysInv, PTL

\* buildDisplayPricing: the items recomputed from a document add up to the
\* total it shows, for any selection the engine prices in whole cents.
THEOREM ItemsAlwaysAddUp == Spec => []ItemsAddUp
<1>1. QuotingInv => ItemsAddUp
  BY ItemsOfDocument DEF QuotingInv, BookInv, ItemsAddUp
<1> QED
  BY <1>1, AlwaysInv, PTL
=============================================================================
