----------------------------- MODULE PriceEngine -----------------------------
(***************************************************************************)
(* The pricing engine of BookingService and the V2 catalogues it reads.    *)
(* Prices are in cents.  An order is what the customer selected; `Priced`  *)
(* says that calculatePricingBreakdown returns instead of throwing, and    *)
(* `Breakdown` is what it then returns.  Service names, which the code     *)
(* normalises from free text, are taken in their normal form.              *)
(***************************************************************************)
EXTENDS Integers, FiniteSets, Functions, TLC

CONSTANTS
  FirstTimePercent,  \* FIRST_TIME_DISCOUNT_PERCENT, 15 when not set
  NoFee              \* an order that names no borderline fee

ASSUME PercentAssumption == FirstTimePercent \in 1..99
ASSUME NoFeeAssumption == NoFee \notin Nat

OrderFields ==
  {"model", "service", "mode", "rooms", "additional", "hours", "cleaners",
   "windows", "extras", "pets", "special", "fee", "dynamic"}

Dollars(n) == 100 * n

\* roundCurrency of `percent` of an amount: half a cent is rounded up.
Share(amount, percent) == (amount * percent + 50) \div 100

-----------------------------------------------------------------------------
(* Catalogues: base prices by <<bedrooms, bathrooms>>, in dollars *)

StandardPrices ==
  <<1, 1>> :> 120 @@ <<2, 1>> :> 140 @@ <<2, 2>> :> 160 @@
  <<3, 2>> :> 180 @@ <<4, 2>> :> 210 @@ <<4, 3>> :> 250
DeepPrices ==
  <<1, 1>> :> 180 @@ <<2, 2>> :> 240 @@ <<3, 2>> :> 280 @@ <<4, 3>> :> 360
ApartmentPrices ==
  <<1, 1>> :> 110 @@ <<2, 1>> :> 130 @@ <<2, 2>> :> 140 @@
  <<3, 2>> :> 170 @@ <<4, 2>> :> 190
MoveOutPrices ==
  <<1, 1>> :> 185 @@ <<2, 2>> :> 250 @@ <<3, 2>> :> 290 @@ <<4, 3>> :> 365
MoveInPrices ==
  <<1, 1>> :> 120 @@ <<2, 1>> :> 130 @@ <<2, 2>> :> 130 @@
  <<3, 2>> :> 150 @@ <<4, 2>> :> 170 @@ <<4, 3>> :> 170
RegularPrices ==
  <<1, 1>> :> 110 @@ <<2, 1>> :> 130 @@ <<2, 2>> :> 130 @@
  <<3, 1>> :> 150 @@ <<3, 2>> :> 150 @@ <<4, 2>> :> 180 @@
  <<4, 3>> :> 180 @@ <<5, 2>> :> 200 @@ <<5, 3>> :> 210

\* "none" is a regular cleaning without a special service.
SpecialFees ==
  "none" :> 0 @@ "deep_home_cleaning" :> 80 @@ "move_in_out" :> 75 @@
  "post_construction" :> 200 @@ "extreme_home_cleaning" :> 250

\* getExtraUnitPrice; its other spellings are the same extras.
ExtraPricesV1 ==
  "refrigerator" :> 30 @@ "oven" :> 30 @@ "cabinets" :> 35 @@
  "heavy_furniture_moving" :> 25 @@ "same_day" :> 20 @@ "garage" :> 30 @@
  "full_garage" :> 70 @@ "closet_organization" :> 30 @@ "laundry" :> 15 @@
  "outside_window" :> 8

ExtraPricesV2 ==
  "refrigerator" :> 25 @@ "oven" :> 25 @@ "heavy_furniture_moving" :> 25 @@
  "same_day" :> 20 @@ "garage" :> 30 @@ "full_garage" :> 70 @@
  "closet_organization" :> 25 @@ "laundry" :> 15 @@ "outside_window" :> 7

MaxQuantities == "laundry" :> 2 @@ "heavy_furniture_moving" :> 2

ExclusiveGroups == {{"garage", "full_garage"}}

\* incompatibleExtraIds of each special service.
Included ==
  "none" :> {} @@
  "deep_home_cleaning" :> {"heavy_furniture_moving"} @@
  "move_in_out" :> {"closet_organization", "oven", "refrigerator"} @@
  "post_construction" :>
    {"closet_organization", "laundry", "garage", "full_garage"} @@
  "extreme_home_cleaning" :>
    {"closet_organization", "laundry", "garage", "full_garage"}

\* COMPATIBILITY_MATRIX_V2: the pairs it marks false.
MatrixForbids(extra, special) ==
  special = "move_in_out"
    /\ extra \in {"closet_organization", "oven", "refrigerator"}

\* A bug in its place: only the matrix is consulted.
CompatibleByMatrix(extra, special) == ~MatrixForbids(extra, special)

\* isExtraCompatibleV2
Compatible(extra, special) ==
  ~MatrixForbids(extra, special) /\ extra \notin Included[special]

\* explainExtraUnavailabilityV2 returns a reason for this extra.
Unavailable(extra, special, selected) ==
  \/ extra \in Included[special]
  \/ MatrixForbids(extra, special)
  \/ \E g \in ExclusiveGroups : extra \in g /\ selected \cap (g \ {extra}) # {}

SumOf(amounts) == FoldFunction(+, 0, amounts)

-----------------------------------------------------------------------------
(* Extras: a function from the chosen extras to their quantities *)

ExtrasTotal(extras, prices) ==
  Dollars(SumOf([e \in DOMAIN extras |-> extras[e] * prices[e]]))

\* calculateExtrasV2 does not throw.
ExtrasAccepted(extras, special) ==
  LET chosen == DOMAIN extras
  IN /\ chosen \subseteq DOMAIN ExtraPricesV2
     /\ \A e \in chosen : Compatible(e, special)
     /\ \A e \in chosen \cap DOMAIN MaxQuantities :
          extras[e] <= MaxQuantities[e]
     /\ \A g \in ExclusiveGroups : Cardinality(chosen \cap g) <= 1

-----------------------------------------------------------------------------
(* V1: a table and a rate per additional bedroom for each service *)

RoomServices == {"standard", "deep", "apartment", "move"}
ServicesV1 == RoomServices \cup {"post_construction", "window"}
MoveModes == {"move_in", "move_out", "both"}

RoomTables(o) ==
  CASE o.service = "standard" -> {StandardPrices}
    [] o.service = "deep" -> {DeepPrices}
    [] o.service = "apartment" -> {ApartmentPrices}
    [] o.mode = "move_in" -> {MoveInPrices}
    [] o.mode = "move_out" -> {MoveOutPrices}
    [] OTHER -> {MoveInPrices, MoveOutPrices}

BedroomRate(table) ==
  CASE table = ApartmentPrices -> 20
    [] table \in {StandardPrices, MoveInPrices} -> 30
    [] OTHER -> 40

\* Moving in and out together is 20% cheaper.
MoveShare(o, dollars) ==
  IF o.service = "move" /\ o.mode = "both" THEN Share(Dollars(dollars), 80)
                                           ELSE Dollars(dollars)

RoomsPrice(o) ==
  MoveShare(o, SumOf([t \in RoomTables(o) |-> t[o.rooms]]))
BedroomsPrice(o) ==
  MoveShare(o, SumOf([t \in RoomTables(o) |-> o.additional * BedroomRate(t)]))

\* At most three cleaners are billed.
PostConstructionPrice(hours, cleaners) ==
  Dollars(60 + 40 * (hours - 1)
             + 20 * ((IF cleaners > 3 THEN 3 ELSE cleaners) - 1))

PricedV1(o) ==
  /\ o.service \in ServicesV1
  /\ DOMAIN o.extras \subseteq DOMAIN ExtraPricesV1
  /\ o.service \in RoomServices =>
       \A t \in RoomTables(o) : o.rooms \in DOMAIN t
  /\ o.service = "move" => o.mode \in MoveModes
  /\ o.service = "post_construction" => o.hours >= 1 /\ o.cleaners >= 1
  /\ o.service = "window" => o.windows >= 1

BaseV1(o) ==
  CASE o.service \in RoomServices -> RoomsPrice(o)
    [] o.service = "post_construction" ->
         PostConstructionPrice(o.hours, o.cleaners)
    [] o.service = "window" -> Dollars(8 * o.windows)

PartsV1(o, distance) ==
  [base |-> BaseV1(o),
   bedrooms |-> IF o.service \in RoomServices THEN BedroomsPrice(o) ELSE 0,
   special |-> 0, extras |-> ExtrasTotal(o.extras, ExtraPricesV1),
   pets |-> IF o.pets THEN Dollars(10) ELSE 0, distance |-> distance,
   borderline |-> 0]

Discount(estimated, discounted) ==
  IF discounted THEN estimated - Share(estimated, 100 - FirstTimePercent) ELSE 0

Bill(p, estimated, onTop, discount) ==
  [base |-> p.base, bedrooms |-> p.bedrooms, special |-> p.special,
   extras |-> p.extras, pets |-> p.pets, distance |-> p.distance,
   borderline |-> p.borderline, estimated |-> estimated,
   discount |-> discount, final |-> estimated - discount + onTop]

\* The price estimated is of the rooms; extras, pets and distance come on top
\* of what the discount leaves of it.
BillV1(p, discounted) ==
  Bill(p, p.base + p.bedrooms, p.extras + p.pets + p.distance,
       Discount(p.base + p.bedrooms, discounted))

BreakdownV1(o, discounted, distance) == BillV1(PartsV1(o, distance), discounted)

-----------------------------------------------------------------------------
(* V2: a regular cleaning, supplements, and the borderline fee *)

Zones == {"INSIDE", "BORDERLINE", "OUTSIDE", "unresolved"}

\* The server's classification decides; without one the fee the order names
\* does, and without that the legacy surcharge.
BorderlineFee(o, zone, distance) ==
  CASE zone = "BORDERLINE" -> Dollars(25)
    [] zone \in {"INSIDE", "OUTSIDE"} -> 0
    [] o.fee # NoFee -> o.fee
    [] OTHER -> IF distance > 0 THEN Dollars(25) ELSE 0

PricedV2(o) ==
  /\ o.rooms \in DOMAIN RegularPrices
  /\ o.special \in DOMAIN SpecialFees
  /\ ExtrasAccepted(o.extras, o.special)

PartsV2(o, distance, zone) ==
  [base |-> Dollars(RegularPrices[o.rooms]),
   bedrooms |-> Dollars(40 * o.additional),
   special |-> Dollars(SpecialFees[o.special]),
   extras |-> ExtrasTotal(o.extras, ExtraPricesV2), pets |-> 0, distance |-> 0,
   borderline |-> BorderlineFee(o, zone, distance)]

SubtotalV2(p) == p.base + p.bedrooms + p.special + p.extras + p.borderline

\* The discount is taken from the whole subtotal.
BillV2(p, discounted) ==
  Bill(p, SubtotalV2(p), 0, Discount(SubtotalV2(p), discounted))

BreakdownV2(o, discounted, distance, zone) ==
  BillV2(PartsV2(o, distance, zone), discounted)

-----------------------------------------------------------------------------
\* calculatePricingBreakdown
Priced(o) == IF o.model = "V2" THEN PricedV2(o) ELSE PricedV1(o)

Breakdown(o, discounted, distance, zone) ==
  IF o.model = "V2" THEN BreakdownV2(o, discounted, distance, zone)
                    ELSE BreakdownV1(o, discounted, distance)

\* The legacy surcharge is GeoPricingResult.distanceSurcharge.
Surcharged(zone) == zone = "BORDERLINE"

\* distanceSurchargeFee
DistanceFee(surcharge) == IF surcharge THEN Dollars(20) ELSE 0
=============================================================================
