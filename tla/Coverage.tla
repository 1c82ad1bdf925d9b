------------------------------ MODULE Coverage ------------------------------
(***************************************************************************)
(* Where the company works: the pure part of GeoPricingService.  The map   *)
(* is a road, on which positions are half kilometres; the haversine        *)
(* distance is used by the code for nothing but comparisons, and any       *)
(* metric has the same triangle inequality.                                *)
(***************************************************************************)
EXTENDS Integers, FiniteSetsExt

CONSTANTS
  CoverageZones,  \* the circles: records of a centre and a radius
  NoPosition      \* coordinates that were not given, or not found

ASSUME ZonesAssumption ==
  /\ CoverageZones \subseteq [center : Int, radius : Nat]
  /\ CoverageZones # {} /\ IsFiniteSet(CoverageZones)
ASSUME NoPositionAssumption == NoPosition \notin Int

Distance(p, q) == IF p < q THEN q - p ELSE p - q

BorderlineThreshold == 2  \* BORDERLINE_OUTSIDE_THRESHOLD_V2_KM, 1 km
MismatchThreshold == 2    \* latLngMismatchThresholdKm, 1 km

Inside(p) == {z \in CoverageZones : Distance(p, z.center) <= z.radius}
Bordering(p) ==
  {z \in CoverageZones :
     Distance(p, z.center) \in (z.radius + 1)..(z.radius + BorderlineThreshold)}

\* A bug in its place: only the zone with the nearest centre is looked at.
CoverageOfNearest(p) ==
  LET nearest == {z \in CoverageZones : \A y \in CoverageZones :
                    Distance(p, z.center) <= Distance(p, y.center)}
  IN IF Inside(p) \cap nearest # {} THEN "INSIDE"
     ELSE IF Bordering(p) \cap nearest # {} THEN "BORDERLINE" ELSE "OUTSIDE"

\* classifyCoverageV2: all zones are looked at, and a zone that contains the
\* address outranks one that only borders on it.
CoverageOf(p) ==
  IF Inside(p) # {} THEN "INSIDE"
  ELSE IF Bordering(p) # {} THEN "BORDERLINE" ELSE "OUTSIDE"

\* A bug in its place: coordinates of the customer always win.
ClientTrusted(server, client) == IF client = NoPosition THEN server ELSE client

\* validateClientCoordinates: the customer's coordinates count where they are
\* close to the geocoded address.
Validated(server, client) ==
  IF client # NoPosition /\ Distance(client, server) <= MismatchThreshold
    THEN client ELSE server

\* The same classification from the signed distance to the nearest boundary.
Gap(p) == Min({Distance(p, z.center) - z.radius : z \in CoverageZones})
CoverageByGap(p) == CASE Gap(p) <= 0 -> "INSIDE"
                      [] Gap(p) \in 1..BorderlineThreshold -> "BORDERLINE"
                      [] OTHER -> "OUTSIDE"
=============================================================================
