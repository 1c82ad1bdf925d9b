----------------------------- MODULE Intake_proofs -----------------------------
(***************************************************************************)
(* Proofs about Intake for any finite number of requests, any zones,       *)
(* addresses and forms, and however long the provider takes.               *)
(***************************************************************************)
EXTENDS Intake, FiniteSetTheorems, TLAPS

-----------------------------------------------------------------------------
(* Coverage *)

\* The road is a metric space.
LEMMA Triangle ==
  ASSUME NEW p \in Int, NEW q \in Int, NEW c \in Int
  PROVE  Distance(q, c) <= Distance(q, p) + Distance(p, c)
BY DEF Distance

LEMMA CoverageIsZone ==
  ASSUME NEW p
  PROVE  CoverageOf(p) \in {"INSIDE", "BORDERLINE", "OUTSIDE"}
BY DEF CoverageOf

LEMMA ValidatedIsInt ==
  ASSUME NEW server \in Int, NEW client \in Int \cup {NoPosition}
  PROVE  Validated(server, client) \in Int
BY DEF Validated

\* validateClientCoordinates moves an address by the threshold at most.
LEMMA ValidatedIsNear ==
  ASSUME NEW server \in Int, NEW client \in Int \cup {NoPosition}
  PROVE  Distance(server, Validated(server, client)) <= MismatchThreshold
BY DEF Validated, Distance, MismatchThreshold

\* classifyCoverageV2 accepts nothing that is farther from a zone than the
\* borderline threshold.
LEMMA CoveredIsNear ==
  ASSUME NEW p \in Int, CoverageOf(p) \in {"INSIDE", "BORDERLINE"}
  PROVE  \E z \in CoverageZones :
           Distance(p, z.center) <= z.radius + BorderlineThreshold
<1>1. CASE Inside(p) # {}
  <2>1. PICK z \in CoverageZones : Distance(p, z.center) <= z.radius
    BY <1>1 DEF Inside
  <2>2. z.center \in Int /\ z.radius \in Nat
    BY ZonesAssumption
  <2>3. Distance(p, z.center) <= z.radius + BorderlineThreshold
    BY <2>1, <2>2 DEF BorderlineThreshold, Distance
  <2> QED
    BY <2>3
<1>2. CASE Inside(p) = {}
  <2>1. PICK z \in CoverageZones : Distance(p, z.center) \in
               (z.radius + 1)..(z.radius + BorderlineThreshold)
    BY <1>2 DEF CoverageOf, Bordering
  <2>2. z.center \in Int /\ z.radius \in Nat
    BY ZonesAssumption
  <2>3. Distance(p, z.center) <= z.radius + BorderlineThreshold
    BY <2>1, <2>2 DEF BorderlineThreshold
  <2> QED
    BY <2>3
<1> QED
  BY <1>1, <1>2

\* The library's induction over finite sets, on a least set without a minimum.
LEMMA FiniteHasMin ==
  ASSUME NEW S \in SUBSET Int, IsFiniteSet(S), S # {}
  PROVE  \E m \in S : \A x \in S : m <= x
<1> DEFINE NoMin(T) == T # {} /\ \A m \in T : \E x \in T : x < m
           Bad == {T \in SUBSET S : NoMin(T)}
<1> SUFFICES ASSUME NoMin(S) PROVE FALSE
  BY DEF NoMin
<1>1. Bad \subseteq FiniteSubsetsOf(S) /\ Bad # {}
  BY FS_FiniteSubsetsOfFinite
<1>2. PICK T \in Bad : \A U \in Bad : <<U, T>> \notin StrictSubsetOrdering(S)
  <2> HIDE DEF Bad
  <2> QED
    BY <1>1, WFMin, FS_StrictSubsetOrderingWellFounded
<1>3. PICK t \in T : TRUE
  BY <1>2
<1>4. T \ {t} \notin Bad
  BY <1>2, <1>3 DEF StrictSubsetOrdering
<1>5. T \ {t} = {} \/ \E m \in T \ {t} : \A x \in T \ {t} : m <= x
  BY <1>2, <1>4
<1> QED
  BY <1>2, <1>3, <1>5

\* Some boundary is nearest.
LEMMA GapIsNearest ==
  ASSUME NEW p \in Int
  PROVE  /\ \E z \in CoverageZones : Gap(p) = Distance(p, z.center) - z.radius
         /\ \A z \in CoverageZones : Gap(p) <= Distance(p, z.center) - z.radius
         /\ Gap(p) \in Int
<1> DEFINE gap(z) == Distance(p, z.center) - z.radius
           gaps == {gap(z) : z \in CoverageZones}
<1>1. \A z \in CoverageZones : gap(z) \in Int
  BY ZonesAssumption DEF Distance
<1>2. gaps \in SUBSET Int /\ gaps # {}
  BY <1>1, ZonesAssumption
<1>3. IsFiniteSet(gaps)
  <2> DEFINE f == [z \in CoverageZones |-> gap(z)]
  <2>1. f \in Surjection(CoverageZones, gaps)
    BY DEF Surjection
  <2> HIDE DEF f, gaps
  <2> QED
    BY <2>1, ZonesAssumption, FS_Surjection
<1>4. \E m \in gaps : \A x \in gaps : m <= x
  <2> HIDE DEF gaps
  <2> QED
    BY <1>2, <1>3, FiniteHasMin
<1>5. Gap(p) \in gaps /\ \A x \in gaps : Gap(p) <= x
  <2>1. Gap(p) = Min(gaps)
    BY DEF Gap
  <2> HIDE DEF gaps
  <2> QED
    BY <1>4, <2>1 DEF Min
<1> QED
  BY <1>2, <1>5

\* classifyCoverageV2 looks at whole circles, one kind after the other, and
\* finds what the nearest boundary says.
LEMMA CoverageIsByGap ==
  ASSUME NEW p \in Int
  PROVE  CoverageOf(p) = CoverageByGap(p)
<1>1. \A z \in CoverageZones :
        Distance(p, z.center) \in Int /\ z.radius \in Nat
  BY ZonesAssumption DEF Distance
<1>2. PICK near \in CoverageZones :
        /\ Gap(p) \in Int
        /\ Gap(p) = Distance(p, near.center) - near.radius
        /\ \A z \in CoverageZones : Gap(p) <= Distance(p, z.center) - z.radius
  BY GapIsNearest
<1>3. Gap(p) <= 0 <=> Inside(p) # {}
  BY <1>1, <1>2 DEF Inside
<1>4. Inside(p) = {} => (Gap(p) \in 1..BorderlineThreshold <=> Bordering(p) # {})
  <2>1. ASSUME NEW z \in CoverageZones, Inside(p) = {}
        PROVE  Distance(p, z.center) > z.radius
    BY <1>1, <2>1 DEF Inside
  <2> QED
    BY <1>1, <1>2, <2>1 DEF Bordering, BorderlineThreshold
<1> QED
  BY <1>2, <1>3, <1>4 DEF CoverageOf, CoverageByGap, BorderlineThreshold

-----------------------------------------------------------------------------
(* Type correctness *)

Results == [reason : {"none", "invalid_address", "refused", "api_unavailable"},
            position : Positions]

\* What a request has found of its address before it goes on to the database.
Served(f, zone, position) ==
  \/ zone = "unresolved"
  \/ /\ Location[f.address] \in Int
     /\ position = Validated(Location[f.address], f.client)
     /\ zone = CoverageOf(position)
     /\ f.model = "V2" => zone # "OUTSIDE"

IsRequest(q) ==
  \/ q = Idle
  \/ q \in [pc : {"lookup"}, form : Forms]
  \/ q \in [pc : {"fetch"}, form : Forms, attempt : 0..MaxRetries,
            spent : 0..(TotalTimeout - 1)]
  \/ /\ q \in [pc : {"store", "located"}, form : Forms, result : Results]
     /\ q.pc = "store" => q.result.reason = "none"
     /\ q.result.reason = "none" =>
          /\ q.result.position = Location[q.form.address]
          /\ q.result.position \in Int
  \/ /\ q \in [pc : {"check", "create"}, form : Forms, zone : Zones,
               position : Positions]
     /\ Served(q.form, q.zone, q.position)
  \/ q \in [pc : {"emit"}, form : Forms, id : Nat]

IsBooking(b) ==
  /\ b \in [form : Forms, id : Nat, zone : Zones, position : Positions,
            announcement : {"due", "made", "lost", "repeated"}]
  /\ Served(b.form, b.zone, b.position)

TypeInv ==
  /\ cache \in [Addresses -> Positions]
  /\ \A a \in Addresses : cache[a] \in {NoPosition, Location[a]}
  /\ cooldown \in {"none", "refused"}
  /\ during \in Nat
  /\ DOMAIN req = Requests
  /\ \A r \in Requests : IsRequest(req[r])
  /\ IsFiniteSet(recent)
  /\ \A b \in recent : IsBooking(b)

LEMMA FormTypes ==
  ASSUME NEW f \in Forms
  PROVE  /\ f.address \in Addresses
         /\ f.client \in Int \cup {NoPosition}
         /\ Location[f.address] \in Int \cup {NoPosition}
BY FormsAssumption, LocationAssumption

LEMMA StepKeepsTypes ==
  ASSUME TypeInv, NEW r \in Requests, NEW q, IsRequest(q),
         req' = [req EXCEPT ![r] = q],
         cache' \in [Addresses -> Positions],
         \A a \in Addresses : cache'[a] \in {NoPosition, Location[a]},
         cooldown' \in {"none", "refused"}, during' \in Nat,
         IsFiniteSet(recent'), \A b \in recent' : IsBooking(b)
  PROVE  TypeInv'
<1>1. DOMAIN req' = Requests /\ \A x \in Requests : IsRequest(req'[x])
  BY DEF TypeInv
<1> QED
  BY <1>1 DEF TypeInv, IsRequest, IsBooking, Served, Positions, Results

\* By their step, requests have what the step works on.
LEMMA RequestsByStep ==
  ASSUME NEW q, IsRequest(q)
  PROVE  /\ q.pc # "idle" => q.form \in Forms
         /\ q.pc = "fetch" =>
              q.attempt \in 0..MaxRetries /\ q.spent \in 0..(TotalTimeout - 1)
         /\ q.pc \in {"store", "located"} =>
              /\ q.result \in Results
              /\ q.pc = "store" => q.result.reason = "none"
              /\ q.result.reason = "none" =>
                   /\ q.result.position = Location[q.form.address]
                   /\ q.result.position \in Int
         /\ q.pc \in {"check", "create"} =>
              /\ q \in [pc : {"check", "create"}, form : Forms, zone : Zones,
                        position : Positions]
              /\ Served(q.form, q.zone, q.position)
         /\ q.pc = "emit" => q.id \in Nat
BY DEF IsRequest, Idle

\* A request that has its result, of the shape of one.
LEMMA LocatedIsRequest ==
  ASSUME NEW f \in Forms, NEW result \in Results,
         result.reason = "none" =>
           result.position = Location[f.address] /\ result.position \in Int
  PROVE  /\ IsRequest([pc |-> "located", form |-> f, result |-> result])
         /\ result.reason = "none" =>
              IsRequest([pc |-> "store", form |-> f, result |-> result])
BY DEF IsRequest

LEMMA FailedIsResult ==
  ASSUME NEW reason \in {"invalid_address", "refused", "api_unavailable"}
  PROVE  Failed(reason) \in Results /\ Failed(reason).reason # "none"
BY DEF Failed, Results, Positions

LEMMA OkIsResult ==
  ASSUME NEW position \in Int
  PROVE  /\ Ok(position) \in Results /\ Ok(position).reason = "none"
         /\ Ok(position).position = position
BY DEF Ok, Results, Positions

LEMMA LocatedKeepsTypes ==
  ASSUME TypeInv, NEW r \in Requests, req[r].form \in Forms,
         NEW result \in Results,
         result.reason = "none" =>
           /\ result.position = Location[req[r].form.address]
           /\ result.position \in Int,
         Located(r, result), UNCHANGED recent,
         cache' \in [Addresses -> Positions],
         \A a \in Addresses : cache'[a] \in {NoPosition, Location[a]},
         cooldown' \in {"none", "refused"}, during' \in Nat
  PROVE  TypeInv'
<1> DEFINE q == [pc |-> "located", form |-> req[r].form, result |-> result]
<1>1. IsRequest(q)
  BY LocatedIsRequest
<1>2. req' = [req EXCEPT ![r] = q]
  BY DEF Located
<1>3. IsFiniteSet(recent') /\ \A b \in recent' : IsBooking(b)
  BY DEF TypeInv
<1> HIDE DEF q
<1> QED
  BY <1>1, <1>2, <1>3, StepKeepsTypes

LEMMA LookUpKeepsTypes ==
  ASSUME TypeInv, NEW r \in Requests, LookUp(r), UNCHANGED recent
  PROVE  TypeInv'
<1> DEFINE f == req[r].form
<1>1. f \in Forms
  BY RequestsByStep DEF TypeInv, LookUp
<1>2. f.address \in Addresses
  BY <1>1, FormTypes
<1>u. /\ cache' \in [Addresses -> Positions]
      /\ \A a \in Addresses : cache'[a] \in {NoPosition, Location[a]}
      /\ cooldown' \in {"none", "refused"}
  BY DEF LookUp, TypeInv
<1>3. CASE /\ cache[f.address] # NoPosition
           /\ Located(r, Ok(cache[f.address])) /\ UNCHANGED during
  <2>1. cache[f.address] = Location[f.address] /\ Location[f.address] \in Int
    BY <1>1, <1>2, <1>3, FormTypes DEF TypeInv
  <2>2. /\ Ok(cache[f.address]) \in Results
        /\ Ok(cache[f.address]).position = Location[f.address]
    BY <2>1, OkIsResult
  <2> QED
    BY <1>1, <1>3, <1>u, <2>1, <2>2, LocatedKeepsTypes DEF TypeInv
<1>4. CASE StartGeocoding(r)
  <2>1. during' \in Nat
    BY <1>4 DEF StartGeocoding, TypeInv
  <2>2. CASE cooldown # "none"
    <3>1. Located(r, Failed("refused"))
      BY <1>4, <2>2 DEF StartGeocoding, TypeInv
    <3> QED
      BY <1>1, <1>u, <2>1, <3>1, FailedIsResult, LocatedKeepsTypes
  <2>3. CASE cooldown = "none"
    <3> DEFINE q == [pc |-> "fetch", form |-> f, attempt |-> 0, spent |-> 0]
    <3>1. IsRequest(q)
      BY <1>1 DEF IsRequest, MaxRetries, TotalTimeout
    <3>2. req' = [req EXCEPT ![r] = q]
      BY <1>4, <2>3 DEF StartGeocoding
    <3>3. IsFiniteSet(recent') /\ \A b \in recent' : IsBooking(b)
      BY DEF TypeInv
    <3> HIDE DEF q
    <3> QED
      BY <1>u, <2>1, <3>1, <3>2, <3>3, StepKeepsTypes
  <2> QED
    BY <2>2, <2>3
<1> QED
  BY <1>3, <1>4 DEF LookUp

\* What is left of the deadline bounds an attempt and the pause after it.
LEMMA TimeLeft ==
  ASSUME NEW r \in Requests, NEW d \in Nat, d <= TimeoutOf(r),
         req[r].spent \in 0..(TotalTimeout - 1)
  PROVE  /\ req[r].spent + d \in 0..TotalTimeout
         /\ req[r].spent + TimeoutOf(r) <= TotalTimeout
BY DEF TimeoutOf, Lesser, TotalTimeout, AttemptTimeout

LEMMA PauseIsNat ==
  ASSUME NEW attempt \in 0..(MaxRetries - 1), NEW left \in Nat
  PROVE  Lesser(Backoff(attempt), left) \in Nat
<1>1. attempt = 0 \/ attempt = 1
  BY DEF MaxRetries
<1>2. Backoff(attempt) \in Nat
  BY <1>1 DEF Backoff
<1> QED
  BY <1>2 DEF Lesser

LEMMA AttemptKeepsTypes ==
  ASSUME TypeInv, NEW r \in Requests, Attempt(r), UNCHANGED recent
  PROVE  TypeInv'
<1> DEFINE f == req[r].form
<1>1. /\ f \in Forms /\ req[r].attempt \in 0..MaxRetries
      /\ req[r].spent \in 0..(TotalTimeout - 1)
  BY RequestsByStep DEF TypeInv, Attempt
<1>2. Location[f.address] \in Int \cup {NoPosition}
  BY <1>1, FormTypes
<1>u. /\ cache' \in [Addresses -> Positions]
      /\ \A a \in Addresses : cache'[a] \in {NoPosition, Location[a]}
      /\ IsFiniteSet(recent') /\ \A b \in recent' : IsBooking(b)
      /\ cooldown \in {"none", "refused"} /\ during \in Nat
  BY DEF Attempt, TypeInv
<1>3. CASE AnswersPosition(r)
  <2> DEFINE q == [pc |-> "store", form |-> f,
                   result |-> Ok(Location[f.address])]
  <2>1. Location[f.address] \in Int
    BY <1>2, <1>3 DEF AnswersPosition
  <2>2. IsRequest(q)
    BY <1>1, <2>1, OkIsResult, LocatedIsRequest
  <2>3. /\ req' = [req EXCEPT ![r] = q]
        /\ cooldown' = "none" /\ during' = 0
    BY <1>3 DEF AnswersPosition
  <2> HIDE DEF q
  <2> QED
    BY <1>u, <2>2, <2>3, StepKeepsTypes
<1>4. CASE AnswersNothing(r) \/ Refuses(r)
  <2>1. cooldown' \in {"none", "refused"} /\ during' \in Nat
    BY <1>4, <1>u DEF AnswersNothing, Refuses
  <2>2. \E reason \in {"invalid_address", "refused"} : Located(r, Failed(reason))
    BY <1>4 DEF AnswersNothing, Refuses
  <2> QED
    BY <1>1, <1>u, <2>1, <2>2, FailedIsResult, LocatedKeepsTypes
<1>5. ASSUME NEW d \in {n \in Durations : n < TimeoutOf(r)} \cup {TimeoutOf(r)},
             Unavailable(r, req[r].spent + d)
      PROVE  TypeInv'
  <2> DEFINE spent == req[r].spent + d
             pause == Lesser(Backoff(req[r].attempt), TotalTimeout - spent)
  <2>0. TimeoutOf(r) \in Nat
    BY <1>1 DEF TimeoutOf, Lesser, TotalTimeout, AttemptTimeout
  <2>1. d \in Nat /\ d <= TimeoutOf(r)
    BY <2>0, DurationsAssumption
  <2>2. spent \in 0..TotalTimeout
    BY <1>1, <2>1, TimeLeft
  <2>3. TotalTimeout - spent \in Nat
    BY <2>2 DEF TotalTimeout
  <2>4. Retryable(r) => pause \in Nat
    <3>1. Retryable(r) => req[r].attempt \in 0..(MaxRetries - 1)
      BY <1>1 DEF Retryable, MaxRetries
    <3> QED
      BY <2>3, <3>1, PauseIsNat
  <2>5. cooldown' \in {"none", "refused"} /\ during' \in Nat
    BY <1>5, <1>u DEF Unavailable
  <2>6. CASE Retryable(r) /\ spent + pause < TotalTimeout
    <3> DEFINE q == [pc |-> "fetch", form |-> f, attempt |-> req[r].attempt + 1,
                     spent |-> spent + pause]
    <3>0. spent + pause \in 0..(TotalTimeout - 1)
      BY <2>2, <2>4, <2>6 DEF TotalTimeout
    <3>1. IsRequest(q)
      <4> HIDE DEF spent, pause
      <4> QED
        BY <1>1, <2>6, <3>0 DEF IsRequest, Retryable, MaxRetries
    <3>2. req' = [req EXCEPT ![r] = q]
      BY <1>5, <2>6 DEF Unavailable
    <3> HIDE DEF q
    <3> QED
      BY <1>u, <2>5, <3>1, <3>2, StepKeepsTypes
  <2>7. CASE ~(Retryable(r) /\ spent + pause < TotalTimeout)
    <3>1. Located(r, Failed("api_unavailable"))
      BY <1>5, <2>7 DEF Unavailable
    <3> QED
      BY <1>1, <1>u, <2>5, <3>1, FailedIsResult, LocatedKeepsTypes
  <2> QED
    BY <2>6, <2>7
<1> QED
  BY <1>3, <1>4, <1>5 DEF Attempt

LEMMA StoreKeepsTypes ==
  ASSUME TypeInv, NEW r \in Requests, StoreCoordinates(r), UNCHANGED recent
  PROVE  TypeInv'
<1>1. /\ req[r].form \in Forms /\ req[r].result \in Results
      /\ req[r].result.position = Location[req[r].form.address]
      /\ req[r].result.position \in Int
  BY RequestsByStep DEF TypeInv, StoreCoordinates
<1>2. /\ cache' \in [Addresses -> Positions]
      /\ \A a \in Addresses : cache'[a] \in {NoPosition, Location[a]}
  BY <1>1 DEF StoreCoordinates, StoredPosition, TypeInv, Positions
<1>3. Located(r, req[r].result) /\ UNCHANGED <<cooldown, during>>
  BY DEF StoreCoordinates
<1> QED
  BY <1>1, <1>2, <1>3, LocatedKeepsTypes DEF TypeInv

\* Every element of a finite set mapped by a function: as finite, not larger.
LEMMA MappedSet ==
  ASSUME NEW S, IsFiniteSet(S), NEW g, g \in [S -> {g[x] : x \in S}]
  PROVE  /\ IsFiniteSet({g[x] : x \in S})
         /\ Cardinality({g[x] : x \in S}) <= Cardinality(S)
<1>1. g \in Surjection(S, {g[x] : x \in S})
  BY DEF Surjection
<1> QED
  BY <1>1, FS_Surjection

\* The bookings of a key have fewer identities than there are numbers.
LEMMA NewIdIsNew ==
  ASSUME IsFiniteSet(recent), NEW f
  PROVE  /\ NewId(f) \in Nat
         /\ \A b \in recent : Key(b.form) = Key(f) => b.id # NewId(f)
<1> DEFINE ids == [b \in recent |-> b.id]
           used == {ids[b] : b \in recent}
           all == 0..Cardinality(recent)
<1>1. Cardinality(recent) \in Nat
  BY FS_CardinalityType
<1>2. IsFiniteSet(used) /\ Cardinality(used) <= Cardinality(recent)
  <2>1. ids \in [recent -> used]
    OBVIOUS
  <2> HIDE DEF ids
  <2> QED
    BY <2>1, MappedSet
<1>3. Cardinality(all) = Cardinality(recent) + 1
  BY <1>1, FS_Interval
<1>4. \E n \in all : n \notin used
  <2> SUFFICES ASSUME all \subseteq used
               PROVE  FALSE
    OBVIOUS
  <2>1. Cardinality(all) <= Cardinality(used)
    <3> HIDE DEF all, used
    <3> QED
      BY <1>2, FS_Subset
  <2>2. Cardinality(used) \in Nat
    BY <1>2, FS_CardinalityType
  <2> HIDE DEF all, used
  <2> QED
    BY <1>1, <1>2, <1>3, <2>1, <2>2
<1>5. PICK n \in all : n \notin used
  BY <1>4
<1>6. n \in 0..Cardinality(recent)
      /\ \A b \in recent : Key(b.form) = Key(f) => b.id # n
  BY <1>5
<1>7. /\ NewId(f) \in 0..Cardinality(recent)
      /\ \A b \in recent : Key(b.form) = Key(f) => b.id # NewId(f)
  <2> HIDE DEF all, used
  <2> QED
    BY <1>6 DEF NewId
<1> QED
  BY <1>1, <1>7

\* A step of a request that leaves the bookings alone, and whatever the cache.
LEMMA RequestKeepsTypes ==
  ASSUME TypeInv, NEW r \in Requests, NEW q, IsRequest(q),
         req' = [req EXCEPT ![r] = q], UNCHANGED geoVars,
         IsFiniteSet(recent'), \A b \in recent' : IsBooking(b)
  PROVE  TypeInv'
BY StepKeepsTypes DEF TypeInv, geoVars

LEMMA IdleIsRequest == IsRequest(Idle)
BY DEF IsRequest

LEMMA ResolveKeepsTypes ==
  ASSUME TypeInv, NEW r \in Requests, Resolve(r)
  PROVE  TypeInv'
<1> DEFINE f == req[r].form
<1>1. /\ req[r].pc = "located" /\ UNCHANGED geoVars
      /\ IsFiniteSet(recent') /\ \A b \in recent' : IsBooking(b)
  BY DEF Resolve, TypeInv
<1>2. /\ f \in Forms
      /\ req[r].result.reason = "none" =>
           /\ req[r].result.position = Location[f.address]
           /\ req[r].result.position \in Int
  BY <1>1, RequestsByStep DEF TypeInv
<1>3. ASSUME NEW zone \in Zones, NEW position \in Positions,
             Served(f, zone, position), Accept(r, zone, position)
      PROVE  TypeInv'
  <2> DEFINE q == [pc |-> "check", form |-> f, zone |-> zone,
                   position |-> position]
  <2>1. IsRequest(q)
    BY <1>2, <1>3 DEF IsRequest
  <2>2. req' = [req EXCEPT ![r] = q]
    BY <1>3 DEF Accept
  <2> HIDE DEF q
  <2> QED
    BY <1>1, <2>1, <2>2, RequestKeepsTypes
<1>4. CASE Accept(r, "unresolved", NoPosition)
  BY <1>3, <1>4 DEF Served, Zones, Positions
<1>5. CASE /\ req[r].result.reason = "none"
           /\ ~Refused(f, CoverageOf(Position(r)))
           /\ Accept(r, CoverageOf(Position(r)), Position(r))
  <2>1. Position(r) = Validated(Location[f.address], f.client)
        /\ Location[f.address] \in Int
    BY <1>2, <1>5 DEF Position
  <2>2. Position(r) \in Positions
    BY <1>2, <2>1, FormTypes, ValidatedIsInt DEF Positions
  <2>3. CoverageOf(Position(r)) \in Zones
    BY CoverageIsZone DEF Zones
  <2>4. Served(f, CoverageOf(Position(r)), Position(r))
    BY <1>5, <2>1 DEF Served, Refused
  <2> QED
    BY <1>3, <1>5, <2>2, <2>3, <2>4
<1>6. CASE Answered(r)
  BY <1>1, <1>6, IdleIsRequest, RequestKeepsTypes DEF Answered
<1> QED
  BY <1>4, <1>5, <1>6 DEF Resolve

LEMMA CheckKeepsTypes ==
  ASSUME TypeInv, NEW r \in Requests, Check(r)
  PROVE  TypeInv'
<1>1. /\ req[r].pc = "check" /\ UNCHANGED geoVars
      /\ IsFiniteSet(recent') /\ \A b \in recent' : IsBooking(b)
  BY DEF Check, TypeInv
<1>2. CASE Answered(r)
  BY <1>1, <1>2, IdleIsRequest, RequestKeepsTypes DEF Answered
<1>3. CASE req' = [req EXCEPT ![r].pc = "create"]
  <2> DEFINE q == [req[r] EXCEPT !.pc = "create"]
  <2>1. /\ req[r] \in [pc : {"check", "create"}, form : Forms, zone : Zones,
                       position : Positions]
        /\ Served(req[r].form, req[r].zone, req[r].position)
    BY <1>1, RequestsByStep DEF TypeInv
  <2>2. /\ q \in [pc : {"check", "create"}, form : Forms, zone : Zones,
                  position : Positions]
        /\ q.form = req[r].form /\ q.zone = req[r].zone
        /\ q.position = req[r].position
    BY <2>1
  <2>3. req' = [req EXCEPT ![r] = q]
    BY <1>3
  <2> HIDE DEF q
  <2>4. IsRequest(q)
    BY <2>1, <2>2 DEF IsRequest
  <2> QED
    BY <1>1, <2>3, <2>4, RequestKeepsTypes
<1> QED
  BY <1>2, <1>3 DEF Check, AnswerDuplicate

LEMMA NewBookingTypes ==
  ASSUME TypeInv, NEW r \in Requests, req[r].pc = "create",
         NEW announcement \in {"due", "lost"}
  PROVE  /\ IsBooking(NewBooking(r, announcement))
         /\ NewId(req[r].form) \in Nat /\ req[r].form \in Forms
<1>1. /\ req[r] \in [pc : {"check", "create"}, form : Forms, zone : Zones,
                     position : Positions]
      /\ Served(req[r].form, req[r].zone, req[r].position)
  BY RequestsByStep DEF TypeInv
<1>2. NewId(req[r].form) \in Nat
  BY NewIdIsNew DEF TypeInv
<1> QED
  BY <1>1, <1>2 DEF NewBooking, IsBooking

LEMMA CreateKeepsTypes ==
  ASSUME TypeInv, NEW r \in Requests, Create(r)
  PROVE  TypeInv'
<1>1. req[r].pc = "create" /\ UNCHANGED geoVars
  BY DEF Create
<1>2. /\ IsFiniteSet(recent) /\ \A b \in recent : IsBooking(b)
      /\ IsFiniteSet(recent \cup {NewBooking(r, "due")})
      /\ IsFiniteSet(recent \cup {NewBooking(r, "lost")})
  BY FS_AddElement DEF TypeInv
<1>3. IsFiniteSet(recent') /\ \A b \in recent' : IsBooking(b)
  BY <1>1, <1>2, NewBookingTypes DEF Create
<1>4. CASE req' = [req EXCEPT ![r] = [pc |-> "emit", form |-> req[r].form,
                                      id |-> NewId(req[r].form)]]
  <2> DEFINE q == [pc |-> "emit", form |-> req[r].form,
                   id |-> NewId(req[r].form)]
  <2>1. IsRequest(q)
    BY <1>1, NewBookingTypes DEF IsRequest
  <2> HIDE DEF q
  <2>2. req' = [req EXCEPT ![r] = q]
    BY <1>4 DEF q
  <2> QED
    BY <1>1, <1>3, <2>1, <2>2, RequestKeepsTypes
<1>5. CASE Answered(r)
  BY <1>1, <1>3, <1>5, IdleIsRequest, RequestKeepsTypes DEF Answered
<1> QED
  BY <1>4, <1>5 DEF Create

\* A booking keeps everything but its announcement.
SameBut(g) ==
  /\ g = [b \in recent |-> g[b]]
  /\ \A b \in recent :
       \E a \in {"due", "made", "lost", "repeated"} :
         g[b] = [b EXCEPT !.announcement = a]

LEMMA SameButKeepsBookings ==
  ASSUME TypeInv, NEW g, SameBut(g)
  PROVE  /\ IsFiniteSet({g[b] : b \in recent})
         /\ \A b \in recent : IsBooking(g[b])
         /\ \A b \in recent : g[b].form = b.form /\ g[b].id = b.id
<1>1. ASSUME NEW b \in recent
      PROVE  IsBooking(g[b]) /\ g[b].form = b.form /\ g[b].id = b.id
  <2>1. IsBooking(b)
    BY DEF TypeInv
  <2>2. PICK a \in {"due", "made", "lost", "repeated"} :
          g[b] = [b EXCEPT !.announcement = a]
    BY DEF SameBut
  <2> QED
    BY <2>1, <2>2 DEF IsBooking
<1>2. IsFiniteSet({g[b] : b \in recent})
  <2>0. g = [b \in recent |-> g[b]]
    BY DEF SameBut
  <2>1. g \in [recent -> {g[b] : b \in recent}]
    BY <2>0
  <2> QED
    BY <2>1, MappedSet DEF TypeInv
<1> QED
  BY <1>1, <1>2

EmitMap(r) == [b \in recent |-> IF IsOf(b, r) THEN Announced(b) ELSE b]
CrashMap == [b \in recent |-> IF b.announcement = "due"
                                THEN [b EXCEPT !.announcement = "lost"] ELSE b]

LEMMA EmitMapsBookings ==
  ASSUME TypeInv, NEW r \in Requests, Emit(r)
  PROVE  SameBut(EmitMap(r)) /\ recent' = {EmitMap(r)[b] : b \in recent}
<1>1. ASSUME NEW b \in recent
      PROVE  \E a \in {"due", "made", "lost", "repeated"} :
               EmitMap(r)[b] = [b EXCEPT !.announcement = a]
  <2>0. IsBooking(b)
    BY DEF TypeInv
  <2>1. CASE IsOf(b, r)
    <3>1. EmitMap(r)[b] = Announced(b)
      BY <2>1 DEF EmitMap
    <3>2. \E a \in {"made", "lost", "repeated"} :
            Announced(b) = [b EXCEPT !.announcement = a]
      BY DEF Announced
    <3> QED
      BY <3>1, <3>2
  <2>2. CASE ~IsOf(b, r)
    <3>1. EmitMap(r)[b] = b
      BY <2>2 DEF EmitMap
    <3>2. b = [b EXCEPT !.announcement = b.announcement]
      BY <2>0 DEF IsBooking
    <3>3. b.announcement \in {"due", "made", "lost", "repeated"}
      BY <2>0 DEF IsBooking
    <3> QED
      BY <3>1, <3>2, <3>3
  <2> QED
    BY <2>1, <2>2
<1> QED
  BY <1>1 DEF SameBut, EmitMap, Emit

LEMMA CrashMapsBookings ==
  ASSUME TypeInv, Crash
  PROVE  SameBut(CrashMap) /\ recent' = {CrashMap[b] : b \in recent}
<1>1. ASSUME NEW b \in recent
      PROVE  \E a \in {"due", "made", "lost", "repeated"} :
               CrashMap[b] = [b EXCEPT !.announcement = a]
  <2>0. IsBooking(b)
    BY DEF TypeInv
  <2>1. b = [b EXCEPT !.announcement = b.announcement]
        /\ b.announcement \in {"due", "made", "lost", "repeated"}
    BY <2>0 DEF IsBooking
  <2> QED
    BY <2>1 DEF CrashMap
<1> QED
  BY <1>1 DEF SameBut, CrashMap, Crash

LEMMA InitTypes ==
  ASSUME Init
  PROVE  TypeInv
<1>1. cache \in [Addresses -> Positions]
  BY DEF Init, GeoInit, Positions
<1>2. IsFiniteSet(recent) /\ recent = {}
  BY FS_EmptySet DEF Init
<1> QED
  BY <1>1, <1>2, IdleIsRequest DEF Init, GeoInit, TypeInv

LEMMA NextKeepsTypes ==
  ASSUME TypeInv, [Next]_vars
  PROVE  TypeInv'
<1>r. IsFiniteSet(recent) /\ \A b \in recent : IsBooking(b)
  BY DEF TypeInv
<1>1. ASSUME NEW r \in Requests, NEW f \in Forms, Submit(r, f)
      PROVE  TypeInv'
  <2> DEFINE q == [pc |-> "lookup", form |-> f]
  <2>1. IsRequest(q)
    BY DEF IsRequest
  <2>2. req' = [req EXCEPT ![r] = q] /\ UNCHANGED <<geoVars, recent>>
    BY <1>1 DEF Submit
  <2> HIDE DEF q
  <2> QED
    BY <1>r, <2>1, <2>2, RequestKeepsTypes
<1>2. ASSUME NEW r \in Requests, Emit(r)
      PROVE  TypeInv'
  <2>1. IsFiniteSet(recent') /\ \A b \in recent' : IsBooking(b)
    BY <1>2, EmitMapsBookings, SameButKeepsBookings
  <2> QED
    BY <1>2, <2>1, IdleIsRequest, RequestKeepsTypes DEF Emit, Answered
<1>3. ASSUME NEW r \in Requests, Continue(r)
      PROVE  TypeInv'
  BY <1>2, <1>3, LookUpKeepsTypes, AttemptKeepsTypes, StoreKeepsTypes,
     ResolveKeepsTypes, CheckKeepsTypes, CreateKeepsTypes
  DEF Continue, GeocodingStep
<1>4. ASSUME NEW a \in Addresses, CacheExpires(a), UNCHANGED recent
      PROVE  TypeInv'
  <2>1. /\ cache' \in [Addresses -> Positions]
        /\ \A x \in Addresses : cache'[x] \in {NoPosition, Location[x]}
    BY <1>4 DEF CacheExpires, TypeInv, Positions
  <2> QED
    BY <1>4, <2>1 DEF CacheExpires, TypeInv, IsRequest, IsBooking, Served
<1>5. CASE CooldownEnds /\ UNCHANGED recent
  BY <1>5 DEF CooldownEnds, TypeInv, IsRequest, IsBooking, Served
<1>6. ASSUME NEW b \in recent, GrowOld(b)
      PROVE  TypeInv'
  <2>1. IsFiniteSet(recent') /\ \A x \in recent' : IsBooking(x)
    BY <1>6, <1>r, FS_RemoveElement DEF GrowOld
  <2>2. UNCHANGED <<cache, cooldown, during, req>>
    BY <1>6 DEF GrowOld, geoVars
  <2> QED
    BY <2>1, <2>2 DEF TypeInv, IsRequest, IsBooking, Served
<1>7. CASE Crash
  <2>1. IsFiniteSet(recent') /\ \A b \in recent' : IsBooking(b)
    BY <1>7, CrashMapsBookings, SameButKeepsBookings
  <2>2. DOMAIN req' = Requests /\ \A r \in Requests : IsRequest(req'[r])
    BY <1>7, IdleIsRequest DEF Crash
  <2>3. /\ UNCHANGED cache /\ cooldown' = "none" /\ during' = 0
    BY <1>7 DEF Crash
  <2> QED
    BY <2>1, <2>2, <2>3 DEF TypeInv, IsRequest, IsBooking, Served
<1>8. CASE UNCHANGED vars
  BY <1>8 DEF vars, TypeInv, IsRequest, IsBooking, Served
<1> QED
  BY <1>1, <1>3, <1>4, <1>5, <1>6, <1>7, <1>8 DEF Next, Environment

LEMMA SpecTypeInv == Spec => []TypeInv
<1>1. Init => TypeInv
  BY InitTypes
<1>2. TypeInv /\ [Next]_vars => TypeInv'
  BY NextKeepsTypes
<1> QED
  BY <1>1, <1>2, PTL DEF Spec

\* Every reachable state is well-typed, and the geocoding cache holds nothing
\* but what the provider says of an address, whatever the constants.
THEOREM TypeCorrect == Spec => []TypeOK
<1>1. ASSUME TypeInv
      PROVE  TypeOK
  <2>1. \A r \in Requests :
          req[r].pc \in {"idle", "lookup", "fetch", "store", "located", "check",
                         "create", "emit"}
    BY <1>1 DEF TypeInv, IsRequest, Idle
  <2>2. \A b \in recent :
          /\ b.form \in Forms /\ b.id \in Nat
          /\ b.zone \in Zones /\ b.position \in Positions
          /\ b.announcement \in {"due", "made", "lost", "repeated"}
    BY <1>1 DEF TypeInv, IsBooking
  <2> QED
    BY <1>1, <2>1, <2>2 DEF TypeInv, TypeOK
<1> QED
  BY <1>1, SpecTypeInv, PTL

\* geocodeAddress keeps its deadline: no attempt is under way that may end
\* after it, however long each answer takes.
THEOREM GeocodingKeepsDeadline == Spec => []DeadlineKept
<1>1. ASSUME TypeInv
      PROVE  DeadlineKept
  <2> SUFFICES ASSUME NEW r \in Requests, req[r].pc = "fetch"
               PROVE  /\ req[r].spent < TotalTimeout
                      /\ req[r].spent + TimeoutOf(r) <= TotalTimeout
    BY DEF DeadlineKept
  <2>1. req[r].spent \in 0..(TotalTimeout - 1)
    BY <1>1, RequestsByStep DEF TypeInv
  <2> QED
    BY <2>1 DEF TimeoutOf, Lesser, TotalTimeout, AttemptTimeout
<1> QED
  BY <1>1, SpecTypeInv, PTL

\* Whatever coordinates customers send along, a V2 booking stored with a zone
\* is at an address the provider places within the zone's radius and the two
\* thresholds of validateClientCoordinates and classifyCoverageV2.
THEOREM AcceptedAreNear == Spec => []AcceptedIsNear
<1>1. ASSUME TypeInv
      PROVE  AcceptedIsNear
  <2> SUFFICES ASSUME NEW b \in recent,
                      b.form.model = "V2" /\ b.zone # "unresolved"
               PROVE  \E z \in CoverageZones :
                        Distance(Location[b.form.address], z.center) <= Reach(z)
    BY DEF AcceptedIsNear
  <2> DEFINE server == Location[b.form.address]
  <2>1. b.form \in Forms /\ Served(b.form, b.zone, b.position)
    BY <1>1 DEF TypeInv, IsBooking
  <2>2. b.form.client \in Int \cup {NoPosition} /\ server \in Int
    BY <2>1, FormTypes DEF Served
  <2>3. /\ b.position = Validated(server, b.form.client)
        /\ CoverageOf(b.position) \in {"INSIDE", "BORDERLINE"}
    BY <2>1, CoverageIsZone DEF Served
  <2>4. b.position \in Int /\ Distance(server, b.position) <= MismatchThreshold
    BY <2>2, <2>3, ValidatedIsInt, ValidatedIsNear
  <2>5. PICK z \in CoverageZones :
          Distance(b.position, z.center) <= z.radius + BorderlineThreshold
    BY <2>3, <2>4, CoveredIsNear
  <2>6. z.center \in Int /\ z.radius \in Nat
    BY ZonesAssumption
  <2>7. Distance(server, z.center)
          <= Distance(server, b.position) + Distance(b.position, z.center)
    BY <2>2, <2>4, <2>6, Triangle
  <2>8. Distance(server, z.center) <= Reach(z)
    <3>1. /\ Distance(server, z.center) \in Int
          /\ Distance(server, b.position) \in Int
          /\ Distance(b.position, z.center) \in Int
      BY <2>2, <2>4, <2>6 DEF Distance
    <3> HIDE DEF server
    <3> QED
      BY <2>4, <2>5, <2>6, <2>7, <3>1
      DEF Reach, BorderlineThreshold, MismatchThreshold
  <2> QED
    BY <2>8
<1> QED
  BY <1>1, SpecTypeInv, PTL

\* computeSurchargeInternal: the zone stored with a booking is what its
\* position's signed distance to the nearest boundary says, for any zones,
\* however they overlap.
THEOREM ZonesByBoundary == Spec => []ZoneByBoundary
<1>1. ASSUME TypeInv
      PROVE  ZoneByBoundary
  <2> SUFFICES ASSUME NEW b \in recent, b.zone # "unresolved"
               PROVE  b.zone = CoverageByGap(b.position)
    BY DEF ZoneByBoundary
  <2>1. b.form \in Forms /\ Served(b.form, b.zone, b.position)
    BY <1>1 DEF TypeInv, IsBooking
  <2>2. b.position \in Int /\ b.zone = CoverageOf(b.position)
    BY <2>1, FormTypes, ValidatedIsInt DEF Served
  <2> QED
    BY <2>2, CoverageIsByGap
<1> QED
  BY <1>1, SpecTypeInv, PTL

-----------------------------------------------------------------------------
(* Announcements *)

\* A booking is the one a request has created.
Of(b, q) == Key(b.form) = Key(q.form) /\ b.id = q.id

\* A step of a request that neither creates a booking nor announces one; it
\* will create one only where there is none of its key.
Quietly(r, q) ==
  /\ req' = [req EXCEPT ![r] = q] /\ UNCHANGED recent
  /\ req[r].pc # "emit" /\ q.pc # "emit"
  /\ q.pc = "create" =>
       /\ req[r].pc = "check" /\ q.form = req[r].form
       /\ Duplicates(req[r].form) = {}

Creates(r, announcement, q) ==
  /\ req[r].pc = "create"
  /\ recent' = recent \cup {NewBooking(r, announcement)}
  /\ req' = [req EXCEPT ![r] = q]

Emitting(r) == [pc |-> "emit", form |-> req[r].form, id |-> NewId(req[r].form)]

LEMMA GeocodingIsQuiet ==
  ASSUME TypeInv, NEW r \in Requests, GeocodingStep(r), UNCHANGED recent
  PROVE  \E q : Quietly(r, q)
<1>1. req[r].pc \in {"lookup", "fetch", "store"}
  BY DEF GeocodingStep, LookUp, Attempt, StoreCoordinates
<1>2. ASSUME NEW q, req' = [req EXCEPT ![r] = q], q.pc \notin {"emit", "create"}
      PROVE  Quietly(r, q)
  BY <1>1, <1>2 DEF Quietly
<1>3. ASSUME NEW result, Located(r, result)
      PROVE  \E q : Quietly(r, q)
  <2> DEFINE q == [pc |-> "located", form |-> req[r].form, result |-> result]
  <2>1. req' = [req EXCEPT ![r] = q] /\ q.pc = "located"
    BY <1>3 DEF Located
  <2> HIDE DEF q
  <2> QED
    BY <1>2, <2>1
<1>4. ASSUME NEW attempt, NEW spent,
             req' = [req EXCEPT ![r] = [pc |-> "fetch", form |-> req[r].form,
                                        attempt |-> attempt, spent |-> spent]]
      PROVE  \E q : Quietly(r, q)
  <2> DEFINE q == [pc |-> "fetch", form |-> req[r].form, attempt |-> attempt,
                   spent |-> spent]
  <2>1. req' = [req EXCEPT ![r] = q] /\ q.pc = "fetch"
    BY <1>4
  <2> HIDE DEF q
  <2> QED
    BY <1>2, <2>1
<1>5. CASE LookUp(r)
  BY <1>3, <1>4, <1>5 DEF LookUp, StartGeocoding
<1>6. CASE StoreCoordinates(r)
  BY <1>3, <1>6 DEF StoreCoordinates
<1>7. CASE Attempt(r)
  <2>1. CASE AnswersPosition(r)
    <3> DEFINE q == [pc |-> "store", form |-> req[r].form,
                     result |-> Ok(Location[req[r].form.address])]
    <3>1. req' = [req EXCEPT ![r] = q] /\ q.pc = "store"
      BY <2>1 DEF AnswersPosition
    <3> HIDE DEF q
    <3> QED
      BY <1>2, <3>1
  <2>2. CASE AnswersNothing(r) \/ Refuses(r)
    BY <1>3, <2>2 DEF AnswersNothing, Refuses
  <2>3. ASSUME NEW d, Unavailable(r, d)
        PROVE  \E q : Quietly(r, q)
    BY <1>3, <1>4, <2>3 DEF Unavailable
  <2> QED
    BY <1>7, <2>1, <2>2, <2>3 DEF Attempt
<1> QED
  BY <1>5, <1>6, <1>7 DEF GeocodingStep

LEMMA WhatHappens ==
  ASSUME TypeInv, [Next]_vars
  PROVE  \/ UNCHANGED <<req, recent>>
         \/ \E r \in Requests : \E q : Quietly(r, q)
         \/ \E r \in Requests : Creates(r, "due", Emitting(r))
         \/ \E r \in Requests : Creates(r, "lost", Idle)
         \/ \E r \in Requests : Emit(r)
         \/ \E b \in recent : GrowOld(b)
         \/ Crash
<1>0. Idle.pc = "idle"
  BY DEF Idle
<1>1. ASSUME NEW r \in Requests, NEW f \in Forms, Submit(r, f)
      PROVE  \E q : Quietly(r, q)
  <2> DEFINE q == [pc |-> "lookup", form |-> f]
  <2>1. /\ req' = [req EXCEPT ![r] = q] /\ UNCHANGED recent
        /\ req[r] = Idle /\ q.pc = "lookup"
    BY <1>1 DEF Submit
  <2> HIDE DEF q
  <2>2. Quietly(r, q)
    BY <1>0, <2>1 DEF Quietly
  <2> QED
    BY <2>2
<1>2. ASSUME NEW r \in Requests, Answered(r), req[r].pc # "emit", UNCHANGED recent
      PROVE  \E q : Quietly(r, q)
  <2>1. Quietly(r, Idle)
    BY <1>0, <1>2 DEF Quietly, Answered
  <2> QED
    BY <2>1
<1>3. ASSUME NEW r \in Requests, Resolve(r)
      PROVE  \E q : Quietly(r, q)
  <2>1. req[r].pc = "located" /\ UNCHANGED recent
    BY <1>3 DEF Resolve
  <2>2. ASSUME NEW zone, NEW position, Accept(r, zone, position)
        PROVE  \E q : Quietly(r, q)
    <3> DEFINE q == [pc |-> "check", form |-> req[r].form, zone |-> zone,
                     position |-> position]
    <3>1. req' = [req EXCEPT ![r] = q] /\ q.pc = "check"
      BY <2>2 DEF Accept
    <3> HIDE DEF q
    <3>2. Quietly(r, q)
      BY <2>1, <3>1 DEF Quietly
    <3> QED
      BY <3>2
  <2> QED
    BY <1>2, <1>3, <2>1, <2>2 DEF Resolve
<1>4. ASSUME NEW r \in Requests, Check(r)
      PROVE  \E q : Quietly(r, q)
  <2>1. req[r].pc = "check" /\ UNCHANGED recent
    BY <1>4 DEF Check
  <2>2. CASE /\ Duplicates(req[r].form) = {}
             /\ req' = [req EXCEPT ![r].pc = "create"]
    <3> DEFINE q == [req[r] EXCEPT !.pc = "create"]
    <3>1. req[r] \in [pc : {"check", "create"}, form : Forms, zone : Zones,
                      position : Positions]
      BY <2>1, RequestsByStep DEF TypeInv
    <3>2. /\ req' = [req EXCEPT ![r] = q] /\ q.pc = "create"
          /\ q.form = req[r].form
      BY <2>2, <3>1
    <3> HIDE DEF q
    <3>3. Quietly(r, q)
      BY <2>1, <2>2, <3>2 DEF Quietly
    <3> QED
      BY <3>3
  <2> QED
    BY <1>2, <1>4, <2>1, <2>2 DEF Check, AnswerDuplicate
<1>5. ASSUME NEW r \in Requests, Create(r)
      PROVE  \/ \E q : Quietly(r, q)
             \/ Creates(r, "due", Emitting(r))
             \/ Creates(r, "lost", Idle)
  <2>1. req[r].pc = "create"
    BY <1>5 DEF Create
  <2>2. CASE Answered(r) /\ UNCHANGED recent
    BY <1>2, <2>1, <2>2
  <2>3. CASE Answered(r) /\ recent' = recent \cup {NewBooking(r, "lost")}
    BY <2>1, <2>3 DEF Creates, Answered
  <2>4. CASE /\ recent' = recent \cup {NewBooking(r, "due")}
             /\ req' = [req EXCEPT ![r] = [pc |-> "emit", form |-> req[r].form,
                                           id |-> NewId(req[r].form)]]
    BY <2>1, <2>4 DEF Creates, Emitting
  <2> QED
    BY <1>5, <2>2, <2>3, <2>4 DEF Create
<1>6. CASE UNCHANGED vars
  BY <1>6 DEF vars
<1>7. ASSUME NEW r \in Requests, Continue(r)
      PROVE  \/ \E q : Quietly(r, q)
             \/ Creates(r, "due", Emitting(r))
             \/ Creates(r, "lost", Idle)
             \/ Emit(r)
  BY <1>3, <1>4, <1>5, <1>7, GeocodingIsQuiet DEF Continue
<1>8. Environment => \/ UNCHANGED <<req, recent>>
                     \/ \E b \in recent : GrowOld(b)
                     \/ Crash
  BY DEF Environment, CacheExpires, CooldownEnds
<1> QED
  BY <1>1, <1>6, <1>7, <1>8 DEF Next

\* Bookings of a key differ in their identity; a booking is due exactly as
\* long as one request, and no other, is about to announce it.
AnnInv ==
  /\ \A b, c \in recent : Key(b.form) = Key(c.form) /\ b.id = c.id => b = c
  /\ \A b \in recent : b.announcement # "repeated"
  /\ \A r \in Requests : req[r].pc = "emit" =>
       \E b \in recent : Of(b, req[r]) /\ b.announcement = "due"
  /\ \A r, s \in Requests :
       /\ req[r].pc = "emit" /\ req[s].pc = "emit"
       /\ Key(req[r].form) = Key(req[s].form) /\ req[r].id = req[s].id
       => r = s
  /\ \A b \in recent : b.announcement = "due" =>
       \E r \in Requests : req[r].pc = "emit" /\ Of(b, req[r])

LEMMA QuietKeepsAnn ==
  ASSUME TypeInv, AnnInv, NEW r \in Requests, NEW q, Quietly(r, q)
  PROVE  AnnInv'
<1>1. \A s \in Requests : /\ req'[s].pc = "emit" <=> req[s].pc = "emit"
                          /\ req[s].pc = "emit" => req'[s] = req[s]
  BY DEF Quietly, TypeInv
<1>2. UNCHANGED recent
  BY DEF Quietly
<1> QED
  BY <1>1, <1>2 DEF AnnInv, Of

LEMMA CreateKeepsAnn ==
  ASSUME TypeInv, AnnInv, NEW r \in Requests,
         NEW announcement \in {"due", "lost"}, NEW q,
         Creates(r, announcement, q),
         q = IF announcement = "due" THEN Emitting(r) ELSE Idle
  PROVE  AnnInv'
<1> DEFINE n == NewBooking(r, announcement)
<1>1. /\ n.form = req[r].form /\ n.id = NewId(req[r].form)
      /\ n.announcement = announcement
  BY DEF NewBooking
<1>2. \A b \in recent : Key(b.form) = Key(n.form) => b.id # n.id
  BY <1>1, NewIdIsNew DEF TypeInv
<1>3. /\ recent' = recent \cup {n} /\ req[r].pc = "create"
      /\ req'[r] = q /\ \A s \in Requests \ {r} : req'[s] = req[s]
  BY DEF Creates, TypeInv
<1>4. /\ q.pc = "emit" <=> announcement = "due"
      /\ q.pc = "emit" => Of(n, q) /\ q.form = n.form /\ q.id = n.id
  BY <1>1 DEF Emitting, Idle, Of
<1> HIDE DEF n
<1>5. \A b, c \in recent' : Key(b.form) = Key(c.form) /\ b.id = c.id => b = c
  BY <1>2, <1>3 DEF AnnInv
<1>6. \A b \in recent' : b.announcement # "repeated"
  BY <1>1, <1>3 DEF AnnInv
<1>7. \A s \in Requests : req'[s].pc = "emit" =>
        \E b \in recent' : Of(b, req'[s]) /\ b.announcement = "due"
  BY <1>1, <1>3, <1>4 DEF AnnInv
<1>8. ASSUME NEW s \in Requests \ {r}, req[s].pc = "emit"
      PROVE  ~(Key(req[s].form) = Key(n.form) /\ req[s].id = n.id)
  <2>1. PICK b \in recent : Of(b, req[s])
    BY <1>8 DEF AnnInv
  <2> QED
    BY <1>2, <2>1 DEF Of
<1>9. \A x, s \in Requests :
        /\ req'[x].pc = "emit" /\ req'[s].pc = "emit"
        /\ Key(req'[x].form) = Key(req'[s].form) /\ req'[x].id = req'[s].id
        => x = s
  BY <1>3, <1>4, <1>8 DEF AnnInv
<1>10. \A b \in recent' : b.announcement = "due" =>
         \E s \in Requests : req'[s].pc = "emit" /\ Of(b, req'[s])
  BY <1>1, <1>3, <1>4 DEF AnnInv
<1> QED
  BY <1>5, <1>6, <1>7, <1>9, <1>10 DEF AnnInv, Of

LEMMA EmitKeepsAnn ==
  ASSUME TypeInv, AnnInv, NEW r \in Requests, Emit(r)
  PROVE  AnnInv'
<1> DEFINE g == EmitMap(r)
<1>1. recent' = {g[b] : b \in recent}
      /\ \A b \in recent : g[b].form = b.form /\ g[b].id = b.id
  BY EmitMapsBookings, SameButKeepsBookings
<1>2. /\ req[r].pc = "emit" /\ req'[r].pc = "idle"
      /\ \A s \in Requests \ {r} : req'[s] = req[s]
  BY DEF Emit, Answered, TypeInv, Idle
<1>3. \A b \in recent : Of(b, req[r]) => b.announcement = "due"
  BY <1>2 DEF AnnInv, Of
<1>4. ASSUME NEW b \in recent
      PROVE  IF Of(b, req[r]) THEN g[b].announcement \in {"made", "lost"}
             ELSE g[b] = b
  <2>1. CASE Of(b, req[r])
    <3>1. g[b] = Announced(b) /\ b.announcement = "due" /\ IsBooking(b)
      BY <1>3, <2>1 DEF EmitMap, IsOf, Of, TypeInv
    <3> QED
      BY <2>1, <3>1 DEF Announced, IsBooking
  <2>2. CASE ~Of(b, req[r])
    BY <2>2 DEF EmitMap, IsOf, Of
  <2> QED
    BY <2>1, <2>2
<1> HIDE DEF g
<1>5. \A b, c \in recent' : Key(b.form) = Key(c.form) /\ b.id = c.id => b = c
  BY <1>1 DEF AnnInv
<1>6. \A b \in recent' : b.announcement # "repeated"
  BY <1>1, <1>4 DEF AnnInv
<1>7. ASSUME NEW s \in Requests, req'[s].pc = "emit"
      PROVE  \E b \in recent' : Of(b, req'[s]) /\ b.announcement = "due"
  <2>1. s # r /\ req'[s] = req[s] /\ req[s].pc = "emit"
    BY <1>2, <1>7
  <2>2. PICK b \in recent : Of(b, req[s]) /\ b.announcement = "due"
    BY <2>1 DEF AnnInv
  <2>3. ~Of(b, req[r])
    BY <1>2, <2>1, <2>2 DEF Of, AnnInv
  <2>4. g[b] = b /\ b \in recent'
    BY <1>1, <1>4, <2>3
  <2> QED
    BY <2>1, <2>2, <2>4
<1>8. \A x, s \in Requests :
        /\ req'[x].pc = "emit" /\ req'[s].pc = "emit"
        /\ Key(req'[x].form) = Key(req'[s].form) /\ req'[x].id = req'[s].id
        => x = s
  BY <1>2 DEF AnnInv
<1>9. ASSUME NEW c \in recent', c.announcement = "due"
      PROVE  \E s \in Requests : req'[s].pc = "emit" /\ Of(c, req'[s])
  <2>1. PICK b \in recent : c = g[b]
    BY <1>1
  <2>2. ~Of(b, req[r]) /\ c = b
    BY <1>4, <1>9, <2>1
  <2>3. PICK s \in Requests : req[s].pc = "emit" /\ Of(b, req[s])
    BY <1>9, <2>2 DEF AnnInv
  <2> QED
    BY <1>2, <2>2, <2>3
<1> QED
  BY <1>5, <1>6, <1>7, <1>8, <1>9 DEF AnnInv, Of

LEMMA CrashKeepsAnn ==
  ASSUME TypeInv, AnnInv, Crash
  PROVE  AnnInv'
<1>1. recent' = {CrashMap[b] : b \in recent}
      /\ \A b \in recent : CrashMap[b].form = b.form /\ CrashMap[b].id = b.id
  BY CrashMapsBookings, SameButKeepsBookings
<1>2. \A r \in Requests : req'[r].pc = "idle"
  BY DEF Crash, Idle
<1>3. ASSUME NEW b \in recent
      PROVE  CrashMap[b].announcement \in {"made", "lost"}
  <2>1. IsBooking(b) /\ b.announcement # "repeated"
    BY DEF TypeInv, AnnInv
  <2> QED
    BY <2>1 DEF CrashMap, IsBooking
<1>4. \A b, c \in recent' : Key(b.form) = Key(c.form) /\ b.id = c.id => b = c
  BY <1>1 DEF AnnInv
<1>5. \A b \in recent' : b.announcement \in {"made", "lost"}
  BY <1>1, <1>3
<1> QED
  BY <1>2, <1>4, <1>5 DEF AnnInv, Of

LEMMA NextKeepsAnn ==
  ASSUME TypeInv, AnnInv, [Next]_vars
  PROVE  AnnInv'
<1>1. CASE UNCHANGED <<req, recent>>
  BY <1>1 DEF AnnInv, Of
<1>2. ASSUME NEW r \in Requests, Creates(r, "due", Emitting(r))
      PROVE  AnnInv'
  BY <1>2, CreateKeepsAnn
<1>3. ASSUME NEW r \in Requests, Creates(r, "lost", Idle)
      PROVE  AnnInv'
  BY <1>3, CreateKeepsAnn
<1>4. ASSUME NEW b \in recent, GrowOld(b)
      PROVE  AnnInv'
  <2>1. /\ b.announcement # "due" /\ recent' = recent \ {b} /\ UNCHANGED req
    BY <1>4 DEF GrowOld
  <2>2. \A r \in Requests : req[r].pc = "emit" =>
          \E c \in recent' : Of(c, req[r]) /\ c.announcement = "due"
    BY <2>1 DEF AnnInv
  <2> QED
    BY <2>1, <2>2 DEF AnnInv, Of
<1> QED
  BY <1>1, <1>2, <1>3, <1>4, WhatHappens, QuietKeepsAnn, EmitKeepsAnn,
     CrashKeepsAnn

\* A booking is announced at most once, and one whose announcement is due has
\* a request that will make it, for any finite number of requests: duplicates
\* announce nothing, and a crash between insert and event loses it.
THEOREM EachAnnouncedOnce == Spec => []AnnouncedOnce
<1>1. Init => AnnInv
  BY DEF Init, AnnInv, Idle
<1>2. TypeInv /\ AnnInv /\ [Next]_vars => AnnInv'
  BY NextKeepsAnn
<1>3. AnnInv => AnnouncedOnce
  BY DEF AnnInv, AnnouncedOnce, IsOf, Of
<1> QED
  BY <1>1, <1>2, <1>3, SpecTypeInv, PTL DEF Spec
-----------------------------------------------------------------------------
(* Duplicates *)

Creating(k) == {r \in Requests : req[r].pc = "create" /\ Key(req[r].form) = k}
OfKey(k) == {b \in recent : Key(b.form) = k}

\* Of a key that has bookings: they and the requests about to create another
\* are no more than the requests.  A key without bookings needs no bound, for
\* the requests that create some are requests.
KeyBounded(k) ==
  OfKey(k) # {} =>
    Cardinality(OfKey(k)) + Cardinality(Creating(k)) <= Cardinality(Requests)

DupInv == \A k : KeyBounded(k)

LEMMA CountsAreNat ==
  ASSUME TypeInv, NEW k
  PROVE  /\ IsFiniteSet(OfKey(k)) /\ Cardinality(OfKey(k)) \in Nat
         /\ IsFiniteSet(Creating(k)) /\ Cardinality(Creating(k)) \in Nat
         /\ Cardinality(Requests) \in Nat
<1>1. OfKey(k) \in SUBSET recent /\ Creating(k) \in SUBSET Requests
  BY DEF OfKey, Creating
<1>2. IsFiniteSet(recent) /\ IsFiniteSet(Requests)
  BY RequestsAssumption DEF TypeInv
<1>3. IsFiniteSet(OfKey(k)) /\ IsFiniteSet(Creating(k))
  BY <1>1, <1>2, FS_Subset
<1> QED
  BY <1>2, <1>3, FS_CardinalityType

LEMMA NextCountsAreNat ==
  ASSUME TypeInv', NEW k
  PROVE  Cardinality(OfKey(k)') \in Nat /\ Cardinality(Creating(k)') \in Nat
<1>1. OfKey(k)' \in SUBSET recent' /\ Creating(k)' \in SUBSET Requests
  BY DEF OfKey, Creating
<1>2. IsFiniteSet(recent') /\ IsFiniteSet(Requests)
  BY RequestsAssumption DEF TypeInv
<1>3. IsFiniteSet(OfKey(k)') /\ IsFiniteSet(Creating(k)')
  BY <1>1, <1>2, FS_Subset
<1> QED
  BY <1>3, FS_CardinalityType

\* No more bookings of the key, and no more requests about to create one.
LEMMA FewerKeepBound ==
  ASSUME TypeInv, TypeInv', NEW k, KeyBounded(k),
         OfKey(k)' # {} => OfKey(k) # {},
         Cardinality(OfKey(k)') <= Cardinality(OfKey(k)),
         Creating(k)' \subseteq Creating(k)
  PROVE  KeyBounded(k)'
<1>1. Cardinality(Creating(k)') <= Cardinality(Creating(k))
  BY CountsAreNat, FS_Subset
<1>2. /\ Cardinality(OfKey(k)) \in Nat /\ Cardinality(Creating(k)) \in Nat
      /\ Cardinality(Requests) \in Nat
  BY CountsAreNat
<1>3. Cardinality(OfKey(k)') \in Nat /\ Cardinality(Creating(k)') \in Nat
  BY NextCountsAreNat
<1> QED
  BY <1>1, <1>2, <1>3 DEF KeyBounded

LEMMA SameBookingsKeepBound ==
  ASSUME TypeInv, TypeInv', NEW k, KeyBounded(k), UNCHANGED recent,
         Creating(k)' \subseteq Creating(k)
  PROVE  KeyBounded(k)'
<1>1. OfKey(k)' = OfKey(k)
  BY DEF OfKey
<1>2. Cardinality(OfKey(k)') <= Cardinality(OfKey(k))
  BY <1>1, CountsAreNat
<1> QED
  BY <1>1, <1>2, FewerKeepBound

LEMMA QuietKeepsBound ==
  ASSUME TypeInv, TypeInv', DupInv, NEW r \in Requests, NEW q, Quietly(r, q),
         NEW k
  PROVE  KeyBounded(k)'
<1>0. KeyBounded(k)
  BY DEF DupInv
<1>1. /\ UNCHANGED recent /\ req'[r] = q
      /\ \A s \in Requests \ {r} : req'[s] = req[s]
  BY DEF Quietly, TypeInv
<1>2. CASE q.pc = "create" /\ Key(q.form) = k
  <2>1. Duplicates(q.form) = {}
    BY <1>2 DEF Quietly
  <2>2. OfKey(k)' = {}
    BY <1>1, <1>2, <2>1 DEF OfKey, Duplicates
  <2> QED
    BY <2>2 DEF KeyBounded
<1>3. CASE ~(q.pc = "create" /\ Key(q.form) = k)
  <2>1. Creating(k)' \subseteq Creating(k)
    BY <1>1, <1>3 DEF Creating
  <2> QED
    BY <1>0, <1>1, <2>1, SameBookingsKeepBound
<1> QED
  BY <1>2, <1>3

LEMMA CreateKeepsBound ==
  ASSUME TypeInv, TypeInv', DupInv, NEW r \in Requests, NEW announcement, NEW q,
         Creates(r, announcement, q), q.pc # "create", NEW k
  PROVE  KeyBounded(k)'
<1> DEFINE n == NewBooking(r, announcement)
<1>0. KeyBounded(k)
  BY DEF DupInv
<1>1. n.form = req[r].form
  BY DEF NewBooking
<1>2. /\ recent' = recent \cup {n} /\ req[r].pc = "create"
      /\ req'[r] = q /\ \A s \in Requests \ {r} : req'[s] = req[s]
  BY DEF Creates, TypeInv
<1>3. Creating(k)' = Creating(k) \ {r}
  BY <1>2 DEF Creating
<1> HIDE DEF n
<1>4. CASE Key(n.form) # k
  <2>1. OfKey(k)' = OfKey(k)
    BY <1>2, <1>4 DEF OfKey
  <2>2. Cardinality(OfKey(k)') <= Cardinality(OfKey(k))
    BY <2>1, CountsAreNat
  <2> QED
    BY <1>0, <1>3, <2>1, <2>2, FewerKeepBound
<1>5. CASE Key(n.form) = k
  <2>1. OfKey(k)' = OfKey(k) \cup {n}
    BY <1>2, <1>5 DEF OfKey
  <2>2. r \in Creating(k)
    BY <1>1, <1>2, <1>5 DEF Creating
  <2>3. /\ IsFiniteSet(OfKey(k)) /\ Cardinality(OfKey(k)) \in Nat
        /\ IsFiniteSet(Creating(k)) /\ Cardinality(Creating(k)) \in Nat
        /\ Cardinality(Requests) \in Nat
    BY CountsAreNat
  <2>4. Cardinality(OfKey(k)') <= Cardinality(OfKey(k)) + 1
    <3>1. Cardinality(OfKey(k) \cup {n}) = IF n \in OfKey(k)
            THEN Cardinality(OfKey(k)) ELSE Cardinality(OfKey(k)) + 1
      BY <2>3, FS_AddElement
    <3>2. Cardinality(OfKey(k) \cup {n}) <= Cardinality(OfKey(k)) + 1
      BY <2>3, <3>1
    <3> QED
      BY <2>1, <3>2
  <2>5. Cardinality(Creating(k)') = Cardinality(Creating(k)) - 1
    BY <1>3, <2>2, <2>3, FS_RemoveElement
  <2>6. Cardinality(OfKey(k)') \in Nat
    BY NextCountsAreNat
  <2>7. CASE OfKey(k) # {}
    BY <1>0, <2>3, <2>4, <2>5, <2>6, <2>7 DEF KeyBounded
  <2>8. CASE OfKey(k) = {}
    <3>1. Cardinality(OfKey(k)) = 0
      BY <2>8, FS_EmptySet
    <3>2. Cardinality(Creating(k)) <= Cardinality(Requests)
      BY RequestsAssumption, FS_Subset DEF Creating
    <3> QED
      BY <2>3, <2>4, <2>5, <2>6, <3>1, <3>2 DEF KeyBounded
  <2> QED
    BY <2>7, <2>8
<1> QED
  BY <1>4, <1>5

\* The bookings are replaced by others of the same key.
LEMMA MapKeepsBound ==
  ASSUME TypeInv, TypeInv', DupInv, NEW g, SameBut(g),
         recent' = {g[b] : b \in recent},
         NEW k, Creating(k)' \subseteq Creating(k)
  PROVE  KeyBounded(k)'
<1>0. KeyBounded(k)
  BY DEF DupInv
<1> DEFINE S == OfKey(k)
           h == [b \in S |-> g[b]]
<1>1. \A b \in recent : g[b].form = b.form
  BY SameButKeepsBookings
<1>2. OfKey(k)' = {h[b] : b \in S}
  BY <1>1 DEF OfKey
<1>3. h \in [S -> {h[b] : b \in S}] /\ IsFiniteSet(S)
  BY CountsAreNat
<1> HIDE DEF h
<1>4. Cardinality(OfKey(k)') <= Cardinality(S)
  BY <1>2, <1>3, MappedSet
<1>5. OfKey(k)' # {} => S # {}
  BY <1>2
<1> QED
  BY <1>0, <1>4, <1>5, FewerKeepBound

LEMMA NextKeepsBound ==
  ASSUME TypeInv, TypeInv', DupInv, [Next]_vars
  PROVE  DupInv'
<1> SUFFICES ASSUME NEW k
             PROVE  KeyBounded(k)'
  BY DEF DupInv
<1>0. KeyBounded(k) /\ Idle.pc = "idle"
  BY DEF DupInv, Idle
<1>1. CASE UNCHANGED <<req, recent>>
  BY <1>0, <1>1, SameBookingsKeepBound DEF Creating
<1>2. ASSUME NEW r \in Requests, Creates(r, "due", Emitting(r))
      PROVE  KeyBounded(k)'
  BY <1>2, CreateKeepsBound DEF Emitting
<1>3. ASSUME NEW r \in Requests, Creates(r, "lost", Idle)
      PROVE  KeyBounded(k)'
  BY <1>0, <1>3, CreateKeepsBound
<1>4. ASSUME NEW r \in Requests, Emit(r)
      PROVE  KeyBounded(k)'
  <2>1. SameBut(EmitMap(r)) /\ recent' = {EmitMap(r)[b] : b \in recent}
    BY <1>4, EmitMapsBookings
  <2>2. /\ req'[r] = Idle /\ \A s \in Requests \ {r} : req'[s] = req[s]
    BY <1>4 DEF Emit, Answered, TypeInv
  <2>3. Creating(k)' \subseteq Creating(k)
    BY <1>0, <2>2 DEF Creating
  <2> QED
    BY <2>1, <2>3, MapKeepsBound
<1>5. ASSUME NEW b \in recent, GrowOld(b)
      PROVE  KeyBounded(k)'
  <2>1. OfKey(k)' \subseteq OfKey(k) /\ Creating(k)' \subseteq Creating(k)
    BY <1>5 DEF GrowOld, OfKey, Creating
  <2>2. Cardinality(OfKey(k)') <= Cardinality(OfKey(k))
    BY <2>1, CountsAreNat, FS_Subset
  <2> QED
    BY <1>0, <2>1, <2>2, FewerKeepBound
<1>6. CASE Crash
  <2>1. Creating(k)' \subseteq Creating(k)
    BY <1>0, <1>6 DEF Crash, Creating
  <2> QED
    BY <1>6, <2>1, CrashMapsBookings, MapKeepsBound
<1> QED
  BY <1>1, <1>2, <1>3, <1>4, <1>5, <1>6, WhatHappens, QuietKeepsBound

\* However often a form is submitted within ten minutes, on either endpoint,
\* there are no more bookings of it than requests in flight at once: the race
\* of findRecentDuplicateBooking with the insert goes no further, for any
\* finite number of requests and with crashes at any step.
THEOREM DuplicatesAreBounded == Spec => []DuplicatesBounded
<1>1. ASSUME Init
      PROVE  DupInv
  <2>1. \A k : OfKey(k) = {}
    BY <1>1 DEF Init, OfKey
  <2> QED
    BY <2>1 DEF DupInv, KeyBounded
<1>2. TypeInv /\ TypeInv' /\ DupInv /\ [Next]_vars => DupInv'
  BY NextKeepsBound
<1>3. ASSUME DupInv
      PROVE  DuplicatesBounded
  <2> SUFFICES ASSUME NEW b \in recent
               PROVE  Cardinality(Duplicates(b.form))
                        + Cardinality(Creating(Key(b.form)))
                        <= Cardinality(Requests)
    BY DEF DuplicatesBounded, Creating
  <2>1. Duplicates(b.form) = OfKey(Key(b.form)) /\ b \in OfKey(Key(b.form))
    BY DEF Duplicates, OfKey
  <2> QED
    BY <1>3, <2>1 DEF DupInv, KeyBounded
<1> QED
  BY <1>1, <1>2, <1>3, SpecTypeInv, PTL DEF Spec
-----------------------------------------------------------------------------
(* The cooldown *)

\* The attempts that requests past the head of geocodeAddress may still start.
Retries == {t \in Requests \X (1..MaxRetries) :
              req[t[1]].pc = "fetch" /\ req[t[1]].attempt < t[2]}

\* What was started since the provider refused and what may still be are the
\* retries of all requests but the one that was refused.
CooldownInv ==
  /\ cooldown = "none" => during = 0
  /\ cooldown # "none" =>
       during + Cardinality(Retries) <= MaxRetries * (Cardinality(Requests) - 1)

\* All that may become of a cooldown: it is closed or stays so, a request opens
\* it and is done, one that was in flight retries, or nothing happens to it.
Closed == cooldown' = "none" /\ during' = 0
Opened == /\ cooldown = "none" /\ cooldown' # "none" /\ during' = during
          /\ \E r \in Requests :
               Retries' \subseteq (Requests \ {r}) \X (1..MaxRetries)
Retried == /\ cooldown # "none" /\ cooldown' = cooldown /\ during' = during + 1
           /\ \E t \in Retries : Retries' \subseteq Retries \ {t}
Untouched == /\ cooldown # "none" /\ cooldown' = cooldown /\ during' = during
             /\ Retries' \subseteq Retries

LEMMA OthersKeepRetries ==
  ASSUME TypeInv, NEW r \in Requests, NEW q, req' = [req EXCEPT ![r] = q],
         q.pc # "fetch"
  PROVE  /\ Retries' \subseteq Retries
         /\ Retries' \subseteq (Requests \ {r}) \X (1..MaxRetries)
BY DEF Retries, TypeInv

LEMMA LocatedKeepsRetries ==
  ASSUME TypeInv, NEW r \in Requests, NEW result, Located(r, result)
  PROVE  /\ Retries' \subseteq Retries
         /\ Retries' \subseteq (Requests \ {r}) \X (1..MaxRetries)
<1> DEFINE q == [pc |-> "located", form |-> req[r].form, result |-> result]
<1>1. q.pc # "fetch" /\ req' = [req EXCEPT ![r] = q]
  BY DEF Located
<1> HIDE DEF q
<1> QED
  BY <1>1, OthersKeepRetries

\* A request that works on its own leaves the cooldown as it is.
LEMMA AsideOfCooldown ==
  ASSUME TypeInv, CooldownInv, UNCHANGED <<cooldown, during>>,
         Retries' \subseteq Retries
  PROVE  Closed \/ Untouched
BY DEF Closed, Untouched, CooldownInv

LEMMA AttemptTouchesCooldown ==
  ASSUME TypeInv, CooldownInv, NEW r \in Requests, Attempt(r)
  PROVE  Closed \/ Opened \/ Retried \/ Untouched
<1>1. CASE AnswersPosition(r)
  BY <1>1 DEF AnswersPosition, Closed
<1>2. CASE AnswersNothing(r)
  BY <1>2, LocatedKeepsRetries, AsideOfCooldown DEF AnswersNothing
<1>3. CASE Refuses(r)
  <2>1. /\ Retries' \subseteq Retries
        /\ Retries' \subseteq (Requests \ {r}) \X (1..MaxRetries)
        /\ cooldown' = "refused" /\ during' = during
    BY <1>3, LocatedKeepsRetries DEF Refuses
  <2> QED
    BY <2>1 DEF Opened, Untouched, TypeInv
<1>4. ASSUME NEW spent, Unavailable(r, spent)
      PROVE  Closed \/ Retried \/ Untouched
  <2> DEFINE f == req[r].form
             pause == Lesser(Backoff(req[r].attempt), TotalTimeout - spent)
             q == [pc |-> "fetch", form |-> f, attempt |-> req[r].attempt + 1,
                   spent |-> spent + pause]
  <2>1. CASE ~(Retryable(r) /\ spent + pause < TotalTimeout)
    <3>1. Located(r, Failed("api_unavailable")) /\ UNCHANGED <<cooldown, during>>
      BY <1>4, <2>1 DEF Unavailable
    <3> QED
      BY <3>1, LocatedKeepsRetries, AsideOfCooldown
  <2>2. CASE Retryable(r) /\ spent + pause < TotalTimeout
    <3>1. /\ req' = [req EXCEPT ![r] = q] /\ cooldown' = cooldown
          /\ during' = IF cooldown = "none" THEN 0 ELSE during + 1
      BY <1>4, <2>2 DEF Unavailable
    <3>2. q.pc = "fetch" /\ q.attempt = req[r].attempt + 1
      OBVIOUS
    <3>3. req[r].pc = "fetch" /\ req[r].attempt \in 0..(MaxRetries - 1)
      BY <2>2, RequestsByStep DEF Attempt, TypeInv, Retryable, MaxRetries
    <3>4. <<r, req[r].attempt + 1>> \in Retries
      BY <3>3 DEF Retries, MaxRetries
    <3> HIDE DEF q
    <3>5. Retries' \subseteq Retries \ {<<r, req[r].attempt + 1>>}
      BY <3>1, <3>2, <3>3 DEF Retries, TypeInv, MaxRetries
    <3> QED
      BY <3>1, <3>4, <3>5 DEF Closed, Retried
  <2> QED
    BY <2>1, <2>2
<1> QED
  BY <1>1, <1>2, <1>3, <1>4 DEF Attempt

LEMMA StepTouchesCooldown ==
  ASSUME TypeInv, CooldownInv, [Next]_vars
  PROVE  Closed \/ Opened \/ Retried \/ Untouched
<1>0. Idle.pc = "idle"
  BY DEF Idle
<1>1. ASSUME NEW r \in Requests, NEW q, req' = [req EXCEPT ![r] = q],
             q.pc # "fetch", UNCHANGED <<cooldown, during>>
      PROVE  Closed \/ Untouched
  BY <1>1, OthersKeepRetries, AsideOfCooldown
<1>2. ASSUME UNCHANGED <<cooldown, during, req>>
      PROVE  Closed \/ Untouched
  BY <1>2, AsideOfCooldown DEF Retries
<1>3. ASSUME NEW r \in Requests, NEW f \in Forms, Submit(r, f)
      PROVE  Closed \/ Untouched
  <2> DEFINE q == [pc |-> "lookup", form |-> f]
  <2>1. /\ q.pc # "fetch" /\ req' = [req EXCEPT ![r] = q]
        /\ UNCHANGED <<cooldown, during>>
    BY <1>3 DEF Submit, geoVars
  <2> HIDE DEF q
  <2> QED
    BY <1>1, <2>1
<1>4. ASSUME NEW r \in Requests, LookUp(r)
      PROVE  Closed \/ Untouched
  <2>1. CASE \E result : Located(r, result) /\ UNCHANGED <<cooldown, during>>
    BY <2>1, LocatedKeepsRetries, AsideOfCooldown
  <2>2. CASE StartGeocoding(r) /\ cooldown = "none" /\ UNCHANGED cooldown
    BY <2>2 DEF StartGeocoding, CooldownInv, Closed
  <2> QED
    BY <1>4, <2>1, <2>2 DEF LookUp, StartGeocoding
<1>5. ASSUME NEW r \in Requests, StoreCoordinates(r)
      PROVE  Closed \/ Untouched
  BY <1>5, LocatedKeepsRetries, AsideOfCooldown DEF StoreCoordinates
<1>6. ASSUME NEW r \in Requests, Resolve(r) \/ Check(r) \/ Create(r) \/ Emit(r)
      PROVE  Closed \/ Untouched
  <2>1. UNCHANGED <<cooldown, during>>
    BY <1>6 DEF Resolve, Check, Create, Emit, geoVars
  <2>2. CASE \E zone, position : Accept(r, zone, position)
    <3> PICK zone, position : Accept(r, zone, position)
      BY <2>2
    <3> DEFINE q == [pc |-> "check", form |-> req[r].form, zone |-> zone,
                     position |-> position]
    <3>1. q.pc # "fetch" /\ req' = [req EXCEPT ![r] = q]
      BY DEF Accept
    <3> HIDE DEF q
    <3> QED
      BY <1>1, <2>1, <3>1
  <2>3. CASE req' = [req EXCEPT ![r].pc = "create"]
    <3> DEFINE q == [req[r] EXCEPT !.pc = "create"]
    <3>1. req' = [req EXCEPT ![r] = q]
      BY <2>3
    <3>2. Retries' \subseteq Retries
      BY <2>3 DEF Retries, TypeInv
    <3> QED
      BY <2>1, <3>2, AsideOfCooldown
  <2>4. CASE req' = [req EXCEPT ![r] = Emitting(r)]
    <3> DEFINE q == Emitting(r)
    <3>1. q.pc # "fetch"
      BY DEF Emitting
    <3> HIDE DEF q
    <3> QED
      BY <1>1, <2>1, <2>4, <3>1 DEF q
  <2>5. CASE Answered(r)
    BY <1>0, <1>1, <2>1, <2>5 DEF Answered
  <2> QED
    BY <1>6, <2>2, <2>3, <2>4, <2>5
    DEF Resolve, Check, Create, Emit, AnswerDuplicate, Emitting
<1>7. CASE Crash \/ CooldownEnds
  BY <1>7 DEF Crash, CooldownEnds, Closed
<1>8. ASSUME NEW a \in Addresses, CacheExpires(a)
      PROVE  Closed \/ Untouched
  BY <1>2, <1>8 DEF CacheExpires
<1>9. ASSUME NEW b \in recent, GrowOld(b)
      PROVE  Closed \/ Untouched
  BY <1>2, <1>9 DEF GrowOld, geoVars
<1>10. CASE UNCHANGED vars
  BY <1>2, <1>10 DEF vars
<1> QED
  BY <1>3, <1>4, <1>5, <1>6, <1>7, <1>8, <1>9, <1>10, AttemptTouchesCooldown
  DEF Next, Environment, Continue, GeocodingStep

LEMMA RetriesOfSome ==
  ASSUME NEW S, IsFiniteSet(S)
  PROVE  /\ IsFiniteSet(S \X (1..MaxRetries))
         /\ Cardinality(S \X (1..MaxRetries)) = Cardinality(S) * MaxRetries
<1> DEFINE retries == 1..MaxRetries
<1>1. MaxRetries \in Nat \ {0}
  BY DEF MaxRetries
<1>2. IsFiniteSet(retries) /\ Cardinality(retries) = MaxRetries
  BY <1>1, FS_Interval
<1> HIDE DEF retries
<1>3. /\ IsFiniteSet(S \X retries)
      /\ Cardinality(S \X retries) = Cardinality(S) * MaxRetries
  BY <1>2, FS_Product
<1> QED
  BY <1>3 DEF retries

LEMMA RetriesAreFinite == IsFiniteSet(Retries)
<1>1. Retries \in SUBSET (Requests \X (1..MaxRetries))
  BY DEF Retries
<1> QED
  BY <1>1, RequestsAssumption, RetriesOfSome, FS_Subset

LEMMA RetriesAreCounted ==
  ASSUME TypeInv
  PROVE  /\ IsFiniteSet(Retries) /\ Cardinality(Retries) \in Nat
         /\ \A T \in SUBSET Retries :
              IsFiniteSet(T) /\ Cardinality(T) \in Nat
              /\ Cardinality(T) <= Cardinality(Retries)
         /\ \A t \in Retries :
              Cardinality(Retries \ {t}) = Cardinality(Retries) - 1
BY RetriesAreFinite, FS_Subset, FS_CardinalityType, FS_RemoveElement

\* The retries of all requests but one.
LEMMA RetriesOfOthers ==
  ASSUME NEW r \in Requests,
         NEW T \in SUBSET ((Requests \ {r}) \X (1..MaxRetries))
  PROVE  /\ IsFiniteSet(T) /\ Cardinality(T) \in Nat
         /\ Cardinality(T) <= MaxRetries * (Cardinality(Requests) - 1)
<1>1. /\ IsFiniteSet(Requests \ {r})
      /\ Cardinality(Requests \ {r}) = Cardinality(Requests) - 1
      /\ Cardinality(Requests) \in Nat
  BY RequestsAssumption, FS_RemoveElement, FS_CardinalityType
<1>3. /\ IsFiniteSet((Requests \ {r}) \X (1..MaxRetries))
      /\ Cardinality((Requests \ {r}) \X (1..MaxRetries))
           = (Cardinality(Requests) - 1) * MaxRetries
  BY <1>1, RetriesOfSome
<1>4. /\ IsFiniteSet(T) /\ Cardinality(T) \in Nat
      /\ Cardinality(T) <= (Cardinality(Requests) - 1) * MaxRetries
  BY <1>3, FS_Subset, FS_CardinalityType
<1> QED
  BY <1>1, <1>4 DEF MaxRetries

LEMMA NextKeepsCooldown ==
  ASSUME TypeInv, TypeInv', CooldownInv, [Next]_vars
  PROVE  CooldownInv'
<1> DEFINE bound == MaxRetries * (Cardinality(Requests) - 1)
           left == Cardinality(Retries)
           next == Cardinality(Retries')
<1>0. bound \in Int /\ left \in Nat /\ during \in Nat /\ next \in Nat
  <2>1. Cardinality(Requests) \in Nat
    BY RequestsAssumption, FS_CardinalityType
  <2>2. IsFiniteSet(Retries')
    <3>1. Retries' \in SUBSET (Requests \X (1..MaxRetries))
      BY DEF Retries
    <3> QED
      BY <3>1, RequestsAssumption, RetriesOfSome, FS_Subset
  <2> QED
    BY <2>1, <2>2, RetriesAreCounted, FS_CardinalityType DEF MaxRetries, TypeInv
<1>1. CASE Closed
  BY <1>1 DEF Closed, CooldownInv
<1>2. CASE Opened
  <2>1. PICK r \in Requests :
          Retries' \in SUBSET ((Requests \ {r}) \X (1..MaxRetries))
    BY <1>2 DEF Opened
  <2>2. next <= bound
    BY <2>1, RetriesOfOthers
  <2>3. during' = 0 /\ cooldown' # "none"
    BY <1>2 DEF Opened, CooldownInv
  <2> QED
    BY <1>0, <2>2, <2>3 DEF CooldownInv
<1>3. CASE Retried
  <2>1. PICK t \in Retries : Retries' \subseteq Retries \ {t}
    BY <1>3 DEF Retried
  <2>2. IsFiniteSet(Retries \ {t}) /\ Cardinality(Retries \ {t}) = left - 1
    BY <2>1, RetriesAreCounted, FS_RemoveElement
  <2>3. next <= left - 1
    BY <2>1, <2>2, FS_Subset
  <2>4. /\ cooldown # "none" /\ cooldown' = cooldown
        /\ during' = during + 1 /\ during + left <= bound
    BY <1>3 DEF Retried, CooldownInv
  <2>5. during' + next <= bound
    <3> HIDE DEF left, next, bound
    <3> QED
      BY <1>0, <2>3, <2>4
  <2> QED
    BY <2>4, <2>5 DEF CooldownInv
<1>4. CASE Untouched
  <2>1. next <= left
    BY <1>4, RetriesAreCounted DEF Untouched
  <2>2. /\ cooldown # "none" /\ cooldown' = cooldown
        /\ during' = during /\ during + left <= bound
    BY <1>4 DEF Untouched, CooldownInv
  <2>3. during' + next <= bound
    <3> HIDE DEF left, next, bound
    <3> QED
      BY <1>0, <2>1, <2>2
  <2> QED
    BY <2>2, <2>3 DEF CooldownInv
<1> QED
  BY <1>1, <1>2, <1>3, <1>4, StepTouchesCooldown

\* providerCooldown: for any number of requests in flight, the provider is not
\* called more often while the cooldown is open than those that were in flight
\* when it was opened had retries left.
THEOREM CooldownIsShield == Spec => []CooldownShields
<1>1. Init => CooldownInv
  BY DEF Init, GeoInit, CooldownInv
<1>2. TypeInv /\ TypeInv' /\ CooldownInv /\ [Next]_vars => CooldownInv'
  BY NextKeepsCooldown
<1>3. ASSUME TypeInv, CooldownInv
      PROVE  CooldownShields
  <2>1. Cardinality(Requests) \in Nat /\ Cardinality(Requests) # 0
    BY RequestsAssumption, FS_CardinalityType, FS_EmptySet
  <2>2. Cardinality(Retries) \in Nat /\ during \in Nat
    BY <1>3, RetriesAreCounted DEF TypeInv
  <2> QED
    BY <1>3, <2>1, <2>2 DEF CooldownInv, CooldownShields, MaxRetries
<1> QED
  BY <1>1, <1>2, <1>3, SpecTypeInv, PTL DEF Spec
-----------------------------------------------------------------------------
(* Progress *)

Nearer ==
  \A r \in Requests :
    req[r] # Idle /\ req'[r] # req[r] => StepsLeft(req'[r]) < StepsLeft(req[r])

LEMMA StepsLeftOfEach ==
  ASSUME NEW q
  PROVE  /\ q.pc = "lookup" => StepsLeft(q) = MaxRetries + 7
         /\ q.pc = "fetch" => StepsLeft(q) = (MaxRetries - q.attempt) + 6
         /\ q.pc = "store" => StepsLeft(q) = 5
         /\ q.pc = "located" => StepsLeft(q) = 4
         /\ q.pc = "check" => StepsLeft(q) = 3
         /\ q.pc = "create" => StepsLeft(q) = 2
         /\ q.pc = "emit" => StepsLeft(q) = 1
         /\ q.pc = "idle" => StepsLeft(q) = 0
BY DEF StepsLeft

LEMMA OwnStepIsNearer ==
  ASSUME TypeInv, NEW r \in Requests, NEW q, req' = [req EXCEPT ![r] = q],
         req[r] = Idle \/ StepsLeft(q) < StepsLeft(req[r])
  PROVE  Nearer
BY DEF Nearer, TypeInv

LEMMA LocatedIsNearer ==
  ASSUME TypeInv, NEW r \in Requests, NEW result, Located(r, result),
         req[r].pc \in {"lookup", "fetch", "store"}
  PROVE  Nearer
<1> DEFINE q == [pc |-> "located", form |-> req[r].form, result |-> result]
<1>1. StepsLeft(q) = 4 /\ req' = [req EXCEPT ![r] = q]
  BY StepsLeftOfEach DEF Located
<1>2. req[r].pc = "fetch" => req[r].attempt \in 0..MaxRetries
  BY RequestsByStep DEF TypeInv
<1>3. 4 < StepsLeft(req[r])
  BY <1>2, StepsLeftOfEach DEF MaxRetries
<1> HIDE DEF q
<1> QED
  BY <1>1, <1>3, OwnStepIsNearer

LEMMA AnswerIsNearer ==
  ASSUME TypeInv, NEW r \in Requests, Answered(r),
         req[r].pc \in {"located", "check", "create", "emit"}
  PROVE  Nearer
<1>1. StepsLeft(Idle) = 0 /\ req' = [req EXCEPT ![r] = Idle]
  BY StepsLeftOfEach DEF Answered, Idle
<1>2. 0 < StepsLeft(req[r])
  BY StepsLeftOfEach
<1> QED
  BY <1>1, <1>2, OwnStepIsNearer

LEMMA LookUpIsNearer ==
  ASSUME TypeInv, NEW r \in Requests, LookUp(r)
  PROVE  Nearer
<1>1. req[r].pc = "lookup" /\ StepsLeft(req[r]) = MaxRetries + 7
  BY StepsLeftOfEach DEF LookUp
<1>2. CASE \E result : Located(r, result)
  BY <1>1, <1>2, LocatedIsNearer
<1> DEFINE q == [pc |-> "fetch", form |-> req[r].form, attempt |-> 0,
                 spent |-> 0]
<1>3. CASE req' = [req EXCEPT ![r] = q]
  <2>1. StepsLeft(q) = (MaxRetries - 0) + 6
    BY StepsLeftOfEach
  <2>2. StepsLeft(q) < StepsLeft(req[r])
    BY <1>1, <2>1 DEF MaxRetries
  <2> HIDE DEF q
  <2> QED
    BY <1>3, <2>2, OwnStepIsNearer
<1> QED
  BY <1>2, <1>3 DEF LookUp, StartGeocoding

LEMMA AttemptIsNearer ==
  ASSUME TypeInv, NEW r \in Requests, Attempt(r)
  PROVE  Nearer
<1>1. /\ req[r].pc = "fetch" /\ req[r].attempt \in 0..MaxRetries
      /\ StepsLeft(req[r]) = (MaxRetries - req[r].attempt) + 6
  BY RequestsByStep, StepsLeftOfEach DEF Attempt, TypeInv
<1>2. CASE \E result : Located(r, result)
  BY <1>1, <1>2, LocatedIsNearer
<1>3. CASE AnswersPosition(r)
  <2> DEFINE q == [pc |-> "store", form |-> req[r].form,
                   result |-> Ok(Location[req[r].form.address])]
  <2>1. StepsLeft(q) = 5 /\ req' = [req EXCEPT ![r] = q]
    BY <1>3, StepsLeftOfEach DEF AnswersPosition
  <2>2. StepsLeft(q) < StepsLeft(req[r])
    BY <1>1, <2>1 DEF MaxRetries
  <2> HIDE DEF q
  <2> QED
    BY <2>1, <2>2, OwnStepIsNearer
<1>4. ASSUME NEW spent, Unavailable(r, spent)
      PROVE  Nearer
  <2> DEFINE pause == Lesser(Backoff(req[r].attempt), TotalTimeout - spent)
             q == [pc |-> "fetch", form |-> req[r].form,
                   attempt |-> req[r].attempt + 1, spent |-> spent + pause]
  <2>1. CASE Located(r, Failed("api_unavailable"))
    BY <1>2, <2>1
  <2>2. CASE req' = [req EXCEPT ![r] = q]
    <3>1. StepsLeft(q) = (MaxRetries - (req[r].attempt + 1)) + 6
      BY StepsLeftOfEach
    <3>2. StepsLeft(q) < StepsLeft(req[r])
      <4> HIDE DEF q
      <4> QED
        BY <1>1, <3>1 DEF MaxRetries
    <3> HIDE DEF q
    <3> QED
      BY <2>2, <3>2, OwnStepIsNearer
  <2> QED
    BY <1>4, <2>1, <2>2 DEF Unavailable
<1> QED
  BY <1>2, <1>3, <1>4 DEF Attempt, AnswersNothing, Refuses

LEMMA ResolveIsNearer ==
  ASSUME TypeInv, NEW r \in Requests, Resolve(r)
  PROVE  Nearer
<1>1. req[r].pc = "located" /\ StepsLeft(req[r]) = 4
  BY StepsLeftOfEach DEF Resolve
<1>2. ASSUME NEW zone, NEW position, Accept(r, zone, position)
      PROVE  Nearer
  <2> DEFINE q == [pc |-> "check", form |-> req[r].form, zone |-> zone,
                   position |-> position]
  <2>1. StepsLeft(q) = 3 /\ req' = [req EXCEPT ![r] = q]
    BY <1>2, StepsLeftOfEach DEF Accept
  <2> HIDE DEF q
  <2>2. StepsLeft(q) < StepsLeft(req[r])
    BY <1>1, <2>1
  <2> QED
    BY <2>1, <2>2, OwnStepIsNearer
<1>3. CASE Answered(r)
  BY <1>1, <1>3, AnswerIsNearer
<1> QED
  BY <1>2, <1>3 DEF Resolve

LEMMA CheckIsNearer ==
  ASSUME TypeInv, NEW r \in Requests, Check(r)
  PROVE  Nearer
<1>1. req[r].pc = "check" /\ StepsLeft(req[r]) = 3
  BY StepsLeftOfEach DEF Check
<1>2. CASE Answered(r)
  BY <1>1, <1>2, AnswerIsNearer
<1>3. CASE req' = [req EXCEPT ![r].pc = "create"]
  <2> DEFINE q == [req[r] EXCEPT !.pc = "create"]
  <2>1. req[r] \in [pc : {"check", "create"}, form : Forms, zone : Zones,
                     position : Positions]
    BY <1>1, RequestsByStep DEF TypeInv
  <2>2. q.pc = "create" /\ req' = [req EXCEPT ![r] = q]
    BY <1>3, <2>1
  <2> HIDE DEF q
  <2>3. StepsLeft(q) = 2
    BY <2>2, StepsLeftOfEach
  <2>4. StepsLeft(q) < StepsLeft(req[r])
    BY <1>1, <2>3
  <2> QED
    BY <2>2, <2>4, OwnStepIsNearer
<1> QED
  BY <1>2, <1>3 DEF Check, AnswerDuplicate

LEMMA CreateIsNearer ==
  ASSUME TypeInv, NEW r \in Requests, Create(r)
  PROVE  Nearer
<1>1. req[r].pc = "create" /\ StepsLeft(req[r]) = 2
  BY StepsLeftOfEach DEF Create
<1>2. CASE Answered(r)
  BY <1>1, <1>2, AnswerIsNearer
<1>3. CASE req' = [req EXCEPT ![r] = Emitting(r)]
  <2>1. StepsLeft(Emitting(r)) = 1
    BY StepsLeftOfEach DEF Emitting
  <2>2. StepsLeft(Emitting(r)) < StepsLeft(req[r])
    BY <1>1, <2>1
  <2> QED
    BY <1>3, <2>2, OwnStepIsNearer
<1> QED
  BY <1>2, <1>3 DEF Create, Emitting

\* Both endpoints make for their answer with every step they take: retries,
\* duplicates, failures of what they call and crashes never send a request
\* back.  Under fairness this is why every submission is answered.
THEOREM EachStepIsNearer == Spec => EveryStepNearer
<1>1. ASSUME TypeInv, [Next]_vars
      PROVE  [Nearer]_vars
  <2>1. ASSUME NEW r \in Requests, NEW f \in Forms, Submit(r, f)
        PROVE  Nearer
    BY <1>1, <2>1 DEF Submit, Nearer, TypeInv
  <2>2. ASSUME NEW r \in Requests, Continue(r)
        PROVE  Nearer
    <3>1. CASE StoreCoordinates(r)
      BY <1>1, <3>1, LocatedIsNearer DEF StoreCoordinates
    <3>2. CASE Emit(r)
      BY <1>1, <3>2, AnswerIsNearer DEF Emit
    <3> QED
      BY <1>1, <2>2, <3>1, <3>2, LookUpIsNearer, AttemptIsNearer,
         ResolveIsNearer, CheckIsNearer, CreateIsNearer
      DEF Continue, GeocodingStep
  <2>3. CASE UNCHANGED req
    BY <2>3 DEF Nearer
  <2>4. CASE Crash
    <3>1. \A r \in Requests : req[r].pc = "idle" => req[r] = Idle
      BY <1>1 DEF TypeInv, IsRequest
    <3>2. \A r \in Requests : req[r] # Idle => 0 < StepsLeft(req[r])
      <4> SUFFICES ASSUME NEW r \in Requests, req[r] # Idle
                   PROVE  0 < StepsLeft(req[r])
        OBVIOUS
      <4>1. req[r].pc \in {"lookup", "fetch", "store", "located", "check",
                           "create", "emit"}
        BY <1>1 DEF TypeInv, IsRequest
      <4>2. req[r].pc = "fetch" => req[r].attempt \in 0..MaxRetries
        BY <1>1, RequestsByStep DEF TypeInv
      <4> QED
        BY <4>1, <4>2, StepsLeftOfEach DEF MaxRetries
    <3>3. StepsLeft(Idle) = 0
      BY StepsLeftOfEach DEF Idle
    <3> QED
      BY <2>4, <3>2, <3>3 DEF Crash, Nearer
  <2> QED
    BY <1>1, <2>1, <2>2, <2>3, <2>4
    DEF Next, Environment, CacheExpires, CooldownEnds, GrowOld
<1>2. TypeInv /\ [Next]_vars => [Nearer]_vars
  BY <1>1
<1> QED
  BY <1>2, SpecTypeInv, PTL DEF Spec, EveryStepNearer, Nearer
=============================================================================
