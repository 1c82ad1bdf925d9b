-------------------------------- MODULE Intake --------------------------------
(***************************************************************************)
(* The two public endpoints that create bookings: createBooking and        *)
(* createQuoteRequest, from the schedule rules over the geocoding of the   *)
(* address, the duplicate check and the insert to the event that mails it. *)
(* They are concurrent; each runs in steps separated by its awaits.  What  *)
(* they price is in Quoting, what becomes of a booking in                  *)
(* BookingLifecycle.  A server-side geocoding key is configured.           *)
(***************************************************************************)
EXTENDS Geocoding

CONSTANTS
  Forms,  \* what customers send
  Apart   \* bound: whether only submissions of one key meet

ASSUME FormsAssumption == Forms \subseteq
  [endpoint : {"booking", "quote"}, model : {"V1", "V2"}, address : Addresses,
   client : Int \cup {NoPosition}, listed : BOOLEAN, day : Int, minute : Nat]

VARIABLE recent  \* the bookings of the last ten minutes

vars == <<cache, cooldown, during, req, recent>>

-----------------------------------------------------------------------------
\* enforceBookingScheduleRules: today is day 0, and it is before opening time.
Schedulable(f) == f.day \in 0..30 /\ f.minute \in (8 * 60)..(17 * 60)

\* What makes two submissions duplicates of each other, whichever endpoint
\* they were sent to.  E-mail and service type are the same in all forms,
\* save for the service types the display does not know.
Key(f) == [address |-> f.address, listed |-> f.listed, day |-> f.day,
           minute |-> f.minute]

Idle == [pc |-> "idle"]
Answered(r) == req' = [req EXCEPT ![r] = Idle]

Active == {r \in Requests : req[r] # Idle}

\* The bookings, requests and cache entries there are have the key of f.
Meets(f) ==
  /\ \A r \in Active : Key(req[r].form) = Key(f)
  /\ \A b \in recent : Key(b.form) = Key(f)
  /\ \A a \in Addresses : cache[a] # NoPosition => a = f.address

\* Everything before the first await; a form that breaks the schedule rules
\* is answered at once.
Submit(r, f) ==
  /\ req[r] = Idle
  /\ Schedulable(f)
  /\ Apart => Meets(f)
  /\ req' = [req EXCEPT ![r] = [pc |-> "lookup", form |-> f]]
  /\ UNCHANGED <<geoVars, recent>>

\* resolveGeoForQuoteRequest: createQuoteRequest goes on without a zone where
\* createBooking fails, unless the address is what is wrong.
Unresolved(r) ==
  /\ req[r].form.endpoint = "quote"
  /\ req[r].result.reason \notin {"none", "invalid_address"}

Position(r) == Validated(req[r].result.position, req[r].form.client)

\* The coverage rule of both endpoints, and what the engine does not know.
Refused(f, zone) ==
  IF f.model = "V2" THEN zone = "OUTSIDE" ELSE ~f.listed

Accept(r, zone, position) ==
  req' = [req EXCEPT ![r] = [pc |-> "check", form |-> @.form, zone |-> zone,
                             position |-> position]]

\* The request has its coordinates, or the reason why not.
Resolve(r) ==
  /\ req[r].pc = "located"
  /\ UNCHANGED <<geoVars, recent>>
  /\ \/ /\ Unresolved(r) /\ ~Refused(req[r].form, "unresolved")
        /\ Accept(r, "unresolved", NoPosition)
     \/ /\ req[r].result.reason = "none"
        /\ \E zone \in {CoverageOf(Position(r))} :
             /\ ~Refused(req[r].form, zone)
             /\ Accept(r, zone, Position(r))
     \/ /\ \/ req[r].result.reason # "none" /\ ~Unresolved(r)
           \/ Unresolved(r) /\ Refused(req[r].form, "unresolved")
           \/ /\ req[r].result.reason = "none"
              /\ Refused(req[r].form, CoverageOf(Position(r)))
        /\ Answered(r)

\* A bug in its place: only the endpoint's own submissions are looked at.
DuplicatesOfEndpoint(f) ==
  {b \in recent : Key(b.form) = Key(f) /\ b.form.endpoint = f.endpoint}

\* findRecentDuplicateBooking
Duplicates(f) == {b \in recent : Key(b.form) = Key(f)}

\* A bug in its place: a duplicate is announced again.
AnnouncesDuplicate(r) ==
  \E b \in Duplicates(req[r].form) :
    req' = [req EXCEPT ![r] = [pc |-> "emit", form |-> @.form, id |-> b.id]]

\* The customer is shown the booking there is.
AnswerDuplicate(r) == Answered(r)

\* A failing database answers the request.
Check(r) ==
  /\ req[r].pc = "check"
  /\ UNCHANGED <<geoVars, recent>>
  /\ \/ Duplicates(req[r].form) # {} /\ AnswerDuplicate(r)
     \/ /\ Duplicates(req[r].form) = {}
        /\ req' = [req EXCEPT ![r].pc = "create"]
     \/ Answered(r)

NewId(f) ==
  CHOOSE n \in 0..Cardinality(recent) :
    \A b \in recent : Key(b.form) = Key(f) => b.id # n

\* Announcing it is still due, or will not happen.
NewBooking(r, announcement) ==
  [form |-> req[r].form, id |-> NewId(req[r].form), zone |-> req[r].zone,
   position |-> req[r].position, announcement |-> announcement]

\* bookingModel.create, which may insert the booking and fail all the same.
Create(r) ==
  /\ req[r].pc = "create"
  /\ UNCHANGED geoVars
  /\ \/ /\ recent' = recent \cup {NewBooking(r, "due")}
        /\ req' = [req EXCEPT ![r] = [pc |-> "emit", form |-> @.form,
                                      id |-> NewId(@.form)]]
     \/ /\ recent' \in {recent, recent \cup {NewBooking(r, "lost")}}
        /\ Answered(r)

IsOf(b, r) == Key(b.form) = Key(req[r].form) /\ b.id = req[r].id

Announced(b) ==
  [b EXCEPT !.announcement =
     IF @ = "due" THEN IF b.form.listed THEN "made" ELSE "lost"
     ELSE "repeated"]

\* emitBookingCreatedEvent and emitBookingQuoteRequestedEvent; they throw for
\* a service type that toFrontendBooking does not know.
Emit(r) ==
  /\ req[r].pc = "emit"
  /\ recent' = {IF IsOf(b, r) THEN Announced(b) ELSE b : b \in recent}
  /\ Answered(r)
  /\ UNCHANGED geoVars

\* Ten minutes have passed; nothing is awaited between insert and event.
GrowOld(b) ==
  /\ b.announcement # "due"
  /\ recent' = recent \ {b}
  /\ UNCHANGED <<geoVars, req>>

\* The process restarts: its requests, its events and its cooldown are gone.
Crash ==
  /\ Active # {}
  /\ req' = [r \in Requests |-> Idle]
  /\ recent' = {IF b.announcement = "due"
                  THEN [b EXCEPT !.announcement = "lost"] ELSE b : b \in recent}
  /\ cooldown' = "none" /\ during' = 0
  /\ UNCHANGED cache

-----------------------------------------------------------------------------
Init ==
  /\ GeoInit
  /\ req = [r \in Requests |-> Idle]
  /\ recent = {}

Continue(r) ==
  \/ GeocodingStep(r) /\ UNCHANGED recent
  \/ Resolve(r) \/ Check(r) \/ Create(r) \/ Emit(r)

Environment ==
  \/ \E a \in Addresses : CacheExpires(a) /\ UNCHANGED recent
  \/ CooldownEnds /\ UNCHANGED recent
  \/ \E b \in recent : GrowOld(b)
  \/ Crash

Next ==
  \/ \E r \in Requests, f \in Forms : Submit(r, f)
  \/ \E r \in Requests : Continue(r)
  \/ Environment

\* Everything a request awaits has a timeout.
Fairness == \A r \in Requests : WF_vars(Continue(r))

Spec == Init /\ [][Next]_vars /\ Fairness

-----------------------------------------------------------------------------
(* Properties *)

Zones == {"INSIDE", "BORDERLINE", "OUTSIDE", "unresolved"}
Positions == Int \cup {NoPosition}

\* Every variable has its type, and the cache holds nothing but what the
\* provider said of the address (setCachedCoordinates).
TypeOK ==
  /\ cache \in [Addresses -> Positions]
  /\ \A a \in Addresses : cache[a] \in {NoPosition, Location[a]}
  /\ cooldown \in {"none", "refused"}
  /\ during \in Nat
  /\ \A r \in Requests :
       req[r].pc \in {"idle", "lookup", "fetch", "store", "located", "check",
                      "create", "emit"}
  /\ \A b \in recent :
       /\ b.form \in Forms /\ b.id \in Nat
       /\ b.zone \in Zones /\ b.position \in Positions
       /\ b.announcement \in {"due", "made", "lost", "repeated"}

\* findRecentDuplicateBooking reads before it creates.  However often and on
\* whichever endpoint a customer submits a form within ten minutes, there are
\* no more bookings of it than requests the process has in flight at once;
\* that more than one is possible is the race.
DuplicatesBounded ==
  \A b \in recent :
    Cardinality(Duplicates(b.form))
      + Cardinality({r \in Requests :
                       req[r].pc = "create" /\ Key(req[r].form) = Key(b.form)})
      <= Cardinality(Requests)

Reach(z) == z.radius + BorderlineThreshold + MismatchThreshold

\* validateClientCoordinates and the coverage rule: whatever coordinates the
\* customer sent, a V2 booking with a zone is at an address that the provider
\* places within a zone's reach, with the two thresholds added.
AcceptedIsNear ==
  \A b \in recent :
    b.form.model = "V2" /\ b.zone # "unresolved" =>
      \E z \in CoverageZones :
        Distance(Location[b.form.address], z.center) <= Reach(z)

\* computeSurchargeInternal: the stored zone is that of the stored position,
\* by its signed distance to the nearest boundary, also where circles overlap
\* and the nearest centre is not that of the circle it is in.
ZoneByBoundary ==
  \A b \in recent :
    b.zone # "unresolved" => b.zone = CoverageByGap(b.position)

\* The event that mails a booking is emitted once for it: never for the
\* duplicates it answers, and a booking whose event is still due has a request
\* that will emit it.
AnnouncedOnce ==
  \A b \in recent :
    /\ b.announcement # "repeated"
    /\ b.announcement = "due" =>
         \E r \in Requests : req[r].pc = "emit" /\ IsOf(b, r)

\* How many steps of its own a request still takes to its answer, at most.
StepsLeft(q) ==
  CASE q.pc = "lookup"  -> MaxRetries + 7
    [] q.pc = "fetch"   -> (MaxRetries - q.attempt) + 6
    [] q.pc = "store"   -> 5
    [] q.pc = "located" -> 4
    [] q.pc = "check"   -> 3
    [] q.pc = "create"  -> 2
    [] q.pc = "emit"    -> 1
    [] q.pc = "idle"    -> 0

\* No step sends a request back: whatever the provider, Redis, the database and
\* the other requests do, a submission under way is answered after MaxRetries
\* + 7 steps of its own, and nothing but the scheduler can delay it.
EveryStepNearer ==
  [][\A r \in Requests :
       req[r] # Idle /\ req'[r] # req[r]
         => StepsLeft(req'[r]) < StepsLeft(req[r])]_vars

\* Both endpoints answer every submission, whatever the provider, Redis and
\* the database do, and even if a cooldown never ends.
EveryRequestAnswered ==
  \A r \in Requests : req[r].pc # "idle" ~> req[r].pc = "idle"
=============================================================================
