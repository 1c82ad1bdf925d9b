------------------------------ MODULE Geocoding ------------------------------
(***************************************************************************)
(* getGeocodedCoordinates: the Redis cache in front of the provider, the   *)
(* attempts within one deadline, and the cooldown that all requests of the *)
(* process share.  The clock of a request counts quarters of a second from *)
(* its first attempt; the cooldown and the cache entries expire at any     *)
(* time.  Redis answers, or fails, within its own timeouts.                *)
(***************************************************************************)
EXTENDS Coverage, FiniteSets

CONSTANTS
  Requests,
  Addresses,  \* normalised addresses
  Location,   \* where the provider finds them
  Durations   \* bound: how long the provider may take, besides its timeout

ASSUME RequestsAssumption == IsFiniteSet(Requests) /\ Requests # {}
ASSUME LocationAssumption == Location \in [Addresses -> Int \cup {NoPosition}]
ASSUME DurationsAssumption == Durations \subseteq Nat

VARIABLES
  cache,     \* positions by address, in Redis
  cooldown,  \* providerCooldown: "refused" while it is open, or "none"
  during,    \* how many attempts were started since it was opened
  req        \* the requests; a geocoding one has pc "lookup" to "located"

geoVars == <<cache, cooldown, during>>

MaxRetries == 2
AttemptTimeout == 12  \* geocodeTimeoutMs, 3 s
TotalTimeout == 20    \* geocodeTotalTimeoutMs, 5 s
Backoff(attempt) == <<1, 2>>[attempt + 1]  \* no pause follows the last attempt

Lesser(m, n) == IF m < n THEN m ELSE n

Ok(position) == [reason |-> "none", position |-> position]
Failed(reason) == [reason |-> reason, position |-> NoPosition]

Located(r, result) ==
  req' = [req EXCEPT ![r] = [pc |-> "located", form |-> @.form,
                             result |-> result]]

\* A bug in its place: the request waits for the end of the cooldown.
WaitsForCooldown(r) ==
  /\ cooldown = "none"
  /\ during' = during
  /\ req' = [req EXCEPT ![r] = [pc |-> "fetch", form |-> @.form, attempt |-> 0,
                                spent |-> 0]]

\* A bug in its place: the cooldown is not looked at.
IgnoresCooldown(r) ==
  /\ during' = IF cooldown = "none" THEN 0 ELSE during + 1
  /\ req' = [req EXCEPT ![r] = [pc |-> "fetch", form |-> @.form, attempt |-> 0,
                                spent |-> 0]]

\* The head of geocodeAddress, which does not wait.
StartGeocoding(r) ==
  /\ during' = during
  /\ IF cooldown # "none"
       THEN Located(r, Failed(cooldown))
       ELSE req' = [req EXCEPT ![r] = [pc |-> "fetch", form |-> @.form,
                                       attempt |-> 0, spent |-> 0]]

\* getCachedCoordinates; a failing Redis is a miss.
LookUp(r) ==
  LET address == req[r].form.address
  IN /\ req[r].pc = "lookup"
     /\ \/ /\ cache[address] # NoPosition
           /\ Located(r, Ok(cache[address]))
           /\ UNCHANGED during
        \/ StartGeocoding(r)
     /\ UNCHANGED <<cache, cooldown>>

\* A bug in its place: an attempt may take its own timeout whatever is left.
UncappedTimeout(r) == AttemptTimeout

\* What the provider may take of the time that is left.
TimeoutOf(r) == Lesser(AttemptTimeout, TotalTimeout - req[r].spent)

Retryable(r) == req[r].attempt < MaxRetries

\* A success closes the cooldown, whichever request opened it.
AnswersPosition(r) ==
  /\ Location[req[r].form.address] # NoPosition
  /\ cooldown' = "none" /\ during' = 0
  /\ req' = [req EXCEPT ![r] =
       [pc |-> "store", form |-> @.form,
        result |-> Ok(Location[req[r].form.address])]]

AnswersNothing(r) ==
  /\ Location[req[r].form.address] = NoPosition
  /\ Located(r, Failed("invalid_address"))
  /\ UNCHANGED <<cooldown, during>>

\* Request denied or quota exceeded, which differ in the message only:
\* activateProviderCooldown.  The attempts count from the first opening.
Refuses(r) ==
  /\ cooldown' = "refused"
  /\ UNCHANGED during
  /\ Located(r, Failed("refused"))

\* A bug in its place: a retry is not counted.
RetriesUncounted(r, spent) ==
  LET pause == Lesser(Backoff(req[r].attempt), TotalTimeout - spent)
  IN /\ IF Retryable(r) /\ spent + pause < TotalTimeout
          THEN /\ req' = [req EXCEPT ![r] =
                    [pc |-> "fetch", form |-> @.form, attempt |-> @.attempt,
                     spent |-> spent + pause]]
               /\ during' = IF cooldown = "none" THEN 0 ELSE during + 1
          ELSE /\ Located(r, Failed("api_unavailable"))
               /\ UNCHANGED during
     /\ UNCHANGED cooldown

\* Nothing usable before the timeout, or no answer at all: only this is
\* retried, after a backoff and while the deadline has not passed.
Unavailable(r, spent) ==
  LET pause == Lesser(Backoff(req[r].attempt), TotalTimeout - spent)
  IN /\ IF Retryable(r) /\ spent + pause < TotalTimeout
          THEN /\ req' = [req EXCEPT ![r] =
                    [pc |-> "fetch", form |-> @.form, attempt |-> @.attempt + 1,
                     spent |-> spent + pause]]
               /\ during' = IF cooldown = "none" THEN 0 ELSE during + 1
          ELSE /\ Located(r, Failed("api_unavailable"))
               /\ UNCHANGED during
     /\ UNCHANGED cooldown

\* One attempt of geocodeAddress, up to the next one or its return.
Attempt(r) ==
  /\ req[r].pc = "fetch"
  /\ UNCHANGED cache
  /\ \/ AnswersPosition(r) \/ AnswersNothing(r) \/ Refuses(r)
     \/ \E d \in {n \in Durations : n < TimeoutOf(r)} \cup {TimeoutOf(r)} :
          Unavailable(r, req[r].spent + d)

\* A bug in its place: what is cached is what the customer sent, once verified.
StoresClient(r) == Validated(req[r].result.position, req[r].form.client)

StoredPosition(r) == req[r].result.position

\* setCachedCoordinates; a failure is ignored.
StoreCoordinates(r) ==
  /\ req[r].pc = "store"
  /\ \/ cache' = [cache EXCEPT ![req[r].form.address] = StoredPosition(r)]
     \/ UNCHANGED cache
  /\ Located(r, req[r].result)
  /\ UNCHANGED <<cooldown, during>>

CacheExpires(address) ==
  /\ cache[address] # NoPosition
  /\ cache' = [cache EXCEPT ![address] = NoPosition]
  /\ UNCHANGED <<cooldown, during, req>>

CooldownEnds ==
  /\ cooldown # "none"
  /\ cooldown' = "none" /\ during' = 0
  /\ UNCHANGED <<cache, req>>

GeoInit ==
  /\ cache = [a \in Addresses |-> NoPosition]
  /\ cooldown = "none" /\ during = 0

GeocodingStep(r) == LookUp(r) \/ Attempt(r) \/ StoreCoordinates(r)

-----------------------------------------------------------------------------
(* Properties *)

\* geocodeAddress: the attempts, their timeouts and the backoffs between them
\* never take longer than the deadline together: no attempt is under way that
\* could end after it, whatever the provider does.
DeadlineKept ==
  \A r \in Requests : req[r].pc = "fetch" =>
    /\ req[r].spent < TotalTimeout
    /\ req[r].spent + TimeoutOf(r) <= TotalTimeout

\* providerCooldown: once the provider has refused, no request that comes
\* afterwards reaches it.  Those in flight already may go on with their
\* retries, which do not look at the cooldown, and one of them may end it.
CooldownShields == during <= MaxRetries * (Cardinality(Requests) - 1)
=============================================================================
