-------------------------------- MODULE Staff --------------------------------
(***************************************************************************)
(* Employees and their accounts, and the work they are given: the calls of *)
(* EmployeesService, the logins of AuthService behind the rate limiter,    *)
(* and assignBooking, startBooking, completeBooking, updateStatus and the  *)
(* webhook's payment on one confirmed booking.  An employee is two         *)
(* documents, an Employee and the User it refers to, which no call but one *)
(* can write together.  Calls are concurrent; each runs in steps separated *)
(* by its awaits.                                                          *)
(***************************************************************************)
EXTENDS RateLimiter, BookingState

CONSTANTS
  Employees,  \* the people who may be hired, by their e-mail
  NoOne,
  Callers,    \* calls that can be in flight together
  Changes,    \* the fields administrators send to updateEmployee
  Apart       \* bound: whether logins and calls come one after the other

ASSUME NoOneAssumption == NoOne \notin Employees
ASSUME ChangesAssumption == Changes \subseteq
  [active : {"keep", "active", "inactive"},
   role : {"keep", "employee", "supervisor", "invalid"}]

VARIABLES
  account,     \* by person: the User's activity and role, the Employee's
               \* activity; "absent" where there is no document
  tokens,      \* who has logged in; a token says who its holder is
  booking,     \* what of the booking concerns the work
  req,         \* the calls
  disturbed,   \* ghost: people whom two calls concerned at once, or one that
               \* ended between its two writes
  overwritten  \* ghost: a save wrote over a status it had not read

staffVars == <<account, tokens, booking, req, disturbed, overwritten>>
vars == <<staffVars, limiterVars>>

Roles == {"employee", "supervisor"}
Idle == [call |-> "none"]

-----------------------------------------------------------------------------
\* Whom a call is about.
Concerned(q) ==
  CASE q.call \in {"hire", "change", "role"} -> {q.who}
    [] q.call = "assign" -> q.crew \cup ({q.supervisor} \ {NoOne})
    [] OTHER -> {}

Begin(r, q) ==
  /\ req[r] = Idle
  /\ Apart => count = 0
  /\ req' = [req EXCEPT ![r] = q]
  /\ disturbed' = disturbed \cup
       {e \in Concerned(q) : \E s \in Callers \ {r} : e \in Concerned(req[s])}
  /\ UNCHANGED <<account, tokens, booking, overwritten, limiterVars>>

Goes(r, pc) == req' = [req EXCEPT ![r].pc = pc]
Answered(r) == req' = [req EXCEPT ![r] = Idle]

\* Between the two writes of a call, or before the one that undoes the first.
Halfway(q) ==
  \/ q.call = "hire" /\ q.pc \in {"employee", "undo"}
  \/ q.call = "change" /\ q.pc = "user"

CutOff(r) == Answered(r) /\ disturbed' = disturbed \cup Concerned(req[r])

\* The database fails, or the process ends.
Fail(r) ==
  /\ req[r] # Idle
  /\ IF Halfway(req[r]) THEN CutOff(r)
     ELSE Answered(r) /\ UNCHANGED disturbed
  /\ UNCHANGED <<account, tokens, booking, overwritten, limiterVars>>

OnlyAccounts == UNCHANGED <<tokens, booking, overwritten, limiterVars>>

-----------------------------------------------------------------------------
(* Hiring *)

NoAccount == [user |-> "absent", role |-> "employee", employee |-> "absent"]

\* createEmployee, up to the hash of the password.
BeginHire(r, e, role) ==
  /\ account[e].user = "absent"
  /\ Begin(r, [call |-> "hire", pc |-> "user", who |-> e, role |-> role])

\* The transaction, or without one the first insert; the unique index on
\* e-mails stops the call that comes second.
InsertUser(r) ==
  LET e == req[r].who
  IN /\ req[r].call = "hire" /\ req[r].pc = "user"
     /\ \/ /\ account[e].user = "absent"
           /\ account' = [account EXCEPT ![e] =
                [user |-> "active", role |-> req[r].role, employee |-> "active"]]
           /\ Answered(r)
        \/ /\ account[e].user = "absent"
           /\ account' = [account EXCEPT ![e] =
                [user |-> "active", role |-> req[r].role, employee |-> @.employee]]
           /\ Goes(r, "employee")
        \/ /\ account[e].user # "absent"
           /\ Answered(r) /\ UNCHANGED account
     /\ UNCHANGED disturbed /\ OnlyAccounts

\* The second insert, whose failure is caught.
InsertEmployee(r) ==
  /\ req[r].call = "hire" /\ req[r].pc = "employee"
  /\ \/ /\ account' = [account EXCEPT ![req[r].who].employee = "active"]
        /\ Answered(r)
     \/ Goes(r, "undo") /\ UNCHANGED account
  /\ UNCHANGED disturbed /\ OnlyAccounts

\* A bug in its place: the user is left behind.
LeavesUser(e) == account[e]

WithoutUser(e) == NoAccount

\* The compensating delete.
UndoHire(r) ==
  /\ req[r].call = "hire" /\ req[r].pc = "undo"
  /\ account' = [account EXCEPT ![req[r].who] = WithoutUser(req[r].who)]
  /\ Answered(r)
  /\ UNCHANGED disturbed /\ OnlyAccounts

-----------------------------------------------------------------------------
(* Changing *)

Deactivates(q) == q.active = "inactive"

\* updateEmployee and deleteEmployee read the Employee; only the latter looks
\* for active bookings whatever it has read.
BeginChange(r, e, change, deletes) ==
  LET read == account[e].employee
  IN /\ read # "absent"
     /\ Begin(r, [call |-> "change", who |-> e, read |-> read,
                  active |-> change.active, role |-> change.role,
                  pc |-> IF deletes \/ (Deactivates(change) /\ read = "active")
                           THEN "check" ELSE "save"])

\* A bug in its place: work that has begun is not looked for.
AwaitsWork(e) == booking.status = "assigned" /\ e \in booking.crew

\* The query for active bookings, which supervisors are not part of.
HasActiveBookings(e) ==
  booking.status \in {"assigned", "in_progress"} /\ e \in booking.crew

CheckBookings(r) ==
  /\ req[r].call = "change" /\ req[r].pc = "check"
  /\ IF HasActiveBookings(req[r].who) THEN Answered(r) ELSE Goes(r, "save")
  /\ UNCHANGED <<account, disturbed>> /\ OnlyAccounts

\* A bug in its place: the check of the request body is relied on.
Unvalidated(role) == TRUE

ValidRole(role) == role \in Roles \cup {"keep"}

\* employee.save() writes what the call has changed.  A role that is no role,
\* null, passes the validation and is refused only now.
SaveEmployee(r) ==
  LET q == req[r]
  IN /\ q.call = "change" /\ q.pc = "save"
     /\ account' = IF q.active \in {"keep", q.read} THEN account
                   ELSE [account EXCEPT ![q.who].employee = q.active]
     /\ CASE ~ValidRole(q.role) -> CutOff(r)
          [] q.role = "keep" /\ q.active = "keep" ->
               Answered(r) /\ UNCHANGED disturbed
          [] OTHER -> Goes(r, "user") /\ UNCHANGED disturbed
     /\ OnlyAccounts

\* setEmployeeRole reads the Employee for its userId.
BeginRole(r, e, role) ==
  /\ account[e].employee # "absent"
  /\ Begin(r, [call |-> "role", pc |-> "user", who |-> e, active |-> "keep",
               role |-> role])

\* userModel.updateOne, the last write of the three calls.
UpdateUser(r) ==
  LET q == req[r]
  IN /\ q.call \in {"change", "role"} /\ q.pc = "user"
     /\ account' = [account EXCEPT
          ![q.who].user = IF q.active = "keep" THEN @ ELSE q.active,
          ![q.who].role = IF q.role = "keep" THEN @ ELSE q.role]
     /\ Answered(r)
     /\ UNCHANGED disturbed /\ OnlyAccounts

-----------------------------------------------------------------------------
(* Logging in *)

\* The rate limiter, then AuthService.login with the right password.
LogIn(e) ==
  /\ Apart => \A r \in Callers : req[r] = Idle
  /\ e \notin tokens
  /\ \/ /\ LetThrough \/ LetThroughByError
        /\ tokens' = IF account[e].user = "active" THEN tokens \cup {e}
                     ELSE tokens
     \/ Refuse /\ UNCHANGED tokens
  /\ UNCHANGED <<account, booking, req, disturbed, overwritten>>

\* JwtStrategy.validate reads the user's activity and role at each request.
Admitted(e) == e \in tokens /\ account[e].user = "active"

-----------------------------------------------------------------------------
(* Assigning *)

OnlyBooking == UNCHANGED <<account, tokens, disturbed, limiterVars>>

Assignable == booking.status \in {"confirmed", "assigned"} /\ ~booking.paid

\* assignBooking, with one supervisor or one employee at least.
BeginAssign(r, crew, supervisor) ==
  /\ crew # {} \/ supervisor # NoOne
  /\ Assignable
  /\ Begin(r, [call |-> "assign", pc |-> "crew", crew |-> crew,
               supervisor |-> supervisor, read |-> booking])

IsActive(e) == account[e].employee = "active" /\ account[e].user = "active"

\* getActiveEmployeesWithUserMeta
LoadCrew(r) ==
  /\ req[r].call = "assign" /\ req[r].pc = "crew"
  /\ IF \A e \in req[r].crew : IsActive(e) /\ account[e].role = "employee"
       THEN Goes(r, "supervisor") ELSE Answered(r)
  /\ UNCHANGED <<booking, overwritten>> /\ OnlyBooking

\* getActiveEmployeeWithUserEmail, and nothing to do when all is as it was.
LoadSupervisor(r) ==
  LET q == req[r]
  IN /\ q.call = "assign" /\ q.pc = "supervisor"
     /\ IF /\ q.supervisor # NoOne =>
                IsActive(q.supervisor)
                  /\ account[q.supervisor].role = "supervisor"
           /\ ~ /\ q.read.status = "assigned"
                /\ q.read.crew = q.crew /\ q.read.supervisor = q.supervisor
          THEN Goes(r, "assign") ELSE Answered(r)
     /\ UNCHANGED <<booking, overwritten>> /\ OnlyBooking

\* A bug in its place: the update trusts what the call has read.
AssignableOnceRead == booking.status # "cancelled"

\* A bug in its place: the filter of the update forgets the payment.
AssignableByStatus == booking.status \in {"confirmed", "assigned"}

AssignableStill == Assignable

\* Two conditional updates, of which the first also sets assignedAt; without
\* employees the call keeps those there are, without a supervisor it removes
\* the one there is.
Assign(r) ==
  LET q == req[r]
  IN /\ q.call = "assign" /\ q.pc = "assign"
     /\ booking' =
          IF AssignableStill
            THEN [booking EXCEPT !.status = "assigned",
                                 !.crew = IF q.crew = {} THEN @ ELSE q.crew,
                                 !.supervisor = q.supervisor]
            ELSE booking
     /\ Answered(r)
     /\ UNCHANGED overwritten /\ OnlyBooking

-----------------------------------------------------------------------------
(* Working *)

\* startBooking and completeBooking past the guards, as the role of then.
BeginWork(r, e, call) ==
  /\ Admitted(e)
  /\ Begin(r, [call |-> call, pc |-> "lookup", who |-> e,
               role |-> account[e].role])

\* getActiveEmployeeByUserId
LookUpWorker(r) ==
  /\ req[r].call \in {"start", "complete"} /\ req[r].pc = "lookup"
  /\ IF account[req[r].who].employee = "active" THEN Goes(r, "work")
     ELSE Answered(r)
  /\ UNCHANGED <<booking, overwritten>> /\ OnlyBooking

WorksOn(q) == IF q.role = "supervisor" THEN booking.supervisor = q.who
              ELSE q.who \in booking.crew

StartBooking(r) ==
  /\ req[r].call = "start" /\ req[r].pc = "work"
  /\ booking' = IF /\ WorksOn(req[r])
                   /\ booking.status = "assigned" /\ ~booking.started
                  THEN [booking EXCEPT !.status = "in_progress", !.started = TRUE]
                  ELSE booking
  /\ Answered(r)
  /\ UNCHANGED overwritten /\ OnlyBooking

CompleteBooking(r) ==
  /\ req[r].call = "complete" /\ req[r].pc = "work"
  /\ booking' = IF /\ WorksOn(req[r])
                   /\ booking.status = "in_progress" /\ ~booking.completed
                  THEN [booking EXCEPT !.status = "completed", !.completed = TRUE]
                  ELSE booking
  /\ Answered(r)
  /\ UNCHANGED overwritten /\ OnlyBooking

\* updateStatus reads the booking and decides; the confirmation, which deals
\* with Stripe, is in BookingLifecycle.
BeginStatus(r, next) ==
  /\ next # booking.status
  /\ TransitionAllowed(booking.status, next, "admin")
  /\ Begin(r, [call |-> "status", pc |-> "save", read |-> booking.status,
               next |-> next])

\* booking.save() writes the status, whatever it has become.
SaveStatus(r) ==
  /\ req[r].call = "status" /\ req[r].pc = "save"
  /\ booking' = [booking EXCEPT !.status = req[r].next]
  /\ overwritten' = (overwritten \/ booking.status # req[r].read)
  /\ Answered(r)
  /\ OnlyBooking

\* What the webhook takes a payment for, once the booking is confirmed.
Payable ==
  /\ booking.status \in {"confirmed", "assigned", "in_progress", "completed"}
  /\ ~booking.paid

\* handleWebhook loads the booking; its Payment row, which is in
\* BookingLifecycle, is written before the booking is.
BeginPay(r) == Payable /\ Begin(r, [call |-> "pay", pc |-> "save"])

\* booking.save() sets the paid flag and leaves the status as it is by now.
SavePaid(r) ==
  /\ req[r].call = "pay" /\ req[r].pc = "save"
  /\ booking' = [booking EXCEPT !.paid = TRUE]
  /\ Answered(r)
  /\ UNCHANGED overwritten /\ OnlyBooking

-----------------------------------------------------------------------------
Init ==
  /\ LimiterInit
  /\ account = [e \in Employees |-> NoAccount]
  /\ tokens = {}
  /\ booking = [status |-> "confirmed", crew |-> {}, supervisor |-> NoOne,
                started |-> FALSE, completed |-> FALSE, paid |-> FALSE]
  /\ req = [r \in Callers |-> Idle]
  /\ disturbed = {} /\ overwritten = FALSE

Deletion == [active |-> "inactive", role |-> "keep"]

BeginCall(r) ==
  \/ \E e \in Employees, role \in Roles : BeginHire(r, e, role)
  \/ \E e \in Employees, c \in Changes : BeginChange(r, e, c, FALSE)
  \/ \E e \in Employees : BeginChange(r, e, Deletion, TRUE)
  \/ \E e \in Employees, role \in Roles : BeginRole(r, e, role)
  \/ \E crew \in SUBSET Employees, e \in Employees \cup {NoOne} :
       BeginAssign(r, crew, e)
  \/ \E e \in Employees, call \in {"start", "complete"} : BeginWork(r, e, call)
  \/ \E next \in {"assigned", "in_progress", "completed", "cancelled"} :
       BeginStatus(r, next)
  \/ BeginPay(r)

Continue(r) ==
  \/ InsertUser(r) \/ InsertEmployee(r) \/ UndoHire(r)
  \/ CheckBookings(r) \/ SaveEmployee(r) \/ UpdateUser(r)
  \/ LoadCrew(r) \/ LoadSupervisor(r) \/ Assign(r)
  \/ LookUpWorker(r) \/ StartBooking(r) \/ CompleteBooking(r)
  \/ SaveStatus(r) \/ SavePaid(r)
  \/ Fail(r)

Next ==
  \/ \E r \in Callers : BeginCall(r) \/ Continue(r)
  \/ \E e \in Employees : LogIn(e)
  \/ Tick /\ UNCHANGED staffVars

Spec == Init /\ [][Next]_vars

-----------------------------------------------------------------------------
(* Properties *)

Activities == {"absent", "active", "inactive"}

\* Every variable has its type.
TypeOK ==
  /\ account \in [Employees -> [user : Activities, role : Roles,
                                employee : Activities]]
  /\ tokens \subseteq Employees
  /\ booking \in [status : Statuses, crew : SUBSET Employees,
                  supervisor : Employees \cup {NoOne}, started : BOOLEAN,
                  completed : BOOLEAN, paid : BOOLEAN]
  /\ disturbed \subseteq Employees
  /\ overwritten \in BOOLEAN
  /\ count \in 0..MaxCount /\ ttl \in 0..Window
  /\ \A r \in Callers :
       req[r].call \in {"none", "hire", "change", "role", "assign", "start",
                        "complete", "status", "pay"}

Undisturbed(e) ==
  e \notin disturbed /\ \A r \in Callers : e \notin Concerned(req[r])

\* createEmployee, updateEmployee and deleteEmployee write two documents of a
\* person.  As long as no two calls about the person overlap and none ends
\* between its writes, the documents exist together and say the same of the
\* person's activity; a failed insert leaves no user that blocks the e-mail.
AccountsAgree ==
  \A e \in Employees : Undisturbed(e) => account[e].user = account[e].employee

\* updateEmployee and deleteEmployee deactivate no employee with work to do,
\* paid or not.
\* This too holds for people whose calls do not overlap: assignBooking reads
\* who is active, the other two who is assigned, and each writes later.  A
\* save of a status that has changed can bring work back as well.
NobodyStranded ==
  \A e \in Employees :
    /\ account[e].employee = "inactive" /\ Undisturbed(e) /\ ~overwritten
    => ~(booking.status \in {"assigned", "in_progress"} /\ e \in booking.crew)

\* assignBooking, startBooking and Stripe meet on one booking: only
\* updateStatus, saving over a status it has not read, takes work that has
\* started back to "assigned", where nobody of the crew can complete it.
TakenBackOnlyBySave ==
  booking.status = "assigned" /\ booking.started => overwritten

\* A payment does not change the status, so a paid booking goes on being
\* assigned, started, completed or cancelled; assignBooking may have read it
\* unpaid three awaits ago, and yet whoever was on it when it was paid stays.
PaidCrewStays ==
  [][booking.paid => /\ booking'.paid
                     /\ booking'.crew = booking.crew
                     /\ booking'.supervisor = booking.supervisor]_vars
=============================================================================
