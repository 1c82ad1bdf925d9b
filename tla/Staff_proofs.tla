----------------------------- MODULE Staff_proofs -----------------------------
(***************************************************************************)
(* Proofs about Staff for any number of people, callers, attempts and      *)
(* ticks, and for any changes an administrator may send.                   *)
(***************************************************************************)
EXTENDS Staff, TLAPS

-----------------------------------------------------------------------------
(* The rate limiter *)

LimiterStep ==
  \/ LetThrough \/ Refuse \/ LetThroughByError
  \/ Tick
  \/ UNCHANGED limiterVars

LimiterInv ==
  /\ count \in Nat /\ ttl \in Nat /\ age \in Nat /\ passed \in Nat
  /\ count <= MaxCount /\ ttl <= Window
  /\ HeldForOneWindow /\ AtMostMaxPass
  /\ count = 0 => ttl = 0 /\ age = 0
  /\ passed <= count

LEMMA LimiterInit_Inv ==
  ASSUME LimiterInit
  PROVE  LimiterInv
BY RuleAssumption DEF LimiterInit, LimiterInv, MaxCount, HeldForOneWindow,
   AtMostMaxPass

LEMMA LimiterStep_Inv ==
  ASSUME LimiterInv, LimiterStep
  PROVE  LimiterInv'
<1> USE RuleAssumption DEF LimiterInv, MaxCount, HeldForOneWindow, AtMostMaxPass
<1>1. CASE LetThrough
  BY <1>1 DEF LetThrough, Increment, Fits, IncrementedTtl
<1>2. CASE Refuse
  BY <1>2 DEF Refuse, Increment, Fits, IncrementedTtl
<1>3. CASE LetThroughByError
  <2>1. CASE UNCHANGED limiterVars
    BY <2>1 DEF limiterVars
  <2>2. CASE Increment /\ passed' = passed
    BY <2>2 DEF Increment, IncrementedTtl
  <2> QED
    BY <1>3, <2>1, <2>2 DEF LetThroughByError
<1>4. CASE Tick
  BY <1>4 DEF Tick
<1>5. CASE UNCHANGED limiterVars
  BY <1>5 DEF limiterVars
<1> QED
  BY <1>1, <1>2, <1>3, <1>4, <1>5 DEF LimiterStep

\* Every step of a call other than a login leaves the limiter alone.
LEMMA NextIsLimiterStep ==
  ASSUME [Next]_vars
  PROVE  LimiterStep
<1>1. CASE UNCHANGED vars
  BY <1>1 DEF vars, LimiterStep
<1>2. CASE Tick /\ UNCHANGED staffVars
  BY <1>2 DEF LimiterStep
<1>3. ASSUME NEW e \in Employees, LogIn(e)
      PROVE  LimiterStep
  BY <1>3 DEF LogIn, LimiterStep
<1>4. ASSUME NEW r \in Callers, BeginCall(r)
      PROVE  LimiterStep
  BY <1>4 DEF BeginCall, BeginHire, BeginChange, BeginRole, BeginAssign,
     BeginWork, BeginStatus, BeginPay, Begin, LimiterStep
<1>5. ASSUME NEW r \in Callers, Continue(r)
      PROVE  LimiterStep
  BY <1>5 DEF Continue, InsertUser, InsertEmployee, UndoHire, CheckBookings,
     SaveEmployee, UpdateUser, LoadCrew, LoadSupervisor, Assign, LookUpWorker,
     StartBooking, CompleteBooking, SaveStatus, SavePaid, Fail, OnlyAccounts,
     OnlyBooking, LimiterStep
<1> QED
  BY <1>1, <1>2, <1>3, <1>4, <1>5 DEF Next

LEMMA SpecLimiterInv == Spec => []LimiterInv
<1>1. Init => LimiterInv
  BY LimiterInit_Inv DEF Init
<1>2. LimiterInv /\ [Next]_vars => LimiterInv'
  BY LimiterStep_Inv, NextIsLimiterStep
<1> QED
  BY <1>1, <1>2, PTL DEF Spec

\* RATE_LIMIT_LUA never shuts an address out for longer than one window,
\* whatever the limit and the window.
THEOREM LimiterHoldsOneWindow == Spec => []HeldForOneWindow
<1>1. LimiterInv => HeldForOneWindow
  BY DEF LimiterInv
<1> QED
  BY <1>1, SpecLimiterInv, PTL

\* The middleware lets at most rule.max requests through on one key.
THEOREM LimiterPassesAtMostMax == Spec => []AtMostMaxPass
<1>1. LimiterInv => AtMostMaxPass
  BY DEF LimiterInv
<1> QED
  BY <1>1, SpecLimiterInv, PTL

-----------------------------------------------------------------------------
(* Type correctness *)

Accounts == [user : Activities, role : Roles, employee : Activities]
BookingParts == [status : Statuses, crew : SUBSET Employees,
                 supervisor : Employees \cup {NoOne}, started : BOOLEAN,
                 completed : BOOLEAN, paid : BOOLEAN]

Hires == [call : {"hire"}, pc : {"user", "employee", "undo"},
          who : Employees, role : Roles]
AllChanges == [call : {"change"}, who : Employees,
               read : {"active", "inactive"},
               active : {"keep", "active", "inactive"},
               role : {"keep", "employee", "supervisor", "invalid"},
               pc : {"check", "save", "user"}]
RoleCalls == [call : {"role"}, pc : {"user"}, who : Employees,
              active : {"keep"}, role : Roles]
Assignments == [call : {"assign"}, pc : {"crew", "supervisor", "assign"},
                crew : SUBSET Employees, supervisor : Employees \cup {NoOne},
                read : BookingParts]
Works == [call : {"start", "complete"}, pc : {"lookup", "work"},
          who : Employees, role : Roles]
StatusCalls == [call : {"status"}, pc : {"save"}, read : Statuses,
                next : {"assigned", "in_progress", "completed", "cancelled"}]
Payments == [call : {"pay"}, pc : {"save"}]

\* A call with the fields its handler keeps across its awaits, and what it has
\* checked of them: a role is valid when the user is written, a status is
\* saved only on a permitted transition from the one that was read.
IsCall(q) ==
  \/ q = Idle
  \/ q \in Hires
  \/ q \in AllChanges /\ (q.pc = "user" => ValidRole(q.role))
  \/ q \in RoleCalls
  \/ q \in Assignments
  \/ q \in Works
  \/ q \in StatusCalls /\ TransitionAllowed(q.read, q.next, "admin")
  \/ q \in Payments

TypeInv ==
  /\ account \in [Employees -> Accounts]
  /\ tokens \subseteq Employees
  /\ booking \in BookingParts
  /\ disturbed \subseteq Employees
  /\ overwritten \in BOOLEAN
  /\ DOMAIN req = Callers
  /\ \A r \in Callers : IsCall(req[r])

LEMMA CallNames ==
  ASSUME NEW q, IsCall(q)
  PROVE  q.call \in {"none", "hire", "change", "role", "assign", "start",
                     "complete", "status", "pay"}
BY DEF IsCall, Idle, Hires, AllChanges, RoleCalls, Assignments, Works,
   StatusCalls, Payments

LEMMA ConcernedArePeople ==
  ASSUME NEW q, IsCall(q)
  PROVE  Concerned(q) \subseteq Employees
BY DEF IsCall, Concerned, Idle, Hires, AllChanges, RoleCalls, Assignments,
   Works, StatusCalls, Payments

\* Each call by its name.
LEMMA IsHire ==
  ASSUME NEW q, IsCall(q), q.call = "hire"
  PROVE  q \in Hires
BY DEF IsCall, Idle, AllChanges, RoleCalls, Assignments, Works,
   StatusCalls, Payments

LEMMA IsAllChange ==
  ASSUME NEW q, IsCall(q), q.call = "change"
  PROVE  q \in AllChanges /\ (q.pc = "user" => ValidRole(q.role))
BY DEF IsCall, Idle, Hires, RoleCalls, Assignments, Works,
   StatusCalls, Payments

LEMMA IsRoleCall ==
  ASSUME NEW q, IsCall(q), q.call = "role"
  PROVE  q \in RoleCalls
BY DEF IsCall, Idle, Hires, AllChanges, Assignments, Works,
   StatusCalls, Payments

LEMMA IsAssignment ==
  ASSUME NEW q, IsCall(q), q.call = "assign"
  PROVE  q \in Assignments
BY DEF IsCall, Idle, Hires, AllChanges, RoleCalls, Works,
   StatusCalls, Payments

LEMMA IsWork ==
  ASSUME NEW q, IsCall(q), q.call \in {"start", "complete"}
  PROVE  q \in Works
BY DEF IsCall, Idle, Hires, AllChanges, RoleCalls, Assignments,
   StatusCalls, Payments

LEMMA IsStatusCall ==
  ASSUME NEW q, IsCall(q), q.call = "status"
  PROVE  q \in StatusCalls /\ TransitionAllowed(q.read, q.next, "admin")
BY DEF IsCall, Idle, Hires, AllChanges, RoleCalls, Assignments, Works,
   Payments

\* A step that puts a well-formed call in the place of one, and keeps the
\* documents well-formed, keeps the types.
LEMMA StepKeepsTypes ==
  ASSUME TypeInv, NEW r \in Callers, NEW q, IsCall(q),
         req' = [req EXCEPT ![r] = q],
         account' \in [Employees -> Accounts], tokens' \subseteq Employees,
         booking' \in BookingParts, disturbed' \subseteq Employees,
         overwritten' \in BOOLEAN
  PROVE  TypeInv'
<1>1. DOMAIN req' = Callers /\ \A x \in Callers : IsCall(req'[x])
  BY DEF TypeInv
<1> QED
  BY <1>1 DEF TypeInv, IsCall

LEMMA IdleIsCall == IsCall(Idle)
BY DEF IsCall

LEMMA BeginKeepsTypes ==
  ASSUME TypeInv, NEW r \in Callers, NEW q, IsCall(q), Begin(r, q)
  PROVE  TypeInv'
<1>1. disturbed' \subseteq Employees
  BY ConcernedArePeople DEF Begin, TypeInv
<1> QED
  BY <1>1, StepKeepsTypes DEF Begin, TypeInv

\* A call whose first write is not yet in the other document.
Open(q) ==
  \/ q.call = "hire" /\ q.pc \in {"employee", "undo"}
  \/ q.call = "change" /\ q.pc = "user" /\ q.active # "keep"

\* A call as it begins: it has written nothing, and what it has read is there.
Fresh(q) ==
  /\ ~Open(q)
  /\ q.call = "change" =>
       /\ q.pc # "user" /\ account[q.who].employee = q.read
       /\ q.pc = "save" /\ q.active = "inactive" => q.read = "inactive"
  /\ q.call = "assign" => q.pc = "crew"

LEMMA WhatBegins ==
  ASSUME TypeInv, NEW r \in Callers, BeginCall(r)
  PROVE  \E q : IsCall(q) /\ Fresh(q) /\ Begin(r, q)
<1>t. /\ booking \in BookingParts
      /\ \A e \in Employees : account[e] \in Accounts
  BY DEF TypeInv
<1> DEFINE Goal == \E q : IsCall(q) /\ Fresh(q) /\ Begin(r, q)
<1>1. ASSUME NEW e \in Employees, NEW role \in Roles, BeginHire(r, e, role)
      PROVE  Goal
  <2> DEFINE q == [call |-> "hire", pc |-> "user", who |-> e, role |-> role]
  <2>1. IsCall(q) /\ Fresh(q)
    BY DEF IsCall, Hires, Fresh, Open
  <2>2. Begin(r, q)
    BY <1>1 DEF BeginHire
  <2> HIDE DEF q
  <2> QED
    BY <2>1, <2>2
<1>2. ASSUME NEW e \in Employees, NEW change \in Changes \cup {Deletion},
             NEW deletes \in BOOLEAN, BeginChange(r, e, change, deletes)
      PROVE  Goal
  <2> DEFINE q == [call |-> "change", who |-> e, read |-> account[e].employee,
                   active |-> change.active, role |-> change.role,
                   pc |-> IF deletes \/ (Deactivates(change)
                                          /\ account[e].employee = "active")
                            THEN "check" ELSE "save"]
  <2>1. /\ change.active \in {"keep", "active", "inactive"}
        /\ change.role \in {"keep", "employee", "supervisor", "invalid"}
    BY ChangesAssumption DEF Deletion
  <2>2. account[e].employee \in {"active", "inactive"}
    BY <1>t, <1>2 DEF BeginChange, Accounts, Activities
  <2>3. q \in AllChanges /\ q.pc # "user"
    BY <2>1, <2>2 DEF AllChanges
  <2>4. Fresh(q)
    BY <2>2 DEF Fresh, Open, Deactivates
  <2>5. Begin(r, q)
    BY <1>2 DEF BeginChange
  <2> HIDE DEF q
  <2> QED
    BY <2>3, <2>4, <2>5 DEF IsCall
<1>3. ASSUME NEW e \in Employees, NEW role \in Roles, BeginRole(r, e, role)
      PROVE  Goal
  <2> DEFINE q == [call |-> "role", pc |-> "user", who |-> e,
                   active |-> "keep", role |-> role]
  <2>1. IsCall(q) /\ Fresh(q)
    BY DEF IsCall, RoleCalls, Fresh, Open
  <2>2. Begin(r, q)
    BY <1>3 DEF BeginRole
  <2> HIDE DEF q
  <2> QED
    BY <2>1, <2>2
<1>4. ASSUME NEW crew \in SUBSET Employees, NEW e \in Employees \cup {NoOne},
             BeginAssign(r, crew, e)
      PROVE  Goal
  <2> DEFINE q == [call |-> "assign", pc |-> "crew", crew |-> crew,
                   supervisor |-> e, read |-> booking]
  <2>1. IsCall(q) /\ Fresh(q)
    BY <1>t DEF IsCall, Assignments, Fresh, Open
  <2>2. Begin(r, q)
    BY <1>4 DEF BeginAssign
  <2> HIDE DEF q
  <2> QED
    BY <2>1, <2>2
<1>5. ASSUME NEW e \in Employees, NEW call \in {"start", "complete"},
             BeginWork(r, e, call)
      PROVE  Goal
  <2> DEFINE q == [call |-> call, pc |-> "lookup", who |-> e,
                   role |-> account[e].role]
  <2>1. IsCall(q) /\ Fresh(q)
    BY <1>t DEF IsCall, Works, Accounts, Fresh, Open
  <2>2. Begin(r, q)
    BY <1>5 DEF BeginWork
  <2> HIDE DEF q
  <2> QED
    BY <2>1, <2>2
<1>6. ASSUME NEW next \in {"assigned", "in_progress", "completed", "cancelled"},
             BeginStatus(r, next)
      PROVE  Goal
  <2> DEFINE q == [call |-> "status", pc |-> "save", read |-> booking.status,
                   next |-> next]
  <2>1. q \in StatusCalls /\ Fresh(q)
    BY <1>t DEF StatusCalls, BookingParts, Fresh, Open
  <2>2. Begin(r, q) /\ TransitionAllowed(q.read, q.next, "admin")
    BY <1>6 DEF BeginStatus
  <2> HIDE DEF q
  <2> QED
    BY <2>1, <2>2 DEF IsCall
<1>7. ASSUME BeginPay(r)
      PROVE  Goal
  <2> DEFINE q == [call |-> "pay", pc |-> "save"]
  <2>1. IsCall(q) /\ Fresh(q)
    BY DEF IsCall, Payments, Fresh, Open
  <2>2. Begin(r, q)
    BY <1>7 DEF BeginPay
  <2> HIDE DEF q
  <2> QED
    BY <2>1, <2>2
<1> HIDE DEF Goal
<1>8. Goal
  BY <1>1, <1>2, <1>3, <1>4, <1>5, <1>6, <1>7 DEF BeginCall
<1> QED
  BY <1>8 DEF Goal

LEMMA BeginCallKeepsTypes ==
  ASSUME TypeInv, NEW r \in Callers, BeginCall(r)
  PROVE  TypeInv'
BY WhatBegins, BeginKeepsTypes

\* A call that goes on keeps all it has read.
LEMMA GoesTo ==
  ASSUME NEW r \in Callers, NEW pc, Goes(r, pc)
  PROVE  req' = [req EXCEPT ![r] = [req[r] EXCEPT !.pc = pc]]
BY DEF Goes

LEMMA GoesKeepsTypes ==
  ASSUME TypeInv, NEW r \in Callers, NEW pc, Goes(r, pc),
         IsCall([req[r] EXCEPT !.pc = pc]),
         account' \in [Employees -> Accounts], UNCHANGED disturbed,
         UNCHANGED tokens, booking' \in BookingParts, UNCHANGED overwritten
  PROVE  TypeInv'
<1> DEFINE q == [req[r] EXCEPT !.pc = pc]
<1>1. req' = [req EXCEPT ![r] = q]
  BY GoesTo
<1>2. IsCall(q)
  OBVIOUS
<1>3. /\ tokens' \subseteq Employees /\ disturbed' \subseteq Employees
      /\ overwritten' \in BOOLEAN
  BY DEF TypeInv
<1> HIDE DEF q
<1> QED
  BY <1>1, <1>2, <1>3, StepKeepsTypes

LEMMA AnsweredKeepsTypes ==
  ASSUME TypeInv, NEW r \in Callers, Answered(r),
         account' \in [Employees -> Accounts],
         \/ UNCHANGED disturbed
         \/ disturbed' = disturbed \cup Concerned(req[r]),
         UNCHANGED tokens, booking' \in BookingParts, overwritten' \in BOOLEAN
  PROVE  TypeInv'
<1>1. disturbed' \subseteq Employees
  BY ConcernedArePeople DEF TypeInv
<1> QED
  BY <1>1, StepKeepsTypes, IdleIsCall DEF Answered, TypeInv

LEMMA HireKeepsTypes ==
  ASSUME TypeInv, NEW r \in Callers,
         InsertUser(r) \/ InsertEmployee(r) \/ UndoHire(r)
  PROVE  TypeInv'
<1> DEFINE q == req[r]
<1>1. q \in Hires
  BY IsHire DEF TypeInv, InsertUser, InsertEmployee, UndoHire
<1>2. q.who \in Employees /\ q.role \in Roles
  BY <1>1 DEF Hires
<1>3. \A e \in Employees : account[e] \in Accounts
  BY DEF TypeInv
<1>u. /\ booking' \in BookingParts /\ overwritten' \in BOOLEAN
      /\ UNCHANGED <<tokens, overwritten, disturbed>>
  BY DEF TypeInv, InsertUser, InsertEmployee, UndoHire, OnlyAccounts
<1>4. account' \in [Employees -> Accounts]
  <2>1. NoAccount \in Accounts
    BY DEF NoAccount, Accounts, Activities, Roles
  <2>2. \A a \in Accounts : [a EXCEPT !.employee = "active"] \in Accounts
    BY DEF Accounts, Activities
  <2>3. \A a \in Activities :
          [user |-> "active", role |-> q.role, employee |-> a] \in Accounts
    BY <1>2 DEF Accounts, Activities
  <2>4. CASE InsertUser(r)
    BY <2>3, <2>4, <1>2, <1>3 DEF InsertUser, TypeInv, Accounts, Activities
  <2>5. CASE InsertEmployee(r)
    BY <2>2, <2>5, <1>2, <1>3 DEF InsertEmployee, TypeInv
  <2>6. CASE UndoHire(r)
    BY <2>1, <2>6, <1>2 DEF UndoHire, TypeInv, WithoutUser
  <2> QED
    BY <2>4, <2>5, <2>6
<1>5. CASE Answered(r)
  BY <1>4, <1>5, <1>u, AnsweredKeepsTypes
<1>6. ASSUME NEW pc \in {"employee", "undo"}, Goes(r, pc)
      PROVE  TypeInv'
  <2>1. [req[r] EXCEPT !.pc = pc] \in Hires
    BY <1>1 DEF Hires
  <2>2. IsCall([req[r] EXCEPT !.pc = pc])
    BY <2>1 DEF IsCall
  <2> QED
    BY <2>2, <1>4, <1>6, <1>u, GoesKeepsTypes
<1> QED
  BY <1>5, <1>6 DEF InsertUser, InsertEmployee, UndoHire

LEMMA ChangeKeepsTypes ==
  ASSUME TypeInv, NEW r \in Callers,
         CheckBookings(r) \/ SaveEmployee(r) \/ UpdateUser(r)
  PROVE  TypeInv'
<1> DEFINE q == req[r]
<1>0. IsCall(q)
  BY DEF TypeInv
<1>u. /\ booking' \in BookingParts /\ overwritten' \in BOOLEAN
      /\ UNCHANGED <<tokens, overwritten>>
  BY DEF TypeInv, CheckBookings, SaveEmployee, UpdateUser, OnlyAccounts
<1>a. \A e \in Employees : account[e] \in Accounts
  BY DEF TypeInv
<1>1. CASE CheckBookings(r)
  <2>1. q \in AllChanges
    BY <1>0, <1>1, IsAllChange DEF CheckBookings
  <2>2. [req[r] EXCEPT !.pc = "save"] \in AllChanges
    BY <2>1 DEF AllChanges
  <2>3. IsCall([req[r] EXCEPT !.pc = "save"])
    BY <2>1, <2>2 DEF IsCall, AllChanges
  <2>4. account' \in [Employees -> Accounts] /\ UNCHANGED disturbed
    BY <1>1 DEF CheckBookings, TypeInv
  <2> QED
    BY <1>1, <1>u, <2>3, <2>4, AnsweredKeepsTypes, GoesKeepsTypes
    DEF CheckBookings
<1>2. CASE SaveEmployee(r)
  <2>1. q \in AllChanges
    BY <1>0, <1>2, IsAllChange DEF SaveEmployee
  <2>2. q.active # "keep" => \A a \in Accounts :
          [a EXCEPT !.employee = q.active] \in Accounts
    BY <2>1 DEF Accounts, Activities, AllChanges
  <2>3. account' \in [Employees -> Accounts]
    BY <1>2, <1>a, <2>1, <2>2 DEF SaveEmployee, TypeInv, AllChanges
  <2>4. CASE ~ValidRole(q.role)
    BY <1>2, <1>u, <2>3, <2>4, AnsweredKeepsTypes DEF SaveEmployee, CutOff
  <2>5. CASE ValidRole(q.role) /\ q.role = "keep" /\ q.active = "keep"
    BY <1>2, <1>u, <2>3, <2>5, AnsweredKeepsTypes DEF SaveEmployee
  <2>6. CASE ValidRole(q.role) /\ ~(q.role = "keep" /\ q.active = "keep")
    <3>1. /\ [req[r] EXCEPT !.pc = "user"] \in AllChanges
          /\ [req[r] EXCEPT !.pc = "user"].role = q.role
      BY <2>1 DEF AllChanges
    <3>2. IsCall([req[r] EXCEPT !.pc = "user"])
      BY <3>1, <2>6 DEF IsCall
    <3>3. Goes(r, "user") /\ UNCHANGED disturbed
      BY <1>2, <2>6 DEF SaveEmployee
    <3> QED
      BY <1>u, <2>3, <3>2, <3>3, GoesKeepsTypes
  <2> QED
    BY <2>4, <2>5, <2>6
<1>3. CASE UpdateUser(r)
  <2>1. /\ q.who \in Employees
        /\ q.active \in {"keep", "active", "inactive"}
        /\ q.role \in Roles \cup {"keep"}
    <3>1. CASE q.call = "change"
      <4>1. q \in AllChanges /\ ValidRole(q.role)
        BY <1>0, <1>3, <3>1, IsAllChange DEF UpdateUser
      <4> QED
        BY <4>1 DEF AllChanges, ValidRole
    <3>2. CASE q.call = "role"
      <4>1. q \in RoleCalls
        BY <1>0, <1>3, <3>2, IsRoleCall
      <4> QED
        BY <4>1 DEF RoleCalls
    <3> QED
      BY <1>3, <3>1, <3>2 DEF UpdateUser
  <2>2. account' \in [Employees -> Accounts]
    BY <1>3, <1>a, <2>1 DEF UpdateUser, TypeInv, Accounts, Activities
  <2> QED
    BY <1>3, <1>u, <2>2, AnsweredKeepsTypes DEF UpdateUser
<1> QED
  BY <1>1, <1>2, <1>3

LEMMA AssignKeepsTypes ==
  ASSUME TypeInv, NEW r \in Callers,
         LoadCrew(r) \/ LoadSupervisor(r) \/ Assign(r)
  PROVE  TypeInv'
<1> DEFINE q == req[r]
<1>1. q \in Assignments
  BY IsAssignment DEF TypeInv, LoadCrew, LoadSupervisor, Assign
<1>2. q.crew \in SUBSET Employees /\ q.supervisor \in Employees \cup {NoOne}
  BY <1>1 DEF Assignments
<1>3. /\ account' \in [Employees -> Accounts] /\ overwritten' \in BOOLEAN
      /\ UNCHANGED <<tokens, overwritten, disturbed>>
  BY DEF TypeInv, LoadCrew, LoadSupervisor, Assign, OnlyBooking
<1>4. booking' \in BookingParts
  <2>1. ASSUME NEW crew \in SUBSET Employees
        PROVE  [booking EXCEPT !.status = "assigned", !.crew = crew,
                               !.supervisor = q.supervisor] \in BookingParts
    BY <1>2 DEF TypeInv, BookingParts, Statuses
  <2>2. booking.crew \in SUBSET Employees
    BY DEF TypeInv, BookingParts
  <2>3. CASE Assign(r) /\ AssignableStill
    <3> DEFINE crew == IF q.crew = {} THEN booking.crew ELSE q.crew
    <3>1. booking' = [booking EXCEPT !.status = "assigned", !.crew = crew,
                                     !.supervisor = q.supervisor]
      BY <2>3 DEF Assign
    <3>2. crew \in SUBSET Employees
      BY <1>2, <2>2
    <3> HIDE DEF crew
    <3> QED
      BY <2>1, <3>1, <3>2
  <2>4. CASE ~(Assign(r) /\ AssignableStill)
    BY <2>4 DEF TypeInv, LoadCrew, LoadSupervisor, Assign
  <2> QED
    BY <2>3, <2>4
<1>5. CASE Answered(r)
  BY <1>3, <1>4, <1>5, AnsweredKeepsTypes
<1>6. ASSUME NEW pc \in {"supervisor", "assign"}, Goes(r, pc)
      PROVE  TypeInv'
  <2>1. [req[r] EXCEPT !.pc = pc] \in Assignments
    BY <1>1 DEF Assignments
  <2>2. IsCall([req[r] EXCEPT !.pc = pc])
    BY <2>1 DEF IsCall
  <2> QED
    BY <2>2, <1>3, <1>4, <1>6, GoesKeepsTypes
<1> QED
  BY <1>5, <1>6 DEF LoadCrew, LoadSupervisor, Assign

LEMMA WorkKeepsTypes ==
  ASSUME TypeInv, NEW r \in Callers,
         LookUpWorker(r) \/ StartBooking(r) \/ CompleteBooking(r)
  PROVE  TypeInv'
<1>1. req[r] \in Works
  BY IsWork DEF TypeInv, LookUpWorker, StartBooking, CompleteBooking
<1>2. /\ account' \in [Employees -> Accounts] /\ overwritten' \in BOOLEAN
      /\ UNCHANGED <<tokens, overwritten, disturbed>>
  BY DEF TypeInv, LookUpWorker, StartBooking, CompleteBooking, OnlyBooking
<1>3. booking' \in BookingParts
  <2>1. /\ [booking EXCEPT !.status = "in_progress", !.started = TRUE]
             \in BookingParts
        /\ [booking EXCEPT !.status = "completed", !.completed = TRUE]
             \in BookingParts
    BY DEF TypeInv, BookingParts, Statuses
  <2> QED
    BY <2>1 DEF TypeInv, LookUpWorker, StartBooking, CompleteBooking
<1>4. CASE Answered(r)
  BY <1>2, <1>3, <1>4, AnsweredKeepsTypes
<1>5. CASE Goes(r, "work")
  <2>1. [req[r] EXCEPT !.pc = "work"] \in Works
    BY <1>1 DEF Works
  <2>2. IsCall([req[r] EXCEPT !.pc = "work"])
    BY <2>1 DEF IsCall
  <2> QED
    BY <2>2, <1>2, <1>3, <1>5, GoesKeepsTypes
<1> QED
  BY <1>4, <1>5 DEF LookUpWorker, StartBooking, CompleteBooking

LEMMA SaveStatusKeepsTypes ==
  ASSUME TypeInv, NEW r \in Callers, SaveStatus(r)
  PROVE  TypeInv'
<1>1. req[r].next \in Statuses
  BY IsStatusCall DEF TypeInv, SaveStatus, StatusCalls, Statuses
<1>2. booking' \in BookingParts
  BY <1>1 DEF TypeInv, SaveStatus, BookingParts
<1>3. overwritten' \in BOOLEAN
  BY DEF TypeInv, SaveStatus
<1> QED
  BY <1>2, <1>3, AnsweredKeepsTypes DEF SaveStatus, OnlyBooking, TypeInv

LEMMA SavePaidKeepsTypes ==
  ASSUME TypeInv, NEW r \in Callers, SavePaid(r)
  PROVE  TypeInv'
<1>1. booking' \in BookingParts
  BY DEF TypeInv, SavePaid, BookingParts
<1> QED
  BY <1>1, AnsweredKeepsTypes DEF SavePaid, OnlyBooking, TypeInv

LEMMA FailKeepsTypes ==
  ASSUME TypeInv, NEW r \in Callers, Fail(r)
  PROVE  TypeInv'
<1>1. Answered(r)
  BY DEF Fail, CutOff
<1>2. UNCHANGED disturbed \/ disturbed' = disturbed \cup Concerned(req[r])
  BY DEF Fail, CutOff
<1>3. UNCHANGED <<account, tokens, booking, overwritten>>
  BY DEF Fail
<1> QED
  BY <1>1, <1>2, <1>3, AnsweredKeepsTypes DEF TypeInv

LEMMA InitTypes ==
  ASSUME Init
  PROVE  TypeInv
<1>1. NoAccount \in Accounts
  BY DEF NoAccount, Accounts, Activities, Roles
<1>2. booking \in BookingParts
  BY DEF Init, BookingParts, Statuses
<1> QED
  BY <1>1, <1>2, IdleIsCall DEF Init, TypeInv

LEMMA NextKeepsTypes ==
  ASSUME TypeInv, [Next]_vars
  PROVE  TypeInv'
<1>1. CASE UNCHANGED staffVars
  BY <1>1 DEF staffVars, TypeInv, IsCall
<1>2. ASSUME NEW e \in Employees, LogIn(e)
      PROVE  TypeInv'
  BY <1>2 DEF LogIn, TypeInv, IsCall
<1>3. ASSUME NEW r \in Callers, Continue(r)
      PROVE  TypeInv'
  BY <1>3, HireKeepsTypes, ChangeKeepsTypes, AssignKeepsTypes, WorkKeepsTypes,
     SaveStatusKeepsTypes, SavePaidKeepsTypes, FailKeepsTypes DEF Continue
<1> QED
  BY <1>1, <1>2, <1>3, BeginCallKeepsTypes DEF Next, vars

LEMMA SpecTypeInv == Spec => []TypeInv
<1>1. Init => TypeInv
  BY InitTypes
<1>2. TypeInv /\ [Next]_vars => TypeInv'
  BY NextKeepsTypes
<1> QED
  BY <1>1, <1>2, PTL DEF Spec

\* Every reachable state is well-typed, whatever the constants.
THEOREM TypeCorrect == Spec => []TypeOK
<1>1. TypeInv /\ LimiterInv => TypeOK
  BY CallNames DEF TypeInv, TypeOK, LimiterInv, Accounts, BookingParts, MaxCount
<1> QED
  BY <1>1, SpecTypeInv, SpecLimiterInv, PTL

-----------------------------------------------------------------------------
(* The work on the booking *)

\* Only five steps write the booking.
LEMMA WhatWritesBooking ==
  ASSUME [Next]_vars
  PROVE  \/ UNCHANGED <<booking, overwritten>>
         \/ \E r \in Callers :
              \/ Assign(r) \/ StartBooking(r) \/ CompleteBooking(r)
              \/ SaveStatus(r) \/ SavePaid(r)
<1>1. CASE UNCHANGED staffVars
  BY <1>1 DEF staffVars
<1>2. ASSUME NEW e \in Employees, LogIn(e)
      PROVE  UNCHANGED <<booking, overwritten>>
  BY <1>2 DEF LogIn
<1>3. ASSUME NEW r \in Callers, BeginCall(r)
      PROVE  UNCHANGED <<booking, overwritten>>
  BY <1>3 DEF BeginCall, BeginHire, BeginChange, BeginRole, BeginAssign,
     BeginWork, BeginStatus, BeginPay, Begin
<1>4. ASSUME NEW r \in Callers, Continue(r)
      PROVE  \/ UNCHANGED <<booking, overwritten>>
             \/ Assign(r) \/ StartBooking(r) \/ CompleteBooking(r)
             \/ SaveStatus(r) \/ SavePaid(r)
  BY <1>4 DEF Continue, InsertUser, InsertEmployee, UndoHire, CheckBookings,
     SaveEmployee, UpdateUser, LoadCrew, LoadSupervisor, LookUpWorker, Fail,
     OnlyAccounts
<1> QED
  BY <1>1, <1>2, <1>3, <1>4 DEF Next, vars

\* A started booking has left "assigned", unless a save took it back; and
\* nobody is assigned to a booking that still is "confirmed".
WorkInv ==
  /\ booking.started /\ ~overwritten =>
       booking.status \in {"in_progress", "completed", "cancelled"}
  /\ booking.status \notin {"pending", "paid"}
  /\ booking.crew # {} => booking.status # "confirmed"

\* What updateStatus decided to save, had nothing changed in between.
LEMMA StatusDecision ==
  ASSUME TypeInv, NEW r \in Callers, SaveStatus(r), ~overwritten'
  PROVE  /\ ~overwritten
         /\ TransitionAllowed(booking.status, req[r].next, "admin")
         /\ req[r].next \in {"assigned", "in_progress", "completed", "cancelled"}
<1>1. IsCall(req[r]) /\ req[r].call = "status"
  BY DEF TypeInv, SaveStatus
<1>2. req[r] \in StatusCalls
      /\ TransitionAllowed(req[r].read, req[r].next, "admin")
  BY <1>1, IsStatusCall
<1>3. ~overwritten /\ booking.status = req[r].read
  BY DEF SaveStatus
<1> QED
  BY <1>2, <1>3 DEF StatusCalls

LEMMA NextKeepsWork ==
  ASSUME TypeInv, WorkInv, [Next]_vars
  PROVE  WorkInv'
<1>0. booking \in BookingParts
  BY DEF TypeInv
<1>1. CASE UNCHANGED <<booking, overwritten>>
  BY <1>1 DEF WorkInv
<1>2. ASSUME NEW r \in Callers, SavePaid(r)
      PROVE  WorkInv'
  BY <1>0, <1>2 DEF SavePaid, WorkInv, BookingParts
<1>3. ASSUME NEW r \in Callers, Assign(r)
      PROVE  WorkInv'
  <2>1. CASE AssignableStill
    <3>1. booking'.status = "assigned" /\ booking'.started = booking.started
      BY <1>0, <1>3, <2>1 DEF Assign, BookingParts
    <3>2. booking.status \in {"confirmed", "assigned"} /\ UNCHANGED overwritten
      BY <1>3, <2>1 DEF Assign, AssignableStill, Assignable
    <3> QED
      BY <3>1, <3>2 DEF WorkInv
  <2>2. CASE ~AssignableStill
    BY <1>3, <2>2 DEF Assign, WorkInv
  <2> QED
    BY <2>1, <2>2
<1>4. ASSUME NEW r \in Callers, StartBooking(r) \/ CompleteBooking(r)
      PROVE  WorkInv'
  BY <1>0, <1>4 DEF StartBooking, CompleteBooking, WorkInv, BookingParts
<1>5. ASSUME NEW r \in Callers, SaveStatus(r)
      PROVE  WorkInv'
  <2>1. /\ booking'.status = req[r].next /\ booking'.started = booking.started
        /\ booking'.crew = booking.crew
    BY <1>0, <1>5 DEF SaveStatus, BookingParts
  <2>2. req[r].next \in {"assigned", "in_progress", "completed", "cancelled"}
    BY <1>5, IsStatusCall DEF TypeInv, SaveStatus, StatusCalls
  <2>3. ~overwritten' /\ booking.started => req[r].next # "assigned"
    BY <1>5, StatusDecision DEF TransitionAllowed, CanTransition, WorkInv
  <2> QED
    BY <2>1, <2>2, <2>3 DEF WorkInv
<1> QED
  BY <1>1, <1>2, <1>3, <1>4, <1>5, WhatWritesBooking

LEMMA SpecWorkInv == Spec => [](TypeInv /\ WorkInv)
<1>1. Init => WorkInv
  BY DEF Init, WorkInv
<1>2. TypeInv /\ WorkInv /\ [Next]_vars => WorkInv'
  BY NextKeepsWork
<1> QED
  BY <1>1, <1>2, SpecTypeInv, PTL DEF Spec

\* assignBooking, startBooking, completeBooking, updateStatus and the webhook
\* on one booking, any number of calls at once: only a save over a status that
\* was not read takes started work back to "assigned".
THEOREM WorkTakenBackOnlyBySave == Spec => []TakenBackOnlyBySave
<1>1. TypeInv /\ WorkInv => TakenBackOnlyBySave
  BY DEF TypeInv, WorkInv, TakenBackOnlyBySave
<1> QED
  BY <1>1, SpecWorkInv, PTL

LEMMA StepKeepsPaidCrew ==
  ASSUME TypeInv, [Next]_vars, booking.paid
  PROVE  /\ booking'.paid
         /\ booking'.crew = booking.crew
         /\ booking'.supervisor = booking.supervisor
<1>0. booking \in BookingParts
  BY DEF TypeInv
<1>1. ASSUME NEW r \in Callers, Assign(r)
      PROVE  booking' = booking
  BY <1>1 DEF Assign, AssignableStill, Assignable
<1>2. ASSUME NEW r \in Callers,
             \/ StartBooking(r) \/ CompleteBooking(r)
             \/ SaveStatus(r) \/ SavePaid(r)
      PROVE  /\ booking'.paid
             /\ booking'.crew = booking.crew
             /\ booking'.supervisor = booking.supervisor
  BY <1>0, <1>2 DEF StartBooking, CompleteBooking, SaveStatus, SavePaid,
     BookingParts
<1> QED
  BY <1>1, <1>2, WhatWritesBooking

\* Whoever is on a booking when the webhook marks it paid stays on it, under
\* any interleaving: an assignBooking that read the booking before the payment
\* fails at its conditional updates.
THEOREM PaidCrewIsKept == Spec => PaidCrewStays
<1>1. TypeInv /\ [Next]_vars =>
        [booking.paid => /\ booking'.paid
                         /\ booking'.crew = booking.crew
                         /\ booking'.supervisor = booking.supervisor]_vars
  BY StepKeepsPaidCrew
<1> QED
  BY <1>1, SpecTypeInv, PTL DEF Spec, PaidCrewStays

-----------------------------------------------------------------------------
(* The two documents of a person *)

\* What a call may rely on of the documents of the person it concerns.
Consistent(a, q) ==
  /\ q.call = "hire" /\ q.pc \in {"employee", "undo"} =>
       a.user = "active" /\ a.employee = "absent"
  /\ q.call = "change" /\ q.pc = "user" /\ q.active # "keep" =>
       a.employee = q.active
  /\ q.call = "change" /\ q.pc # "user" => a.employee = q.read
  /\ ~Open(q) => a.user = a.employee

\* Of a person who is not disturbed: one call at most, the documents as it
\* left them, and documents that agree when there is none.
Orderly(e) ==
  /\ \A r, s \in Callers :
       e \in Concerned(req[r]) /\ e \in Concerned(req[s]) => r = s
  /\ \A r \in Callers :
       e \in Concerned(req[r]) => Consistent(account[e], req[r])
  /\ (\A r \in Callers : e \notin Concerned(req[r])) =>
       account[e].user = account[e].employee

AccInv == \A e \in Employees \ disturbed : Orderly(e)

LEMMA NobodyConcernedByIdle == Concerned(Idle) = {}
BY DEF Concerned, Idle

LEMMA ConcernedByOne ==
  ASSUME NEW q, q.call \in {"hire", "change", "role"}
  PROVE  Concerned(q) = {q.who}
BY DEF Concerned

\* A call that goes on concerns whom it did.
LEMMA GoesConcerns ==
  ASSUME NEW q, IsCall(q), NEW pc
  PROVE  Concerned([q EXCEPT !.pc = pc]) = Concerned(q)
BY DEF IsCall, Concerned, Idle, Hires, AllChanges, RoleCalls, Assignments,
   Works, StatusCalls, Payments

\* A call that begins, with the documents as it has read them.
LEMMA BeginKeepsOrder ==
  ASSUME TypeInv, AccInv, NEW r \in Callers, NEW q, IsCall(q), Fresh(q),
         Begin(r, q)
  PROVE  AccInv'
<1> SUFFICES ASSUME NEW e \in Employees, e \notin disturbed'
             PROVE  Orderly(e)'
  BY DEF AccInv
<1>1. /\ req[r] = Idle /\ req' = [req EXCEPT ![r] = q] /\ UNCHANGED account
      /\ e \notin disturbed
      /\ e \in Concerned(q) =>
           \A s \in Callers \ {r} : e \notin Concerned(req[s])
  BY DEF Begin
<1>2. /\ req'[r] = q
      /\ \A s \in Callers \ {r} : req'[s] = req[s]
  BY <1>1 DEF TypeInv
<1>3. Orderly(e)
  BY <1>1 DEF AccInv
<1>4. CASE e \in Concerned(q)
  <2>1. \A s \in Callers : e \notin Concerned(req[s])
    BY <1>1, <1>4, NobodyConcernedByIdle
  <2>2. account[e].user = account[e].employee
    BY <2>1, <1>3 DEF Orderly
  <2>3. q.call = "change" => account[e].employee = q.read
    BY <1>4, ConcernedByOne DEF Fresh
  <2>4. Consistent(account[e], q)
    BY <2>2, <2>3 DEF Consistent, Open, Fresh
  <2>5. \A s \in Callers : e \in Concerned(req'[s]) => s = r
    BY <1>2, <2>1
  <2> QED
    BY <1>1, <1>2, <1>4, <2>4, <2>5 DEF Orderly
<1>5. CASE e \notin Concerned(q)
  <2>1. \A s \in Callers : /\ e \in Concerned(req'[s]) <=> e \in Concerned(req[s])
                           /\ e \in Concerned(req[s]) => req'[s] = req[s]
    BY <1>1, <1>2, <1>5, NobodyConcernedByIdle
  <2> QED
    BY <1>1, <1>3, <2>1 DEF Orderly
<1> QED
  BY <1>4, <1>5

\* A step of a call: it goes on or ends, and touches nobody else's documents.
LEMMA StepKeepsOrder ==
  ASSUME TypeInv, AccInv, NEW r \in Callers, NEW q,
         req' = [req EXCEPT ![r] = q],
         disturbed \subseteq disturbed',
         Concerned(q) = Concerned(req[r]) \/ Concerned(q) = {},
         \A e \in Employees \ Concerned(req[r]) : account'[e] = account[e],
         \A e \in Concerned(req[r]) :
           e \notin disturbed' /\ Orderly(e) /\ Consistent(account[e], req[r]) =>
             IF Concerned(q) = {}
               THEN account'[e].user = account'[e].employee
               ELSE Consistent(account'[e], q)
  PROVE  AccInv'
<1> SUFFICES ASSUME NEW e \in Employees, e \notin disturbed'
             PROVE  Orderly(e)'
  BY DEF AccInv
<1>1. Orderly(e)
  BY DEF AccInv
<1>2. /\ req'[r] = q
      /\ \A s \in Callers \ {r} : req'[s] = req[s]
  BY DEF TypeInv
<1>3. CASE e \in Concerned(req[r])
  <2>1. \A s \in Callers \ {r} : e \notin Concerned(req'[s])
    BY <1>1, <1>2, <1>3 DEF Orderly
  <2>2. Consistent(account[e], req[r])
    BY <1>1, <1>3 DEF Orderly
  <2>3. IF Concerned(q) = {}
          THEN account'[e].user = account'[e].employee
          ELSE Consistent(account'[e], q)
    BY <1>1, <1>3, <2>2
  <2> QED
    BY <1>2, <1>3, <2>1, <2>3 DEF Orderly
<1>4. CASE e \notin Concerned(req[r])
  <2>1. \A s \in Callers : /\ e \in Concerned(req'[s]) <=> e \in Concerned(req[s])
                           /\ e \in Concerned(req[s]) => req'[s] = req[s]
    BY <1>2, <1>4
  <2>2. account'[e] = account[e]
    BY <1>4
  <2> QED
    BY <1>1, <2>1, <2>2 DEF Orderly
<1> QED
  BY <1>3, <1>4

\* A call that ends with nothing open, or cut off, and writes no document.
LEMMA EndKeepsOrder ==
  ASSUME TypeInv, AccInv, NEW r \in Callers, Answered(r), UNCHANGED account,
         disturbed \subseteq disturbed',
         ~Open(req[r]) \/ Concerned(req[r]) \subseteq disturbed'
  PROVE  AccInv'
<1>1. Concerned(Idle) = {} /\ req' = [req EXCEPT ![r] = Idle]
  BY NobodyConcernedByIdle DEF Answered
<1>2. \A e \in Concerned(req[r]) :
        e \notin disturbed' /\ Orderly(e) /\ Consistent(account[e], req[r]) =>
          IF Concerned(Idle) = {}
            THEN account'[e].user = account'[e].employee
            ELSE Consistent(account'[e], Idle)
  BY <1>1 DEF Consistent
<1>3. \A e \in Employees \ Concerned(req[r]) : account'[e] = account[e]
  OBVIOUS
<1> QED
  BY <1>1, <1>2, <1>3, StepKeepsOrder

\* A call that goes on after it has only read.
LEMMA ReadKeepsOrder ==
  ASSUME TypeInv, AccInv, NEW r \in Callers, NEW pc, Goes(r, pc),
         UNCHANGED <<account, disturbed>>,
         \/ req[r].call \notin {"hire", "change"}
         \/ req[r].call = "change" /\ req[r].pc # "user" /\ pc # "user"
  PROVE  AccInv'
<1> DEFINE q == [req[r] EXCEPT !.pc = pc]
<1>0. IsCall(req[r])
  BY DEF TypeInv
<1>1. req' = [req EXCEPT ![r] = q]
  BY GoesTo
<1>2. Concerned(q) = Concerned(req[r])
  BY <1>0, GoesConcerns
<1>3. /\ q.call = req[r].call
      /\ q.call = "change" => q.pc = pc /\ q.read = req[r].read
  BY <1>0 DEF IsCall, Idle, Hires, AllChanges, RoleCalls, Assignments, Works,
     StatusCalls
<1>4. ASSUME NEW a, Consistent(a, req[r])
      PROVE  Consistent(a, q)
  BY <1>3, <1>4 DEF Consistent, Open
<1> HIDE DEF q
<1>5. \A e \in Concerned(req[r]) :
        Consistent(account[e], req[r]) =>
          IF Concerned(q) = {}
            THEN account'[e].user = account'[e].employee
            ELSE Consistent(account'[e], q)
  BY <1>2, <1>4
<1> QED
  BY <1>1, <1>2, <1>5, StepKeepsOrder

LEMMA HireKeepsOrder ==
  ASSUME TypeInv, AccInv, NEW r \in Callers,
         InsertUser(r) \/ InsertEmployee(r) \/ UndoHire(r)
  PROVE  AccInv'
<1> DEFINE e == req[r].who
<1>1. req[r] \in Hires /\ req[r].call = "hire"
  BY IsHire DEF TypeInv, InsertUser, InsertEmployee, UndoHire
<1>2. e \in Employees /\ Concerned(req[r]) = {e}
  BY <1>1, ConcernedByOne DEF Hires
<1>3. /\ \A x \in Employees : account[x] \in Accounts
      /\ account \in [Employees -> Accounts] /\ IsCall(req[r])
  BY DEF TypeInv
<1>u. UNCHANGED disturbed
  BY DEF InsertUser, InsertEmployee, UndoHire
<1>a. \A x \in Employees \ Concerned(req[r]) : account'[x] = account[x]
  BY <1>2, <1>3 DEF InsertUser, InsertEmployee, UndoHire
<1>4. ASSUME Answered(r),
             Consistent(account[e], req[r]) =>
               account'[e].user = account'[e].employee
      PROVE  AccInv'
  <2>1. Concerned(Idle) = {} /\ req' = [req EXCEPT ![r] = Idle]
    BY <1>4, NobodyConcernedByIdle DEF Answered
  <2> QED
    BY <1>2, <1>4, <1>a, <1>u, <2>1, StepKeepsOrder
<1>5. ASSUME NEW pc \in {"employee", "undo"}, Goes(r, pc),
             Consistent(account[e], req[r]) =>
               account'[e].user = "active" /\ account'[e].employee = "absent"
      PROVE  AccInv'
  <2> DEFINE q == [req[r] EXCEPT !.pc = pc]
  <2>1. req' = [req EXCEPT ![r] = q]
    BY <1>5, GoesTo
  <2>2. Concerned(q) = Concerned(req[r])
    BY <1>3, GoesConcerns
  <2>3. q.call = "hire" /\ q.pc = pc
    BY <1>1 DEF Hires
  <2> HIDE DEF q
  <2>4. Consistent(account[e], req[r]) => Consistent(account'[e], q)
    BY <1>5, <2>3 DEF Consistent, Open
  <2> QED
    BY <1>2, <1>a, <1>u, <2>1, <2>2, <2>4, StepKeepsOrder
<1>6. CASE InsertUser(r)
  <2>1. CASE account[e].user # "absent"
    <3>1. Answered(r) /\ UNCHANGED account /\ ~Open(req[r])
      BY <1>1, <1>6, <2>1 DEF InsertUser, Open
    <3> QED
      BY <3>1, <1>u, EndKeepsOrder
  <2>2. CASE /\ account[e].user = "absent"
             /\ account' = [account EXCEPT ![e] =
                  [user |-> "active", role |-> req[r].role, employee |-> "active"]]
             /\ Answered(r)
    <3>1. account'[e].user = account'[e].employee
      BY <1>2, <1>3, <2>2
    <3> QED
      BY <1>4, <2>2, <3>1
  <2>3. CASE /\ account[e].user = "absent"
             /\ account' = [account EXCEPT ![e] =
                  [user |-> "active", role |-> req[r].role, employee |-> @.employee]]
             /\ Goes(r, "employee")
    <3>1. account'[e].user = "active"
          /\ account'[e].employee = account[e].employee
      BY <1>2, <1>3, <2>3
    <3>2. Consistent(account[e], req[r]) => account[e].employee = "absent"
      BY <1>1, <1>6, <2>3 DEF Consistent, Open, InsertUser
    <3> QED
      BY <1>5, <2>3, <3>1, <3>2
  <2> QED
    BY <1>6, <2>1, <2>2, <2>3 DEF InsertUser
<1>7. CASE InsertEmployee(r)
  <2>1. req[r].pc = "employee"
    BY <1>7 DEF InsertEmployee
  <2>2. Consistent(account[e], req[r]) =>
          account[e].user = "active" /\ account[e].employee = "absent"
    BY <1>1, <2>1 DEF Consistent
  <2>3. CASE account' = [account EXCEPT ![e].employee = "active"] /\ Answered(r)
    <3>1. account'[e].user = account[e].user /\ account'[e].employee = "active"
      BY <1>2, <1>3, <2>3 DEF Accounts
    <3> QED
      BY <1>4, <2>2, <2>3, <3>1
  <2>4. CASE Goes(r, "undo") /\ UNCHANGED account
    BY <1>5, <2>2, <2>4
  <2> QED
    BY <1>7, <2>3, <2>4 DEF InsertEmployee
<1>8. CASE UndoHire(r)
  <2>1. account'[e].user = account'[e].employee
    BY <1>2, <1>3, <1>8 DEF UndoHire, WithoutUser, NoAccount
  <2> QED
    BY <1>4, <1>8, <2>1 DEF UndoHire
<1> QED
  BY <1>6, <1>7, <1>8

LEMMA ChangeKeepsOrder ==
  ASSUME TypeInv, AccInv, NEW r \in Callers,
         CheckBookings(r) \/ SaveEmployee(r) \/ UpdateUser(r)
  PROVE  AccInv'
<1> DEFINE e == req[r].who
<1>0. /\ IsCall(req[r]) /\ account \in [Employees -> Accounts]
      /\ \A x \in Employees : account[x] \in Accounts
  BY DEF TypeInv
<1>1. req[r].call = "change" => req[r] \in AllChanges
  BY <1>0, IsAllChange
<1>2. req[r].call = "role" => req[r] \in RoleCalls
  BY <1>0, IsRoleCall
<1>3. e \in Employees /\ Concerned(req[r]) = {e}
  BY <1>1, <1>2, ConcernedByOne
  DEF AllChanges, RoleCalls, CheckBookings, SaveEmployee, UpdateUser
<1>a. \A x \in Employees \ Concerned(req[r]) : account'[x] = account[x]
  BY <1>0, <1>3 DEF CheckBookings, SaveEmployee, UpdateUser
<1>4. ASSUME Answered(r), disturbed \subseteq disturbed',
             e \notin disturbed' /\ Consistent(account[e], req[r]) =>
               account'[e].user = account'[e].employee
      PROVE  AccInv'
  <2>1. Concerned(Idle) = {} /\ req' = [req EXCEPT ![r] = Idle]
    BY <1>4, NobodyConcernedByIdle DEF Answered
  <2> QED
    BY <1>3, <1>4, <1>a, <2>1, StepKeepsOrder
<1>5. CASE CheckBookings(r)
  <2>1. /\ ~Open(req[r]) /\ UNCHANGED <<account, disturbed>>
        /\ req[r].call = "change" /\ req[r].pc # "user"
    BY <1>5 DEF CheckBookings, Open
  <2>2. Answered(r) \/ Goes(r, "save")
    BY <1>5 DEF CheckBookings
  <2> QED
    BY <2>1, <2>2, EndKeepsOrder, ReadKeepsOrder
<1>6. CASE SaveEmployee(r)
  <2>1. req[r] \in AllChanges /\ req[r].call = "change" /\ req[r].pc = "save"
    BY <1>1, <1>6 DEF SaveEmployee
  <2>2. Consistent(account[e], req[r]) =>
          /\ account[e].employee = req[r].read
          /\ account[e].user = account[e].employee
    BY <2>1 DEF Consistent, Open
  <2>3. IF req[r].active \in {"keep", req[r].read}
          THEN account'[e] = account[e]
          ELSE account'[e] = [account[e] EXCEPT !.employee = req[r].active]
    BY <1>0, <1>3, <1>6 DEF SaveEmployee
  <2>4. CASE CutOff(r)
    <3>1. Answered(r) /\ disturbed \subseteq disturbed' /\ e \in disturbed'
      BY <1>3, <2>4 DEF CutOff
    <3> QED
      BY <1>4, <3>1
  <2>5. CASE req[r].active = "keep" /\ Answered(r) /\ UNCHANGED disturbed
    BY <1>4, <2>2, <2>3, <2>5
  <2>6. CASE Goes(r, "user") /\ UNCHANGED disturbed
    <3> DEFINE q == [req[r] EXCEPT !.pc = "user"]
    <3>1. req' = [req EXCEPT ![r] = q]
      BY <2>6, GoesTo
    <3>2. Concerned(q) = Concerned(req[r])
      BY <1>0, GoesConcerns
    <3>3. /\ q.call = "change" /\ q.pc = "user" /\ q.active = req[r].active
      BY <2>1 DEF AllChanges
    <3> HIDE DEF q
    <3>4. Consistent(account[e], req[r]) =>
            (q.active # "keep" => account'[e].employee = q.active)
      BY <1>0, <1>3, <2>2, <2>3, <3>3 DEF Accounts
    <3>5. Consistent(account[e], req[r]) =>
            (q.active = "keep" => account'[e].user = account'[e].employee)
      BY <2>2, <2>3, <3>3
    <3>6. Consistent(account[e], req[r]) => Consistent(account'[e], q)
      BY <3>3, <3>4, <3>5 DEF Consistent, Open
    <3> QED
      BY <1>3, <1>a, <2>6, <3>1, <3>2, <3>6, StepKeepsOrder
  <2> QED
    BY <1>6, <2>4, <2>5, <2>6 DEF SaveEmployee
<1>7. CASE UpdateUser(r)
  <2>1. /\ account'[e].employee = account[e].employee
        /\ account'[e].user = IF req[r].active = "keep" THEN account[e].user
                                ELSE req[r].active
    BY <1>0, <1>3, <1>7 DEF UpdateUser, Accounts
  <2>2. Answered(r) /\ UNCHANGED disturbed /\ req[r].pc = "user"
        /\ req[r].call \in {"change", "role"}
    BY <1>7 DEF UpdateUser
  <2>3. req[r].call = "role" => req[r].active = "keep"
    BY <1>2 DEF RoleCalls
  <2>4. Consistent(account[e], req[r]) => account'[e].user = account'[e].employee
    BY <2>1, <2>2, <2>3 DEF Consistent, Open
  <2> QED
    BY <1>4, <2>2, <2>4
<1> QED
  BY <1>5, <1>6, <1>7

\* The calls that write no document of a person.
LEMMA OthersKeepOrder ==
  ASSUME TypeInv, AccInv, NEW r \in Callers,
         \/ LoadCrew(r) \/ LoadSupervisor(r) \/ Assign(r)
         \/ LookUpWorker(r) \/ StartBooking(r) \/ CompleteBooking(r)
         \/ SaveStatus(r) \/ SavePaid(r)
  PROVE  AccInv'
<1>1. /\ UNCHANGED <<account, disturbed>> /\ ~Open(req[r])
      /\ req[r].call \notin {"hire", "change"}
  BY DEF LoadCrew, LoadSupervisor, Assign, LookUpWorker, StartBooking,
     CompleteBooking, SaveStatus, SavePaid, OnlyBooking, Open
<1>2. CASE Answered(r)
  BY <1>1, <1>2, EndKeepsOrder
<1>3. ASSUME NEW pc \in {"supervisor", "assign", "work"}, Goes(r, pc)
      PROVE  AccInv'
  BY <1>1, <1>3, ReadKeepsOrder
<1> QED
  BY <1>2, <1>3 DEF LoadCrew, LoadSupervisor, Assign, LookUpWorker,
     StartBooking, CompleteBooking, SaveStatus, SavePaid

LEMMA FailKeepsOrder ==
  ASSUME TypeInv, AccInv, NEW r \in Callers, Fail(r)
  PROVE  AccInv'
<1>1. /\ Answered(r) /\ UNCHANGED account /\ disturbed \subseteq disturbed'
      /\ Halfway(req[r]) => Concerned(req[r]) \subseteq disturbed'
  BY DEF Fail, CutOff
<1>2. Open(req[r]) => Halfway(req[r])
  BY DEF Open, Halfway
<1> QED
  BY <1>1, <1>2, EndKeepsOrder

LEMMA NextKeepsOrder ==
  ASSUME TypeInv, AccInv, [Next]_vars
  PROVE  AccInv'
<1>1. CASE UNCHANGED <<account, req, disturbed>>
  BY <1>1 DEF AccInv, Orderly
<1>2. UNCHANGED staffVars \/ (\E e \in Employees : LogIn(e)) =>
        UNCHANGED <<account, req, disturbed>>
  BY DEF staffVars, LogIn
<1>3. ASSUME NEW r \in Callers, BeginCall(r)
      PROVE  AccInv'
  BY <1>3, WhatBegins, BeginKeepsOrder
<1>4. ASSUME NEW r \in Callers, Continue(r)
      PROVE  AccInv'
  BY <1>4, HireKeepsOrder, ChangeKeepsOrder, OthersKeepOrder, FailKeepsOrder
  DEF Continue
<1> QED
  BY <1>1, <1>2, <1>3, <1>4 DEF Next, vars

LEMMA SpecAccInv == Spec => [](TypeInv /\ AccInv)
<1>1. Init => AccInv
  <2>1. Init => \A e \in Employees : account[e].user = account[e].employee
    BY DEF Init, NoAccount
  <2>2. Init => \A e \in Employees, r \in Callers : e \notin Concerned(req[r])
    BY NobodyConcernedByIdle DEF Init
  <2> QED
    BY <2>1, <2>2 DEF AccInv, Orderly
<1>2. TypeInv /\ AccInv /\ [Next]_vars => AccInv'
  BY NextKeepsOrder
<1> QED
  BY <1>1, <1>2, SpecTypeInv, PTL DEF Spec

\* createEmployee, updateEmployee and deleteEmployee keep the User and the
\* Employee of a person in agreement, for any number of people and calls, as
\* long as no two calls about the person overlap and none ends between its
\* writes; a failed second insert leaves no User behind.
THEOREM AccountsAlwaysAgree == Spec => []AccountsAgree
<1>1. AccInv => AccountsAgree
  BY DEF AccInv, Orderly, AccountsAgree, Undisturbed
<1> QED
  BY <1>1, SpecAccInv, PTL

-----------------------------------------------------------------------------
(* Deactivation and work *)

WorkingOn(b, e) == b.status \in {"assigned", "in_progress"} /\ e \in b.crew

\* A call that has found a person without work and will deactivate them.
WillDeactivate(q, e) ==
  /\ q.call = "change" /\ q.who = e /\ q.pc = "save"
  /\ q.active = "inactive" /\ q.read # "inactive"

\* A call that has found a person active and will give them work.
WillAssign(q, e) ==
  q.call = "assign" /\ e \in q.crew /\ q.pc \in {"supervisor", "assign"}

Spared(b, a, q, e) ==
  /\ WillDeactivate(q, e) => ~WorkingOn(b, e)
  /\ WillAssign(q, e) => a.employee = "active"

\* Of a person who is not disturbed: no work once inactive, and every call
\* about the person may still rely on what it has checked.
StrandInv ==
  ~overwritten =>
    \A e \in Employees \ disturbed :
      /\ account[e].employee = "inactive" => ~WorkingOn(booking, e)
      /\ \A r \in Callers : Spared(booking, account[e], req[r], e)

LEMMA WillConcerns ==
  ASSUME NEW q, NEW e, WillDeactivate(q, e) \/ WillAssign(q, e)
  PROVE  e \in Concerned(q)
BY DEF WillDeactivate, WillAssign, Concerned

\* What a step of one call has to show for the person it touches, the others
\* following from the order of the calls.
LEMMA StepKeepsSpared ==
  ASSUME TypeInv, AccInv, StrandInv, ~overwritten,
         NEW r \in Callers, NEW q,
         req' = [req EXCEPT ![r] = q],
         disturbed \subseteq disturbed',
         \A e \in Employees \ Concerned(req[r]) :
           /\ account'[e] = account[e]
           /\ WorkingOn(booking', e) => WorkingOn(booking, e),
         \A e \in Employees \ disturbed :
           (account[e].employee = "inactive" => ~WorkingOn(booking, e))
             /\ Spared(booking, account[e], req[r], e) =>
           /\ account'[e].employee = "inactive" => ~WorkingOn(booking', e)
           /\ Spared(booking', account'[e], q, e)
  PROVE  StrandInv'
<1> SUFFICES ASSUME NEW e \in Employees, e \notin disturbed'
             PROVE  /\ account'[e].employee = "inactive" => ~WorkingOn(booking', e)
                    /\ \A s \in Callers : Spared(booking', account'[e], req'[s], e)
  BY DEF StrandInv
<1>1. /\ e \in Employees \ disturbed
      /\ account[e].employee = "inactive" => ~WorkingOn(booking, e)
      /\ \A s \in Callers : Spared(booking, account[e], req[s], e)
  BY DEF StrandInv
<1>2. /\ account'[e].employee = "inactive" => ~WorkingOn(booking', e)
      /\ Spared(booking', account'[e], q, e)
  BY <1>1
<1>3. /\ req'[r] = q
      /\ \A s \in Callers \ {r} : req'[s] = req[s]
  BY DEF TypeInv
<1>4. ASSUME NEW s \in Callers \ {r}
      PROVE  Spared(booking', account'[e], req'[s], e)
  <2>1. CASE e \in Concerned(req[s])
    <3>1. e \notin Concerned(req[r])
      BY <1>1, <2>1 DEF AccInv, Orderly
    <3> QED
      BY <1>1, <1>3, <3>1 DEF Spared
  <2>2. CASE e \notin Concerned(req[s])
    BY <1>3, <2>2, WillConcerns DEF Spared
  <2> QED
    BY <2>1, <2>2
<1> QED
  BY <1>2, <1>3, <1>4

\* A call that ends, or goes on to a step that relies on nothing new.
LEMMA HarmlessKeepsSpared ==
  ASSUME TypeInv, AccInv, StrandInv, ~overwritten,
         NEW r \in Callers, NEW q,
         req' = [req EXCEPT ![r] = q],
         disturbed \subseteq disturbed', UNCHANGED account,
         \A e \in Employees : WorkingOn(booking', e) => WorkingOn(booking, e),
         \A e \in Employees : ~WillDeactivate(q, e) /\ ~WillAssign(q, e)
  PROVE  StrandInv'
<1>1. \A e \in Employees : Spared(booking', account'[e], q, e)
  BY DEF Spared
<1> QED
  BY <1>1, StepKeepsSpared

LEMMA IdleIsHarmless ==
  ASSUME NEW e
  PROVE  ~WillDeactivate(Idle, e) /\ ~WillAssign(Idle, e)
BY DEF Idle, WillDeactivate, WillAssign

LEMMA EndKeepsSpared ==
  ASSUME TypeInv, AccInv, StrandInv, ~overwritten,
         NEW r \in Callers, Answered(r),
         disturbed \subseteq disturbed', UNCHANGED account,
         \A e \in Employees : WorkingOn(booking', e) => WorkingOn(booking, e)
  PROVE  StrandInv'
<1>1. req' = [req EXCEPT ![r] = Idle]
  BY DEF Answered
<1>2. \A e \in Employees : ~WillDeactivate(Idle, e) /\ ~WillAssign(Idle, e)
  BY IdleIsHarmless
<1> QED
  BY <1>1, <1>2, HarmlessKeepsSpared

LEMMA HireKeepsSpared ==
  ASSUME TypeInv, AccInv, StrandInv, ~overwritten, NEW r \in Callers,
         InsertUser(r) \/ InsertEmployee(r) \/ UndoHire(r)
  PROVE  StrandInv'
<1> DEFINE e == req[r].who
<1>1. req[r] \in Hires /\ req[r].call = "hire"
  BY IsHire DEF TypeInv, InsertUser, InsertEmployee, UndoHire
<1>2. e \in Employees /\ Concerned(req[r]) = {e}
  BY <1>1, ConcernedByOne DEF Hires
<1>3. /\ \A x \in Employees : account[x] \in Accounts
      /\ account \in [Employees -> Accounts]
  BY DEF TypeInv
<1>u. UNCHANGED <<disturbed, booking>>
  BY DEF InsertUser, InsertEmployee, UndoHire, OnlyAccounts
<1>a. \A x \in Employees \ Concerned(req[r]) : account'[x] = account[x]
  BY <1>2, <1>3 DEF InsertUser, InsertEmployee, UndoHire
<1>b. account'[e].employee = "inactive" => account[e].employee = "inactive"
  BY <1>2, <1>3 DEF InsertUser, InsertEmployee, UndoHire, WithoutUser,
     NoAccount, Accounts
<1>c. \E q : req' = [req EXCEPT ![r] = q] /\ q.call \notin {"change", "assign"}
  <2>1. CASE Answered(r)
    <3>1. req' = [req EXCEPT ![r] = Idle] /\ Idle.call = "none"
      BY <2>1 DEF Answered, Idle
    <3> QED
      BY <3>1
  <2>2. ASSUME NEW pc, Goes(r, pc)
        PROVE  \E q : req' = [req EXCEPT ![r] = q]
                        /\ q.call \notin {"change", "assign"}
    <3>1. [req[r] EXCEPT !.pc = pc].call = "hire"
      BY <1>1 DEF Hires
    <3> QED
      BY <2>2, <3>1, GoesTo
  <2> QED
    BY <2>1, <2>2 DEF InsertUser, InsertEmployee, UndoHire
<1>d. PICK q : req' = [req EXCEPT ![r] = q] /\ q.call \notin {"change", "assign"}
  BY <1>c
<1>e. \A x \in Employees : Spared(booking', account'[x], q, x)
  BY <1>d DEF Spared, WillDeactivate, WillAssign
<1>f. \A x \in Employees :
        (account[x].employee = "inactive" => ~WorkingOn(booking, x)) =>
        (account'[x].employee = "inactive" => ~WorkingOn(booking', x))
  BY <1>2, <1>a, <1>b, <1>u
<1> QED
  BY <1>a, <1>d, <1>e, <1>f, <1>u, StepKeepsSpared

LEMMA ChangeKeepsSpared ==
  ASSUME TypeInv, AccInv, StrandInv, ~overwritten, NEW r \in Callers,
         CheckBookings(r) \/ SaveEmployee(r) \/ UpdateUser(r)
  PROVE  StrandInv'
<1> DEFINE e == req[r].who
<1>0. /\ IsCall(req[r]) /\ account \in [Employees -> Accounts]
      /\ \A x \in Employees : account[x] \in Accounts
  BY DEF TypeInv
<1>1. req[r].call = "change" => req[r] \in AllChanges
  BY <1>0, IsAllChange
<1>2. req[r].call = "role" => req[r] \in RoleCalls
  BY <1>0, IsRoleCall
<1>3. e \in Employees /\ Concerned(req[r]) = {e}
  BY <1>1, <1>2, ConcernedByOne
  DEF AllChanges, RoleCalls, CheckBookings, SaveEmployee, UpdateUser
<1>a. \A x \in Employees \ Concerned(req[r]) : account'[x] = account[x]
  BY <1>0, <1>3 DEF CheckBookings, SaveEmployee, UpdateUser
<1>u. booking' = booking /\ disturbed \subseteq disturbed'
  BY DEF CheckBookings, SaveEmployee, UpdateUser, OnlyAccounts, CutOff
<1>4. CASE CheckBookings(r)
  <2>1. CASE HasActiveBookings(e)
    BY <1>4, <1>u, <2>1, EndKeepsSpared DEF CheckBookings
  <2>2. CASE ~HasActiveBookings(e)
    <3> DEFINE q == [req[r] EXCEPT !.pc = "save"]
    <3>1. req' = [req EXCEPT ![r] = q] /\ UNCHANGED account
      BY <1>4, <2>2, GoesTo DEF CheckBookings
    <3>2. q.call = "change" /\ q.who = e
      BY <1>1, <1>4 DEF CheckBookings, AllChanges
    <3>3. ~WorkingOn(booking, e)
      BY <2>2 DEF HasActiveBookings, WorkingOn
    <3> HIDE DEF q
    <3>4. \A x \in Employees : Spared(booking', account'[x], q, x)
      BY <1>u, <3>2, <3>3 DEF Spared, WillDeactivate, WillAssign
    <3> QED
      BY <1>u, <3>1, <3>4, StepKeepsSpared
  <2> QED
    BY <2>1, <2>2
<1>5. CASE SaveEmployee(r)
  <2>1. req[r] \in AllChanges /\ req[r].call = "change" /\ req[r].pc = "save"
    BY <1>1, <1>5 DEF SaveEmployee
  <2>2. IF req[r].active \in {"keep", req[r].read}
          THEN account'[e] = account[e]
          ELSE account'[e] = [account[e] EXCEPT !.employee = req[r].active]
    BY <1>0, <1>3, <1>5 DEF SaveEmployee
  <2>3. account'[e].employee = "inactive" =>
          account[e].employee = "inactive" \/ WillDeactivate(req[r], e)
    BY <1>0, <1>3, <2>1, <2>2 DEF Accounts, WillDeactivate
  <2>4. \A x \in Employees :
          (account[x].employee = "inactive" => ~WorkingOn(booking, x))
            /\ Spared(booking, account[x], req[r], x) =>
          (account'[x].employee = "inactive" => ~WorkingOn(booking', x))
    BY <1>3, <1>a, <1>u, <2>3 DEF Spared
  <2>5. ASSUME NEW q, req' = [req EXCEPT ![r] = q],
               \A x \in Employees : ~WillDeactivate(q, x) /\ ~WillAssign(q, x)
        PROVE  StrandInv'
    <3>1. \A x \in Employees : Spared(booking', account'[x], q, x)
      BY <2>5 DEF Spared
    <3> QED
      BY <1>a, <1>u, <2>4, <2>5, <3>1, StepKeepsSpared
  <2>6. CASE Answered(r)
    BY <2>5, <2>6, IdleIsHarmless DEF Answered
  <2>7. CASE Goes(r, "user")
    <3> DEFINE q == [req[r] EXCEPT !.pc = "user"]
    <3>1. req' = [req EXCEPT ![r] = q]
      BY <2>7, GoesTo
    <3>2. \A x \in Employees : ~WillDeactivate(q, x) /\ ~WillAssign(q, x)
      BY <2>1 DEF AllChanges, WillDeactivate, WillAssign
    <3> HIDE DEF q
    <3> QED
      BY <2>5, <3>1, <3>2
  <2> QED
    BY <1>5, <2>6, <2>7 DEF SaveEmployee, CutOff
<1>6. CASE UpdateUser(r)
  <2>1. account'[e].employee = account[e].employee
    BY <1>0, <1>3, <1>6 DEF UpdateUser, Accounts
  <2>2. \A x \in Employees : account'[x].employee = account[x].employee
    BY <1>3, <1>a, <2>1
  <2>3. \A x \in Employees : Spared(booking', account'[x], Idle, x)
    BY IdleIsHarmless DEF Spared
  <2>4. req' = [req EXCEPT ![r] = Idle]
    BY <1>6 DEF UpdateUser, Answered
  <2> QED
    BY <1>a, <1>u, <2>2, <2>3, <2>4, StepKeepsSpared
<1> QED
  BY <1>4, <1>5, <1>6

LEMMA AssignKeepsSpared ==
  ASSUME TypeInv, AccInv, WorkInv, StrandInv, ~overwritten, NEW r \in Callers,
         LoadCrew(r) \/ LoadSupervisor(r) \/ Assign(r)
  PROVE  StrandInv'
<1>0. IsCall(req[r]) /\ req[r].call = "assign" /\ booking \in BookingParts
  BY DEF TypeInv, LoadCrew, LoadSupervisor, Assign
<1>1. req[r] \in Assignments
  BY <1>0, IsAssignment
<1>u. UNCHANGED <<account, disturbed>>
  BY DEF LoadCrew, LoadSupervisor, Assign, OnlyBooking
<1>2. ASSUME NEW pc \in {"supervisor", "assign"}, Goes(r, pc), UNCHANGED booking,
             \A x \in Employees : x \in req[r].crew =>
               account[x].employee = "active" \/ WillAssign(req[r], x)
      PROVE  StrandInv'
  <2> DEFINE q == [req[r] EXCEPT !.pc = pc]
  <2>1. req' = [req EXCEPT ![r] = q]
    BY <1>2, GoesTo
  <2>2. q.call = "assign" /\ q.crew = req[r].crew
    BY <1>1 DEF Assignments
  <2> HIDE DEF q
  <2>3. \A x \in Employees : Spared(booking, account[x], req[r], x) =>
                               Spared(booking', account'[x], q, x)
    BY <1>2, <1>u, <2>2 DEF Spared, WillDeactivate, WillAssign
  <2> QED
    BY <1>2, <1>u, <2>1, <2>3, StepKeepsSpared
<1>3. CASE Answered(r) /\ UNCHANGED booking
  BY <1>3, <1>u, EndKeepsSpared
<1>4. CASE LoadCrew(r)
  <2>1. Goes(r, "supervisor") =>
          \A x \in req[r].crew : account[x].employee = "active"
    <3>1. CASE \A x \in req[r].crew : IsActive(x) /\ account[x].role = "employee"
      BY <3>1 DEF IsActive
    <3>2. CASE ~\A x \in req[r].crew : IsActive(x) /\ account[x].role = "employee"
      <4>1. req'[r] = Idle
        BY <1>4, <3>2 DEF LoadCrew, Answered, TypeInv
      <4>2. Goes(r, "supervisor") => req'[r].call = "assign"
        BY <1>1, GoesTo DEF Assignments, TypeInv
      <4> QED
        BY <4>1, <4>2 DEF Idle
    <3> QED
      BY <3>1, <3>2
  <2> QED
    BY <1>2, <1>3, <1>4, <2>1 DEF LoadCrew
<1>5. CASE LoadSupervisor(r)
  <2>1. \A x \in req[r].crew : WillAssign(req[r], x)
    BY <1>5 DEF LoadSupervisor, WillAssign
  <2> QED
    BY <1>2, <1>3, <1>5, <2>1 DEF LoadSupervisor
<1>6. CASE Assign(r)
  <2>1. ASSUME NEW x \in Employees, WorkingOn(booking', x)
        PROVE  WorkingOn(booking, x) \/ WillAssign(req[r], x)
    <3>1. CASE AssignableStill
      <4>1. booking'.crew = IF req[r].crew = {} THEN booking.crew
                            ELSE req[r].crew
        BY <1>0, <1>6, <3>1 DEF Assign, BookingParts
      <4>2. x \in booking'.crew
        BY <2>1 DEF WorkingOn
      <4>3. CASE req[r].crew = {}
        <5>1. booking.status = "assigned" /\ x \in booking.crew
          BY <3>1, <4>1, <4>2, <4>3 DEF AssignableStill, Assignable, WorkInv
        <5> QED
          BY <5>1 DEF WorkingOn
      <4>4. CASE req[r].crew # {}
        BY <1>6, <4>1, <4>2, <4>4 DEF Assign, WillAssign
      <4> QED
        BY <4>3, <4>4
    <3>2. CASE ~AssignableStill
      BY <1>6, <2>1, <3>2 DEF Assign
    <3> QED
      BY <3>1, <3>2
  <2>2. \A x \in Employees \ Concerned(req[r]) :
          WorkingOn(booking', x) => WorkingOn(booking, x)
    BY <2>1, WillConcerns
  <2>3. \A x \in Employees : Spared(booking', account'[x], Idle, x)
    BY IdleIsHarmless DEF Spared
  <2>4. \A x \in Employees :
          (account[x].employee = "inactive" => ~WorkingOn(booking, x))
            /\ Spared(booking, account[x], req[r], x) =>
          (account'[x].employee = "inactive" => ~WorkingOn(booking', x))
    BY <1>u, <2>1 DEF Spared
  <2>5. req' = [req EXCEPT ![r] = Idle]
    BY <1>6 DEF Assign, Answered
  <2> QED
    BY <1>u, <2>2, <2>3, <2>4, <2>5, StepKeepsSpared
<1> QED
  BY <1>4, <1>5, <1>6

LEMMA WorkKeepsSpared ==
  ASSUME TypeInv, AccInv, StrandInv, ~overwritten, NEW r \in Callers,
         LookUpWorker(r) \/ StartBooking(r) \/ CompleteBooking(r)
  PROVE  StrandInv'
<1>0. IsCall(req[r]) /\ booking \in BookingParts
  BY DEF TypeInv
<1>1. req[r] \in Works
  BY <1>0, IsWork DEF LookUpWorker, StartBooking, CompleteBooking
<1>u. UNCHANGED <<account, disturbed>>
  BY DEF LookUpWorker, StartBooking, CompleteBooking, OnlyBooking
<1>2. \A x \in Employees : WorkingOn(booking', x) => WorkingOn(booking, x)
  BY <1>0 DEF LookUpWorker, StartBooking, CompleteBooking, WorkingOn,
     BookingParts
<1>3. CASE Answered(r)
  BY <1>2, <1>3, <1>u, EndKeepsSpared
<1>4. CASE Goes(r, "work")
  <2> DEFINE q == [req[r] EXCEPT !.pc = "work"]
  <2>1. req' = [req EXCEPT ![r] = q]
    BY <1>4, GoesTo
  <2>2. \A x \in Employees : ~WillDeactivate(q, x) /\ ~WillAssign(q, x)
    BY <1>1 DEF Works, WillDeactivate, WillAssign
  <2> HIDE DEF q
  <2> QED
    BY <1>2, <1>u, <2>1, <2>2, HarmlessKeepsSpared
<1> QED
  BY <1>3, <1>4 DEF LookUpWorker, StartBooking, CompleteBooking

LEMMA SaveStatusKeepsSpared ==
  ASSUME TypeInv, AccInv, WorkInv, StrandInv, ~overwritten',
         NEW r \in Callers, SaveStatus(r)
  PROVE  StrandInv'
<1>0. booking \in BookingParts
  BY DEF TypeInv
<1>1. /\ ~overwritten
      /\ TransitionAllowed(booking.status, req[r].next, "admin")
  BY StatusDecision
<1>2. booking'.status = req[r].next /\ booking'.crew = booking.crew
  BY <1>0 DEF SaveStatus, BookingParts
<1>3. ASSUME NEW x \in Employees, WorkingOn(booking', x)
      PROVE  WorkingOn(booking, x)
  <2>1. /\ x \in booking.crew /\ booking.status \notin {"pending", "confirmed"}
        /\ req[r].next \in {"assigned", "in_progress"}
    BY <1>2, <1>3 DEF WorkInv, WorkingOn
  <2>2. booking.status \in {"assigned", "in_progress"}
    BY <1>1, <2>1 DEF TransitionAllowed, CanTransition
  <2> QED
    BY <2>1, <2>2 DEF WorkingOn
<1> QED
  BY <1>1, <1>3, EndKeepsSpared DEF SaveStatus, OnlyBooking

\* A payment gives nobody work and takes nobody's.
LEMMA SavePaidKeepsSpared ==
  ASSUME TypeInv, AccInv, StrandInv, ~overwritten, NEW r \in Callers,
         SavePaid(r)
  PROVE  StrandInv'
<1>1. booking'.status = booking.status /\ booking'.crew = booking.crew
  BY DEF SavePaid, TypeInv, BookingParts
<1>2. \A e \in Employees : WorkingOn(booking', e) => WorkingOn(booking, e)
  BY <1>1 DEF WorkingOn
<1> QED
  BY <1>2, EndKeepsSpared DEF SavePaid, OnlyBooking

LEMMA BeginKeepsSpared ==
  ASSUME TypeInv, AccInv, StrandInv, ~overwritten, NEW r \in Callers,
         NEW q, Fresh(q), Begin(r, q)
  PROVE  StrandInv'
<1>1. \A x \in Employees : ~WillDeactivate(q, x) /\ ~WillAssign(q, x)
  BY DEF Fresh, WillDeactivate, WillAssign
<1> QED
  BY <1>1, HarmlessKeepsSpared DEF Begin

LEMMA NextKeepsSpared ==
  ASSUME TypeInv, AccInv, WorkInv, StrandInv, [Next]_vars
  PROVE  StrandInv'
<1> SUFFICES ASSUME ~overwritten'
             PROVE  StrandInv'
  BY DEF StrandInv
<1>1. CASE UNCHANGED staffVars \/ \E e \in Employees : LogIn(e)
  <2>1. UNCHANGED <<account, booking, req, disturbed, overwritten>>
    BY <1>1 DEF staffVars, LogIn
  <2> QED
    BY <2>1 DEF StrandInv, Spared
<1>2. ASSUME NEW r \in Callers, BeginCall(r)
      PROVE  StrandInv'
  <2>1. PICK q : IsCall(q) /\ Fresh(q) /\ Begin(r, q)
    BY <1>2, WhatBegins
  <2>2. ~overwritten
    BY <2>1 DEF Begin
  <2> QED
    BY <2>1, <2>2, BeginKeepsSpared
<1>3. ASSUME NEW r \in Callers, Continue(r)
      PROVE  StrandInv'
  <2>1. CASE SaveStatus(r)
    BY <2>1, SaveStatusKeepsSpared
  <2>2. CASE Fail(r)
    <3>1. /\ Answered(r) /\ disturbed \subseteq disturbed'
          /\ UNCHANGED <<account, booking, overwritten>>
      BY <2>2 DEF Fail, CutOff
    <3> QED
      BY <3>1, EndKeepsSpared
  <2>3. CASE InsertUser(r) \/ InsertEmployee(r) \/ UndoHire(r)
    <3>1. UNCHANGED overwritten
      BY <2>3 DEF InsertUser, InsertEmployee, UndoHire, OnlyAccounts
    <3> QED
      BY <2>3, <3>1, HireKeepsSpared
  <2>4. CASE CheckBookings(r) \/ SaveEmployee(r) \/ UpdateUser(r)
    <3>1. UNCHANGED overwritten
      BY <2>4 DEF CheckBookings, SaveEmployee, UpdateUser, OnlyAccounts
    <3> QED
      BY <2>4, <3>1, ChangeKeepsSpared
  <2>5. CASE LoadCrew(r) \/ LoadSupervisor(r) \/ Assign(r)
    <3>1. UNCHANGED overwritten
      BY <2>5 DEF LoadCrew, LoadSupervisor, Assign
    <3> QED
      BY <2>5, <3>1, AssignKeepsSpared
  <2>6. CASE LookUpWorker(r) \/ StartBooking(r) \/ CompleteBooking(r)
    <3>1. UNCHANGED overwritten
      BY <2>6 DEF LookUpWorker, StartBooking, CompleteBooking
    <3> QED
      BY <2>6, <3>1, WorkKeepsSpared
  <2>7. CASE SavePaid(r)
    <3>1. ~overwritten
      BY <2>7 DEF SavePaid
    <3> QED
      BY <2>7, <3>1, SavePaidKeepsSpared
  <2> QED
    BY <1>3, <2>1, <2>2, <2>3, <2>4, <2>5, <2>6, <2>7 DEF Continue
<1> QED
  BY <1>1, <1>2, <1>3 DEF Next, vars

LEMMA InitSpares ==
  ASSUME Init
  PROVE  StrandInv
<1>1. \A e \in Employees : account[e].employee = "absent"
  BY DEF Init, NoAccount
<1>2. \A e \in Employees, r \in Callers :
        Spared(booking, account[e], req[r], e)
  BY IdleIsHarmless DEF Init, Spared
<1> QED
  BY <1>1, <1>2 DEF StrandInv

\* No employee is inactive while assigned to a booking that is assigned or in
\* progress, for any number of people and calls: what deleteEmployee and
\* updateEmployee have checked still holds when they write, unless another
\* call concerns the same person or a save wrote over a status it had not read.
THEOREM NobodyIsStranded == Spec => []NobodyStranded
<1>1. Init => StrandInv
  BY InitSpares
<1>2. TypeInv /\ AccInv /\ WorkInv /\ StrandInv /\ [Next]_vars => StrandInv'
  BY NextKeepsSpared
<1>3. StrandInv => NobodyStranded
  BY DEF StrandInv, NobodyStranded, Undisturbed, WorkingOn
<1> QED
  BY <1>1, <1>2, <1>3, SpecAccInv, SpecWorkInv, PTL DEF Spec
=============================================================================
