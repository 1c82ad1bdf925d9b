SPECIFICATION Spec
CONSTANTS
  MaxAttempts = 2
  Window = 2
  Employees = {e1}
  NoOne = NoOne
  Callers = {c1, c2}
  Changes <- Sent
  Apart = TRUE
SYMMETRY Interchangeable
CHECK_DEADLOCK FALSE
INVARIANTS
  TypeOK
  AccountsAgree
  NobodyStranded
  TakenBackOnlyBySave
  HeldForOneWindow
  AtMostMaxPass
PROPERTIES
  PaidCrewStays
