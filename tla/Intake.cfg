SPECIFICATION Spec
CONSTANTS
  home = home
  edge = edge
  far = far
  nowhere = nowhere
  NoPosition = NoPosition
  Addresses = {home, edge, far, nowhere}
  CoverageZones <- Road
  Location <- Map
  Requests = {r1, r2}
  Durations = {0}
  Forms <- Sent
  Apart = TRUE
CHECK_DEADLOCK FALSE
INVARIANTS
  TypeOK
  DeadlineKept
  CooldownShields
  DuplicatesBounded
  AcceptedIsNear
  ZoneByBoundary
  AnnouncedOnce
PROPERTIES
  EveryRequestAnswered
  EveryStepNearer
