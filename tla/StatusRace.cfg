SPECIFICATION Spec
CONSTANTS
  Requests = {r1, r2}
  Sessions = {s1}
  NoSession = NoSession
  Prices = {1}
  MaxVersion = 1
  Documents = {"quote"}
  Handlers = {"updateStatus"}
  Failures = FALSE
  MailCap = 0
CHECK_DEADLOCK FALSE
PROPERTIES
  StatusFollowsFlow
