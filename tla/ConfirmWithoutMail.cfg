SPECIFICATION Spec
CONSTANTS
  Requests = {r1}
  Sessions = {s1}
  NoSession = NoSession
  Prices = {1}
  MaxVersion = 1
  Documents = {"quote"}
  Handlers = {"updateStatus", "confirmAndSendPayment"}
  Failures = FALSE
  MailCap = 1
CHECK_DEADLOCK FALSE
INVARIANTS
  LinkWasMailed
