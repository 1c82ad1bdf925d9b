SPECIFICATION FairSpec
CONSTANTS
  Requests = {r1}
  Sessions = {s1}
  NoSession = NoSession
  Prices = {1}
  MaxVersion = 1
  Documents = {"quote"}
  Handlers = {"confirmAndSendPayment", "handleWebhook"}
  Failures = FALSE
  MailCap = 0
CHECK_DEADLOCK FALSE
PROPERTIES
  EventuallySettled
