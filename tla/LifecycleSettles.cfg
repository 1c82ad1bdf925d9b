SPECIFICATION FairSpec
CONSTANTS
  Requests = {r1, r2}
  Sessions = {s1, s2}
  NoSession = NoSession
  Prices = {0, 1}
  MaxVersion = 1
  Documents = {"direct", "confirmed"}
  Handlers = {"updateStatus", "createCheckoutSessionUrl",
    "deleteAdminPermanent", "handleWebhook"}
  Failures = TRUE
  MailCap = 0
CHECK_DEADLOCK FALSE
PROPERTIES
  EventuallySettled
