SPECIFICATION Spec
CONSTANTS
  Requests = {r1, r2}
  Sessions = {s1, s2, s3}
  NoSession = NoSession
  Prices = {1, 2}
  MaxVersion = 1
  Documents = {"direct", "invoiced"}
  Handlers = {"updateStatus", "saveQuoteDraft", "deleteAdminPermanent",
    "createCheckoutSessionUrl", "handleWebhook"}
  Failures = TRUE
  MailCap = 0
SYMMETRY Interchangeable
CHECK_DEADLOCK FALSE
INVARIANTS
  PaidIsBacked
  PendingHasNoLink
PROPERTIES
  NothingIsLost
  KeepsOverlapPromise
