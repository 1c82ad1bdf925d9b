SPECIFICATION Spec
CONSTANTS
  Requests = {r1}
  Sessions = {s1}
  NoSession = NoSession
  Prices = {1}
  MaxVersion = 2
  Documents = {"direct"}
  Handlers = {"updateStatus", "saveQuoteDraft", "sendQuote", "reviseQuote"}
  Failures = FALSE
  MailCap = 0
CHECK_DEADLOCK FALSE
PROPERTIES
  ReviewWithoutSession
