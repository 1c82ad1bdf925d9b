SPECIFICATION Spec
CONSTANTS
  Requests = {r1}
  Sessions = {s1, s2}
  NoSession = NoSession
  Prices = {1, 2}
  MaxVersion = 2
  Documents = {"direct", "quote", "confirmed", "invoiced"}
  Handlers = {"updateStatus", "startQuoteReview", "saveQuoteDraft",
    "sendQuote", "rejectQuote", "reopenQuote", "reviseQuote", "expireQuote",
    "confirmAndSendPayment", "cancelByAdmin", "deleteAdminPermanent",
    "assignBooking", "startBooking", "completeBooking",
    "createCheckoutSessionUrl", "handleWebhook"}
  Failures = TRUE
  MailCap = 2
SYMMETRY Interchangeable
CHECK_DEADLOCK FALSE
INVARIANTS
  TypeOK
  OnePayableSession
  QuoteCoherent
  PendingPaymentHasLink
  LedgerAgrees
  WorkClockAgrees
  NoOrphanPayment
  OneMailPerFact
PROPERTIES
  QuoteRevisions
  KeepsPromise
