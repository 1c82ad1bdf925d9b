SPECIFICATION Spec
CONSTANTS
  FirstTimePercent = 15
  NoFee = NoFee
  Bookings = {b1, b2}
  Admins = {a1, a2}
  Submissions <- AllSubmissions
  Apart = TRUE
  SharedOrders <- CommonOrders
  home = home
  office = office
  mail = mail
  mail2 = mail2
  Addresses = {home, office}
  Emails = {mail, mail2}
  NoEmail = NoEmail
  DiscountTypes = {"none", "first_time_customer", "loyalty_customer"}
  Failures = TRUE
SYMMETRY Interchangeable
CHECK_DEADLOCK FALSE
INVARIANTS
  TypeOK
  PreviewAddsUp
  RefusalsAreExplained
  ItemsAddUp
  OneDiscountAtMost
  DiscountOnRecord
  InflationBounded
