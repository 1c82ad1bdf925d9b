SPECIFICATION Spec
CONSTANTS
  FirstTimePercent = 15
  NoFee = NoFee
  Bookings = {b1}
  Admins = {a1}
  Submissions <- CommonSubmissions
  Apart = TRUE
  SharedOrders <- CommonOrders
  home = home
  office = office
  mail = mail
  mail2 = mail2
  Addresses = {home, office}
  Emails = {mail, mail2}
  NoEmail = NoEmail
  DiscountTypes = {"first_time_customer"}
  Failures = FALSE
CHECK_DEADLOCK FALSE
INVARIANT
  BaseIsUndiscounted
