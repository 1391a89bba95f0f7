SPECIFICATION LiveSpec
CONSTANTS
  Bookings = {b1}
  PaymentIds = {p1, p2}
  Admins = {a1}
  RefundReports = {"PENDING", "SUCCESS", "FAILED"}
  SweepLimit = 1
  NoId = NoId
  b1 = b1
  p1 = p1
  p2 = p2
  a1 = a1
PROPERTIES
  LostWebhookRecovered
  RefundReachesBooking
CHECK_DEADLOCK FALSE
