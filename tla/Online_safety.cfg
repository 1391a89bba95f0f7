SPECIFICATION Spec
CONSTANTS
  Bookings = {b1}
  PaymentIds = {p1, p2}
  Admins = {a1, a2}
  RefundReports = {"PENDING", "SUCCESS", "FAILED"}
  SweepLimit = 1
  NoId = NoId
  b1 = b1
  p1 = p1
  p2 = p2
  a1 = a1
  a2 = a2
SYMMETRY Symmetry
INVARIANTS
  TypeOK
  AdmissibleMeansPaid
  ConfirmedHasTicket
  TicketMeansCaptured
  OrderIsRecorded
  NoEntryUnderRefund
  RefundedMeansReturned
PROPERTIES
  ConfirmationConsumesAnEvent
  KeepsPromise
CHECK_DEADLOCK FALSE
