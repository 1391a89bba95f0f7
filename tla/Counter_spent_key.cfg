SPECIFICATION Spec
CONSTANTS
  g1 = g1
  g2 = g2
  Guests <- MCGuests
  Pays <- MCPays
  Keys = {k1, k2, k3}
  NoGuest = NoGuest
  NoKey = NoKey
INVARIANT SaleGetsItsOwnTicket
CHECK_DEADLOCK FALSE
