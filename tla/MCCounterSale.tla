--------------------------- MODULE MCCounterSale ---------------------------
(***************************************************************************)
(* What the runs of CounterSale need beside it: two groups, one for each   *)
(* tender, so that a sale booked under the wrong one shows on the slip.    *)
(***************************************************************************)
EXTENDS CounterSale

CONSTANTS g1, g2

MCGuests == {g1, g2}
MCPays == [g \in MCGuests |-> IF g = g1 THEN "CASH" ELSE "UPI"]

=============================================================================
