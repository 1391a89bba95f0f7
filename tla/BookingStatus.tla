--------------------------- MODULE BookingStatus ---------------------------
(***************************************************************************)
(* The booking state machine of src/domain/booking/status.ts and the two   *)
(* ticket helpers of src/domain/ticket/issue.ts.  They hold no state of    *)
(* their own: every module that changes a booking or a ticket goes through *)
(* these operators, as every caller in the code goes through those         *)
(* functions.                                                              *)
(***************************************************************************)

BookingStatuses ==
  {"PENDING", "PAID", "CASH_CONFIRMED", "REFUND_PENDING", "REFUNDED",
   "FAILED", "CANCELLED", "RESERVED"}

\* No such row yet.
Absent == "ABSENT"

TicketStatuses == {"ACTIVE", "USED", "CANCELLED", "EXPIRED"}

\* The ALLOWED table: the complete set of legal transitions.
Allowed ==
  { <<"PENDING", "PAID">>, <<"PENDING", "FAILED">>, <<"PENDING", "CANCELLED">>,
    <<"PAID", "REFUND_PENDING">>, <<"PAID", "CANCELLED">>,
    <<"CASH_CONFIRMED", "REFUND_PENDING">>, <<"CASH_CONFIRMED", "CANCELLED">>,
    <<"REFUND_PENDING", "REFUNDED">>, <<"REFUND_PENDING", "PAID">>,
    <<"RESERVED", "CASH_CONFIRMED">>, <<"RESERVED", "CANCELLED">> }

CanTransition(from, to) == <<from, to>> \in Allowed

\* transitionBooking returns null when the row is already there and throws
\* InvalidTransitionError when the table forbids the step; whoever calls it
\* continues only if neither the row is missing nor the table says no.
MayBecome(from, to) == from = to \/ CanTransition(from, to)

\* "In one of these states it has been paid for and deserves a ticket."
IsConfirmed(status) == status \in {"PAID", "CASH_CONFIRMED"}

\* issueTicketFor / issueReservedTicket: an INSERT that a UNIQUE booking id
\* turns into "return the ticket that exists", whatever its status.
Issue(ticket) == IF ticket = Absent THEN "ACTIVE" ELSE ticket

\* Mutants: the ticket is forgotten; history is rewritten.
DeactivateForgets(ticket, status) == ticket
DeactivateRewrites(ticket, status) == IF ticket = Absent THEN ticket ELSE status

\* deactivateTicketForBooking: only an ACTIVE ticket is touched.
Deactivate(ticket, status) == IF ticket = "ACTIVE" THEN status ELSE ticket

=============================================================================
