--------------------------- MODULE MCBookingReport ---------------------------
(***************************************************************************)
(* Four bookings, two of them blanks of one book, read two at a time: a    *)
(* full batch is followed by a full, a short or an empty one, and the book *)
(* may lie across the boundary of two pages.                               *)
(***************************************************************************)
EXTENDS BookingReport

MCFilters == {"ALL", "CONFIRMED", "RESERVED"}
MCCreatedAt == <<1, 2, 2, 3>>

=============================================================================
