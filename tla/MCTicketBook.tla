---------------------------- MODULE MCTicketBook ----------------------------
(***************************************************************************)
(* What the runs of TicketBook need beside it: the symmetry of its ids.    *)
(***************************************************************************)
EXTENDS TicketBook, TLC

\* Booking ids are random, and nothing compares them.
Symmetry == Permutations(Blanks)

=============================================================================
