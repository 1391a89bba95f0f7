-------------------------- MODULE MCOnlinePayment --------------------------
(***************************************************************************)
(* What the runs of OnlinePayment need beside it: the symmetry of its      *)
(* constants.                                                              *)
(***************************************************************************)
EXTENDS OnlinePayment, TLC

\* Payment attempts, and administrators, are interchangeable.
Symmetry == Permutations(PaymentIds) \union Permutations(Admins)

=============================================================================
