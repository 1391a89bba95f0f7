--------------------------- MODULE TicketPromise ---------------------------
(***************************************************************************)
(* What selling tickets online promises, with every message, retry and     *)
(* half-finished request left out: for each booking, where its money is    *)
(* and what its ticket is good for.                                        *)
(*                                                                         *)
(*  - a ticket is granted only against captured money, and only once;      *)
(*  - it admits its group once;                                            *)
(*  - money goes back only when the ticket can no longer admit anyone.     *)
(***************************************************************************)
CONSTANT Bookings

VARIABLES
  money, \* "owed", "captured" or "returned"
  entry  \* "none", "admits", "spent" or "void"

promiseVars == <<money, entry>>

PromiseInit ==
  /\ money = [b \in Bookings |-> "owed"]
  /\ entry = [b \in Bookings |-> "none"]

Capture(b) ==
  /\ money[b] = "owed"
  /\ money' = [money EXCEPT ![b] = "captured"]
  /\ UNCHANGED entry

Grant(b) ==
  /\ money[b] = "captured" /\ entry[b] = "none"
  /\ entry' = [entry EXCEPT ![b] = "admits"]
  /\ UNCHANGED money

Admit(b) ==
  /\ entry[b] = "admits"
  /\ entry' = [entry EXCEPT ![b] = "spent"]
  /\ UNCHANGED money

Withdraw(b) ==
  /\ entry[b] = "admits"
  /\ entry' = [entry EXCEPT ![b] = "void"]
  /\ UNCHANGED money

Return(b) ==
  /\ money[b] = "captured" /\ entry[b] \in {"spent", "void"}
  /\ money' = [money EXCEPT ![b] = "returned"]
  /\ UNCHANGED entry

PromiseNext ==
  \E b \in Bookings : Capture(b) \/ Grant(b) \/ Admit(b) \/ Withdraw(b) \/ Return(b)

PromiseSpec == PromiseInit /\ [][PromiseNext]_promiseVars

=============================================================================
