------------------------ MODULE OnlinePayment_proofs ------------------------
(***************************************************************************)
(* Proofs about OnlinePayment for any number of bookings, payment attempts *)
(* and administrators, and any sweep limit.                                *)
(***************************************************************************)
EXTENDS OnlinePayment, TLAPS

-----------------------------------------------------------------------------
(* Type correctness.                                                       *)

\* A webhook the gateway emits, and the event the sweep makes up, are events.
LEMMA WebhookType ==
  ASSUME NEW type \in {"PAYMENT_SUCCESS", "PAYMENT_FAILED", "REFUND_STATUS", "RECONCILE"},
         NEW status \in {"PENDING", "SUCCESS", "FAILED"},
         NEW b \in Bookings, NEW p \in PaymentIds \union {NoId}, NEW amount \in Amounts
  PROVE  Webhook(type, status, b, p, amount) \in PaymentEvents
BY DEF Webhook, PaymentEvents

\* The id an event claims is a type and a payment id, or a type and a booking.
LEMMA EventIdType ==
  ASSUME NEW e \in PaymentEvents
  PROVE  EventId(e) \in {"PAYMENT_SUCCESS", "PAYMENT_FAILED", "REFUND_STATUS", "RECONCILE"}
                          \X (PaymentIds \union Bookings)
BY DEF EventId, PaymentEvents

\* processPaymentEvent leaves every row well typed.
LEMMA ProcessType ==
  ASSUME TypeOK, NEW e \in PaymentEvents, ProcessPaymentEvent(e)
  PROVE  /\ booking' \in [Bookings -> BookingStatuses \union {Absent}]
         /\ ticket' \in [Bookings -> TicketStatuses \union {Absent}]
         /\ paymentStatus' \in
              [Bookings -> {Absent, "PENDING", "SUCCESS", "FAILED", "REFUND_PENDING", "REFUNDED"}]
         /\ paymentId' \in [Bookings -> PaymentIds \union {NoId}]
         /\ events' \subseteq
              ({"PAYMENT_SUCCESS", "PAYMENT_FAILED", "REFUND_STATUS", "RECONCILE"}
                 \X (PaymentIds \union Bookings))
<1>. e.booking \in Bookings /\ e.pid \in PaymentIds \union {NoId}
  BY DEF PaymentEvents
<1>. USE DEF TypeOK, rows, BookingStatuses, TicketStatuses, Issue, Deactivate
<1>1. CASE UNCHANGED <<rows, events>>
  BY <1>1
<1>2. CASE ~UNCHANGED <<rows, events>>
  <2>1. events' = events \union {EventId(e)}
    BY <1>2 DEF ProcessPaymentEvent
  <2>2. events' \subseteq ({"PAYMENT_SUCCESS", "PAYMENT_FAILED", "REFUND_STATUS", "RECONCILE"}
                             \X (PaymentIds \union Bookings))
    BY <2>1, EventIdType
  <2>3. CASE ClaimOnly(e)
    BY <2>2, <2>3 DEF ClaimOnly
  <2>4. CASE HandleSuccess(e)
    BY <2>2, <2>4 DEF HandleSuccess
  <2>5. CASE HandleFailure(e)
    BY <2>2, <2>5 DEF HandleFailure
  <2>6. CASE HandleRefund(e)
    <3>1. CASE booking[e.booking] \in {"REFUND_PENDING", "PAID"}
      BY <2>2, <2>6, <3>1 DEF HandleRefund
    <3>2. CASE booking[e.booking] \notin {"REFUND_PENDING", "PAID"}
      BY <2>2, <2>6, <3>2 DEF HandleRefund
    <3>. QED
      BY <3>1, <3>2
  <2>. QED
    BY <1>2, <2>3, <2>4, <2>5, <2>6 DEF ProcessPaymentEvent
<1>. QED
  BY <1>1, <1>2

\* The empty database is well typed.
LEMMA TypeInit == Init => TypeOK
BY DEF Init, TypeOK

\* Every step of every actor keeps the types.
LEMMA TypeStep == TypeOK /\ [Next]_vars => TypeOK'
<1>. SUFFICES ASSUME TypeOK, [Next]_vars PROVE TypeOK'
  OBVIOUS
<1>. USE DEF TypeOK, rows, gateway, BookingStatuses, TicketStatuses, Deactivate
<1>1. ASSUME NEW b \in Bookings, SubmitBooking(b) PROVE TypeOK'
  BY <1>1 DEF SubmitBooking
<1>2. ASSUME NEW b \in Bookings, CheckPayable(b) PROVE TypeOK'
  BY <1>2 DEF CheckPayable
<1>3. ASSUME NEW b \in Bookings, RecordPayment(b) PROVE TypeOK'
  BY <1>3 DEF RecordPayment
<1>4. ASSUME NEW b \in Bookings, CreateOrder(b) PROVE TypeOK'
  BY <1>4 DEF CreateOrder
<1>5. ASSUME NEW b \in Bookings, CheckoutDies(b) PROVE TypeOK'
  BY <1>5 DEF CheckoutDies
<1>6. ASSUME NEW b \in Bookings, NEW p \in PaymentIds, AttemptFails(b, p) PROVE TypeOK'
  <2>1. Webhook("PAYMENT_FAILED", "FAILED", b, p, "absent") \in PaymentEvents
    BY WebhookType DEF Amounts
  <2>. QED
    BY <1>6, <2>1 DEF AttemptFails
<1>7. ASSUME NEW b \in Bookings, NEW p \in PaymentIds, NEW amount \in Amounts,
             AttemptSucceeds(b, p, amount)
      PROVE TypeOK'
  <2>1. Webhook("PAYMENT_SUCCESS", "SUCCESS", b, p, amount) \in PaymentEvents
    BY WebhookType
  <2>. QED
    BY <1>7, <2>1 DEF AttemptSucceeds
<1>8. ASSUME NEW b \in Bookings, NEW status \in {"EXPIRED", "TERMINATED"}, OrderCloses(b, status)
      PROVE TypeOK'
  BY <1>8 DEF OrderCloses
<1>9. ASSUME NEW b \in Bookings, NEW status \in {"PENDING", "SUCCESS", "FAILED"},
             RefundMoves(b, status)
      PROVE TypeOK'
  <2>1. Webhook("REFUND_STATUS", status, b, NoId, "expected") \in PaymentEvents
    BY WebhookType DEF Amounts
  <2>. QED
    BY <1>9, <2>1 DEF RefundMoves
<1>10. ASSUME NEW w \in sent, DeliverWebhook(w) PROVE TypeOK'
  BY <1>10, ProcessType DEF DeliverWebhook
<1>11. ASSUME NEW b \in Bookings, Age(b) PROVE TypeOK'
  BY <1>11 DEF Age
<1>12. ASSUME NEW S \in SUBSET Bookings, SweepSelects(S) PROVE TypeOK'
  BY <1>12 DEF SweepSelects
<1>13. ASSUME NEW b \in Bookings, FetchOrderStatus(b) PROVE TypeOK'
  BY <1>13 DEF FetchOrderStatus, FetchedState
<1>14. ASSUME NEW b \in Bookings, SweepConfirms(b) PROVE TypeOK'
  <2>1. ReconcileEvent(b) \in PaymentEvents
    BY WebhookType DEF ReconcileEvent, Amounts
  <2>. QED
    BY <1>14, <2>1, ProcessType DEF SweepConfirms
<1>15. ASSUME NEW b \in Bookings, SweepCloses(b) PROVE TypeOK'
  BY <1>15 DEF SweepCloses
<1>16. ASSUME NEW b \in Bookings, SweepSkips(b) PROVE TypeOK'
  BY <1>16 DEF SweepSkips
<1>17. ASSUME SweepDies PROVE TypeOK'
  BY <1>17 DEF SweepDies
<1>18. ASSUME NEW b \in Bookings, CancelBooking(b) PROVE TypeOK'
  BY <1>18 DEF CancelBooking
<1>19. ASSUME NEW a \in Admins, NEW b \in Bookings, RefundFinds(a, b) PROVE TypeOK'
  BY <1>19 DEF RefundFinds
<1>20. ASSUME NEW a \in Admins, NEW b \in Bookings, RefundChecks(a, b) PROVE TypeOK'
  BY <1>20 DEF RefundChecks
<1>21. ASSUME NEW a \in Admins, NEW b \in Bookings, RefundVoids(a, b) PROVE TypeOK'
  <2>1. CASE MayBecome(booking[b], "REFUND_PENDING")
    <3>1. /\ booking' = [booking EXCEPT ![b] = "REFUND_PENDING"]
          /\ ticket' = [ticket EXCEPT ![b] = Deactivate(@, "CANCELLED")]
          /\ refunding' = [refunding EXCEPT ![<<a, b>>] = "VOIDED"]
          /\ UNCHANGED <<paymentStatus, paymentId, events, age, checkout, sweep, gateway>>
      BY <1>21, <2>1 DEF RefundVoids
    <3>. QED
      BY <3>1
  <2>2. CASE ~MayBecome(booking[b], "REFUND_PENDING")
    BY <1>21, <2>2 DEF RefundVoids
  <2>. QED
    BY <2>1, <2>2
<1>22. ASSUME NEW a \in Admins, NEW b \in Bookings, NEW answered \in BOOLEAN,
              RefundSends(a, b, answered)
       PROVE TypeOK'
  BY <1>22 DEF RefundSends
<1>23. ASSUME NEW a \in Admins, NEW b \in Bookings, RefundFails(a, b) PROVE TypeOK'
  BY <1>23 DEF RefundFails
<1>24. ASSUME NEW a \in Admins, NEW b \in Bookings, RefundRecords(a, b) PROVE TypeOK'
  BY <1>24 DEF RefundRecords
<1>25. ASSUME NEW b \in Bookings, Board(b) PROVE TypeOK'
  BY <1>25 DEF Board
<1>26. CASE UNCHANGED vars
  BY <1>26 DEF vars
<1>. QED
  BY <1>1, <1>2, <1>3, <1>4, <1>5, <1>6, <1>7, <1>8, <1>9, <1>10, <1>11, <1>12, <1>13, <1>14,
     <1>15, <1>16, <1>17, <1>18, <1>19, <1>20, <1>21, <1>22, <1>23, <1>24, <1>25, <1>26
  DEF Next, Checkout, Gateway, SweepRow, Refunding

\* Every reachable state is well typed.
THEOREM TypeCorrect == Spec => []TypeOK
BY TypeInit, TypeStep, PTL DEF Spec

-----------------------------------------------------------------------------
(* The inductive invariant.                                                *)

\* processPaymentEvent keeps the invariant when the event it is handed is true:
\* a success speaks of a PAID order, a refund of one that succeeded.
LEMMA ProcessSafe ==
  ASSUME TypeOK, Safety, NEW e \in PaymentEvents, ProcessPaymentEvent(e),
         EventKind(e) = "PAYMENT_SUCCESS" => order[e.booking] = "PAID",
         EventKind(e) = "REFUND_SUCCESS" => refund[e.booking] = "SUCCESS",
         UNCHANGED <<checkout, refunding, order, refund, sent>>,
         \A b \in Bookings : sweep'[b] = "PAID" => sweep[b] = "PAID"
  PROVE  Safety'
<1>. DEFINE c == e.booking
<1>. c \in Bookings
  BY DEF PaymentEvents
<1>. USE DEF TypeOK, Safety, AdmissibleMeansPaid, ConfirmedHasTicket, TicketMeansCaptured,
             OrderIsRecorded, NoEntryUnderRefund, RefundedMeansReturned, EvidenceIsTrue, EventKind
<1>1. CASE UNCHANGED rows
  BY <1>1 DEF rows
<1>2. CASE HandleSuccess(e) /\ ~RollsBack(e)
  <2>1. /\ booking' = [booking EXCEPT ![c] = "PAID"]
        /\ ticket' = [ticket EXCEPT ![c] = IF @ = Absent THEN "ACTIVE" ELSE @]
        /\ paymentStatus' = [paymentStatus EXCEPT ![c] = "SUCCESS"]
        /\ paymentStatus[c] # Absent
        /\ order[c] = "PAID"
    BY <1>2 DEF HandleSuccess, OnlyClaimed, Confirms, Issue
  <2>2. booking[c] \in {"PENDING", "PAID", "REFUND_PENDING"}
    BY <1>2 DEF HandleSuccess, RollsBack, MayBecome, CanTransition, Allowed
  <2>3. ticket[c] = Absent => refund[c] = Absent
    BY DEF Absent
  <2>. QED
    BY <2>1, <2>2, <2>3 DEF Absent
<1>3. CASE HandleFailure(e)
  BY <1>3 DEF HandleFailure, Absent
<1>4. CASE HandleRefund(e)
  <2>1. CASE booking[c] \in {"REFUND_PENDING", "PAID"}
    BY <1>4, <2>1 DEF HandleRefund, Deactivate, Absent
  <2>2. CASE booking[c] \notin {"REFUND_PENDING", "PAID"}
    BY <1>4, <2>2 DEF HandleRefund, Absent
  <2>. QED
    BY <2>1, <2>2
<1>. QED
  BY <1>1, <1>2, <1>3, <1>4 DEF ProcessPaymentEvent, ClaimOnly

\* The invariant holds before the first request.
LEMMA SafetyInit == Init => Safety
BY DEF Init, Safety, AdmissibleMeansPaid, ConfirmedHasTicket, TicketMeansCaptured,
       OrderIsRecorded, NoEntryUnderRefund, RefundedMeansReturned, EvidenceIsTrue, Absent

\* Every step of every actor keeps it.
LEMMA SafetyStep == TypeOK /\ Safety /\ [Next]_vars => Safety'
<1>. SUFFICES ASSUME TypeOK, Safety, [Next]_vars PROVE Safety'
  OBVIOUS
<1>. USE DEF TypeOK, Safety, AdmissibleMeansPaid, ConfirmedHasTicket, TicketMeansCaptured,
             OrderIsRecorded, NoEntryUnderRefund, RefundedMeansReturned, EvidenceIsTrue,
             rows, gateway, Absent, EventKind
<1>1. ASSUME NEW b \in Bookings, SubmitBooking(b) PROVE Safety'
  BY <1>1 DEF SubmitBooking
<1>2. ASSUME NEW b \in Bookings, CheckPayable(b) PROVE Safety'
  BY <1>2 DEF CheckPayable
<1>3. ASSUME NEW b \in Bookings, RecordPayment(b) PROVE Safety'
  BY <1>3 DEF RecordPayment
<1>4. ASSUME NEW b \in Bookings, CreateOrder(b) PROVE Safety'
  BY <1>4 DEF CreateOrder
<1>5. ASSUME NEW b \in Bookings, CheckoutDies(b) PROVE Safety'
  BY <1>5 DEF CheckoutDies
<1>6. ASSUME NEW b \in Bookings, NEW p \in PaymentIds, AttemptFails(b, p) PROVE Safety'
  <2>. DEFINE w == Webhook("PAYMENT_FAILED", "FAILED", b, p, "absent")
  <2>1. EventKind(w) = "PAYMENT_FAILED"
    BY DEF Webhook
  <2>2. \A v \in sent' : v \in sent \/ v = w
    BY <1>6 DEF AttemptFails
  <2>. HIDE DEF w, EventKind
  <2>. QED
    BY <1>6, <2>1, <2>2 DEF AttemptFails
<1>7. ASSUME NEW b \in Bookings, NEW p \in PaymentIds, NEW amount \in Amounts,
             AttemptSucceeds(b, p, amount)
      PROVE Safety'
  <2>. DEFINE w == Webhook("PAYMENT_SUCCESS", "SUCCESS", b, p, amount)
  <2>1. EventKind(w) = "PAYMENT_SUCCESS" /\ w.booking = b
    BY DEF Webhook
  <2>2. \A v \in sent' : v \in sent \/ v = w
    BY <1>7 DEF AttemptSucceeds
  <2>3. \A v \in sent : v.booking \in Bookings
    BY DEF PaymentEvents
  <2>. HIDE DEF w, EventKind
  <2>. QED
    BY <1>7, <2>1, <2>2, <2>3 DEF AttemptSucceeds
<1>8. ASSUME NEW b \in Bookings, NEW status \in {"EXPIRED", "TERMINATED"}, OrderCloses(b, status)
      PROVE Safety'
  BY <1>8 DEF OrderCloses
<1>9. ASSUME NEW b \in Bookings, NEW status \in {"PENDING", "SUCCESS", "FAILED"},
             RefundMoves(b, status)
      PROVE Safety'
  <2>. DEFINE w == Webhook("REFUND_STATUS", status, b, NoId, "expected")
  <2>1. /\ EventKind(w) # "PAYMENT_SUCCESS"
        /\ EventKind(w) = "REFUND_SUCCESS" => status = "SUCCESS"
        /\ w.booking = b
    BY DEF Webhook
  <2>2. \A v \in sent' : v \in sent \/ v = w
    BY <1>9 DEF RefundMoves
  <2>3. \A v \in sent : v.booking \in Bookings
    BY DEF PaymentEvents
  <2>. HIDE DEF w, EventKind
  <2>. QED
    BY <1>9, <2>1, <2>2, <2>3 DEF RefundMoves
<1>10. ASSUME NEW w \in sent, DeliverWebhook(w) PROVE Safety'
  <2>1. /\ w \in PaymentEvents
        /\ ProcessPaymentEvent(w)
        /\ UNCHANGED <<checkout, sweep, refunding, order, refund, sent>>
        /\ EventKind(w) = "PAYMENT_SUCCESS" => order[w.booking] = "PAID"
        /\ EventKind(w) = "REFUND_SUCCESS" => refund[w.booking] = "SUCCESS"
    BY <1>10 DEF DeliverWebhook
  <2>. HIDE DEF Safety, TypeOK, EventKind
  <2>. QED
    BY <2>1, ProcessSafe
<1>11. ASSUME NEW b \in Bookings, Age(b) PROVE Safety'
  BY <1>11 DEF Age
<1>12. ASSUME NEW S \in SUBSET Bookings, SweepSelects(S) PROVE Safety'
  BY <1>12 DEF SweepSelects
<1>13. ASSUME NEW b \in Bookings, FetchOrderStatus(b) PROVE Safety'
  BY <1>13 DEF FetchOrderStatus, FetchedState
<1>14. ASSUME NEW b \in Bookings, SweepConfirms(b) PROVE Safety'
  <2>. DEFINE e == ReconcileEvent(b)
  <2>1. /\ e \in PaymentEvents
        /\ e.booking = b
        /\ EventKind(e) = "PAYMENT_SUCCESS"
    BY WebhookType DEF ReconcileEvent, Webhook, Amounts
  <2>2. /\ order[b] = "PAID"
        /\ ProcessPaymentEvent(e)
        /\ UNCHANGED <<checkout, refunding, order, refund, sent>>
        /\ \A c \in Bookings : sweep'[c] = "PAID" => sweep[c] = "PAID"
    BY <1>14 DEF SweepConfirms
  <2>. HIDE DEF e, Safety, TypeOK, EventKind
  <2>. QED
    BY <2>1, <2>2, ProcessSafe
<1>15. ASSUME NEW b \in Bookings, SweepCloses(b) PROVE Safety'
  <2>1. CASE MayBecome(booking[b], "FAILED")
    <3>1. booking[b] \in {"PENDING", "FAILED"}
      BY <2>1 DEF MayBecome, CanTransition, Allowed
    <3>. QED
      BY <1>15, <2>1, <3>1 DEF SweepCloses
  <2>2. CASE ~MayBecome(booking[b], "FAILED")
    BY <1>15, <2>2 DEF SweepCloses
  <2>. QED
    BY <2>1, <2>2
<1>16. ASSUME NEW b \in Bookings, SweepSkips(b) PROVE Safety'
  BY <1>16 DEF SweepSkips
<1>17. ASSUME SweepDies PROVE Safety'
  BY <1>17 DEF SweepDies
<1>18. ASSUME NEW b \in Bookings, CancelBooking(b) PROVE Safety'
  <2>1. booking' = [booking EXCEPT ![b] = "CANCELLED"]
    BY <1>18 DEF CancelBooking
  <2>2. ticket' = [ticket EXCEPT ![b] = IF @ = "ACTIVE" THEN "CANCELLED" ELSE @]
    BY <1>18 DEF CancelBooking, Deactivate
  <2>3. UNCHANGED <<paymentStatus, checkout, sweep, refunding, order, refund, sent>>
    BY <1>18 DEF CancelBooking
  <2>. QED
    BY <2>1, <2>2, <2>3
<1>19. ASSUME NEW a \in Admins, NEW b \in Bookings, RefundFinds(a, b) PROVE Safety'
  BY <1>19 DEF RefundFinds
<1>20. ASSUME NEW a \in Admins, NEW b \in Bookings, RefundChecks(a, b) PROVE Safety'
  BY <1>20 DEF RefundChecks
<1>21. ASSUME NEW a \in Admins, NEW b \in Bookings, RefundVoids(a, b) PROVE Safety'
  <2>1. UNCHANGED <<paymentStatus, checkout, sweep, order, refund, sent>>
    BY <1>21 DEF RefundVoids
  <2>2. CASE MayBecome(booking[b], "REFUND_PENDING")
    <3>1. booking[b] \in {"PAID", "REFUND_PENDING"}
      BY <2>2 DEF MayBecome, CanTransition, Allowed
    <3>2. /\ booking' = [booking EXCEPT ![b] = "REFUND_PENDING"]
          /\ ticket' = [ticket EXCEPT ![b] = IF @ = "ACTIVE" THEN "CANCELLED" ELSE @]
          /\ refunding' = [refunding EXCEPT ![<<a, b>>] = "VOIDED"]
      BY <1>21, <2>2 DEF RefundVoids, Deactivate
    <3>3. ticket[b] \in {"ACTIVE", "USED", "CANCELLED"}
      <4>1. ticket[b] # Absent /\ ticket[b] # "EXPIRED"
        BY <3>1
      <4>2. ticket[b] \in TicketStatuses \union {Absent}
        BY DEF TicketStatuses
      <4>. QED
        BY <4>1, <4>2 DEF TicketStatuses
    <3>4. ticket'[b] \in {"USED", "CANCELLED"}
      BY <3>2, <3>3
    <3>. QED
      BY <2>1, <3>1, <3>2, <3>4
  <2>3. CASE ~MayBecome(booking[b], "REFUND_PENDING")
    <3>1. UNCHANGED <<booking, ticket>>
      BY <1>21, <2>3 DEF RefundVoids
    <3>2. refunding' = [refunding EXCEPT ![<<a, b>>] = "IDLE"]
      BY <1>21, <2>3 DEF RefundVoids
    <3>. QED
      BY <2>1, <3>1, <3>2
  <2>. QED
    BY <2>2, <2>3
<1>22. ASSUME NEW a \in Admins, NEW b \in Bookings, NEW answered \in BOOLEAN,
              RefundSends(a, b, answered)
       PROVE Safety'
  BY <1>22 DEF RefundSends
<1>23. ASSUME NEW a \in Admins, NEW b \in Bookings, RefundFails(a, b) PROVE Safety'
  BY <1>23 DEF RefundFails
<1>24. ASSUME NEW a \in Admins, NEW b \in Bookings, RefundRecords(a, b) PROVE Safety'
  BY <1>24 DEF RefundRecords
<1>25. ASSUME NEW b \in Bookings, Board(b) PROVE Safety'
  BY <1>25 DEF Board
<1>26. CASE UNCHANGED vars
  BY <1>26 DEF vars
<1>. HIDE DEF TypeOK, Safety
<1>. QED
  BY <1>1, <1>2, <1>3, <1>4, <1>5, <1>6, <1>7, <1>8, <1>9, <1>10, <1>11, <1>12, <1>13, <1>14,
     <1>15, <1>16, <1>17, <1>18, <1>19, <1>20, <1>21, <1>22, <1>23, <1>24, <1>25, <1>26
  DEF Next, Checkout, Gateway, SweepRow, Refunding

\* IInv is inductive.
LEMMA InvariantStep == IInv /\ [Next]_vars => IInv'
BY TypeStep, SafetyStep DEF IInv

\* IInv holds of every reachable state.
THEOREM Invariant == Spec => []IInv
<1>1. Init => IInv
  BY TypeInit, SafetyInit DEF IInv
<1>. QED
  BY <1>1, InvariantStep, PTL DEF Spec

\* The gate admits a ticket only while its booking is PAID.
THEOREM AdmissibleIsPaid == Spec => []AdmissibleMeansPaid
<1>1. IInv => AdmissibleMeansPaid
  BY DEF IInv, Safety
<1>. QED
  BY <1>1, Invariant, PTL

\* A booking that was ever paid, and a payment that succeeded, has its ticket.
THEOREM ConfirmedIsTicketed == Spec => []ConfirmedHasTicket
<1>1. IInv => ConfirmedHasTicket
  BY DEF IInv, Safety
<1>. QED
  BY <1>1, Invariant, PTL

\* No ticket exists for an order whose money was not captured.
THEOREM TicketIsCaptured == Spec => []TicketMeansCaptured
<1>1. IInv => TicketMeansCaptured
  BY DEF IInv, Safety
<1>. QED
  BY <1>1, Invariant, PTL

\* The database knows every order the gateway has.
THEOREM OrderHasRow == Spec => []OrderIsRecorded
<1>1. IInv => OrderIsRecorded
  BY DEF IInv, Safety
<1>. QED
  BY <1>1, Invariant, PTL

\* Nobody boards while, or after, their money is on its way back.
THEOREM RefundBarsEntry == Spec => []NoEntryUnderRefund
<1>1. IInv => NoEntryUnderRefund
  BY DEF IInv, Safety
<1>. QED
  BY <1>1, Invariant, PTL

\* A booking shows REFUNDED only when the gateway returned the money.
THEOREM RefundedIsReturned == Spec => []RefundedMeansReturned
<1>1. IInv => RefundedMeansReturned
  BY DEF IInv, Safety
<1>. QED
  BY <1>1, Invariant, PTL

-----------------------------------------------------------------------------
(* What a step may never do.                                               *)

\* A step changes tickets in one of four ways, each to one booking's ticket:
\* issue it where there is none, void it, board it, or leave all alone.
LEMMA TicketStep ==
  ASSUME TypeOK, [Next]_vars
  PROVE  \/ UNCHANGED ticket
         \/ /\ UNCHANGED <<order, refund>>
            /\ \E b \in Bookings :
                 \/ ticket[b] = Absent /\ ticket' = [ticket EXCEPT ![b] = "ACTIVE"]
                 \/ ticket[b] = "ACTIVE" /\ ticket' = [ticket EXCEPT ![b] = "CANCELLED"]
                 \/ ticket[b] = "ACTIVE" /\ ticket' = [ticket EXCEPT ![b] = "USED"]
<1>. DEFINE
  Withdraws(b) == ticket[b] = "ACTIVE" /\ ticket' = [ticket EXCEPT ![b] = "CANCELLED"]
  Grants(b) == ticket[b] = Absent /\ ticket' = [ticket EXCEPT ![b] = "ACTIVE"]
  Admits(b) == ticket[b] = "ACTIVE" /\ ticket' = [ticket EXCEPT ![b] = "USED"]
<1>0. ticket = [b \in Bookings |-> ticket[b]]
  BY DEF TypeOK
<1>1. ASSUME NEW b \in Bookings, ticket' = [ticket EXCEPT ![b] = Deactivate(@, "CANCELLED")]
      PROVE  UNCHANGED ticket \/ Withdraws(b)
  BY <1>0, <1>1 DEF Deactivate
<1>2. ASSUME NEW b \in Bookings, ticket' = [ticket EXCEPT ![b] = Issue(@)]
      PROVE  UNCHANGED ticket \/ Grants(b)
  BY <1>0, <1>2 DEF Issue
<1>3. ASSUME NEW e \in PaymentEvents, ProcessPaymentEvent(e)
      PROVE  \/ UNCHANGED ticket
             \/ \E b \in Bookings : Withdraws(b) \/ Grants(b)
  <2>. e.booking \in Bookings
    BY DEF PaymentEvents
  <2>1. CASE HandleSuccess(e)
    BY <2>1, <1>2 DEF HandleSuccess
  <2>2. CASE HandleRefund(e)
    BY <2>2, <1>1 DEF HandleRefund
  <2>. QED
    BY <1>3, <2>1, <2>2 DEF ProcessPaymentEvent, ClaimOnly, HandleFailure, rows
<1>4. ASSUME NEW w \in sent, DeliverWebhook(w)
      PROVE  \/ UNCHANGED ticket
             \/ /\ UNCHANGED <<order, refund>>
                /\ \E b \in Bookings : Withdraws(b) \/ Grants(b)
  BY <1>3, <1>4 DEF DeliverWebhook, TypeOK, gateway
<1>5. ASSUME NEW b \in Bookings, SweepConfirms(b)
      PROVE  \/ UNCHANGED ticket
             \/ /\ UNCHANGED <<order, refund>>
                /\ \E c \in Bookings : Withdraws(c) \/ Grants(c)
  <2>1. ReconcileEvent(b) \in PaymentEvents
    BY WebhookType DEF ReconcileEvent, Amounts
  <2>. QED
    BY <1>3, <1>5, <2>1 DEF SweepConfirms, gateway
<1>6. ASSUME NEW b \in Bookings, CancelBooking(b)
      PROVE  (UNCHANGED ticket \/ Withdraws(b)) /\ UNCHANGED <<order, refund>>
  BY <1>1, <1>6 DEF CancelBooking, gateway
<1>7. ASSUME NEW a \in Admins, NEW b \in Bookings, RefundVoids(a, b)
      PROVE  (UNCHANGED ticket \/ Withdraws(b)) /\ UNCHANGED <<order, refund>>
  BY <1>1, <1>7 DEF RefundVoids, gateway
<1>8. ASSUME NEW b \in Bookings, Board(b)
      PROVE  Admits(b) /\ UNCHANGED <<order, refund>>
  BY <1>8 DEF Board, gateway
<1>9. \/ UNCHANGED ticket
      \/ \E w \in sent : DeliverWebhook(w)
      \/ \E b \in Bookings : SweepConfirms(b) \/ CancelBooking(b) \/ Board(b)
      \/ \E a \in Admins, b \in Bookings : RefundVoids(a, b)
  BY DEF Next, Checkout, Gateway, SweepRow, Refunding, vars, rows,
         SubmitBooking, CheckPayable, RecordPayment, CreateOrder, CheckoutDies,
         AttemptFails, AttemptSucceeds, OrderCloses, RefundMoves, Age, SweepSelects,
         FetchOrderStatus, SweepCloses, SweepSkips, SweepDies,
         RefundFinds, RefundChecks, RefundSends, RefundFails, RefundRecords
<1>. QED
  BY <1>4, <1>5, <1>6, <1>7, <1>8, <1>9

\* A used or cancelled ticket stays as it is for ever.
THEOREM TicketIsFinal == Spec => TicketNeverRevives
<1>1. IInv /\ [Next]_vars
        => [\A b \in Bookings : ticket[b] \notin {Absent, "ACTIVE"} => ticket'[b] = ticket[b]]_vars
  BY TicketStep DEF IInv, TypeOK, Absent
<1>. QED
  BY <1>1, Invariant, PTL DEF Spec, TicketNeverRevives

\* Only a freshly claimed event makes a booking PAID.
THEOREM ConfirmedOnce == Spec => ConfirmationConsumesAnEvent
<1>. DEFINE Consumes == \A b \in Bookings :
              booking[b] # "PAID" /\ booking'[b] = "PAID" => \E id \in events' : id \notin events
<1>1. ASSUME TypeOK, [Next]_vars PROVE Consumes
  <2>1. ASSUME NEW e, ProcessPaymentEvent(e) PROVE Consumes
    BY <2>1 DEF ProcessPaymentEvent, rows
  <2>2. CASE \E w \in sent : DeliverWebhook(w)
    BY <2>1, <2>2 DEF DeliverWebhook
  <2>3. CASE \E b \in Bookings : SweepConfirms(b)
    BY <2>1, <2>3 DEF SweepConfirms
  <2>4. ASSUME NEW b \in Bookings, NEW status \in BookingStatuses \ {"PAID"},
               booking' = [booking EXCEPT ![b] = status] \/ UNCHANGED booking
        PROVE  Consumes
    BY <1>1, <2>4 DEF TypeOK
  <2>5. ASSUME NEW b \in Bookings,
               \/ SubmitBooking(b) \/ SweepCloses(b) \/ CancelBooking(b)
               \/ \E a \in Admins : RefundVoids(a, b)
        PROVE  Consumes
    <3>1. CASE SubmitBooking(b)
      BY <1>1, <2>4, <3>1 DEF TypeOK, SubmitBooking, BookingStatuses
    <3>2. CASE SweepCloses(b)
      BY <1>1, <2>4, <3>2 DEF TypeOK, SweepCloses, BookingStatuses
    <3>3. CASE CancelBooking(b)
      BY <2>4, <3>3 DEF CancelBooking, BookingStatuses
    <3>4. CASE \E a \in Admins : RefundVoids(a, b)
      BY <2>4, <3>4 DEF RefundVoids, BookingStatuses
    <3>. QED
      BY <2>5, <3>1, <3>2, <3>3, <3>4
  <2>6. CASE UNCHANGED booking
    BY <2>6
  <2>. HIDE DEF Consumes
  <2>. QED
    BY <1>1, <2>2, <2>3, <2>5, <2>6 DEF Next, Checkout, Gateway, SweepRow, Refunding, vars, rows,
         CheckPayable, RecordPayment, CreateOrder, CheckoutDies,
         AttemptFails, AttemptSucceeds, OrderCloses, RefundMoves, Age, SweepSelects,
         FetchOrderStatus, SweepSkips, SweepDies,
         RefundFinds, RefundChecks, RefundSends, RefundFails, RefundRecords, Board
<1>2. IInv /\ [Next]_vars => [Consumes]_vars
  BY <1>1 DEF IInv
<1>. QED
  BY <1>2, Invariant, PTL DEF Spec, ConfirmationConsumesAnEvent

-----------------------------------------------------------------------------
(* The protocol implements TicketPromise.                                  *)

\* The gateway's order and refund change in one of five ways.
LEMMA MoneyStep ==
  ASSUME TypeOK, [Next]_vars
  PROVE  \/ UNCHANGED <<order, refund>>
         \/ /\ UNCHANGED <<ticket, refund>>
            /\ \E b \in Bookings :
                 \/ order[b] = Absent /\ order' = [order EXCEPT ![b] = "ACTIVE"]
                 \/ /\ order[b] = "ACTIVE"
                    /\ \E s \in {"PAID", "EXPIRED", "TERMINATED"} : order' = [order EXCEPT ![b] = s]
         \/ /\ UNCHANGED <<ticket, order>>
            /\ \E b \in Bookings :
                 \/ refund[b] = Absent /\ refund' = [refund EXCEPT ![b] = "PENDING"]
                 \/ /\ refund[b] = "PENDING"
                    /\ \E s \in {"PENDING", "SUCCESS", "FAILED"} : refund' = [refund EXCEPT ![b] = s]
<1>0. order = [b \in Bookings |-> order[b]] /\ refund = [b \in Bookings |-> refund[b]]
  BY DEF TypeOK
<1>1. ASSUME NEW b \in Bookings, CreateOrder(b)
      PROVE  /\ UNCHANGED <<ticket, refund>>
             /\ \/ UNCHANGED order
                \/ order[b] = Absent /\ order' = [order EXCEPT ![b] = "ACTIVE"]
  BY <1>0, <1>1 DEF CreateOrder
<1>2. ASSUME NEW a \in Admins, NEW b \in Bookings, NEW answered \in BOOLEAN,
             RefundSends(a, b, answered)
      PROVE  /\ UNCHANGED <<ticket, order>>
             /\ \/ UNCHANGED refund
                \/ refund[b] = Absent /\ refund' = [refund EXCEPT ![b] = "PENDING"]
  BY <1>0, <1>2 DEF RefundSends, rows
<1>3. ASSUME NEW b \in Bookings, NEW p \in PaymentIds, NEW amount \in Amounts,
             AttemptSucceeds(b, p, amount)
      PROVE  order[b] = "ACTIVE" /\ order' = [order EXCEPT ![b] = "PAID"] /\ UNCHANGED <<ticket, refund>>
  BY <1>3 DEF AttemptSucceeds, rows
<1>4. ASSUME NEW b \in Bookings, NEW s \in {"EXPIRED", "TERMINATED"}, OrderCloses(b, s)
      PROVE  order[b] = "ACTIVE" /\ order' = [order EXCEPT ![b] = s] /\ UNCHANGED <<ticket, refund>>
  BY <1>4 DEF OrderCloses, rows
<1>5. ASSUME NEW b \in Bookings, NEW s \in {"PENDING", "SUCCESS", "FAILED"}, RefundMoves(b, s)
      PROVE  refund[b] = "PENDING" /\ refund' = [refund EXCEPT ![b] = s] /\ UNCHANGED <<ticket, order>>
  BY <1>5 DEF RefundMoves, rows
<1>6. \/ UNCHANGED <<order, refund>>
      \/ \E b \in Bookings :
           \/ CreateOrder(b)
           \/ \E p \in PaymentIds, amount \in Amounts : AttemptSucceeds(b, p, amount)
           \/ \E s \in {"EXPIRED", "TERMINATED"} : OrderCloses(b, s)
           \/ \E s \in {"PENDING", "SUCCESS", "FAILED"} : RefundMoves(b, s)
           \/ \E a \in Admins, answered \in BOOLEAN : RefundSends(a, b, answered)
  BY DEF Next, Checkout, Gateway, SweepRow, Refunding, vars, gateway,
         SubmitBooking, CheckPayable, RecordPayment, CheckoutDies,
         AttemptFails, Age, SweepSelects, FetchOrderStatus, SweepConfirms, SweepCloses,
         SweepSkips, SweepDies, DeliverWebhook, CancelBooking,
         RefundFinds, RefundChecks, RefundVoids, RefundFails, RefundRecords, Board
<1>. QED
  BY <1>1, <1>2, <1>3, <1>4, <1>5, <1>6

\* Every step of the protocol is a step of the promise, or none of its concern.
LEMMA PromiseStep == IInv /\ [Next]_vars => [Promise!PromiseNext]_(Promise!promiseVars)
<1>. SUFFICES ASSUME IInv, [Next]_vars
              PROVE  Promise!PromiseNext \/ UNCHANGED Promise!promiseVars
  OBVIOUS
<1>. DEFINE money == [b \in Bookings |-> MoneyOf(b)]
            entry == [b \in Bookings |-> EntryOf(b)]
<1>0. TypeOK /\ Safety
  BY DEF IInv
<1>1. CASE UNCHANGED <<ticket, order, refund>>
  BY <1>1 DEF Promise!promiseVars, MoneyOf, EntryOf
<1>2. ASSUME NEW b \in Bookings, NEW s \in TicketStatuses, UNCHANGED <<order, refund>>,
             ticket' = [ticket EXCEPT ![b] = s]
      PROVE  /\ UNCHANGED money
             /\ entry' = [entry EXCEPT ![b] = IF s = "ACTIVE" THEN "admits"
                                               ELSE IF s = "USED" THEN "spent" ELSE "void"]
  <2>1. UNCHANGED money
    BY <1>2 DEF MoneyOf
  <2>2. \A c \in Bookings : ticket'[c] = IF c = b THEN s ELSE ticket[c]
    BY <1>0, <1>2 DEF TypeOK
  <2>3. EntryOf(b)' = IF s = "ACTIVE" THEN "admits" ELSE IF s = "USED" THEN "spent" ELSE "void"
    BY <2>2 DEF EntryOf, TicketStatuses, Absent
  <2>4. \A c \in Bookings \ {b} : EntryOf(c)' = EntryOf(c)
    BY <2>2 DEF EntryOf
  <2>. QED
    BY <2>1, <2>3, <2>4
<1>3. ASSUME NEW b \in Bookings, UNCHANGED <<order, refund>>,
             ticket[b] = Absent, ticket' = [ticket EXCEPT ![b] = "ACTIVE"],
             ticket'[b] # Absent => order'[b] = "PAID"
      PROVE  Promise!Grant(b)
  <2>1. order[b] = "PAID" /\ refund[b] # "SUCCESS"
    BY <1>0, <1>3 DEF TypeOK, Safety, NoEntryUnderRefund, Absent
  <2>2. money[b] = "captured" /\ entry[b] = "none"
    BY <1>3, <2>1 DEF MoneyOf, EntryOf, Absent
  <2>. QED
    BY <1>2, <1>3, <2>2 DEF Promise!Grant, TicketStatuses
<1>4. ASSUME NEW b \in Bookings, UNCHANGED <<order, refund>>,
             ticket[b] = "ACTIVE", ticket' = [ticket EXCEPT ![b] = "CANCELLED"]
      PROVE  Promise!Withdraw(b)
  <2>1. entry[b] = "admits"
    BY <1>4 DEF EntryOf, Absent
  <2>. QED
    BY <1>2, <1>4, <2>1 DEF Promise!Withdraw, TicketStatuses
<1>5. ASSUME NEW b \in Bookings, UNCHANGED <<order, refund>>,
             ticket[b] = "ACTIVE", ticket' = [ticket EXCEPT ![b] = "USED"]
      PROVE  Promise!Admit(b)
  <2>1. entry[b] = "admits"
    BY <1>5 DEF EntryOf, Absent
  <2>. QED
    BY <1>2, <1>5, <2>1 DEF Promise!Admit, TicketStatuses
<1>6. ASSUME NEW b \in Bookings, NEW s \in {"ACTIVE", "PAID", "EXPIRED", "TERMINATED"},
             UNCHANGED <<ticket, refund>>, order[b] # "PAID", order' = [order EXCEPT ![b] = s]
      PROVE  Promise!Capture(b) \/ UNCHANGED Promise!promiseVars
  <2>1. refund[b] # "SUCCESS"
    BY <1>0, <1>6 DEF Safety, NoEntryUnderRefund, TicketMeansCaptured, Absent
  <2>2. UNCHANGED entry
    BY <1>6 DEF EntryOf
  <2>3. money' = [money EXCEPT ![b] = IF s = "PAID" THEN "captured" ELSE "owed"]
    BY <1>0, <1>6, <2>1 DEF TypeOK, MoneyOf
  <2>4. money[b] = "owed"
    BY <1>6, <2>1 DEF MoneyOf
  <2>. QED
    BY <2>2, <2>3, <2>4 DEF Promise!Capture, Promise!promiseVars
<1>7. ASSUME NEW b \in Bookings, NEW s \in {"PENDING", "SUCCESS", "FAILED"},
             UNCHANGED <<ticket, order>>, refund[b] \in {Absent, "PENDING"},
             refund' = [refund EXCEPT ![b] = s], s = "SUCCESS" => refund[b] = "PENDING"
      PROVE  Promise!Return(b) \/ UNCHANGED Promise!promiseVars
  <2>1. UNCHANGED entry
    BY <1>7 DEF EntryOf
  <2>2. CASE s = "SUCCESS"
    <3>1. ticket[b] \in {"USED", "CANCELLED"} /\ order[b] = "PAID"
      BY <1>0, <1>7, <2>2 DEF Safety, NoEntryUnderRefund, TicketMeansCaptured, Absent
    <3>2. entry[b] \in {"spent", "void"} /\ money[b] = "captured"
      BY <1>7, <3>1 DEF EntryOf, MoneyOf, Absent
    <3>3. money' = [money EXCEPT ![b] = "returned"]
      BY <1>0, <1>7, <2>2 DEF TypeOK, MoneyOf
    <3>. QED
      BY <2>1, <3>2, <3>3 DEF Promise!Return
  <2>3. CASE s # "SUCCESS"
    <3>1. UNCHANGED money
      BY <1>0, <1>7, <2>3 DEF TypeOK, MoneyOf, Absent
    <3>. QED
      BY <2>1, <3>1 DEF Promise!promiseVars
  <2>. QED
    BY <2>2, <2>3
<1>8. CASE UNCHANGED ticket /\ ~UNCHANGED <<order, refund>>
  BY <1>0, <1>6, <1>7, <1>8, MoneyStep DEF Promise!PromiseNext, Absent
<1>9. CASE ~UNCHANGED ticket
  <2>1. \A b \in Bookings : ticket'[b] # Absent => order'[b] = "PAID"
    BY InvariantStep DEF IInv, Safety, TicketMeansCaptured
  <2>. QED
    BY <1>0, <1>3, <1>4, <1>5, <1>9, <2>1, TicketStep DEF Promise!PromiseNext
<1>. QED
  BY <1>1, <1>8, <1>9

\* Whatever the gateway, the sweep, the administrators and the gate do, and in
\* whatever order, money and entry move as TicketPromise says.
THEOREM Refinement == Spec => KeepsPromise
<1>1. Init => Promise!PromiseInit
  BY DEF Init, Promise!PromiseInit, MoneyOf, EntryOf, Absent
<1>. QED
  BY <1>1, PromiseStep, Invariant, PTL DEF Spec, KeepsPromise, Promise!PromiseSpec

=============================================================================
