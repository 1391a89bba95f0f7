--------------------------- MODULE OnlinePayment ---------------------------
(***************************************************************************)
(* The life of an online booking: the checkout that creates it, the        *)
(* gateway's webhooks, the reconciliation sweep that stands in for a lost  *)
(* webhook, an administrator's cancellation or refund, and the gate.       *)
(*                                                                         *)
(* A database transaction that locks the booking row is one action.  Where *)
(* the code reads without a lock, or awaits the gateway, the operation is  *)
(* split there, and anything else may happen in between.  The gateway      *)
(* itself (orders, payment attempts, refunds, webhooks in flight) is       *)
(* external: it is modelled from what src/ sends it and accepts from it.   *)
(***************************************************************************)
EXTENDS BookingStatus, Integers, FiniteSets

CONSTANTS
  Bookings,      \* online bookings (one booking form each)
  PaymentIds,    \* cf_payment_id: the gateway's payment attempts
  Admins,        \* administrators who may press "Refund" at the same time
  RefundReports, \* the refund_status values the gateway sends webhooks for
  SweepLimit,    \* the .limit(100) of the reconciliation query
  NoId           \* SQL NULL, for a payment id

ASSUME NoIdAssumption == NoId \notin PaymentIds
ASSUME ReportsAssumption == RefundReports \subseteq {"PENDING", "SUCCESS", "FAILED"}
ASSUME SweepLimitAssumption == SweepLimit \in Nat \ {0}

VARIABLES
  \* Postgres
  booking,       \* bookings.status
  ticket,        \* tickets.status; the row exists at most once per booking
  paymentStatus, \* payments.status of the order LS-<code>
  paymentId,     \* payments.provider_payment_id
  events,        \* payment_events.provider_event_id, the claimed ids
  age,           \* where now() - bookings.created_at stands for the sweep
  \* requests and jobs in progress
  checkout,      \* startBookingAction, per booking
  sweep,         \* reconcilePayments, per row it selected
  refunding,     \* refundOnlineBooking, per administrator and booking
  \* the gateway
  order,         \* its order
  refund,        \* its refund RF-<code>
  sent           \* every webhook it ever emitted

rows == <<booking, ticket, paymentStatus, paymentId>>
gateway == <<order, refund, sent>>
vars == <<booking, ticket, paymentStatus, paymentId, events, age,
          checkout, sweep, refunding, order, refund, sent>>

Amounts == {"expected", "different", "absent"}

\* A webhook body, or what reconciliation synthesises for a paid order.
PaymentEvents ==
  [type : {"PAYMENT_SUCCESS", "PAYMENT_FAILED", "REFUND_STATUS", "RECONCILE"},
   status : {"PENDING", "SUCCESS", "FAILED"},
   booking : Bookings,
   pid : PaymentIds \union {NoId},
   amount : Amounts]

TypeOK ==
  /\ booking \in [Bookings -> BookingStatuses \union {Absent}]
  /\ ticket \in [Bookings -> TicketStatuses \union {Absent}]
  /\ paymentStatus \in
       [Bookings -> {Absent, "PENDING", "SUCCESS", "FAILED", "REFUND_PENDING", "REFUNDED"}]
  /\ paymentId \in [Bookings -> PaymentIds \union {NoId}]
  /\ events \subseteq ({"PAYMENT_SUCCESS", "PAYMENT_FAILED", "REFUND_STATUS", "RECONCILE"}
                       \X (PaymentIds \union Bookings))
  /\ age \in [Bookings -> {"FRESH", "DUE", "LAPSED"}]
  /\ checkout \in [Bookings -> {"IDLE", "CREATED", "PAYABLE", "RECORDED"}]
  /\ sweep \in [Bookings -> {"IDLE", "LISTED", "PAID", "CLOSED"}]
  /\ refunding \in [Admins \X Bookings -> {"IDLE", "FOUND", "CHECKED", "VOIDED", "SENT"}]
  /\ order \in [Bookings -> {Absent, "ACTIVE", "PAID", "EXPIRED", "TERMINATED"}]
  /\ refund \in [Bookings -> {Absent, "PENDING", "SUCCESS", "FAILED"}]
  /\ sent \subseteq PaymentEvents

Init ==
  /\ booking = [b \in Bookings |-> Absent]
  /\ ticket = [b \in Bookings |-> Absent]
  /\ paymentStatus = [b \in Bookings |-> Absent]
  /\ paymentId = [b \in Bookings |-> NoId]
  /\ events = {}
  /\ age = [b \in Bookings |-> "FRESH"]
  /\ checkout = [b \in Bookings |-> "IDLE"]
  /\ sweep = [b \in Bookings |-> "IDLE"]
  /\ refunding = [ab \in Admins \X Bookings |-> "IDLE"]
  /\ order = [b \in Bookings |-> Absent]
  /\ refund = [b \in Bookings |-> Absent]
  /\ sent = {}

-----------------------------------------------------------------------------
(* The checkout: createOnlineBooking, then startOnlinePayment.             *)

\* A first submit inserts the booking; a retry with the same idempotency key
\* gets the row that exists, whatever has become of it.
SubmitBooking(b) ==
  /\ checkout[b] = "IDLE"
  /\ booking' = [booking EXCEPT ![b] = IF @ = Absent THEN "PENDING" ELSE @]
  /\ checkout' = [checkout EXCEPT ![b] = "CREATED"]
  /\ UNCHANGED <<ticket, paymentStatus, paymentId, events, age, sweep, refunding,
                 order, refund, sent>>

\* An unlocked read: BOOKING_NOT_PAYABLE unless the booking is still PENDING.
CheckPayable(b) ==
  /\ checkout[b] = "CREATED"
  /\ checkout' = [checkout EXCEPT ![b] = IF booking[b] = "PENDING" THEN "PAYABLE" ELSE "IDLE"]
  /\ UNCHANGED <<booking, ticket, paymentStatus, paymentId, events, age, sweep, refunding,
                 order, refund, sent>>

\* The payment row is written before the gateway is called.
RecordPayment(b) ==
  /\ checkout[b] = "PAYABLE"
  /\ paymentStatus' = [paymentStatus EXCEPT ![b] = IF @ = Absent THEN "PENDING" ELSE @]
  /\ checkout' = [checkout EXCEPT ![b] = "RECORDED"]
  /\ UNCHANGED <<booking, ticket, paymentId, events, age, sweep, refunding,
                 order, refund, sent>>

\* Mutant: the gateway is called before the payment row is written.
CreateOrderFirst(b) ==
  /\ checkout[b] = "PAYABLE"
  /\ order' = [order EXCEPT ![b] = IF @ = Absent THEN "ACTIVE" ELSE @]
  /\ checkout' = [checkout EXCEPT ![b] = "IDLE"]
  /\ UNCHANGED <<booking, ticket, paymentStatus, paymentId, events, age, sweep, refunding,
                 refund, sent>>

\* The gateway opens the order, or hands back the one it already has.
CreateOrder(b) ==
  /\ checkout[b] = "RECORDED"
  /\ order' = [order EXCEPT ![b] = IF @ = Absent THEN "ACTIVE" ELSE @]
  /\ checkout' = [checkout EXCEPT ![b] = "IDLE"]
  /\ UNCHANGED <<booking, ticket, paymentStatus, paymentId, events, age, sweep, refunding,
                 refund, sent>>

\* The request dies between two of its steps: a crash, a timeout, a gateway
\* error.  What it committed stays.
CheckoutDies(b) ==
  /\ checkout[b] # "IDLE"
  /\ checkout' = [checkout EXCEPT ![b] = "IDLE"]
  /\ UNCHANGED <<booking, ticket, paymentStatus, paymentId, events, age, sweep, refunding,
                 order, refund, sent>>

-----------------------------------------------------------------------------
(* The gateway (external).                                                 *)

Webhook(type, status, b, p, amount) ==
  [type |-> type, status |-> status, booking |-> b, pid |-> p, amount |-> amount]

\* A payment attempt gets an id of its own and is reported by one webhook.
UnusedId(p) == \A w \in sent : w.pid # p

\* The customer's attempt fails or is dropped.  The order stays open, so the
\* same checkout page lets them try again.
AttemptFails(b, p) ==
  /\ order[b] = "ACTIVE"
  /\ UnusedId(p)
  /\ sent' = sent \union {Webhook("PAYMENT_FAILED", "FAILED", b, p, "absent")}
  /\ UNCHANGED <<rows, events, age, checkout, sweep, refunding, order, refund>>

\* The money is captured: from here on the order is PAID for good.
AttemptSucceeds(b, p, amount) ==
  /\ order[b] = "ACTIVE"
  /\ UnusedId(p)
  /\ order' = [order EXCEPT ![b] = "PAID"]
  /\ sent' = sent \union {Webhook("PAYMENT_SUCCESS", "SUCCESS", b, p, amount)}
  /\ UNCHANGED <<rows, events, age, checkout, sweep, refunding, refund>>

OrderCloses(b, status) ==
  /\ order[b] = "ACTIVE"
  /\ order' = [order EXCEPT ![b] = status]
  /\ UNCHANGED <<rows, events, age, checkout, sweep, refunding, refund, sent>>

\* A refund in progress is reported as such, or settles one way or the other.
RefundMoves(b, status) ==
  /\ refund[b] = "PENDING"
  /\ refund' = [refund EXCEPT ![b] = status]
  /\ sent' = IF status \in RefundReports
             THEN sent \union {Webhook("REFUND_STATUS", status, b, NoId, "expected")}
             ELSE sent
  /\ UNCHANGED <<rows, events, age, checkout, sweep, refunding, order>>

-----------------------------------------------------------------------------
(* processPaymentEvent: what a verified webhook, or the sweep, does.       *)

\* Mutant: one id per order, whatever the event.
EventIdOfOrder(e) == <<"PAYMENT_SUCCESS", e.booking>>

\* normalizeEvent: the deterministic id.  A refund's id has no status in it.
EventId(e) == <<e.type, IF e.pid = NoId THEN e.booking ELSE e.pid>>

\* Mutant: a refund webhook of any status completes the refund.
EventKindOfType(e) ==
  CASE e.type = "REFUND_STATUS" -> "REFUND_SUCCESS"
    [] e.type # "REFUND_STATUS" /\ e.status = "SUCCESS" -> "PAYMENT_SUCCESS"
    [] OTHER -> "PAYMENT_FAILED"

EventKind(e) ==
  CASE e.type = "REFUND_STATUS" /\ e.status = "SUCCESS" -> "REFUND_SUCCESS"
    [] e.type # "REFUND_STATUS" /\ e.status = "SUCCESS" -> "PAYMENT_SUCCESS"
    [] e.type # "REFUND_STATUS" /\ e.status = "FAILED" -> "PAYMENT_FAILED"
    [] OTHER -> "UNKNOWN"

\* handleSuccess refuses an absent or different amount without confirming.
Confirms(e) == EventKind(e) = "PAYMENT_SUCCESS" /\ e.amount = "expected"

\* Committed with nothing but the claim: unknown order, mismatch, no handler.
OnlyClaimed(e) ==
  \/ paymentStatus[e.booking] = Absent
  \/ EventKind(e) = "UNKNOWN"
  \/ EventKind(e) = "PAYMENT_SUCCESS" /\ ~Confirms(e)

\* The transaction throws InvalidTransitionError, and everything it did, the
\* claim of the event included, rolls back.
RollsBack(e) == ~OnlyClaimed(e) /\ Confirms(e) /\ ~MayBecome(booking[e.booking], "PAID")

ClaimOnly(e) ==
  /\ OnlyClaimed(e)
  /\ UNCHANGED rows

\* Mutant: the booking is confirmed and the ticket left for later.
HandleSuccessUnticketed(e) ==
  /\ ~OnlyClaimed(e)
  /\ Confirms(e)
  /\ paymentStatus' = [paymentStatus EXCEPT ![e.booking] = "SUCCESS"]
  /\ paymentId' = [paymentId EXCEPT ![e.booking] = e.pid]
  /\ booking' = [booking EXCEPT ![e.booking] = "PAID"]
  /\ UNCHANGED ticket

HandleSuccess(e) ==
  /\ ~OnlyClaimed(e)
  /\ Confirms(e)
  /\ paymentStatus' = [paymentStatus EXCEPT ![e.booking] = "SUCCESS"]
  /\ paymentId' = [paymentId EXCEPT ![e.booking] = e.pid]
  /\ booking' = [booking EXCEPT ![e.booking] = "PAID"]
  /\ ticket' = [ticket EXCEPT ![e.booking] = Issue(@)]

HandleFailure(e) ==
  /\ ~OnlyClaimed(e)
  /\ EventKind(e) = "PAYMENT_FAILED"
  /\ paymentStatus' = [paymentStatus EXCEPT ![e.booking] = "FAILED"]
  /\ paymentId' = [paymentId EXCEPT ![e.booking] = e.pid]
  /\ booking' = [booking EXCEPT ![e.booking] = IF @ = "PENDING" THEN "FAILED" ELSE @]
  /\ UNCHANGED ticket

HandleRefund(e) ==
  /\ ~OnlyClaimed(e)
  /\ EventKind(e) = "REFUND_SUCCESS"
  /\ paymentStatus' = [paymentStatus EXCEPT ![e.booking] = "REFUNDED"]
  /\ IF booking[e.booking] \in {"REFUND_PENDING", "PAID"}
     THEN /\ booking' = [booking EXCEPT ![e.booking] = "REFUNDED"]
          /\ ticket' = [ticket EXCEPT ![e.booking] = Deactivate(@, "CANCELLED")]
     ELSE UNCHANGED <<booking, ticket>>
  /\ UNCHANGED paymentId

\* Mutant: the event is logged, but a replay is processed again.
ProcessReplays(e) ==
  IF RollsBack(e)
  THEN UNCHANGED <<rows, events>>
  ELSE /\ events' = events \union {EventId(e)}
       /\ ClaimOnly(e) \/ HandleSuccess(e) \/ HandleFailure(e) \/ HandleRefund(e)

\* A replayed id is a DUPLICATE and changes nothing; nor does a rollback.
ProcessPaymentEvent(e) ==
  IF EventId(e) \in events \/ RollsBack(e)
  THEN UNCHANGED <<rows, events>>
  ELSE /\ events' = events \union {EventId(e)}
       /\ ClaimOnly(e) \/ HandleSuccess(e) \/ HandleFailure(e) \/ HandleRefund(e)

\* The webhook route.  The gateway may deliver a webhook late, out of order,
\* many times, or never.
DeliverWebhook(w) ==
  /\ w \in sent
  /\ ProcessPaymentEvent(w)
  /\ UNCHANGED <<age, checkout, sweep, refunding, gateway>>

-----------------------------------------------------------------------------
(* reconcilePayments, every two minutes.                                   *)

\* Time passes for a booking that is still waiting for its payment: past
\* RECONCILE_MIN_AGE_MINUTES, then past MAX_AGE_HOURS.
Age(b) ==
  /\ booking[b] = "PENDING"
  /\ age[b] # "LAPSED"
  /\ age' = [age EXCEPT ![b] = IF @ = "FRESH" THEN "DUE" ELSE "LAPSED"]
  /\ UNCHANGED <<rows, events, checkout, sweep, refunding, gateway>>

StaleRows ==
  {b \in Bookings : booking[b] = "PENDING" /\ paymentStatus[b] # Absent /\ age[b] = "DUE"}

\* The SELECT has a LIMIT and no ORDER BY: which rows it returns is arbitrary.
SweepSelects(S) ==
  /\ \A b \in Bookings : sweep[b] = "IDLE"
  /\ S # {} /\ S \subseteq StaleRows
  /\ Cardinality(S) <= SweepLimit
  /\ S = StaleRows \/ Cardinality(S) = SweepLimit
  /\ sweep' = [b \in Bookings |-> IF b \in S THEN "LISTED" ELSE "IDLE"]
  /\ UNCHANGED <<rows, events, age, checkout, refunding, gateway>>

\* The rows are handled one after the other.
NoRowInHand == \A b \in Bookings : sweep[b] \in {"IDLE", "LISTED"}

\* Mutants: an open order counts as paid; the gateway's word is kept as it is;
\* a paid order is taken for one still open.
FetchedStateOpenIsPaid(b) == IF order[b] \in {"PAID", "ACTIVE"} THEN "PAID" ELSE "CLOSED"
FetchedStateRaw(b) == order[b]
FetchedStateMissesPaid(b) == IF order[b] \in {"EXPIRED", "TERMINATED"} THEN "CLOSED" ELSE "IDLE"

\* fetchOrderStatus: an ACTIVE order is left for the next sweep.
FetchedState(b) ==
  CASE order[b] = "PAID" -> "PAID"
    [] order[b] \in {"EXPIRED", "TERMINATED"} -> "CLOSED"
    [] OTHER -> "IDLE"

FetchOrderStatus(b) ==
  /\ sweep[b] = "LISTED"
  /\ NoRowInHand
  /\ sweep' = [sweep EXCEPT ![b] = FetchedState(b)]
  /\ UNCHANGED <<rows, events, age, checkout, refunding, gateway>>

\* The order endpoint carries the order's own amount and no payment id.
ReconcileEvent(b) == Webhook("RECONCILE", "SUCCESS", b, NoId, "expected")

SweepConfirms(b) ==
  /\ sweep[b] = "PAID"
  /\ ProcessPaymentEvent(ReconcileEvent(b))
  /\ sweep' = [sweep EXCEPT ![b] = "IDLE"]
  /\ UNCHANGED <<age, checkout, refunding, gateway>>

\* The order is gone: transitionBooking to FAILED, or its error is logged.
SweepCloses(b) ==
  /\ sweep[b] = "CLOSED"
  /\ booking' = [booking EXCEPT ![b] = IF MayBecome(@, "FAILED") THEN "FAILED" ELSE @]
  /\ sweep' = [sweep EXCEPT ![b] = "IDLE"]
  /\ UNCHANGED <<ticket, paymentStatus, paymentId, events, age, checkout, refunding, gateway>>

\* The gateway does not answer for this row, and the sweep goes on.
SweepSkips(b) ==
  /\ sweep[b] = "LISTED"
  /\ NoRowInHand
  /\ sweep' = [sweep EXCEPT ![b] = "IDLE"]
  /\ UNCHANGED <<rows, events, age, checkout, refunding, gateway>>

\* The worker dies with a sweep in hand; a later tick starts over.
SweepDies ==
  /\ \E b \in Bookings : sweep[b] # "IDLE"
  /\ sweep' = [b \in Bookings |-> "IDLE"]
  /\ UNCHANGED <<rows, events, age, checkout, refunding, gateway>>

-----------------------------------------------------------------------------
(* Administrators: cancelBooking and refundOnlineBooking.                  *)

CancelBooking(b) ==
  /\ booking[b] # Absent
  /\ MayBecome(booking[b], "CANCELLED")
  /\ booking' = [booking EXCEPT ![b] = "CANCELLED"]
  /\ ticket' = [ticket EXCEPT ![b] = Deactivate(@, "CANCELLED")]
  /\ UNCHANGED <<paymentStatus, paymentId, events, age, checkout, sweep, refunding, gateway>>

\* Two unlocked reads.  The booking must be PAID (NOT_REFUNDABLE) ...
RefundFinds(a, b) ==
  /\ refunding[<<a, b>>] = "IDLE"
  /\ booking[b] = "PAID"
  /\ refunding' = [refunding EXCEPT ![<<a, b>>] = "FOUND"]
  /\ UNCHANGED <<rows, events, age, checkout, sweep, gateway>>

\* ... and its payment must carry an id (NO_PAYMENT_RECORD).
RefundChecks(a, b) ==
  /\ refunding[<<a, b>>] = "FOUND"
  /\ refunding' = [refunding EXCEPT ![<<a, b>>] =
                     IF paymentId[b] # NoId THEN "CHECKED" ELSE "IDLE"]
  /\ UNCHANGED <<rows, events, age, checkout, sweep, gateway>>

\* The transaction that voids the ticket first; it throws if the booking has
\* meanwhile left PAID for anything but REFUND_PENDING.
RefundVoids(a, b) ==
  /\ refunding[<<a, b>>] = "CHECKED"
  /\ IF MayBecome(booking[b], "REFUND_PENDING")
     THEN /\ booking' = [booking EXCEPT ![b] = "REFUND_PENDING"]
          /\ ticket' = [ticket EXCEPT ![b] = Deactivate(@, "CANCELLED")]
          /\ refunding' = [refunding EXCEPT ![<<a, b>>] = "VOIDED"]
     ELSE /\ refunding' = [refunding EXCEPT ![<<a, b>>] = "IDLE"]
          /\ UNCHANGED <<booking, ticket>>
  /\ UNCHANGED <<paymentStatus, paymentId, events, age, checkout, sweep, gateway>>

\* Mutant: the gateway is called before the ticket is voided.
RefundSendsFirst(a, b, answered) ==
  /\ refunding[<<a, b>>] = "CHECKED"
  /\ order[b] = "PAID"
  /\ refund' = [refund EXCEPT ![b] = IF @ = Absent THEN "PENDING" ELSE @]
  /\ refunding' = [refunding EXCEPT ![<<a, b>>] = IF answered THEN "SENT" ELSE "IDLE"]
  /\ UNCHANGED <<rows, events, age, checkout, sweep, order, sent>>

\* provider.refund with the deterministic refund id: the gateway opens the
\* refund or returns the one it has.  Its answer may be lost on the way back,
\* which the code takes for a failure.
RefundSends(a, b, answered) ==
  /\ refunding[<<a, b>>] = "VOIDED"
  /\ order[b] = "PAID"
  /\ refund' = [refund EXCEPT ![b] = IF @ = Absent THEN "PENDING" ELSE @]
  /\ refunding' = [refunding EXCEPT ![<<a, b>>] = IF answered THEN "SENT" ELSE "IDLE"]
  /\ UNCHANGED <<rows, events, age, checkout, sweep, order, sent>>

\* provider.refund fails (REFUND_FAILED), or the server dies in the middle.
RefundFails(a, b) ==
  /\ refunding[<<a, b>>] # "IDLE"
  /\ refunding' = [refunding EXCEPT ![<<a, b>>] = "IDLE"]
  /\ UNCHANGED <<rows, events, age, checkout, sweep, gateway>>

\* Outside any transaction, and whatever a webhook has written meanwhile.
RefundRecords(a, b) ==
  /\ refunding[<<a, b>>] = "SENT"
  /\ paymentStatus' = [paymentStatus EXCEPT ![b] = "REFUND_PENDING"]
  /\ refunding' = [refunding EXCEPT ![<<a, b>>] = "IDLE"]
  /\ UNCHANGED <<booking, ticket, paymentId, events, age, checkout, sweep, gateway>>

-----------------------------------------------------------------------------
(* The gate.  confirmBoarding looks at the ticket alone; its visit-date    *)
(* guard only restricts when this may happen, and this module has no days. *)

Board(b) ==
  /\ ticket[b] = "ACTIVE"
  /\ ticket' = [ticket EXCEPT ![b] = "USED"]
  /\ UNCHANGED <<booking, paymentStatus, paymentId, events, age, checkout, sweep,
                 refunding, gateway>>

-----------------------------------------------------------------------------
Checkout(b) ==
  SubmitBooking(b) \/ CheckPayable(b) \/ RecordPayment(b) \/ CreateOrder(b) \/ CheckoutDies(b)

Gateway(b) ==
  \/ \E p \in PaymentIds :
       AttemptFails(b, p) \/ \E amount \in Amounts : AttemptSucceeds(b, p, amount)
  \/ \E status \in {"EXPIRED", "TERMINATED"} : OrderCloses(b, status)
  \/ \E status \in {"PENDING", "SUCCESS", "FAILED"} : RefundMoves(b, status)

SweepRow(b) == FetchOrderStatus(b) \/ SweepConfirms(b) \/ SweepCloses(b) \/ SweepSkips(b)

Refunding(a, b) ==
  \/ RefundFinds(a, b) \/ RefundChecks(a, b) \/ RefundVoids(a, b)
  \/ \E answered \in BOOLEAN : RefundSends(a, b, answered)
  \/ RefundFails(a, b) \/ RefundRecords(a, b)

Next ==
  \/ \E b \in Bookings :
       Checkout(b) \/ Gateway(b) \/ Age(b) \/ SweepRow(b) \/ CancelBooking(b) \/ Board(b)
  \/ \E S \in SUBSET Bookings : SweepSelects(S)
  \/ SweepDies
  \/ \E w \in sent : DeliverWebhook(w)
  \/ \E a \in Admins, b \in Bookings : Refunding(a, b)

Spec == Init /\ [][Next]_vars

-----------------------------------------------------------------------------
(* Fairness.                                                               *)

\* pg-boss schedules a sweep every two minutes, and the gateway answers
\* infinitely often: a sweep that dies or a row that is skipped is tried again,
\* so these steps are strongly fair.  A waiting booking comes of age for the
\* sweep; that it also grows too old for it is never assumed.
SweepFairness ==
  /\ WF_vars(\E S \in SUBSET Bookings : SweepSelects(S))
  /\ \A b \in Bookings : WF_vars(age[b] = "FRESH" /\ Age(b))
  /\ \A b \in Bookings :
       SF_vars(FetchOrderStatus(b)) /\ SF_vars(SweepConfirms(b)) /\ SF_vars(SweepCloses(b))

\* The gateway repeats the report of a refund until it is answered 200.  Nothing
\* of the kind is assumed of payment webhooks, which may all be lost.
RefundWebhooks ==
  { Webhook("REFUND_STATUS", status, b, NoId, "expected") :
      b \in Bookings, status \in RefundReports }
WebhookFairness == \A w \in RefundWebhooks : WF_vars(DeliverWebhook(w))

\* An administrator told to retry keeps retrying, and not every call fails.
RefundFairness ==
  \A a \in Admins, b \in Bookings :
    /\ SF_vars(RefundFinds(a, b)) /\ SF_vars(RefundChecks(a, b)) /\ SF_vars(RefundVoids(a, b))
    /\ SF_vars(RefundSends(a, b, TRUE)) /\ SF_vars(RefundRecords(a, b))

LiveSpec == Spec /\ SweepFairness /\ WebhookFairness
RefundSpec == Spec /\ RefundFairness

-----------------------------------------------------------------------------
(* Safety.                                                                 *)

\* A ticket the gate would admit belongs to a booking that is PAID at that
\* moment: every path that takes a booking out of PAID voids the ticket in the
\* same transaction (cancelBooking, refundOnlineBooking, handleRefund).
AdmissibleMeansPaid ==
  \A b \in Bookings : ticket[b] = "ACTIVE" => booking[b] = "PAID"

\* "Event log, payment row, booking status and ticket all commit together": a
\* booking that was ever paid, or a payment row that says SUCCESS, has a ticket.
ConfirmedHasTicket ==
  \A b \in Bookings :
    booking[b] \in {"PAID", "REFUND_PENDING", "REFUNDED"} \/ paymentStatus[b] = "SUCCESS"
      => ticket[b] # Absent

\* No ticket without money: whatever order webhooks and sweeps arrive in, a
\* ticket exists only for an order the gateway captured.
TicketMeansCaptured ==
  \A b \in Bookings : ticket[b] # Absent => order[b] = "PAID"

\* startOnlinePayment writes the payment row before it calls the gateway, so an
\* order the customer can pay is one the database has a record of, even when
\* the request dies half way.
OrderIsRecorded ==
  \A b \in Bookings : order[b] # Absent => paymentStatus[b] # Absent

\* "A guest must not be able to board while a refund is in flight": from the
\* moment the gateway has a refund, the ticket admits nobody, ever again.
NoEntryUnderRefund ==
  \A b \in Bookings : refund[b] # Absent => ticket[b] \in {"USED", "CANCELLED"}

\* "We never mark a refund complete on the strength of an API call alone": a
\* booking is REFUNDED only after the gateway's refund succeeded.
RefundedMeansReturned ==
  \A b \in Bookings : booking[b] = "REFUNDED" => refund[b] = "SUCCESS"

\* A ticket that was used or cancelled never changes again, so no late webhook,
\* replay or re-confirmation hands out a second entry (issueTicketFor returns
\* the row that exists, deactivateTicketForBooking leaves a USED one alone).
TicketNeverRevives ==
  [][\A b \in Bookings : ticket[b] \notin {Absent, "ACTIVE"} => ticket'[b] = ticket[b]]_vars

\* Exactly once: every step that makes a booking PAID claims an event id that
\* had never been claimed, so no replay can confirm a booking.
ConfirmationConsumesAnEvent ==
  [][\A b \in Bookings :
       booking[b] # "PAID" /\ booking'[b] = "PAID" => \E id \in events' : id \notin events]_vars

\* What makes the invariants above inductive.  A success in flight, in a webhook
\* or in the hands of the sweep, speaks of an order that is PAID; a request that
\* is past the payment row has one; a refund past its first transaction has
\* voided the ticket; a refund webhook speaks of a refund that succeeded; and an
\* online booking never takes a counter's status.
EvidenceIsTrue ==
  /\ \A w \in sent :
       /\ EventKind(w) = "PAYMENT_SUCCESS" => order[w.booking] = "PAID"
       /\ EventKind(w) = "REFUND_SUCCESS" => refund[w.booking] = "SUCCESS"
  /\ \A b \in Bookings :
       /\ sweep[b] = "PAID" => order[b] = "PAID"
       /\ checkout[b] = "RECORDED" => paymentStatus[b] # Absent
       /\ booking[b] \notin {"CASH_CONFIRMED", "RESERVED"}
       /\ ticket[b] # "EXPIRED"
  /\ \A a \in Admins, b \in Bookings :
       refunding[<<a, b>>] \in {"VOIDED", "SENT"} => ticket[b] \in {"USED", "CANCELLED"}

Safety ==
  /\ AdmissibleMeansPaid /\ ConfirmedHasTicket /\ TicketMeansCaptured
  /\ OrderIsRecorded /\ NoEntryUnderRefund /\ RefundedMeansReturned
  /\ EvidenceIsTrue

\* The inductive invariant: types, and everything above.
IInv == TypeOK /\ Safety

-----------------------------------------------------------------------------
(* Liveness.                                                               *)

\* A captured payment whose webhook never arrives is picked up by the sweep
\* while the booking is younger than MAX_AGE_HOURS.
LostWebhookRecovered ==
  \A b \in Bookings :
    order[b] = "PAID" /\ booking[b] = "PENDING"
      ~> booking[b] # "PENDING" \/ age[b] = "LAPSED"

\* Reports of a refund share an event id (EventId), so a report of another status
\* that was processed first makes the report of its success a DUPLICATE.
SuccessSwallowed(b) ==
  \E w \in sent :
    /\ w.booking = b /\ w.type = "REFUND_STATUS" /\ w.status # "SUCCESS"
    /\ EventId(w) \in events

\* Once the gateway has returned the money, the booking is taken to REFUNDED,
\* whatever reports of the refund were sent before, repeated, or overtaken by the
\* report of its success: unless an administrator cancelled it in between, or one
\* of the others was processed first.
RefundReachesBooking ==
  \A b \in Bookings :
    refund[b] = "SUCCESS" ~> booking[b] \in {"REFUNDED", "CANCELLED"} \/ SuccessSwallowed(b)

-----------------------------------------------------------------------------
(* The promise this protocol keeps.                                        *)

MoneyOf(b) ==
  CASE refund[b] = "SUCCESS" -> "returned"
    [] refund[b] # "SUCCESS" /\ order[b] = "PAID" -> "captured"
    [] OTHER -> "owed"

EntryOf(b) ==
  CASE ticket[b] = Absent -> "none"
    [] ticket[b] = "ACTIVE" -> "admits"
    [] ticket[b] = "USED" -> "spent"
    [] OTHER -> "void"

Promise == INSTANCE TicketPromise
  WITH money <- [b \in Bookings |-> MoneyOf(b)], entry <- [b \in Bookings |-> EntryOf(b)]

\* The protocol implements TicketPromise.
KeepsPromise == Promise!PromiseSpec

-----------------------------------------------------------------------------
(* What comments and documents say, and the code does not do.              *)

\* cashfree/index.ts: "reconciliation looks it [the payment id] up separately".
PaidIsRefundable ==
  \A b \in Bookings : booking[b] = "PAID" => paymentId[b] # NoId

\* status.ts: PAID "has been paid for and deserves a ticket", and REFUND_PENDING
\* goes back to PAID when the "provider rejected the refund".
PaidHoldsLiveTicket ==
  \A b \in Bookings : booking[b] = "PAID" => ticket[b] # "CANCELLED"

\* refund.ts: cancelBooking is for cash bookings and "bookings that were never
\* paid. Online refunds go through refundOnlineBooking".
PaidIsNeverJustCancelled ==
  [][\A b \in Bookings : booking[b] = "PAID" => booking'[b] # "CANCELLED"]_vars

\* admin/bookings/actions.ts: "the booking shows as refunded once the provider
\* confirms".  It does not once an earlier report of the refund was processed.
RefundShowsOnceConfirmed ==
  \A b \in Bookings : refund[b] = "SUCCESS" ~> booking[b] \in {"REFUNDED", "CANCELLED"}

\* refund.ts: "please retry the refund".
FailedRefundCanBeRetried ==
  \A b \in Bookings :
    booking[b] = "REFUND_PENDING" /\ refund[b] = Absent
      ~> refund[b] # Absent \/ booking[b] # "REFUND_PENDING"

\* reconciliation page: "The reconciliation job re-checks these with the provider
\* every two minutes"; README: "A lost webhook cannot strand a customer".
PaidOrderLeavesPending ==
  \A b \in Bookings :
    order[b] = "PAID" /\ booking[b] = "PENDING" ~> booking[b] # "PENDING"

=============================================================================
