--------------------------- MODULE CustomerTicket ---------------------------
(***************************************************************************)
(* What the online customer sees: the booking form, the trip to the        *)
(* checkout, the page that waits for the payment, and the e-mail with the  *)
(* ticket, which a queue and a worker deliver.  How a payment confirms,    *)
(* fails or is refunded is OnlinePayment's subject; here those are single  *)
(* steps that the page and the queue must cope with at any moment.         *)
(***************************************************************************)
EXTENDS BookingStatus, VisitDay, FiniteSets

CONSTANTS
  Mine,          \* the booking this customer's form makes
  Others,        \* bound: paid bookings whose e-mail shares the worker's batch
  BatchSize,     \* jobs the worker takes at once (5 in the code)
  RetryLimit,    \* retries pg-boss grants a job (4 in the code)
  MaxSends,      \* bound: e-mail jobs per booking
  LastDay        \* bound: the day the clock stops on

ASSUME MineIsMine == Mine \notin Others
ASSUME BatchSizeIsPositive == BatchSize \in Nat \ {0}
ASSUME BoundsAreCounts == RetryLimit \in Nat /\ MaxSends \in Nat \ {0} /\ LastDay \in Nat

VARIABLES
  today, late,      \* the park's clock
  form,             \* the form's window and the day picked
  page,             \* what the customer's tab shows
  order,            \* whether the gateway has an order for the booking
  timer, polling,   \* PaymentPending: a poll is scheduled, is running
  awake,            \* the tab is visible and online
  limited,          \* this address has used up its look-ups
  status, ticket,   \* the rows of each booking
  toQueue,          \* confirmed; the e-mail is about to be queued
  forgotten,        \* history: the process died, or the queue was down, there
  job,              \* the pg-boss rows, by booking and number
  slot,             \* bookings with a job in the current 60 s slot
  batch,            \* what the worker has fetched, and not yet got through
  mailed            \* the bookings whose ticket was e-mailed

clock == <<today, late>>
waiting == <<timer, polling>>
tab == <<form, page, order, waiting, awake>>
rows == <<status, ticket>>
mail == <<toQueue, forgotten, job, slot, batch, mailed>>
vars == <<clock, tab, limited, rows, mail>>

Bookings == {Mine} \cup Others
Jobs == Bookings \X (1 .. MaxSends)
Pages == {"form", "starting", "checkout", "pending", "refreshing", "blocked", "shown"}
JobStates == {"none", "queued", "active", "completed", "failed"}

----------------------------------------------------------------------------
(***************************************************************************)
(* The booking form.                                                       *)
(***************************************************************************)

\* BookPage renders the form on the clock of that moment.
Rendered ==
  [min |-> MinDay(today, late), max |-> MaxDay(today), day |-> DefaultDay(today, late)]

\* Bound: the clock is followed while the customer has no booking, to the
\* morning of LastDay.
Tick ==
  /\ page \in {"form", "starting"} /\ status[Mine] = Absent
  /\ today < LastDay
  /\ today' = IF late THEN today + 1 ELSE today
  /\ late' = ~late
  /\ UNCHANGED <<tab, limited, rows, mail>>

NoForm == [min |-> 0, max |-> 0, day |-> 0]

\* The form is loaded again; without a booking behind it nothing is lost.
OpenForm ==
  /\ page = "form" /\ status[Mine] = Absent
  /\ form' = Rendered
  /\ UNCHANGED <<clock, page, order, waiting, awake, limited, rows, mail>>

\* The date input, and PayButton, which a closed day disables.
Submit(d) ==
  /\ page = "form" /\ awake
  /\ d \in Offered(form.min, form.max)
  /\ form' = [form EXCEPT !.day = d]
  /\ page' = "starting"
  /\ UNCHANGED <<clock, order, waiting, awake, limited, rows, mail>>

\* createOnlineBooking: the row this form's key has made before, or a new one.
Booked == IF status[Mine] = Absent THEN "PENDING" ELSE status[Mine]

\* startBookingAction refuses the day, as it does on every submission, or the
\* booking turns out to be past paying for.
Refused ==
  /\ page = "starting"
  /\ \/ /\ ~Bookable(form.day, today, late)
        /\ UNCHANGED rows
     \/ /\ Bookable(form.day, today, late)
        /\ Booked # "PENDING"
        /\ UNCHANGED rows
  /\ page' = "form"
  /\ UNCHANGED <<clock, form, order, waiting, awake, limited, mail>>

\* The booking is made (or found) and the gateway opens a session; the
\* gateway may fail first, the answer may be lost, and without the SDK
\* nothing happens: three ways back to the form, the row there already.
Started ==
  /\ page = "starting"
  /\ Bookable(form.day, today, late)
  /\ Booked = "PENDING"
  /\ status' = [status EXCEPT ![Mine] = Booked]
  /\ \/ order' = TRUE /\ page' \in {"checkout", "form"}
     \/ UNCHANGED order /\ page' = "form"
  /\ UNCHANGED <<clock, form, waiting, awake, limited, ticket, mail>>

\* Back from the gateway's page to the form: same key, same booking.
Abandon ==
  /\ page = "checkout" /\ awake
  /\ page' = "form"
  /\ UNCHANGED <<clock, form, order, waiting, awake, limited, rows, mail>>

----------------------------------------------------------------------------
(***************************************************************************)
(* The ticket page.                                                        *)
(***************************************************************************)

\* CustomerTicketPage, rendered by the server: PaymentPending mounts with a
\* poll scheduled, or the page is final.  The address may be rate limited.
Render ==
  \/ /\ limited
     /\ page' = "blocked"
     /\ timer' = FALSE /\ polling' = FALSE
     /\ UNCHANGED form
  \/ /\ ~limited /\ status[Mine] = "PENDING"
     /\ page' = "pending"
     /\ timer' = TRUE /\ polling' = FALSE
     /\ UNCHANGED form
  \/ /\ ~limited /\ status[Mine] # "PENDING"
     /\ page' = "shown"
     /\ timer' = FALSE /\ polling' = FALSE
     /\ form' = NoForm

\* The gateway's return URL, a reload (the blocked page asks for one), or
\* "Find my ticket", which redirects here.
LoadTicket ==
  /\ page \in {"checkout", "pending", "blocked", "form"} /\ awake
  /\ status[Mine] # Absent
  /\ Render
  /\ UNCHANGED <<clock, order, awake, limited, rows, mail>>

\* The timer of poll() fires.  A hidden or offline tab returns from it
\* without setting another.
TimerFires ==
  /\ page = "pending" /\ timer
  /\ timer' = FALSE
  /\ polling' = (polling \/ awake)
  /\ UNCHANGED <<clock, form, page, order, awake, limited, rows, mail>>

\* The finally block of poll().
Rearms == awake

\* The look-up answers "still pending", or 429, whose pause only delays the
\* timer, or it does not answer, which may happen whatever the status.
PollsOn ==
  /\ page = "pending" /\ polling
  /\ polling' = FALSE
  /\ timer' = (timer \/ Rearms)
  /\ UNCHANGED <<clock, form, page, order, awake, limited, rows, mail>>

\* It answers with another status: no further poll, and the page refreshes.
PollFinds ==
  /\ page = "pending" /\ polling
  /\ ~limited /\ status[Mine] # "PENDING"
  /\ page' = "refreshing"
  /\ polling' = FALSE
  /\ UNCHANGED <<clock, form, order, timer, awake, limited, rows, mail>>

Refresh ==
  /\ page = "refreshing" /\ awake
  /\ Render
  /\ UNCHANGED <<clock, order, awake, limited, rows, mail>>

\* visibilitychange and offline: resume() clears the timer, and that is all.
Hide ==
  /\ page # "shown" /\ awake
  /\ awake' = FALSE
  /\ timer' = FALSE
  /\ UNCHANGED <<clock, form, page, order, polling, limited, rows, mail>>

\* Mutant: nothing listens for the tab's return.
ResumesNot(running) == running

\* visibilitychange and online: resume() polls at once, unless a poll runs.
Resumes(running) == page = "pending" \/ running

Show ==
  /\ ~awake
  /\ awake' = TRUE
  /\ timer' = FALSE
  /\ polling' = Resumes(polling)
  /\ UNCHANGED <<clock, form, page, order, limited, rows, mail>>

\* limitTicketLookup: the window fills up, and ends.  A look-up that is on
\* its way has been counted already, and an idle tab makes none.
Limit ==
  /\ awake
  /\ ~limited => ~polling
  /\ page \in {"checkout", "pending", "refreshing", "blocked"}
  /\ limited' = ~limited
  /\ UNCHANGED <<clock, tab, rows, mail>>

----------------------------------------------------------------------------
(***************************************************************************)
(* The payment and the office, in outline.                                 *)
(***************************************************************************)

\* The webhook, or the sweep, confirms the payment and issues the ticket in
\* one transaction, and goes on to queue the e-mail.
Confirm ==
  /\ status[Mine] = "PENDING" /\ order
  /\ status' = [status EXCEPT ![Mine] = "PAID"]
  /\ ticket' = [ticket EXCEPT ![Mine] = Issue(@)]
  /\ toQueue' = toQueue \cup {Mine}
  /\ UNCHANGED <<clock, tab, limited, forgotten, job, slot, batch, mailed>>

Fail ==
  /\ status[Mine] = "PENDING" /\ order
  /\ status' = [status EXCEPT ![Mine] = "FAILED"]
  /\ UNCHANGED <<clock, tab, limited, ticket, mail>>

\* A cancellation, or a refund that may fail: the booking is then PAID again,
\* with a dead ticket.  (Bound: REFUNDED, which the page and the mail treat
\* as they treat REFUND_PENDING, is left out.)
CallOff(s) ==
  /\ s \in {"CANCELLED", "REFUND_PENDING", "PAID"}
  /\ status[Mine] # "PENDING" \/ s # "PAID"
  /\ status[Mine] # Absent /\ CanTransition(status[Mine], s)
  /\ status' = [status EXCEPT ![Mine] = s]
  /\ ticket' = [ticket EXCEPT ![Mine] = Deactivate(@, "CANCELLED")]
  /\ UNCHANGED <<clock, tab, limited, mail>>

----------------------------------------------------------------------------
(***************************************************************************)
(* The e-mail.  The queue and the waiting page share nothing but the       *)
(* booking's status, which neither writes, so their steps are not          *)
(* interleaved: the e-mail is followed once the page has shown the         *)
(* outcome.  (Bound: Followed.)                                            *)
(***************************************************************************)

Followed == page = "shown"

Unused(b) == {n \in 1 .. MaxSends : job[<<b, n>>].state = "none"}

\* enqueueTicketDelivery: pg-boss drops the send when a job for this booking
\* was created in the same slot, whatever has become of it.
Send(b) ==
  IF b \in slot
  THEN UNCHANGED <<job, slot>>
  ELSE /\ \E n \in Unused(b) :
            /\ \A m \in Unused(b) : n <= m
            /\ job' = [job EXCEPT ![<<b, n>>] = [state |-> "queued", tries |-> 0]]
       /\ slot' = slot \cup {b}

Queue(b) ==
  /\ Followed /\ b \in toQueue
  /\ toQueue' = toQueue \ {b}
  /\ Send(b)
  /\ UNCHANGED <<clock, tab, limited, rows, forgotten, batch, mailed>>

\* The queue refuses and the error is logged, or the process dies: the event
\* is consumed, and no one will queue this e-mail again.
Forget ==
  /\ Followed /\ Mine \in toQueue
  /\ toQueue' = toQueue \ {Mine}
  /\ forgotten' = forgotten \cup {Mine}
  /\ UNCHANGED <<clock, tab, limited, rows, job, slot, batch, mailed>>

\* resendTicketAction, whose button a confirmed booking shows.  Bound: it
\* leaves a number for the confirmation's own e-mail.
Resend ==
  /\ Followed /\ IsConfirmed(status[Mine])
  /\ Cardinality(Unused(Mine)) > (IF Mine \in toQueue THEN 1 ELSE 0)
  /\ Send(Mine)
  /\ UNCHANGED <<clock, tab, limited, rows, toQueue, forgotten, batch, mailed>>

SlotEnds ==
  /\ Mine \in slot
  /\ slot' = slot \ {Mine}
  /\ UNCHANGED <<clock, tab, limited, rows, toQueue, forgotten, job, batch, mailed>>

\* Mutants: a failure is not counted; the limit is forgotten.
AgainUncounted(j) == [job[j] EXCEPT !.state = "queued"]
AgainForever(j) == [state |-> "queued", tries |-> job[j].tries + 1]

\* pg-boss fails a job: another try after a pause, or the end of it.
Again(j) ==
  IF job[j].tries < RetryLimit
  THEN [state |-> "queued", tries |-> job[j].tries + 1]
  ELSE [job[j] EXCEPT !.state = "failed"]

Done(j) == [job[j] EXCEPT !.state = "completed"]

Active == {j \in Jobs : job[j].state = "active"}

\* boss.work: the worker takes what it finds, and starts on it.
Fetch ==
  /\ Followed /\ Active = {}
  /\ \E js \in SUBSET {j \in Jobs : job[j].state = "queued"} :
       /\ js # {} /\ Cardinality(js) <= BatchSize
       /\ job' = [j \in Jobs |-> IF j \in js THEN [job[j] EXCEPT !.state = "active"] ELSE job[j]]
       /\ batch' = js
  /\ UNCHANGED <<clock, tab, limited, rows, toQueue, forgotten, slot, mailed>>

\* deliverTicket, when it returns: nothing is sent for a booking that is not
\* confirmed.  After the last one the whole batch is completed.
Deliver(j) ==
  /\ j \in batch
  /\ batch' = batch \ {j}
  /\ mailed' = IF IsConfirmed(status[j[1]]) THEN mailed \cup {j[1]} ELSE mailed
  /\ job' = IF batch' = {}
            THEN [k \in Jobs |-> IF k \in Active THEN Done(k) ELSE job[k]]
            ELSE job
  /\ UNCHANGED <<clock, tab, limited, rows, toQueue, forgotten, slot>>

\* Mutant: only the jobs not yet reached are tried again.
BatchFailsRest(j) ==
  [k \in Jobs |-> IF k = j THEN Done(k)
                  ELSE IF k \in Active THEN Again(k) ELSE job[k]]

\* One throw, and pg-boss fails every job of the batch.
BatchFails(j) ==
  [k \in Jobs |-> IF k \in Active THEN Again(k) ELSE job[k]]

\* deliverTicket throws: the database or the mail server refused, or the mail
\* went out and the audit row failed.
DeliverThrows(j) ==
  /\ j \in batch
  /\ \/ mailed' = mailed
     \/ IsConfirmed(status[j[1]]) /\ mailed' = mailed \cup {j[1]}
  /\ batch' = {}
  /\ job' = BatchFails(j)
  /\ UNCHANGED <<clock, tab, limited, rows, toQueue, forgotten, slot>>

\* The worker dies; pg-boss lets the active jobs time out.
WorkerDies ==
  /\ Active # {}
  /\ batch' = {}
  /\ job' = [k \in Jobs |-> IF k \in Active THEN Again(k) ELSE job[k]]
  /\ UNCHANGED <<clock, tab, limited, rows, toQueue, forgotten, slot, mailed>>

----------------------------------------------------------------------------
NoJob == [state |-> "none", tries |-> 0]

Init ==
  /\ today = 0 /\ late = FALSE
  /\ form = Rendered
  /\ page = "form" /\ order = FALSE
  /\ timer = FALSE /\ polling = FALSE /\ awake = TRUE
  /\ limited = FALSE
  /\ status = [b \in Bookings |-> IF b = Mine THEN Absent ELSE "PAID"]
  /\ ticket = [b \in Bookings |-> IF b = Mine THEN Absent ELSE "ACTIVE"]
  /\ toQueue = Others /\ forgotten = {}
  /\ job = [j \in Jobs |-> NoJob]
  /\ slot = {} /\ batch = {} /\ mailed = {}

Next ==
  \/ Tick \/ OpenForm \/ (\E d \in form.min .. form.max : Submit(d))
  \/ Refused \/ Started \/ Abandon
  \/ LoadTicket \/ TimerFires \/ PollsOn \/ PollFinds \/ Refresh
  \/ Hide \/ Show \/ Limit
  \/ Confirm \/ Fail \/ (\E s \in BookingStatuses : CallOff(s))
  \/ (\E b \in Bookings : Queue(b)) \/ Forget \/ Resend \/ SlotEnds
  \/ Fetch \/ WorkerDies
  \/ \E j \in Jobs : Deliver(j) \/ DeliverThrows(j)

Spec == Init /\ [][Next]_vars

\* The customer comes back to the tab, as the page asks, and reloads the one
\* that asks for that; timers and look-ups happen; the rate limit's window
\* ends, and now and then a look-up falls outside it and is answered; the
\* worker runs.  That the gateway or the customer ever acts is not assumed.
Fairness ==
  /\ WF_vars(Show) /\ WF_vars(TimerFires)
  /\ SF_vars(limited /\ Limit)
  /\ SF_vars(~limited /\ TimerFires) /\ SF_vars(PollFinds)
  /\ SF_vars(Refresh /\ page' = "shown")
  /\ SF_vars(page = "blocked" /\ LoadTicket /\ page' = "shown")
  /\ WF_vars(Fetch) /\ WF_vars(\E j \in Jobs : Deliver(j) \/ DeliverThrows(j))

LiveSpec == Spec /\ Fairness

----------------------------------------------------------------------------
(***************************************************************************)
(* Properties.                                                             *)
(***************************************************************************)

\* What the variables hold.
TypeOK ==
  /\ today \in Nat /\ late \in BOOLEAN
  /\ form \in [min : Nat, max : Nat, day : Nat]
  /\ page \in Pages /\ order \in BOOLEAN
  /\ timer \in BOOLEAN /\ polling \in BOOLEAN /\ awake \in BOOLEAN
  /\ limited \in BOOLEAN
  /\ status \in [Bookings -> BookingStatuses \cup {Absent}]
  /\ ticket \in [Bookings -> TicketStatuses \cup {Absent}]
  /\ toQueue \subseteq Bookings /\ forgotten \subseteq Bookings
  /\ job \in [Jobs -> [state : JobStates, tries : 0 .. RetryLimit]]
  /\ slot \subseteq Bookings /\ batch \subseteq Jobs /\ mailed \subseteq Bookings

\* The page and the server agree: a form rendered at this moment opens on a
\* day the server takes, and lets the customer submit the days the server
\* takes and no other ("the picker never offers a date checkout would
\* refuse", book/page.tsx), at closing time, on the eve of a closed day and
\* at the far end of the window too.
FormOffersWhatIsTaken ==
  /\ Bookable(Rendered.day, today, late)
  /\ \A d \in 0 .. MaxDay(today) + 2 :
       d \in Offered(Rendered.min, Rendered.max) <=> Bookable(d, today, late)

\* A paid booking whose ticket admits and was never e-mailed still has an
\* e-mail coming, or one that used up its retries, or its process died
\* between the confirmation and the queue; whatever other sends, other
\* bookings in the same batch or a dying worker did to it.
UnmailedIsExplained ==
  \A b \in Bookings :
    IsConfirmed(status[b]) /\ ticket[b] = "ACTIVE" =>
      \/ b \in mailed \cup toQueue \cup forgotten
      \/ \E n \in 1 .. MaxSends : job[<<b, n>>].state \in {"queued", "active", "failed"}

\* What is queued for a booking comes to an end: its e-mails are completed or
\* fail for good after their retries, whatever the batches they shared.
MailIsSettled ==
  LET MyJobs == {job[<<Mine, n>>].state : n \in 1 .. MaxSends}
  IN  "queued" \in MyJobs ~> MyJobs \cap {"queued", "active"} = {}

\* A customer who keeps the waiting page open sees what became of the
\* booking, however often the tab was hidden or offline and however often
\* the look-up failed or was refused.
PageSettles ==
  page \in {"pending", "refreshing", "blocked"} /\ status[Mine] # "PENDING" ~> page = "shown"

=============================================================================
