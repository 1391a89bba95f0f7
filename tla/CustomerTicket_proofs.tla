----------------------- MODULE CustomerTicket_proofs -----------------------
(***************************************************************************)
(* Proofs about CustomerTicket for any bookings, any worker's batch, any   *)
(* retry limit and any calendar that VisitDay admits.                      *)
(***************************************************************************)
EXTENDS CustomerTicket, TLAPS

-----------------------------------------------------------------------------
(* What an e-mail that is not sent rests on.                               *)

\* A ticket that admits is of a booking that is paid for.
ActiveIsConfirmed == \A b \in Bookings : ticket[b] = "ACTIVE" => IsConfirmed(status[b])

\* A booking that is, or was, paid for has a ticket, dead or alive.
PaidHasTicket ==
  \A b \in Bookings : IsConfirmed(status[b]) \/ status[b] = "REFUND_PENDING" => ticket[b] # Absent

\* An e-mail is queued for a booking that has, or had, a ticket.
MailHasTicket ==
  /\ \A b \in toQueue : ticket[b] # Absent
  /\ \A j \in Jobs : job[j].state # "none" => ticket[j[1]] # Absent

\* The worker is done with a booking when its ticket was mailed, or is dead.
Settled(b) == b \in mailed \/ ticket[b] # "ACTIVE"
DoneIsSettled ==
  /\ \A j \in Jobs : job[j].state = "completed" => Settled(j[1])
  /\ \A j \in Active \ batch : Settled(j[1])

\* A booking with a send in the current slot has a job.
SlotHasJob == \A b \in slot : \E j \in Jobs : j[1] = b /\ job[j].state # "none"

\* Where the e-mail of a booking may still come from, or was lost.
Awaited(b) ==
  \/ b \in toQueue \union forgotten
  \/ \E j \in Jobs : j[1] = b /\ job[j].state \in {"queued", "active", "failed"}
AllSettledOrAwaited == \A b \in Bookings : Settled(b) \/ Awaited(b)

\* The inductive invariant.
MailInv ==
  TypeOK /\ ActiveIsConfirmed /\ PaidHasTicket /\ MailHasTicket /\ DoneIsSettled /\ SlotHasJob
    /\ AllSettledOrAwaited

-----------------------------------------------------------------------------
(* The calendar.                                                           *)

\* nextOpenDay meets an open day at once, or one day later.
LEMMA NextOpenDayIsNear ==
  ASSUME NEW d \in Nat
  PROVE  NextOpenDay(d) = IF IsClosedDay(d) THEN d + 1 ELSE d
<1>. DEFINE open == {e \in d .. d + MaxAdvance : ~IsClosedDay(e)}
            first == IF IsClosedDay(d) THEN d + 1 ELSE d
<1>1. first \in open /\ \A f \in open : first <= f
  BY MaxAdvanceReachesPastAClosedDay, ClosedDaysAreApart DEF IsClosedDay
<1>2. \A e \in open : (\A f \in open : e <= f) => e = first
  BY <1>1
<1>3. NextOpenDay(d) = CHOOSE e \in open : \A f \in open : e <= f
  BY <1>1 DEF NextOpenDay
<1>. HIDE DEF open, first
<1>4. NextOpenDay(d) = first
  BY <1>1, <1>2, <1>3
<1>. QED
  BY <1>4 DEF first

\* The form opens on a day in the two after today.
LEMMA DefaultDayIsNear ==
  ASSUME NEW d \in Nat, NEW closing \in BOOLEAN
  PROVE  /\ DefaultDay(d, closing) \in MinDay(d, closing) .. d + 2
         /\ ~IsClosedDay(DefaultDay(d, closing))
<1>1. MinDay(d, closing) \in Nat /\ MinDay(d, closing) \in d .. d + 1
  BY DEF MinDay
<1>2. IsClosedDay(MinDay(d, closing)) => NextOpenDay(MinDay(d, closing)) = MinDay(d, closing) + 1
  BY <1>1, NextOpenDayIsNear
<1>. QED
  BY <1>1, <1>2, ClosedDaysAreApart DEF DefaultDay, IsClosedDay

\* A form rendered at any moment opens on a day the server takes, and offers
\* the days the server takes and no other.
LEMMA FormAgrees ==
  ASSUME today \in Nat, late \in BOOLEAN
  PROVE  FormOffersWhatIsTaken
<1>1. Bookable(Rendered.day, today, late)
  <2>1. Rendered.day = DefaultDay(today, late)
    BY DEF Rendered
  <2>. QED
    BY <2>1, DefaultDayIsNear, MaxAdvanceReachesPastAClosedDay DEF Bookable, MinDay, MaxDay
<1>2. \A d \in 0 .. MaxDay(today) + 2 :
        d \in Offered(Rendered.min, Rendered.max) <=> Bookable(d, today, late)
  BY MaxAdvanceReachesPastAClosedDay DEF Rendered, Offered, Bookable, MinDay, MaxDay
<1>. QED
  BY <1>1, <1>2 DEF FormOffersWhatIsTaken

-----------------------------------------------------------------------------
(* Type correctness.                                                       *)

\* What the server renders is three days.
LEMMA RenderedIsForm ==
  ASSUME today \in Nat, late \in BOOLEAN
  PROVE  Rendered \in [min : Nat, max : Nat, day : Nat]
<1>1. DefaultDay(today, late) \in Nat /\ MinDay(today, late) \in Nat /\ MaxDay(today) \in Nat
  BY DefaultDayIsNear, MaxAdvanceReachesPastAClosedDay DEF MinDay, MaxDay
<1>. QED
  BY <1>1 DEF Rendered

\* A send adds one queued job, or the slot has the booking already.
LEMMA SendAddsJob ==
  ASSUME TypeOK, NEW b \in Bookings, Send(b)
  PROVE  \/ b \in slot /\ UNCHANGED <<job, slot>>
         \/ /\ slot' = slot \union {b}
            /\ \E j \in Jobs : /\ j[1] = b
                               /\ job' = [job EXCEPT ![j] = [state |-> "queued", tries |-> 0]]
<1>1. CASE b \in slot
  BY <1>1 DEF Send
<1>2. CASE b \notin slot
  <2>1. PICK n \in Unused(b) : job' = [job EXCEPT ![<<b, n>>] = [state |-> "queued", tries |-> 0]]
    BY <1>2 DEF Send
  <2>2. <<b, n>> \in Jobs /\ <<b, n>>[1] = b
    BY DEF Unused, Jobs
  <2>. QED
    BY <1>2, <2>1, <2>2 DEF Send
<1>. QED
  BY <1>1, <1>2

\* What pg-boss makes of a job that failed: it is tried again, or has failed.
LEMMA AgainIsJob ==
  ASSUME TypeOK, NEW j \in Jobs
  PROVE  /\ Again(j) \in [state : JobStates, tries : 0 .. RetryLimit]
         /\ Again(j).state \in {"queued", "failed"}
<1>1. job[j] \in [state : JobStates, tries : 0 .. RetryLimit]
  BY DEF TypeOK
<1>2. CASE job[j].tries < RetryLimit
  BY <1>1, <1>2, BoundsAreCounts DEF Again, JobStates
<1>3. CASE ~(job[j].tries < RetryLimit)
  BY <1>1, <1>3 DEF Again, JobStates
<1>. QED
  BY <1>2, <1>3

\* Every action keeps the variables in their types.
LEMMA TypeStep == TypeOK /\ [Next]_vars => TypeOK'
<1>. SUFFICES ASSUME TypeOK, [Next]_vars PROVE TypeOK'
  OBVIOUS
<1>. USE DEF clock, waiting, tab, rows, mail
<1>0. Mine \in Bookings
  BY DEF Bookings
<1>1. ASSUME Tick PROVE TypeOK'
  BY <1>1 DEF Tick, TypeOK
<1>2. ASSUME OpenForm PROVE TypeOK'
  BY <1>2, RenderedIsForm DEF OpenForm, TypeOK
<1>3. ASSUME NEW d \in form.min .. form.max, Submit(d) PROVE TypeOK'
  <2>1. d \in Nat /\ form' = [form EXCEPT !.day = d]
    BY <1>3 DEF Submit, TypeOK
  <2>. QED
    BY <1>3, <2>1 DEF Submit, TypeOK, Pages
<1>4. ASSUME Refused \/ Abandon PROVE TypeOK'
  BY <1>4 DEF Refused, Abandon, TypeOK, Pages
<1>5. ASSUME Started PROVE TypeOK'
  <2>1. Booked \in BookingStatuses
    BY <1>5 DEF Started, BookingStatuses
  <2>. QED
    BY <1>5, <2>1 DEF Started, TypeOK, Pages
<1>6. ASSUME LoadTicket \/ Refresh PROVE TypeOK'
  <2>1. /\ page' \in Pages /\ timer' \in BOOLEAN /\ polling' \in BOOLEAN /\ form' \in {form, NoForm}
        /\ UNCHANGED <<clock, order, awake, limited, rows, mail>>
    BY <1>6 DEF LoadTicket, Refresh, Render, Pages
  <2>2. NoForm \in [min : Nat, max : Nat, day : Nat]
    BY DEF NoForm
  <2>. QED
    BY <2>1, <2>2 DEF TypeOK
<1>7. ASSUME TimerFires \/ PollsOn \/ PollFinds PROVE TypeOK'
  BY <1>7 DEF TimerFires, PollsOn, PollFinds, Rearms, TypeOK, Pages
<1>8. ASSUME Hide \/ Show \/ Limit PROVE TypeOK'
  BY <1>8 DEF Hide, Show, Limit, Resumes, TypeOK
<1>9. ASSUME Confirm PROVE TypeOK'
  <2>1. Issue(ticket[Mine]) \in TicketStatuses \union {Absent} /\ "PAID" \in BookingStatuses
    BY <1>0 DEF Issue, TicketStatuses, BookingStatuses, TypeOK
  <2>. QED
    BY <1>0, <1>9, <2>1 DEF Confirm, TypeOK
<1>10. ASSUME Fail PROVE TypeOK'
  BY <1>10 DEF Fail, TypeOK, BookingStatuses
<1>11. ASSUME NEW s \in BookingStatuses, CallOff(s) PROVE TypeOK'
  <2>1. Deactivate(ticket[Mine], "CANCELLED") \in TicketStatuses \union {Absent}
    BY <1>0 DEF Deactivate, TicketStatuses, TypeOK
  <2>. QED
    BY <1>0, <1>11, <2>1 DEF CallOff, TypeOK
<1>12. ASSUME NEW b \in Bookings, Send(b)
       PROVE  job' \in [Jobs -> [state : JobStates, tries : 0 .. RetryLimit]] /\ slot' \subseteq Bookings
  <2>1. [state |-> "queued", tries |-> 0] \in [state : JobStates, tries : 0 .. RetryLimit]
    BY BoundsAreCounts DEF JobStates
  <2>. QED
    BY <1>12, <2>1, SendAddsJob DEF TypeOK
<1>13. ASSUME NEW b \in Bookings, Queue(b) PROVE TypeOK'
  BY <1>12, <1>13 DEF Queue, TypeOK
<1>14. ASSUME Resend PROVE TypeOK'
  BY <1>0, <1>12, <1>14 DEF Resend, TypeOK
<1>15. ASSUME Forget \/ SlotEnds PROVE TypeOK'
  BY <1>0, <1>15 DEF Forget, SlotEnds, TypeOK
<1>16. ASSUME Fetch PROVE TypeOK'
  <2>1. PICK js \in SUBSET {j \in Jobs : job[j].state = "queued"} :
          /\ job' = [j \in Jobs |-> IF j \in js THEN [job[j] EXCEPT !.state = "active"] ELSE job[j]]
          /\ batch' = js
    BY <1>16 DEF Fetch
  <2>2. \A j \in Jobs : [job[j] EXCEPT !.state = "active"] \in [state : JobStates, tries : 0 .. RetryLimit]
    BY DEF TypeOK, JobStates
  <2>. QED
    BY <1>16, <2>1, <2>2 DEF Fetch, TypeOK
<1>17. ASSUME NEW j \in Jobs, Deliver(j) PROVE TypeOK'
  <2>1. \A k \in Jobs : Done(k) \in [state : JobStates, tries : 0 .. RetryLimit]
    BY DEF TypeOK, JobStates, Done
  <2>2. job' \in [Jobs -> [state : JobStates, tries : 0 .. RetryLimit]]
    BY <1>17, <2>1 DEF Deliver, TypeOK
  <2>3. mailed' \subseteq Bookings
    BY <1>17 DEF Deliver, TypeOK, Jobs
  <2>. QED
    BY <1>17, <2>2, <2>3 DEF Deliver, TypeOK
<1>18. ASSUME NEW j \in Jobs, DeliverThrows(j) PROVE TypeOK'
  <2>1. job' \in [Jobs -> [state : JobStates, tries : 0 .. RetryLimit]]
    BY <1>18, AgainIsJob DEF DeliverThrows, BatchFails, TypeOK
  <2>2. mailed' \subseteq Bookings
    BY <1>18 DEF DeliverThrows, TypeOK, Jobs
  <2>. QED
    BY <1>18, <2>1, <2>2 DEF DeliverThrows, TypeOK
<1>19. ASSUME WorkerDies PROVE TypeOK'
  <2>1. job' \in [Jobs -> [state : JobStates, tries : 0 .. RetryLimit]]
    BY <1>19, AgainIsJob DEF WorkerDies, TypeOK
  <2>. QED
    BY <1>19, <2>1 DEF WorkerDies, TypeOK
<1>20. CASE UNCHANGED vars
  BY <1>20 DEF vars, TypeOK
<1>. QED
  BY <1>1, <1>2, <1>3, <1>4, <1>5, <1>6, <1>7, <1>8, <1>9, <1>10, <1>11, <1>13, <1>14, <1>15, <1>16, <1>17,
     <1>18, <1>19, <1>20 DEF Next

-----------------------------------------------------------------------------
(* No e-mail is lost unexplained.                                          *)

\* Every step keeps the e-mails of the bookings accounted for.
LEMMA MailStep == MailInv /\ [Next]_vars => MailInv'
<1>. SUFFICES ASSUME MailInv, [Next]_vars PROVE MailInv'
  OBVIOUS
<1>0. Mine \in Bookings /\ TypeOK'
  BY TypeStep DEF Bookings, MailInv
<1>. USE <1>0
<1>1. ASSUME UNCHANGED <<rows, mail>> PROVE MailInv'
  BY <1>1 DEF MailInv, ActiveIsConfirmed, PaidHasTicket, MailHasTicket, DoneIsSettled, Active, SlotHasJob,
     AllSettledOrAwaited,
     Awaited, Settled, rows, mail
<1>2. ASSUME \/ Tick \/ OpenForm \/ Refused \/ Abandon \/ LoadTicket \/ TimerFires \/ PollsOn \/ PollFinds
             \/ Refresh \/ Hide \/ Show \/ Limit \/ UNCHANGED vars
             \/ \E d \in form.min .. form.max : Submit(d)
      PROVE  MailInv'
  <2>1. UNCHANGED <<rows, mail>>
    BY <1>2 DEF Tick, OpenForm, Refused, Abandon, LoadTicket, TimerFires, PollsOn, PollFinds,
       Refresh, Hide, Show, Limit, Submit, vars, tab
  <2>. QED
    BY <1>1, <2>1
<1>3. ASSUME Started \/ Fail PROVE MailInv'
  <2>1. /\ UNCHANGED <<ticket, mail>> /\ ~IsConfirmed(status[Mine]) /\ status'[Mine] \in {"PENDING", "FAILED"}
        /\ \A b \in Bookings : b # Mine => status'[b] = status[b]
    BY <1>3 DEF Started, Fail, Booked, IsConfirmed, MailInv, TypeOK, Absent
  <2>2. ActiveIsConfirmed' /\ PaidHasTicket'
    BY <2>1 DEF MailInv, ActiveIsConfirmed, PaidHasTicket, IsConfirmed
  <2>. QED
    BY <2>1, <2>2 DEF MailInv, MailHasTicket, DoneIsSettled, Active, SlotHasJob, AllSettledOrAwaited,
       Awaited, Settled, mail
<1>4. ASSUME Confirm PROVE MailInv'
  <2>1. /\ status' = [status EXCEPT ![Mine] = "PAID"] /\ ticket[Mine] # "ACTIVE"
        /\ ticket' = [ticket EXCEPT ![Mine] = IF ticket[Mine] = Absent THEN "ACTIVE" ELSE ticket[Mine]]
        /\ toQueue' = toQueue \union {Mine} /\ UNCHANGED <<forgotten, job, slot, batch, mailed>>
    BY <1>4 DEF Confirm, Issue, MailInv, ActiveIsConfirmed, IsConfirmed
  <2>2. \A b \in Bookings : /\ ticket[b] # Absent => ticket'[b] = ticket[b]
                            /\ b # Mine => ticket'[b] = ticket[b] /\ status'[b] = status[b]
    BY <2>1 DEF MailInv, TypeOK
  <2>3. ActiveIsConfirmed' /\ PaidHasTicket'
    BY <2>1, <2>2 DEF MailInv, ActiveIsConfirmed, PaidHasTicket, TypeOK, IsConfirmed, Absent
  <2>4. \A j \in Jobs : j[1] \in Bookings
    BY DEF Jobs
  <2>5. MailHasTicket'
    BY <2>1, <2>2, <2>4 DEF MailInv, MailHasTicket, TypeOK, Absent
  <2>6. \A j \in Jobs : job[j].state # "none" => (Settled(j[1]) => Settled(j[1])')
    BY <2>1, <2>2, <2>4 DEF MailInv, MailHasTicket, Settled
  <2>7. DoneIsSettled'
    BY <2>1, <2>6 DEF MailInv, DoneIsSettled, Active
  <2>8. SlotHasJob'
    BY <2>1 DEF MailInv, SlotHasJob
  <2>9. AllSettledOrAwaited'
    BY <2>1, <2>2 DEF MailInv, AllSettledOrAwaited, Awaited, Settled
  <2>. QED
    BY <2>3, <2>5, <2>7, <2>8, <2>9 DEF MailInv
<1>5. ASSUME NEW s \in BookingStatuses, CallOff(s) PROVE MailInv'
  <2>1. /\ status' = [status EXCEPT ![Mine] = s] /\ UNCHANGED mail
        /\ ticket' = [ticket EXCEPT ![Mine] = IF ticket[Mine] = "ACTIVE" THEN "CANCELLED" ELSE ticket[Mine]]
    BY <1>5 DEF CallOff, Deactivate
  <2>2. \A b \in Bookings : /\ ticket'[b] = Absent <=> ticket[b] = Absent
                            /\ ticket'[b] = "ACTIVE" => ticket[b] = "ACTIVE" /\ status'[b] = status[b]
    BY <2>1 DEF MailInv, TypeOK, Absent
  <2>3. \A b \in Bookings : Settled(b) => Settled(b)'
    BY <2>1, <2>2 DEF Settled, mail
  <2>4. \A j \in Jobs : j[1] \in Bookings
    BY DEF Jobs
  <2>5. PaidHasTicket'
    <3>1. s = "PAID" => status[Mine] = "REFUND_PENDING"
      BY <1>5 DEF CallOff, CanTransition, Allowed
    <3>2. s = "REFUND_PENDING" => IsConfirmed(status[Mine])
      BY <1>5 DEF CallOff, CanTransition, Allowed, IsConfirmed
    <3>3. s \in {"CANCELLED", "REFUND_PENDING", "PAID"}
      BY <1>5 DEF CallOff
    <3>. QED
      BY <2>1, <2>2, <3>1, <3>2, <3>3 DEF MailInv, PaidHasTicket, TypeOK, IsConfirmed
  <2>8. ActiveIsConfirmed' /\ MailHasTicket'
    BY <2>1, <2>2, <2>4 DEF MailInv, ActiveIsConfirmed, MailHasTicket, TypeOK, mail
  <2>6. DoneIsSettled'
    BY <2>1, <2>3, <2>4 DEF MailInv, DoneIsSettled, Active, mail
  <2>7. SlotHasJob' /\ AllSettledOrAwaited'
    BY <2>1, <2>3 DEF MailInv, SlotHasJob, AllSettledOrAwaited, Awaited, mail
  <2>. QED
    BY <2>5, <2>6, <2>7, <2>8 DEF MailInv
<1>6. ASSUME NEW b \in Bookings, Send(b), ticket[b] # Absent, UNCHANGED <<rows, forgotten, batch, mailed>>,
             toQueue' \in {toQueue, toQueue \ {b}}
      PROVE  MailInv'
  <2>1. ActiveIsConfirmed' /\ PaidHasTicket'
    BY <1>6 DEF MailInv, ActiveIsConfirmed, PaidHasTicket, rows
  <2>2. CASE b \in slot /\ UNCHANGED <<job, slot>>
    <3>1. MailHasTicket' /\ DoneIsSettled' /\ SlotHasJob'
      BY <1>6, <2>2 DEF MailInv, MailHasTicket, DoneIsSettled, Settled, Active, SlotHasJob, rows
    <3>2. PICK j \in Jobs : j[1] = b /\ job[j].state # "none"
      BY <2>2 DEF MailInv, SlotHasJob
    <3>3. job[j].state \in {"queued", "active", "failed"} \/ Settled(b)
      BY <3>2 DEF MailInv, DoneIsSettled, TypeOK, JobStates
    <3>4. Settled(b)' \/ Awaited(b)'
      BY <1>6, <2>2, <3>2, <3>3 DEF Settled, Awaited, rows
    <3>5. AllSettledOrAwaited'
      BY <1>6, <2>2, <3>4 DEF MailInv, AllSettledOrAwaited, Settled, Awaited, rows
    <3>. QED
      BY <2>1, <3>1, <3>5 DEF MailInv
  <2>3. ASSUME NEW j \in Jobs, j[1] = b, slot' = slot \union {b},
               job' = [job EXCEPT ![j] = [state |-> "queued", tries |-> 0]]
        PROVE  MailInv'
    <3>1. /\ job'[j].state = "queued"
          /\ \A k \in Jobs : k # j => job'[k] = job[k]
      BY <2>3 DEF MailInv, TypeOK
    <3>2. MailHasTicket'
      BY <1>6, <2>3, <3>1 DEF MailInv, MailHasTicket, rows
    <3>3. DoneIsSettled'
      BY <1>6, <3>1 DEF MailInv, DoneIsSettled, Settled, Active, rows
    <3>4. SlotHasJob'
      BY <2>3, <3>1 DEF MailInv, SlotHasJob
    <3>5. AllSettledOrAwaited'
      BY <1>6, <2>3, <3>1 DEF MailInv, AllSettledOrAwaited, Settled, Awaited, rows
    <3>. QED
      BY <2>1, <3>2, <3>3, <3>4, <3>5 DEF MailInv
  <2>. QED
    BY <1>6, <2>2, <2>3, SendAddsJob DEF MailInv
<1>7. ASSUME NEW b \in Bookings, Queue(b) PROVE MailInv'
  BY <1>6, <1>7 DEF Queue, MailInv, MailHasTicket
<1>8. ASSUME Resend PROVE MailInv'
  <2>1. Send(Mine) /\ ticket[Mine] # Absent /\ UNCHANGED <<rows, toQueue, forgotten, batch, mailed>>
    BY <1>8 DEF Resend, MailInv, PaidHasTicket
  <2>. QED
    BY <1>6, <2>1
<1>9. ASSUME Forget \/ SlotEnds PROVE MailInv'
  <2>1. /\ UNCHANGED <<rows, job, batch, mailed>> /\ slot' \subseteq slot /\ toQueue' \subseteq toQueue
        /\ toQueue \union forgotten \subseteq toQueue' \union forgotten'
    BY <1>9 DEF Forget, SlotEnds
  <2>. QED
    BY <2>1 DEF MailInv, ActiveIsConfirmed, PaidHasTicket, MailHasTicket, DoneIsSettled, Active,
       SlotHasJob, AllSettledOrAwaited,
       Awaited, Settled, rows
<1>10. ASSUME UNCHANGED <<rows, toQueue, forgotten, slot>>, mailed \subseteq mailed',
              \A k \in Jobs : \/ job'[k] = job[k]
                              \/ job[k].state \in {"queued", "active"} /\ job'[k].state \in {"queued", "active", "failed"}
                              \/ job[k].state = "active" /\ job'[k].state = "completed" /\ Settled(k[1])',
              \A k \in Active' \ batch' : Settled(k[1])'
       PROVE  MailInv'
  <2>1. \A b : Settled(b) => Settled(b)'
    BY <1>10 DEF Settled, rows
  <2>2. ActiveIsConfirmed' /\ PaidHasTicket' /\ MailHasTicket'
    BY <1>10 DEF MailInv, ActiveIsConfirmed, PaidHasTicket, MailHasTicket, rows
  <2>3. DoneIsSettled'
    BY <1>10, <2>1 DEF MailInv, DoneIsSettled
  <2>4. SlotHasJob'
    BY <1>10 DEF MailInv, SlotHasJob
  <2>5. AllSettledOrAwaited'
    <3>. SUFFICES ASSUME NEW b \in Bookings, ~Settled(b)' PROVE Awaited(b)'
      BY DEF AllSettledOrAwaited
    <3>1. Awaited(b)
      BY <2>1 DEF MailInv, AllSettledOrAwaited
    <3>. QED
      BY <1>10, <3>1 DEF Awaited
  <2>. QED
    BY <2>2, <2>3, <2>4, <2>5 DEF MailInv
<1>11. ASSUME Fetch PROVE MailInv'
  <2>1. PICK js \in SUBSET {j \in Jobs : job[j].state = "queued"} :
          /\ job' = [j \in Jobs |-> IF j \in js THEN [job[j] EXCEPT !.state = "active"] ELSE job[j]]
          /\ batch' = js
    BY <1>11 DEF Fetch
  <2>2. Active = {} /\ UNCHANGED <<rows, toQueue, forgotten, slot, mailed>>
    BY <1>11 DEF Fetch
  <2>3. \A k \in Jobs : job[k] \in [state : JobStates, tries : 0 .. RetryLimit]
    BY DEF MailInv, TypeOK
  <2>4. \A k \in Jobs : IF k \in js THEN job[k].state = "queued" /\ job'[k].state = "active" ELSE job'[k] = job[k]
    BY <2>1, <2>3
  <2>5. Active' \ batch' = {}
    BY <2>1, <2>2, <2>4 DEF Active
  <2>. QED
    BY <1>10, <2>2, <2>4, <2>5
<1>12. ASSUME NEW j \in Jobs, Deliver(j) PROVE MailInv'
  <2>1. /\ UNCHANGED <<rows, toQueue, forgotten, slot>> /\ mailed \subseteq mailed' /\ batch' = batch \ {j}
        /\ job' = IF batch' = {} THEN [k \in Jobs |-> IF k \in Active THEN Done(k) ELSE job[k]] ELSE job
    BY <1>12 DEF Deliver
  <2>2. Settled(j[1])'
    BY <1>12 DEF Deliver, MailInv, ActiveIsConfirmed, Settled, rows, Jobs
  <2>3. \A k \in Active \ batch' : Settled(k[1])'
    BY <2>1, <2>2 DEF MailInv, DoneIsSettled, Settled, rows
  <2>4. CASE batch' = {}
    <3>1. \A k \in Jobs : IF k \in Active THEN job'[k] = Done(k) ELSE job'[k] = job[k]
      BY <2>1, <2>4
    <3>2. \A k \in Jobs : Done(k).state = "completed"
      BY DEF Done, MailInv, TypeOK
    <3>3. \A k \in Jobs : k \in Active <=> job[k].state = "active"
      BY DEF Active
    <3>4. Active' = {}
      BY <3>1, <3>2, <3>3 DEF Active
    <3>. QED
      BY <1>10, <2>1, <2>3, <2>4, <3>1, <3>2, <3>3, <3>4
  <2>5. CASE batch' # {}
    <3>1. job' = job /\ Active' = Active
      BY <2>1, <2>5 DEF Active
    <3>. QED
      BY <1>10, <2>1, <2>3, <3>1
  <2>. QED
    BY <2>4, <2>5
<1>13. ASSUME (\E j \in Jobs : DeliverThrows(j)) \/ WorkerDies PROVE MailInv'
  <2>1. /\ UNCHANGED <<rows, toQueue, forgotten, slot>> /\ mailed \subseteq mailed'
        /\ job' = [k \in Jobs |-> IF k \in Active THEN Again(k) ELSE job[k]]
    BY <1>13 DEF DeliverThrows, BatchFails, WorkerDies
  <2>2. \A k \in Jobs : IF job[k].state = "active" THEN job'[k].state \in {"queued", "failed"} ELSE job'[k] = job[k]
    BY <2>1, AgainIsJob DEF Active, MailInv
  <2>3. Active' = {}
    BY <2>2 DEF Active
  <2>. QED
    BY <1>10, <2>1, <2>2, <2>3
<1>. QED
  BY <1>2, <1>3, <1>4, <1>5, <1>7, <1>8, <1>9, <1>11, <1>12, <1>13 DEF Next

\* MailInv holds in every reachable state.
LEMMA MailInvariant == Spec => []MailInv
<1>1. Init => MailInv
  <2>. SUFFICES ASSUME Init PROVE MailInv
    OBVIOUS
  <2>1. TypeOK
    <3>1. Rendered \in [min : Nat, max : Nat, day : Nat]
      BY RenderedIsForm DEF Init
    <3>2. NoJob \in [state : JobStates, tries : 0 .. RetryLimit]
      BY BoundsAreCounts DEF NoJob, JobStates
    <3>. QED
      BY <3>1, <3>2 DEF Init, TypeOK, Pages, Bookings, BookingStatuses, TicketStatuses, Absent
  <2>2. ActiveIsConfirmed /\ PaidHasTicket /\ AllSettledOrAwaited
    BY DEF Init, ActiveIsConfirmed, PaidHasTicket, IsConfirmed, AllSettledOrAwaited, Settled, Awaited,
       Bookings, Absent
  <2>3. MailHasTicket /\ DoneIsSettled /\ SlotHasJob
    BY MineIsMine DEF Init, MailHasTicket, DoneIsSettled, SlotHasJob, Active, NoJob, Bookings, Absent
  <2>. QED
    BY <2>1, <2>2, <2>3 DEF MailInv
<1>. QED
  BY <1>1, MailStep, PTL DEF Spec

\* Every reachable state has the types TypeOK gives.
THEOREM TypeCorrect == Spec => []TypeOK
<1>1. MailInv => TypeOK
  BY DEF MailInv
<1>. QED
  BY <1>1, MailInvariant, PTL

\* The page and the server agree on the days, at any moment of any calendar.
THEOREM FormAndServerAgree == Spec => []FormOffersWhatIsTaken
<1>1. TypeOK => FormOffersWhatIsTaken
  BY FormAgrees DEF TypeOK
<1>. QED
  BY <1>1, TypeCorrect, PTL

\* A paid booking whose ticket admits and was never e-mailed still has an
\* e-mail coming, or one that used up its retries, or its process died before
\* the queue had it.
THEOREM UnmailedHasReason == Spec => []UnmailedIsExplained
<1>1. MailInv => UnmailedIsExplained
  <2>. SUFFICES ASSUME MailInv, NEW b \in Bookings, ticket[b] = "ACTIVE",
                       b \notin mailed \union toQueue \union forgotten
                PROVE  \E n \in 1 .. MaxSends : job[<<b, n>>].state \in {"queued", "active", "failed"}
    BY DEF UnmailedIsExplained
  <2>1. PICK j \in Jobs : j[1] = b /\ job[j].state \in {"queued", "active", "failed"}
    BY DEF MailInv, AllSettledOrAwaited, Settled, Awaited
  <2>2. j = <<b, j[2]>> /\ j[2] \in 1 .. MaxSends
    BY <2>1 DEF Jobs
  <2>. QED
    BY <2>1, <2>2
<1>. QED
  BY <1>1, MailInvariant, PTL

=============================================================================
