------------------------------ MODULE VisitDay ------------------------------
(***************************************************************************)
(* The days an online booking may be made for: visit-date.ts, and what the *)
(* booking page makes of it.  A day is a number; the clock is the park's   *)
(* day and whether the park has closed for it.  The page reads the rules   *)
(* when it renders, the server reads them again when the form arrives, and *)
(* the browser mirrors one of them with a rule of its own.                 *)
(***************************************************************************)
EXTENDS Naturals

CONSTANTS
  MaxAdvance,    \* MAX_ADVANCE_DAYS
  Closed         \* the days that fall on CLOSED_WEEKDAY

ASSUME MaxAdvanceReachesPastAClosedDay == MaxAdvance \in Nat /\ MaxAdvance >= 2
ASSUME ClosedDaysAreApart ==
  /\ Closed \subseteq Nat
  /\ \A d \in Closed : d + 1 \notin Closed

----------------------------------------------------------------------------
IsClosedDay(d) == d \in Closed

\* bookableRange: after closing time the window starts tomorrow, and shrinks.
MinDay(today, late) == IF late THEN today + 1 ELSE today
MaxDay(today) == today + MaxAdvance

\* Mutant: the form opens on the first day of the window, open or not.
NextOpenDayIsToday(d) == d

\* nextOpenDay: the first open day on or after d that the loop meets, or d.
NextOpenDay(d) ==
  LET open == {e \in d .. d + MaxAdvance : ~IsClosedDay(e)}
  IN  IF open = {} THEN d ELSE CHOOSE e \in open : \A f \in open : e <= f

\* BookPage: the day the form opens on.
DefaultDay(today, late) ==
  LET min == MinDay(today, late)
  IN  IF IsClosedDay(min) THEN NextOpenDay(min) ELSE min

\* assertBookableVisitDate, which refuses in this order: today after closing,
\* before the window, after it, a closed day.
Bookable(d, today, late) ==
  /\ ~(d = today /\ late)
  /\ d >= MinDay(today, late)
  /\ d <= MaxDay(today)
  /\ ~IsClosedDay(d)

\* What a form rendered with this window lets the customer submit: min and
\* max on the input, and isMonday, the browser's own copy of the rule.
Offered(min, max) == {d \in min .. max : ~IsClosedDay(d)}

=============================================================================
