--------------------------- MODULE BookingReport ---------------------------
(***************************************************************************)
(* The administrator's reading of the bookings while everyone else goes on *)
(* writing them (src/domain/reports/bookings.ts): the CSV, read a batch at *)
(* a time by OFFSET; the table, read a page at a time beside a separate    *)
(* count; the totals, read by two statements one after the other.  No      *)
(* reader holds a transaction, so each statement sees a later database     *)
(* than the one before it.                                                 *)
(*                                                                         *)
(* Rows are numbered by (created_at, id).  created_at is the instant a     *)
(* transaction begins: a row may become visible after one that is later in *)
(* the order, and the blanks of a book, which one transaction inserts,     *)
(* share their instant.  The table is sorted by that instant alone.        *)
(*                                                                         *)
(* Every party counts as one visitor: a party boards whole, once           *)
(* (src/domain/boarding/confirm.ts).  The date range and the channel are   *)
(* fixed columns of a row and are taken to select every row.  The search   *)
(* words are not modelled: selling a blank rewrites its name and phone.    *)
(***************************************************************************)
EXTENDS BookingStatus, Integers, FiniteSets, FiniteSetsExt

CONSTANTS
  MaxRows,    \* bound: bookings ever made
  CreatedAt,  \* Rows -> the instant of a row's transaction
  BatchSize,  \* rows of a batch of the export, and of a page of the table
  InFlight,   \* bound: transactions that may be inserting at once
  Touched,    \* bound: rows that change status, or board
  Filters     \* the status filters an administrator tries

ASSUME ReportSizes == MaxRows \in Nat /\ BatchSize \in Nat \ {0} /\ InFlight \in Nat \ {0} /\ Touched \subseteq 1 .. MaxRows

Rows == 1 .. MaxRows
NotCounted == -1

ASSUME RowsAreInOrder ==
  /\ CreatedAt \in [Rows -> Nat]
  /\ \A q, r \in Rows : q < r => CreatedAt[q] <= CreatedAt[r]

Instants == {CreatedAt[r] : r \in Rows}
MadeAt(i) == {r \in Rows : CreatedAt[r] = i}

\* A row that shares its instant with no other.
Alone(r) == MadeAt(CreatedAt[r]) = {r}

VARIABLES
  status,     \* Rows -> the booking's status, or Absent
  boarded,    \* the rows whose party has a boarding event
  task,       \* what the administrator is reading
  filter,     \* under which status filter
  offset,     \* of the next batch, or of the page on screen
  total,      \* the page's count of matching rows, or NotCounted
  listed,     \* the page's rows have been read
  seen,       \* rows in the file, or on the pages looked at
  throughout, \* rows that have matched ever since the reading began
  moved,      \* the selection changed in the way OFFSET cannot bear
  visitors,   \* the first figure of the totals
  gateCount,  \* the second
  confirmed   \* rows that came to count as visitors since the first figure

rowVars == <<status, boarded>>
pageVars == <<offset, total, listed, seen>>
figures == <<visitors, gateCount>>
vars == <<status, boarded, task, filter, offset, total, listed, seen,
          throughout, moved, visitors, gateCount, confirmed>>

-----------------------------------------------------------------------------
\* The selection.

\* Mutant: "all" means the bookings that may still be worth something.
StatusesForLive(f) ==
  IF f = "ALL" THEN {"PENDING", "PAID", "CASH_CONFIRMED", "REFUND_PENDING"}
  ELSE IF f = "CONFIRMED" THEN {"PAID", "CASH_CONFIRMED"} ELSE {f}

\* statusesFor, with the clause whereFor adds when it returns null.
StatusesFor(f) ==
  CASE f = "ALL" -> BookingStatuses \ {"RESERVED"}
    [] f = "CONFIRMED" -> {"PAID", "CASH_CONFIRMED"}
    [] OTHER -> {f}

Matching(f, st) == {r \in Rows : st[r] \in StatusesFor(f)}

\* The rows both figures of the totals are taken over.
Confirmed(f, st) == {r \in Matching(f, st) : IsConfirmed(st[r])}

\* The places in an order that LIMIT and OFFSET pick.
Window(from) == from .. (from + BatchSize - 1)

\* ORDER BY created_at, id, in the export: a row's place is the number of rows
\* before it.
OldestFirst(rows, from) == {r \in rows : Cardinality({q \in rows : q < r}) \in Window(from)}

\* ORDER BY created_at DESC, in the table: the places a row may have, in any
\* order that Postgres gives the rows of one instant.
Newer(rows, r) == Cardinality({q \in rows : CreatedAt[q] > CreatedAt[r]})
NotOlder(rows, r) == Cardinality({q \in rows : CreatedAt[q] >= CreatedAt[r]})
Places(rows, r) == Newer(rows, r) .. (NotOlder(rows, r) - 1)

\* The pages this may give: of each instant, any rows that fill its places.
NewestFirst(rows, from) ==
  {page \in SUBSET rows :
     \A r \in rows : Cardinality(page \cap MadeAt(CreatedAt[r]))
                       = Cardinality(Places(rows, r) \cap Window(from))}

-----------------------------------------------------------------------------
\* The rest of the system, seen from here.

\* A written row leaves, or newly joins, the selection being read.
Write(st) ==
  LET was == Matching(filter, status)
      is == Matching(filter, st)
  IN /\ status' = st
     /\ throughout' = throughout \cap is
     /\ moved' = (moved \/ ( \/ task \in {"export", "pages"} /\ was \ is # {}
                             \/ task = "pages" /\ total # NotCounted /\ ~listed
                                /\ is \ was # {} ))
     /\ confirmed' = IF task = "totals"
                     THEN confirmed \cup (Confirmed(filter, st) \ Confirmed(filter, status))
                     ELSE confirmed
     /\ UNCHANGED <<boarded, task, filter, pageVars, figures>>

\* The rows of one transaction become visible together, by the time at most
\* InFlight transactions that began before it are still at work.
Insert(i, s) ==
  /\ \A r \in MadeAt(i) : status[r] = Absent
  /\ Cardinality({j \in Instants : j < i /\ \A r \in MadeAt(j) : status[r] = Absent}) < InFlight
  /\ Write([r \in Rows |-> IF r \in MadeAt(i) THEN s ELSE status[r]])

\* createBooking, online or at the counter: one row.
CreateBooking(r) ==
  /\ Alone(r)
  /\ \E s \in {"PENDING", "CASH_CONFIRMED"} : Insert(CreatedAt[r], s)

\* allocateBook: all the blanks that are missing.
AllocateBook(i) == Insert(i, "RESERVED")

\* transitionBooking, by whichever caller; only a PAID booking is refunded.
Change(r) ==
  /\ r \in Touched /\ status[r] # Absent
  /\ \E s \in BookingStatuses :
        /\ CanTransition(status[r], s)
        /\ ~ (status[r] = "CASH_CONFIRMED" /\ s = "REFUND_PENDING")
        /\ Write([status EXCEPT ![r] = s])

\* confirmBoarding: a blank is as good at the gate as a sold ticket.
BoardParty(r) ==
  /\ r \in Touched /\ status[r] \in {"PAID", "CASH_CONFIRMED", "RESERVED"}
  /\ r \notin boarded
  /\ boarded' = boarded \cup {r}
  /\ UNCHANGED <<status, task, filter, pageVars, throughout, moved, figures, confirmed>>

-----------------------------------------------------------------------------
\* The export.

Begin(what, f) ==
  /\ task = "idle"
  /\ task' = what
  /\ filter' = f
  /\ throughout' = IF what = "totals" THEN {} ELSE Matching(f, status)
  /\ moved' = FALSE
  /\ UNCHANGED rowVars

StartExport(f) ==
  /\ Begin("export", f)
  /\ UNCHANGED <<pageVars, figures, confirmed>>

NextOffset(from) == from + BatchSize

\* One turn of streamBookings' loop, pulled when the browser is ready for it.
ReadBatch ==
  LET batch == OldestFirst(Matching(filter, status), offset)
  IN /\ task = "export"
     /\ seen' = seen \cup batch
     /\ \/ /\ Cardinality(batch) < BatchSize
           /\ task' = "exported"
           /\ UNCHANGED offset
        \/ /\ Cardinality(batch) = BatchSize
           /\ offset' = NextOffset(offset)
           /\ UNCHANGED task
     /\ UNCHANGED <<rowVars, filter, total, listed, throughout, moved, figures, confirmed>>

-----------------------------------------------------------------------------
\* The table.

OpenPages(f) ==
  /\ Begin("pages", f)
  /\ UNCHANGED <<pageVars, figures, confirmed>>

\* Promise.all([listBookings, ..., countBookings, ...]): two connections.
CountRows ==
  /\ task = "pages" /\ total = NotCounted
  /\ total' = Cardinality(Matching(filter, status))
  /\ UNCHANGED <<rowVars, task, filter, offset, listed, seen, throughout, moved,
                 figures, confirmed>>

ListRows ==
  /\ task = "pages" /\ ~listed
  /\ listed' = TRUE
  /\ \E page \in NewestFirst(Matching(filter, status), offset) : seen' = seen \cup page
  /\ UNCHANGED <<rowVars, task, filter, offset, total, throughout, moved, figures, confirmed>>

PageCount == Max({1, (total + BatchSize - 1) \div BatchSize})
Page == Min({offset \div BatchSize + 1, PageCount})
OnScreen == task = "pages" /\ listed /\ total # NotCounted

TurnTo(page) ==
  /\ OnScreen /\ total > BatchSize
  /\ offset' = (page - 1) * BatchSize
  /\ total' = NotCounted
  /\ listed' = FALSE
  /\ UNCHANGED <<rowVars, task, filter, seen, throughout, moved, figures, confirmed>>

NextPage == Page < PageCount /\ TurnTo(Page + 1)
PreviousPage == Page > 1 /\ TurnTo(Page - 1)

-----------------------------------------------------------------------------
\* The totals of the page, and those of the dashboard.

ReadVisitors(f) ==
  /\ Begin("totals", f)
  /\ visitors' = Cardinality(Confirmed(f, status))
  /\ UNCHANGED <<pageVars, gateCount, confirmed>>

\* Mutant: an unsold blank's boarding counts too, as it used to.
AtGateAnyStatus(f) == {r \in boarded : status[r] \in StatusesFor(f) \cup {"RESERVED"}}

\* Boarding events joined to their bookings, filtered to confirmed ones.
AtGate(f) == boarded \cap Confirmed(f, status)

ReadBoarded ==
  /\ task = "totals"
  /\ task' = "totalled"
  /\ gateCount' = Cardinality(AtGate(filter))
  /\ UNCHANGED <<rowVars, filter, pageVars, throughout, moved, visitors, confirmed>>

\* The reader has the answer, loses interest, or its request breaks.
Leave ==
  /\ task # "idle"
  /\ task' = "idle" /\ filter' = "ALL"
  /\ offset' = 0 /\ total' = NotCounted /\ listed' = FALSE /\ seen' = {}
  /\ throughout' = {} /\ moved' = FALSE
  /\ visitors' = 0 /\ gateCount' = 0 /\ confirmed' = {}
  /\ UNCHANGED rowVars

-----------------------------------------------------------------------------
Init ==
  /\ status = [r \in Rows |-> Absent] /\ boarded = {}
  /\ task = "idle" /\ filter = "ALL"
  /\ offset = 0 /\ total = NotCounted /\ listed = FALSE /\ seen = {}
  /\ throughout = {} /\ moved = FALSE
  /\ visitors = 0 /\ gateCount = 0 /\ confirmed = {}

Next ==
  \/ \E r \in Rows : CreateBooking(r) \/ Change(r) \/ BoardParty(r)
  \/ \E i \in Instants : AllocateBook(i)
  \/ \E f \in Filters : StartExport(f) \/ OpenPages(f) \/ ReadVisitors(f)
  \/ ReadBatch
  \/ CountRows \/ ListRows \/ NextPage \/ PreviousPage
  \/ ReadBoarded
  \/ Leave

Spec == Init /\ [][Next]_vars

-----------------------------------------------------------------------------
\* Properties.

\* A booking that matched the filter from the first statement to the last is in
\* the file, however many bookings are made meanwhile: reading by OFFSET loses a
\* row only when another row left the selection.  Nothing ever leaves the
\* selection of all statuses, so an export of everything is complete without
\* that excuse (reports/bookings.ts, streamBookings).
\* Once the page on screen has no "Older" link, such a booking was on one of the
\* pages, unless a row left, or joined between a page's count and its list, or
\* the booking is one of several made at one instant: those have no order, and
\* one may be on no page though nothing was written (listBookings; page.tsx).
NothingIsMissed ==
  /\ task = "exported" /\ (~moved \/ filter = "ALL") => throughout \subseteq seen
  /\ OnScreen /\ Page >= PageCount /\ ~moved => \A r \in throughout \ seen : ~Alone(r)

\* "Boarded" never exceeds "visitors" by more than the bookings confirmed
\* between the two statements: both count the same population, whatever has
\* been scanned on a ticket nobody has paid for yet
\* (bookingTotals and the dashboard, which explain the regression).
BoardedWithinExpected == task = "totalled" => gateCount <= visitors + Cardinality(confirmed)

=============================================================================
