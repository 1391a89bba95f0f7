----------------------- MODULE BookingReport_proofs -------------------------
(***************************************************************************)
(* Proofs about BookingReport, for any number of bookings made at any      *)
(* instants, any size of a batch and any set of filters: which bookings    *)
(* that matched the filter all along may be missed, and that the boarded   *)
(* never exceed the visitors by more than were confirmed in between.       *)
(***************************************************************************)
EXTENDS BookingReport, FiniteSetTheorems, TLAPS

\* The rows under the filter, and a row's place among them in either order.
Selection == Matching(filter, status)
Place(r) == Cardinality({q \in Selection : q < r})
PlaceFromTop(r) == Newer(Selection, r)

\* Rows that have matched ever since the reading began and are yet to be read.
Unread == throughout \ seen

\* Of these, the ones whose place in the table is certain.
UnreadAlone == {r \in Unread : Alone(r)}

\* The types, and what a reader that reads no rows has.
ReportTypes ==
  /\ status \in [Rows -> BookingStatuses \union {Absent}]
  /\ task \in {"idle", "export", "exported", "pages", "totals", "totalled"}
  /\ offset \in Nat /\ total \in Nat \union {NotCounted} /\ listed \in BOOLEAN /\ moved \in BOOLEAN
  /\ visitors \in Nat /\ gateCount \in Nat
  /\ confirmed \subseteq Rows /\ throughout \subseteq Selection
  /\ task \in {"idle", "totals", "totalled"} =>
       offset = 0 /\ total = NotCounted /\ ~listed /\ seen = {}

\* Nothing yet to be read by the export lies before its offset.
ExportIsBehind ==
  task \in {"export", "exported"} =>
    /\ filter = "ALL" => ~moved
    /\ ~moved => IF task = "exported" THEN Unread = {} ELSE \A r \in Unread : Place(r) >= offset

\* Nothing yet to be read in the table that has its instant for itself lies
\* before the next page, and while it lies beyond the page on screen, the
\* page's count says so.
PagesAreBehind ==
  task = "pages" =>
    /\ \E k \in 0 .. offset : offset = k * BatchSize
    /\ ~moved => /\ \A r \in UnreadAlone : PlaceFromTop(r) >= IF listed THEN offset + BatchSize ELSE offset
                 /\ total # NotCounted /\ ~listed => total = Cardinality(Selection)
                 /\ total # NotCounted /\ listed /\ UnreadAlone # {} => total > offset + BatchSize

\* What has come to be confirmed since the first figure explains the second.
TotalsAreExplained ==
  /\ task = "totals" => Cardinality(Confirmed(filter, status) \ confirmed) <= visitors
  /\ BoardedWithinExpected

ReportInv == ReportTypes /\ ExportIsBehind /\ PagesAreBehind /\ TotalsAreExplained

-----------------------------------------------------------------------------
(* What the operators return.                                              *)

\* Rows are numbers, and a set of them is finite.
LEMMA RowsAreFew ==
  ASSUME NEW S \in SUBSET Rows
  PROVE  IsFiniteSet(S) /\ Cardinality(S) \in Nat /\ S \subseteq Nat
<1>1. IsFiniteSet(Rows) /\ Rows \subseteq Nat
  BY ReportSizes, FS_Interval DEF Rows
<1>2. IsFiniteSet(S)
  BY <1>1, FS_Subset
<1>. QED
  BY <1>1, <1>2, FS_CardinalityType

\* The greater set has no fewer rows.
LEMMA MoreRows ==
  ASSUME NEW T \in SUBSET Rows, NEW S \in SUBSET T
  PROVE  Cardinality(S) <= Cardinality(T)
BY RowsAreFew, FS_Subset

\* A selection that grows puts no row further to the front, in either order.
LEMMA PlacesOnlyGrow ==
  ASSUME NEW T \in SUBSET Rows, NEW S \in SUBSET T, NEW r
  PROVE  /\ Cardinality({q \in S : q < r}) <= Cardinality({q \in T : q < r})
         /\ Newer(S, r) <= Newer(T, r)
<1>1. {q \in T : q < r} \in SUBSET Rows /\ {q \in S : q < r} \in SUBSET {q \in T : q < r}
  OBVIOUS
<1>2. /\ {q \in T : CreatedAt[q] > CreatedAt[r]} \in SUBSET Rows
      /\ {q \in S : CreatedAt[q] > CreatedAt[r]} \in SUBSET {q \in T : CreatedAt[q] > CreatedAt[r]}
  OBVIOUS
<1>. QED
  BY <1>1, <1>2, MoreRows DEF Newer

\* A row's place is within its set, in either order.
LEMMA PlaceIsWithin ==
  ASSUME NEW S \in SUBSET Rows, NEW r \in S
  PROVE  /\ Cardinality({q \in S : q < r}) \in 0 .. (Cardinality(S) - 1)
         /\ Newer(S, r) \in 0 .. (Cardinality(S) - 1)
<1>1. IsFiniteSet(S) /\ Cardinality(S) \in Nat /\ S \subseteq Nat
  BY RowsAreFew
<1>2. Cardinality(S \ {r}) = Cardinality(S) - 1
  BY <1>1, FS_RemoveElement
<1>3. {q \in S : q < r} \in SUBSET (S \ {r}) /\ {q \in S : CreatedAt[q] > CreatedAt[r]} \in SUBSET (S \ {r})
  BY <1>1, RowsAreInOrder
<1>4. S \ {r} \in SUBSET Rows
  OBVIOUS
<1>5. Cardinality({q \in S : q < r}) <= Cardinality(S \ {r}) /\ Newer(S, r) <= Cardinality(S \ {r})
  BY <1>3, <1>4, MoreRows DEF Newer
<1>6. Cardinality({q \in S : q < r}) \in Nat /\ Newer(S, r) \in Nat
  <2>1. {q \in S : q < r} \in SUBSET Rows /\ {q \in S : CreatedAt[q] > CreatedAt[r]} \in SUBSET Rows
    OBVIOUS
  <2>. QED
    BY <2>1, RowsAreFew DEF Newer
<1>. QED
  BY <1>1, <1>2, <1>5, <1>6

\* A row alone at its instant is on the page its place belongs to.
LEMMA AloneIsListed ==
  ASSUME NEW S \in SUBSET Rows, NEW from \in Nat, NEW page \in NewestFirst(S, from), NEW r \in S,
         Alone(r), r \notin page
  PROVE  Newer(S, r) \notin Window(from)
<1>. DEFINE N == {q \in S : CreatedAt[q] > CreatedAt[r]}
            M == {q \in S : CreatedAt[q] >= CreatedAt[r]}
            P == Places(S, r) \cap Window(from)
<1>1. M = N \union {r} /\ r \notin N
  <2>1. \A q \in Rows : CreatedAt[q] \in Nat
    BY RowsAreInOrder
  <2>2. \A q \in S : CreatedAt[q] = CreatedAt[r] => q = r
    BY DEF Alone, MadeAt
  <2>. QED
    BY <2>1, <2>2
<1>2. IsFiniteSet(N) /\ Cardinality(N) \in Nat
  <2>1. N \in SUBSET Rows
    OBVIOUS
  <2>. QED
    BY <2>1, RowsAreFew
<1>3. Cardinality(M) = Cardinality(N) + 1
  BY <1>1, <1>2, FS_AddElement
<1>4. Newer(S, r) \in Places(S, r)
  BY <1>2, <1>3 DEF Places, Newer, NotOlder
<1>5. Cardinality(P) = 0
  <2>1. Cardinality(page \cap MadeAt(CreatedAt[r])) = Cardinality(P)
    BY DEF NewestFirst
  <2>2. page \cap MadeAt(CreatedAt[r]) = {}
    BY DEF Alone
  <2>. QED
    BY <2>1, <2>2, FS_EmptySet
<1>6. IsFiniteSet(P)
  <2>1. from \in Int /\ from + BatchSize - 1 \in Int
    BY ReportSizes
  <2>2. IsFiniteSet(Window(from))
    BY <2>1, FS_Interval DEF Window
  <2>3. P \subseteq Window(from)
    OBVIOUS
  <2>. QED
    BY <2>2, <2>3, FS_Subset
<1>7. P = {}
  BY <1>5, <1>6, FS_EmptySet
<1>. QED
  BY <1>4, <1>7

\* Two rows have two places.
LEMMA PlacesDiffer ==
  ASSUME NEW S \in SUBSET Rows, NEW r \in S, NEW s \in S, r < s
  PROVE  Cardinality({q \in S : q < r}) < Cardinality({q \in S : q < s})
<1>. DEFINE Before(x) == {q \in S : q < x}
<1>1. S \subseteq Nat /\ Before(r) \in SUBSET Rows /\ Before(s) \in SUBSET Rows
  BY RowsAreFew
<1>2. r \in Before(s) /\ Before(r) \in SUBSET (Before(s) \ {r}) /\ Before(s) \ {r} \in SUBSET Rows
  <2>1. r \in Nat /\ s \in Nat /\ \A q \in S : q \in Nat
    BY <1>1
  <2>2. \A q \in S : q < r => q < s /\ q # r
    BY <2>1
  <2>. QED
    BY <1>1, <2>2
<1>3. Cardinality(Before(r)) <= Cardinality(Before(s) \ {r})
  BY <1>2, MoreRows
<1>4. IsFiniteSet(Before(s)) /\ Cardinality(Before(s)) \in Nat /\ Cardinality(Before(r)) \in Nat
  BY <1>1, RowsAreFew
<1>5. Cardinality(Before(s) \ {r}) = Cardinality(Before(s)) - 1
  BY <1>2, <1>4, FS_RemoveElement
<1>. QED
  BY <1>3, <1>4, <1>5

\* Only the last batch of a selection is short of rows.
LEMMA ShortBatchIsLast ==
  ASSUME NEW S \in SUBSET Rows, NEW from \in Nat, Cardinality(OldestFirst(S, from)) < BatchSize
  PROVE  Cardinality(S) < from + BatchSize
<1>. DEFINE n == Cardinality(S)
            W == OldestFirst(S, from)
            T == from .. (from + BatchSize - 1)
            place == [r \in S |-> Cardinality({q \in S : q < r})]
            placed == [r \in W |-> place[r]]
<1>. SUFFICES ASSUME n >= from + BatchSize PROVE FALSE
  BY RowsAreFew, ReportSizes
<1>1. n \in Nat /\ BatchSize \in Nat \ {0} /\ W \in SUBSET Rows /\ W \subseteq S /\ S \subseteq Nat
  BY RowsAreFew, ReportSizes DEF OldestFirst
<1>2. IsFiniteSet(0 .. n - 1) /\ Cardinality(0 .. n - 1) = n
  <2>1. 0 \in Int /\ n - 1 \in Int /\ (n - 1) - 0 + 1 = n /\ (0 > n - 1 => n = 0)
    BY <1>1
  <2>. QED
    BY <2>1, FS_Interval
<1>3. place \in Injection(S, 0 .. n - 1)
  <2>1. place \in [S -> 0 .. n - 1]
    BY PlaceIsWithin
  <2>2. ASSUME NEW r \in S, NEW s \in S, place[r] = place[s] PROVE r = s
    <3>1. r \in Nat /\ s \in Nat /\ place[r] \in Nat /\ place[s] \in Nat
      BY <1>1, <2>1
    <3>2. ~(r < s) /\ ~(s < r)
      <4>1. \A x \in S, y \in S : x < y => place[x] < place[y]
        BY PlacesDiffer
      <4>. QED
        BY <2>2, <3>1, <4>1
    <3>. QED
      BY <3>1, <3>2
  <2>. QED
    BY <2>1, <2>2 DEF Injection, IsInjective
<1>4. place \in Surjection(S, 0 .. n - 1)
  BY <1>2, <1>3, FS_Injection
<1>5. placed \in Surjection(W, T)
  <2>1. \A r \in W : placed[r] \in T
    BY DEF OldestFirst, Window
  <2>2. ASSUME NEW p \in T PROVE \E r \in W : placed[r] = p
    <3>1. p \in 0 .. n - 1
      BY <1>1
    <3>2. PICK r \in S : place[r] = p
      BY <1>4, <3>1 DEF Surjection
    <3>3. r \in W
      BY <3>2 DEF OldestFirst, Window
    <3>. QED
      BY <3>2, <3>3
  <2>. HIDE DEF T, W
  <2>. QED
    BY <2>1, <2>2 DEF Surjection
<1>6. Cardinality(T) <= Cardinality(W)
  <2>1. IsFiniteSet(W)
    BY <1>1, RowsAreFew
  <2>. HIDE DEF T, W, placed
  <2>. QED
    BY <1>5, <2>1, FS_Surjection
<1>7. Cardinality(T) = BatchSize
  BY <1>1, FS_Interval
<1>8. Cardinality(W) \in Nat
  BY <1>1, RowsAreFew
<1>. QED
  BY <1>1, <1>6, <1>7, <1>8

\* Min and Max of two numbers.
LEMMA OfTwo ==
  ASSUME NEW a \in Int, NEW b \in Int
  PROVE  /\ Min({a, b}) = IF a <= b THEN a ELSE b
         /\ Max({a, b}) = IF a <= b THEN b ELSE a
<1>1. CASE a <= b
  BY <1>1 DEF Min, Max
<1>2. CASE ~(a <= b)
  BY <1>2 DEF Min, Max
<1>. QED
  BY <1>1, <1>2

\* What division by the batch size rounds to.
LEMMA Division ==
  /\ \A n \in Nat : /\ (n + BatchSize - 1) \div BatchSize \in Nat
                    /\ ((n + BatchSize - 1) \div BatchSize) * BatchSize >= n
  /\ \A k \in Nat : (k * BatchSize) \div BatchSize = k
<1>. BatchSize \in Nat \ {0}
  BY ReportSizes
<1>1. ASSUME NEW n \in Nat
      PROVE  /\ (n + BatchSize - 1) \div BatchSize \in Nat
             /\ ((n + BatchSize - 1) \div BatchSize) * BatchSize >= n
  OBVIOUS
<1>2. ASSUME NEW k \in Nat PROVE (k * BatchSize) \div BatchSize = k
  OBVIOUS
<1>. QED
  BY <1>1, <1>2

\* The selection, and the part of it that is confirmed, are rows.
LEMMA SelectionIsRows ==
  ASSUME NEW f, NEW st
  PROVE  Matching(f, st) \in SUBSET Rows /\ Confirmed(f, st) \in SUBSET Rows
BY DEF Matching, Confirmed

-----------------------------------------------------------------------------
(* Every step keeps ReportInv.                                             *)

\* A step that writes no booking leaves the selection, and every place, alone.
LEMMA SelectionStays ==
  ASSUME UNCHANGED <<status, filter>>
  PROVE  /\ UNCHANGED <<Selection, Confirmed(filter, status)>>
         /\ \A r \in Rows : UNCHANGED <<Place(r), PlaceFromTop(r)>>
BY DEF Selection, Matching, Confirmed, Place, PlaceFromTop

\* A booking that is written, in a table that is read meanwhile: if a row left,
\* or joined at the wrong time, moved says so; and no place comes forward.
LEMMA WriteStep ==
  ASSUME ReportInv, NEW st \in [Rows -> BookingStatuses \union {Absent}], Write(st),
         filter = "ALL" => Selection \subseteq Matching(filter, st)
  PROVE  ReportInv'
<1>. DEFINE was == Selection
            is == Matching(filter, st)
            old == Confirmed(filter, status)
            new == Confirmed(filter, st)
<1>1. /\ status' = st /\ throughout' = throughout \cap is
      /\ moved' = (moved \/ ( \/ task \in {"export", "pages"} /\ was \ is # {}
                              \/ task = "pages" /\ total # NotCounted /\ ~listed /\ is \ was # {} ))
      /\ confirmed' = IF task = "totals" THEN confirmed \cup (new \ old) ELSE confirmed
      /\ UNCHANGED <<task, filter, offset, total, listed, seen, visitors, gateCount>>
  BY DEF Write, Selection, pageVars, figures
<1>2. Selection' = is /\ Confirmed(filter, status)' = new
  BY <1>1 DEF Selection, Matching, Confirmed
<1>3. was \in SUBSET Rows /\ is \in SUBSET Rows /\ old \in SUBSET Rows /\ new \in SUBSET Rows
  BY SelectionIsRows DEF Selection
<1>4. Unread' \subseteq Unread /\ throughout \subseteq Rows
  BY <1>1, <1>3 DEF Unread, ReportInv, ReportTypes
<1>5. ASSUME was \subseteq is, NEW r \in Rows
      PROVE  /\ Place(r)' \in Nat /\ Place(r) \in Nat /\ Place(r)' >= Place(r)
             /\ PlaceFromTop(r)' \in Nat /\ PlaceFromTop(r) \in Nat /\ PlaceFromTop(r)' >= PlaceFromTop(r)
  <2>. HIDE DEF was, is
  <2>1. /\ Place(r)' = Cardinality({q \in is : q < r}) /\ Place(r) = Cardinality({q \in was : q < r})
        /\ PlaceFromTop(r)' = Newer(is, r)
        /\ PlaceFromTop(r) = Newer(was, r)
    BY <1>2 DEF Place, PlaceFromTop, Newer, was
  <2>2. /\ {q \in is : q < r} \in SUBSET Rows /\ {q \in was : q < r} \in SUBSET Rows
        /\ {q \in is : CreatedAt[q] > CreatedAt[r]} \in SUBSET Rows
        /\ {q \in was : CreatedAt[q] > CreatedAt[r]} \in SUBSET Rows
    BY <1>3
  <2>3. /\ Cardinality({q \in is : q < r}) \in Nat /\ Cardinality({q \in was : q < r}) \in Nat
        /\ Newer(is, r) \in Nat /\ Newer(was, r) \in Nat
    BY <2>2, RowsAreFew DEF Newer
  <2>4. /\ Cardinality({q \in was : q < r}) <= Cardinality({q \in is : q < r})
        /\ Newer(was, r) <= Newer(is, r)
    BY <1>3, <1>5, PlacesOnlyGrow
  <2>. QED
    BY <2>1, <2>3, <2>4
<1>6. ReportTypes'
  BY <1>1, <1>2, <1>3, SelectionIsRows DEF ReportInv, ReportTypes
<1>7. ExportIsBehind'
  <2>1. task \in {"export", "exported"} /\ ~moved' => ~moved /\ (task = "export" => was \subseteq is)
    BY <1>1
  <2>2. task \in {"export", "exported"} /\ filter = "ALL" => ~moved'
    BY <1>1 DEF ReportInv, ExportIsBehind
  <2>3. ASSUME task = "export", ~moved', NEW r \in Unread' PROVE Place(r)' >= offset
    <3>1. r \in Unread /\ r \in Rows /\ Place(r) >= offset
      BY <1>4, <2>1, <2>3 DEF ReportInv, ExportIsBehind, Unread
    <3>2. offset \in Nat
      BY DEF ReportInv, ReportTypes
    <3>. QED
      BY <1>5, <2>1, <2>3, <3>1, <3>2
  <2>. QED
    BY <1>1, <1>4, <2>1, <2>2, <2>3 DEF ReportInv, ExportIsBehind
<1>8. PagesAreBehind'
  <2>1. task = "pages" /\ ~moved' => ~moved /\ was \subseteq is /\ (total # NotCounted /\ ~listed => is = was)
    BY <1>1
  <2>2. ASSUME task = "pages", ~moved', NEW r \in UnreadAlone'
        PROVE  PlaceFromTop(r)' >= IF listed THEN offset + BatchSize ELSE offset
    <3>1. r \in Rows /\ PlaceFromTop(r) >= IF listed THEN offset + BatchSize ELSE offset
      BY <1>4, <2>1, <2>2 DEF ReportInv, PagesAreBehind, Unread, UnreadAlone
    <3>2. offset \in Nat /\ BatchSize \in Nat
      BY ReportSizes DEF ReportInv, ReportTypes
    <3>. QED
      BY <1>5, <2>1, <2>2, <3>1, <3>2
  <2>. QED
    BY <1>1, <1>2, <1>4, <2>1, <2>2 DEF ReportInv, PagesAreBehind, UnreadAlone
<1>9. TotalsAreExplained'
  <2>1. ASSUME task = "totals" PROVE Cardinality(new \ confirmed') <= visitors
    <3>1. new \ confirmed' \in SUBSET (old \ confirmed)
      BY <1>1, <2>1
    <3>2. Cardinality(new \ confirmed') <= Cardinality(old \ confirmed)
      BY <1>3, <3>1, MoreRows
    <3>3. Cardinality(new \ confirmed') \in Nat /\ Cardinality(old \ confirmed) \in Nat /\ visitors \in Nat
      BY <1>3, RowsAreFew DEF ReportInv, ReportTypes
    <3>. QED
      BY <2>1, <3>2, <3>3 DEF ReportInv, TotalsAreExplained
  <2>2. BoardedWithinExpected'
    BY <1>1 DEF ReportInv, TotalsAreExplained, BoardedWithinExpected
  <2>. QED
    BY <1>1, <1>2, <2>1, <2>2 DEF TotalsAreExplained
<1>. QED
  BY <1>6, <1>7, <1>8, <1>9 DEF ReportInv

\* Every step keeps ReportInv.
LEMMA ReportStep == ReportInv /\ [Next]_vars => ReportInv'
<1>. SUFFICES ASSUME ReportInv, [Next]_vars PROVE ReportInv'
  OBVIOUS
<1>. USE DEF rowVars, pageVars, figures
<1>0. BatchSize \in Nat \ {0} /\ offset \in Nat /\ Selection \in SUBSET Rows /\ throughout \subseteq Selection
      /\ Confirmed(filter, status) \in SUBSET Rows /\ confirmed \subseteq Rows /\ Unread \subseteq Selection
  BY ReportSizes, SelectionIsRows DEF ReportInv, ReportTypes, Selection, Unread
<1>13. ASSUME NEW i, NEW s \in {"PENDING", "RESERVED", "CASH_CONFIRMED"}, Insert(i, s) PROVE ReportInv'
  <2>. DEFINE st == [r \in Rows |-> IF r \in MadeAt(i) THEN s ELSE status[r]]
  <2>1. Write(st) /\ \A r \in MadeAt(i) : status[r] = Absent
    BY <1>13 DEF Insert
  <2>2. st \in [Rows -> BookingStatuses \union {Absent}]
    BY DEF ReportInv, ReportTypes, BookingStatuses
  <2>3. filter = "ALL" => Selection \subseteq Matching(filter, st)
    BY <2>1 DEF Selection, Matching, StatusesFor, ReportInv, ReportTypes, BookingStatuses, Absent
  <2>. HIDE DEF st
  <2>. QED
    BY <2>1, <2>2, <2>3, WriteStep
<1>1. ASSUME NEW r \in Rows, CreateBooking(r) PROVE ReportInv'
  BY <1>1, <1>13 DEF CreateBooking
<1>14. ASSUME NEW i \in Instants, AllocateBook(i) PROVE ReportInv'
  BY <1>13, <1>14 DEF AllocateBook
<1>2. ASSUME NEW r \in Rows, Change(r) PROVE ReportInv'
  <2>1. PICK s \in BookingStatuses : CanTransition(status[r], s) /\ Write([status EXCEPT ![r] = s])
    BY <1>2 DEF Change
  <2>2. [status EXCEPT ![r] = s] \in [Rows -> BookingStatuses \union {Absent}]
    BY DEF ReportInv, ReportTypes
  <2>3. s # "RESERVED"
    BY <2>1 DEF CanTransition, Allowed
  <2>4. filter = "ALL" => Selection \subseteq Matching(filter, [status EXCEPT ![r] = s])
    BY <2>3 DEF Selection, Matching, StatusesFor, ReportInv, ReportTypes
  <2>. QED
    BY <2>1, <2>2, <2>4, WriteStep
<1>3. ASSUME UNCHANGED <<status, task, filter, offset, total, listed, seen, throughout, moved, visitors, gateCount,
                         confirmed>>
      PROVE  ReportInv'
  <2>1. /\ UNCHANGED <<Selection, Confirmed(filter, status), Unread>>
        /\ \A r \in Rows : UNCHANGED <<Place(r), PlaceFromTop(r)>>
    BY <1>3, SelectionStays DEF Unread
  <2>2. ReportTypes' /\ TotalsAreExplained'
    BY <1>3, <2>1 DEF ReportInv, ReportTypes, TotalsAreExplained, BoardedWithinExpected
  <2>3. ExportIsBehind' /\ PagesAreBehind'
    BY <1>0, <1>3, <2>1 DEF ReportInv, ExportIsBehind, PagesAreBehind, UnreadAlone
  <2>. QED
    BY <2>2, <2>3 DEF ReportInv
<1>4. ASSUME NEW r \in Rows, BoardParty(r) PROVE ReportInv'
  BY <1>3, <1>4 DEF BoardParty
<1>5. ASSUME NEW f \in Filters, StartExport(f) \/ OpenPages(f) \/ ReadVisitors(f) PROVE ReportInv'
  <2>1. /\ task = "idle" /\ filter' = f /\ moved' = FALSE
        /\ \/ task' = "totals" /\ throughout' = {} /\ visitors' = Cardinality(Confirmed(f, status))
           \/ task' \in {"export", "pages"} /\ throughout' = Matching(f, status) /\ UNCHANGED visitors
        /\ UNCHANGED <<status, offset, total, listed, seen, gateCount, confirmed>>
    BY <1>5 DEF StartExport, OpenPages, ReadVisitors, Begin
  <2>2. /\ offset = 0 /\ total = NotCounted /\ ~listed /\ seen = {}
        /\ Selection' = Matching(f, status) /\ Confirmed(filter, status)' = Confirmed(f, status)
    BY <2>1 DEF ReportInv, ReportTypes, Selection, Matching, Confirmed
  <2>3. Matching(f, status) \in SUBSET Rows /\ Confirmed(f, status) \in SUBSET Rows
    BY SelectionIsRows
  <2>4. ReportTypes'
    <3>1. Cardinality(Confirmed(f, status)) \in Nat
      BY <2>3, RowsAreFew
    <3>. QED
      BY <2>1, <2>2, <3>1 DEF ReportInv, ReportTypes
  <2>5. \A r \in Rows : Place(r)' \in Nat /\ PlaceFromTop(r)' \in Nat
    <3>1. ASSUME NEW r \in Rows
          PROVE  /\ {q \in Selection' : q < r} \in SUBSET Rows
                 /\ {q \in Selection' : CreatedAt[q] > CreatedAt[r]} \in SUBSET Rows
      BY <2>2, <2>3
    <3>. QED
      BY <3>1, RowsAreFew DEF Place, PlaceFromTop, Newer
  <2>6. Unread' \subseteq Rows
    BY <2>1, <2>3 DEF Unread
  <2>7. ExportIsBehind'
    BY <2>1, <2>2, <2>5, <2>6 DEF ExportIsBehind
  <2>8. PagesAreBehind'
    <3>1. 0 = 0 * BatchSize
      BY <1>0
    <3>. QED
      BY <2>1, <2>2, <2>5, <2>6, <3>1 DEF PagesAreBehind, UnreadAlone
  <2>9. TotalsAreExplained'
    <3>1. Cardinality(Confirmed(f, status) \ confirmed) <= Cardinality(Confirmed(f, status))
      BY <2>3, MoreRows
    <3>. QED
      BY <2>1, <2>2, <3>1 DEF TotalsAreExplained, BoardedWithinExpected
  <2>. QED
    BY <2>4, <2>7, <2>8, <2>9 DEF ReportInv
<1>6. ASSUME ReadBatch PROVE ReportInv'
  <2>. DEFINE batch == OldestFirst(Selection, offset)
  <2>1. /\ task = "export" /\ seen' = seen \cup batch
        /\ \/ Cardinality(batch) < BatchSize /\ task' = "exported" /\ UNCHANGED offset
           \/ Cardinality(batch) = BatchSize /\ offset' = offset + BatchSize /\ UNCHANGED task
        /\ UNCHANGED <<status, filter, total, listed, throughout, moved, visitors, gateCount, confirmed>>
    BY <1>6 DEF ReadBatch, NextOffset, Selection
  <2>2. /\ UNCHANGED <<Selection, Confirmed(filter, status)>> /\ \A r \in Rows : UNCHANGED <<Place(r),
                       PlaceFromTop(r)>>
    BY <2>1, SelectionStays
  <2>3. ASSUME ~moved, NEW r \in Unread' PROVE Place(r) >= offset + BatchSize /\ r \in Unread
    <3>1. r \in Unread /\ r \in Selection /\ r \notin batch
      BY <1>0, <2>1, <2>3 DEF Unread
    <3>2. Place(r) >= offset /\ Place(r) \in 0 .. (Cardinality(Selection) - 1)
      BY <1>0, <2>1, <2>3, <3>1, PlaceIsWithin DEF ReportInv, ExportIsBehind, Place
    <3>3. Place(r) \notin offset .. (offset + BatchSize - 1)
      BY <3>1 DEF OldestFirst, Window, Place
    <3>. QED
      BY <1>0, <3>1, <3>2, <3>3
  <2>4. ASSUME ~moved, task' = "exported", NEW r \in Unread' PROVE FALSE
    <3>1. Cardinality(Selection) < offset + BatchSize
      BY <1>0, <2>1, <2>4, ShortBatchIsLast
    <3>2. Place(r) \in 0 .. (Cardinality(Selection) - 1) /\ Place(r) >= offset + BatchSize
      BY <1>0, <2>3, <2>4, PlaceIsWithin DEF Place
    <3>3. Cardinality(Selection) \in Nat
      BY <1>0, RowsAreFew
    <3>. QED
      BY <1>0, <3>1, <3>2, <3>3
  <2>5. ReportTypes'
    BY <1>0, <2>1, <2>2 DEF ReportInv, ReportTypes
  <2>6. ExportIsBehind'
    <3>1. filter = "ALL" => ~moved
      BY <2>1 DEF ReportInv, ExportIsBehind
    <3>2. \A r \in Unread' : r \in Rows
      BY <1>0, <2>1 DEF Unread
    <3>. QED
      BY <2>1, <2>2, <2>3, <2>4, <3>1, <3>2 DEF ExportIsBehind
  <2>7. PagesAreBehind' /\ TotalsAreExplained'
    BY <2>1 DEF PagesAreBehind, TotalsAreExplained, BoardedWithinExpected
  <2>. QED
    BY <2>5, <2>6, <2>7 DEF ReportInv
<1>7. ASSUME CountRows PROVE ReportInv'
  <2>1. /\ task = "pages" /\ total = NotCounted /\ total' = Cardinality(Selection)
        /\ UNCHANGED <<status, task, filter, offset, listed, seen, throughout, moved, visitors, gateCount,
                       confirmed>>
    BY <1>7 DEF CountRows, Selection
  <2>2. /\ UNCHANGED <<Selection, Confirmed(filter, status), Unread>>
        /\ \A r \in Rows : UNCHANGED <<Place(r), PlaceFromTop(r)>>
    BY <2>1, SelectionStays DEF Unread
  <2>3. Cardinality(Selection) \in Nat
    BY <1>0, RowsAreFew
  <2>4. ReportTypes' /\ ExportIsBehind' /\ TotalsAreExplained'
    BY <2>1, <2>2, <2>3 DEF ReportInv, ReportTypes, ExportIsBehind, TotalsAreExplained,
       BoardedWithinExpected
  <2>5. ASSUME ~moved, listed, NEW r \in UnreadAlone PROVE Cardinality(Selection) > offset + BatchSize
    <3>1. PlaceFromTop(r) >= offset + BatchSize
      BY <2>1, <2>5 DEF ReportInv, PagesAreBehind
    <3>2. PlaceFromTop(r) \in 0 .. (Cardinality(Selection) - 1)
      BY <1>0, PlaceIsWithin DEF PlaceFromTop, Newer, UnreadAlone
    <3>. QED
      BY <1>0, <2>3, <3>1, <3>2
  <2>6. PagesAreBehind'
    BY <1>0, <2>1, <2>2, <2>5 DEF ReportInv, PagesAreBehind, UnreadAlone
  <2>. QED
    BY <2>4, <2>6 DEF ReportInv
<1>8. ASSUME ListRows PROVE ReportInv'
  <2>0. PICK page \in NewestFirst(Selection, offset) : seen' = seen \cup page
    BY <1>8 DEF ListRows, Selection
  <2>1. /\ task = "pages" /\ ~listed /\ listed' = TRUE /\ seen' = seen \cup page
        /\ UNCHANGED <<status, task, filter, offset, total, throughout, moved, visitors, gateCount,
                       confirmed>>
    BY <1>8, <2>0 DEF ListRows
  <2>2. /\ UNCHANGED <<Selection, Confirmed(filter, status)>> /\ \A r \in Rows : UNCHANGED <<Place(r),
                       PlaceFromTop(r)>>
    BY <2>1, SelectionStays
  <2>3. ReportTypes' /\ ExportIsBehind' /\ TotalsAreExplained'
    BY <2>1, <2>2 DEF ReportInv, ReportTypes, ExportIsBehind, TotalsAreExplained, BoardedWithinExpected
  <2>4. ASSUME ~moved, NEW r \in UnreadAlone'
        PROVE  /\ r \in Rows /\ PlaceFromTop(r) >= offset + BatchSize
               /\ total # NotCounted => total > offset + BatchSize
    <3>1. r \in UnreadAlone /\ r \in Selection /\ r \notin page
      BY <1>0, <2>1, <2>4 DEF Unread, UnreadAlone
    <3>2. PlaceFromTop(r) >= offset /\ PlaceFromTop(r) \in 0 .. (Cardinality(Selection) - 1)
      BY <1>0, <2>1, <2>4, <3>1, PlaceIsWithin DEF ReportInv, PagesAreBehind, PlaceFromTop, Newer
    <3>3. PlaceFromTop(r) \notin offset .. (offset + BatchSize - 1)
      BY <1>0, <2>0, <3>1, AloneIsListed DEF UnreadAlone, Window, PlaceFromTop
    <3>4. total # NotCounted => total = Cardinality(Selection)
      BY <2>1, <2>4 DEF ReportInv, PagesAreBehind
    <3>5. Cardinality(Selection) \in Nat
      BY <1>0, RowsAreFew
    <3>. QED
      BY <1>0, <3>1, <3>2, <3>3, <3>4, <3>5
  <2>5. PagesAreBehind'
    BY <1>0, <2>1, <2>2, <2>4 DEF ReportInv, PagesAreBehind, UnreadAlone
  <2>. QED
    BY <2>3, <2>5 DEF ReportInv
<1>9. ASSUME NextPage \/ PreviousPage PROVE ReportInv'
  <2>1. PICK k \in 0 .. offset : offset = k * BatchSize
    BY <1>9 DEF NextPage, PreviousPage, TurnTo, OnScreen, ReportInv, PagesAreBehind
  <2>2. /\ offset \div BatchSize = k /\ PageCount \in Nat /\ total \in Nat
    <3>1. total \in Nat
      BY <1>9 DEF NextPage, PreviousPage, TurnTo, OnScreen, ReportInv, ReportTypes
    <3>. DEFINE pages == (total + BatchSize - 1) \div BatchSize
    <3>2. pages \in Nat /\ offset \div BatchSize = k
      BY <1>0, <2>1, <3>1, Division
    <3>3. PageCount = Max({1, pages})
      BY DEF PageCount
    <3>. HIDE DEF pages
    <3>. QED
      <4>1. Max({1, pages}) = IF 1 <= pages THEN pages ELSE 1
        <5>1. 1 \in Int /\ pages \in Int
          BY <3>2
        <5>. QED
          BY <5>1, OfTwo, Zenon
      <4>. QED
        BY <3>1, <3>2, <3>3, <4>1
  <2>3. Page = (IF k + 1 <= PageCount THEN k + 1 ELSE PageCount) /\ Page \in Nat /\ k \in Nat
    BY <1>0, <2>1, <2>2, OfTwo DEF Page
  <2>4. PICK p \in {Page + 1, Page - 1} : /\ TurnTo(p) /\ p - 1 \in Nat /\ p - 1 <= k + 1
    <3>1. CASE NextPage
      BY <2>2, <2>3, <3>1 DEF NextPage
    <3>2. CASE PreviousPage
      BY <2>2, <2>3, <3>2 DEF PreviousPage
    <3>. QED
      BY <1>9, <3>1, <3>2
  <2>5. /\ task = "pages" /\ listed /\ total # NotCounted /\ offset' = (p - 1) * BatchSize
        /\ total' = NotCounted /\ listed' = FALSE
        /\ UNCHANGED <<status, task, filter, seen, throughout, moved, visitors, gateCount, confirmed>>
    BY <2>4 DEF TurnTo, OnScreen
  <2>6. offset' \in Nat /\ offset' <= offset + BatchSize /\ p - 1 \in 0 .. offset'
    <3>. DEFINE j == p - 1
    <3>1. j \in Nat /\ k \in Nat /\ j <= k + 1 /\ offset = k * BatchSize /\ offset' = j * BatchSize
      BY <2>1, <2>3, <2>4, <2>5
    <3>. HIDE DEF j
    <3>2. j * BatchSize \in Nat /\ j * BatchSize <= (k + 1) * BatchSize /\ j <= j * BatchSize
          /\ (k + 1) * BatchSize = k * BatchSize + BatchSize
      BY <1>0, <3>1
    <3>3. offset' \in Nat /\ offset' <= offset + BatchSize /\ j \in 0 .. offset'
      BY <3>1, <3>2
    <3>. QED
      BY <3>3 DEF j
  <2>7. /\ UNCHANGED <<Selection, Confirmed(filter, status), Unread>>
        /\ \A r \in Rows : UNCHANGED <<Place(r), PlaceFromTop(r)>>
    BY <2>5, SelectionStays DEF Unread
  <2>8. ReportTypes' /\ ExportIsBehind' /\ TotalsAreExplained'
    BY <2>5, <2>6, <2>7 DEF ReportInv, ReportTypes, ExportIsBehind, TotalsAreExplained,
       BoardedWithinExpected
  <2>9. ASSUME ~moved, NEW r \in UnreadAlone PROVE PlaceFromTop(r) >= offset'
    <3>1. PlaceFromTop(r) >= offset + BatchSize
      BY <2>5, <2>9 DEF ReportInv, PagesAreBehind
    <3>2. PlaceFromTop(r) \in 0 .. (Cardinality(Selection) - 1)
      BY <1>0, PlaceIsWithin DEF PlaceFromTop, Newer, UnreadAlone
    <3>. QED
      BY <1>0, <2>6, <3>1, <3>2
  <2>10. PagesAreBehind'
    BY <1>0, <2>5, <2>6, <2>7, <2>9 DEF PagesAreBehind, UnreadAlone
  <2>. QED
    BY <2>8, <2>10 DEF ReportInv
<1>10. ASSUME ReadBoarded PROVE ReportInv'
  <2>1. /\ task = "totals" /\ task' = "totalled" /\ gateCount' = Cardinality(AtGate(filter))
        /\ UNCHANGED <<status, filter, offset, total, listed, seen, throughout, moved, visitors, confirmed>>
    BY <1>10 DEF ReadBoarded
  <2>. DEFINE C == Confirmed(filter, status)
  <2>2. /\ AtGate(filter) \in SUBSET C /\ AtGate(filter) \in SUBSET Rows
        /\ C \in SUBSET ((C \ confirmed) \union confirmed) /\ (C \ confirmed) \union confirmed \in SUBSET Rows
    BY <1>0 DEF AtGate
  <2>3. Cardinality(AtGate(filter)) <= Cardinality(C) /\ Cardinality(C) <= Cardinality((C \ confirmed) \union confirmed)
    BY <1>0, <2>2, MoreRows
  <2>4. Cardinality((C \ confirmed) \union confirmed) = Cardinality(C \ confirmed) + Cardinality(confirmed)
    <3>1. IsFiniteSet(C \ confirmed) /\ IsFiniteSet(confirmed) /\ (C \ confirmed) \cap confirmed = {}
      BY <1>0, RowsAreFew
    <3>2. Cardinality((C \ confirmed) \cap confirmed) = 0
      BY <3>1, FS_EmptySet
    <3>3. Cardinality(C \ confirmed) \in Nat /\ Cardinality(confirmed) \in Nat
      BY <3>1, FS_CardinalityType
    <3>4. Cardinality((C \ confirmed) \union confirmed)
            = Cardinality(C \ confirmed) + Cardinality(confirmed) - Cardinality((C \ confirmed) \cap confirmed)
      BY <3>1, FS_Union
    <3>. QED
      BY <3>2, <3>3, <3>4
  <2>5. /\ Cardinality(AtGate(filter)) \in Nat /\ Cardinality(C) \in Nat /\ Cardinality(C \ confirmed) \in Nat
        /\ Cardinality(confirmed) \in Nat /\ visitors \in Nat
    BY <1>0, <2>2, RowsAreFew DEF ReportInv, ReportTypes
  <2>6. Cardinality(C \ confirmed) <= visitors
    BY <2>1 DEF ReportInv, TotalsAreExplained
  <2>7. gateCount' <= visitors + Cardinality(confirmed) /\ gateCount' \in Nat
    BY <2>1, <2>3, <2>4, <2>5, <2>6
  <2>8. UNCHANGED Selection
    BY <2>1, SelectionStays
  <2>9. ReportTypes'
    BY <2>1, <2>7, <2>8 DEF ReportInv, ReportTypes
  <2>10. ExportIsBehind' /\ PagesAreBehind' /\ TotalsAreExplained'
    BY <2>1, <2>7 DEF ExportIsBehind, PagesAreBehind, TotalsAreExplained, BoardedWithinExpected
  <2>. QED
    BY <2>9, <2>10 DEF ReportInv
<1>11. ASSUME Leave PROVE ReportInv'
  BY <1>11 DEF Leave, ReportInv, ReportTypes, ExportIsBehind, PagesAreBehind, TotalsAreExplained,
     BoardedWithinExpected
<1>12. CASE UNCHANGED vars
  BY <1>3, <1>12 DEF vars
<1>. QED
  BY <1>1, <1>2, <1>4, <1>5, <1>6, <1>7, <1>8, <1>9, <1>10, <1>11, <1>12, <1>14 DEF Next

\* ReportInv is an invariant, for any number of bookings and any batch size.
LEMMA ReportInvariant == Spec => []ReportInv
<1>1. Init => ReportInv
  <2>. SUFFICES ASSUME Init PROVE ReportInv
    OBVIOUS
  <2>1. ReportTypes
    BY DEF Init, ReportTypes, NotCounted
  <2>2. ExportIsBehind /\ PagesAreBehind /\ TotalsAreExplained
    BY DEF Init, ExportIsBehind, PagesAreBehind, TotalsAreExplained, BoardedWithinExpected
  <2>. QED
    BY <2>1, <2>2 DEF ReportInv
<1>. QED
  BY <1>1, ReportStep, PTL DEF Spec

\* "Boarded" exceeds "visitors" by no more than the bookings confirmed between
\* the two statements (bookingTotals and the dashboard).
THEOREM TotalsAgree == Spec => []BoardedWithinExpected
<1>1. ReportInv => BoardedWithinExpected
  BY DEF ReportInv, TotalsAreExplained
<1>. QED
  BY <1>1, ReportInvariant, PTL

\* The export misses a booking that matched all along only if another left the
\* selection, and an export of everything misses none.  The table misses one only
\* if another left, or joined between a page's count and its list, or if it shares
\* its created_at with another (streamBookings, listBookings, the table).
THEOREM NoBookingIsMissed == Spec => []NothingIsMissed
<1>1. ASSUME ReportInv PROVE NothingIsMissed
  <2>1. ASSUME task = "exported", ~moved \/ filter = "ALL" PROVE throughout \subseteq seen
    <3>1. ~moved
      BY <1>1, <2>1 DEF ReportInv, ExportIsBehind
    <3>. QED
      BY <1>1, <2>1, <3>1 DEF ReportInv, ExportIsBehind, Unread
  <2>2. ASSUME OnScreen, Page >= PageCount, ~moved PROVE UnreadAlone = {}
    <3>1. task = "pages" /\ listed /\ total # NotCounted /\ Page >= PageCount /\ ~moved /\ total \in Nat
          /\ BatchSize \in Nat \ {0} /\ offset \in Nat
      BY <1>1, <2>2, ReportSizes DEF OnScreen, ReportInv, ReportTypes
    <3>2. PICK k \in 0 .. offset : offset = k * BatchSize
      BY <1>1, <3>1 DEF ReportInv, PagesAreBehind
    <3>. DEFINE pages == (total + BatchSize - 1) \div BatchSize
    <3>3. k \in Nat /\ pages \in Nat /\ pages * BatchSize >= total /\ offset \div BatchSize = k
      BY <3>1, <3>2, Division
    <3>4. PageCount = Max({1, pages})
      BY DEF PageCount
    <3>. HIDE DEF pages
    <3>5. PageCount = (IF 1 <= pages THEN pages ELSE 1)
            /\ Page = (IF k + 1 <= PageCount THEN k + 1 ELSE PageCount)
      <4>1. Max({1, pages}) = IF 1 <= pages THEN pages ELSE 1
        <5>1. 1 \in Int /\ pages \in Int
          BY <3>3
        <5>. QED
          BY <5>1, OfTwo, Zenon
      <4>2. PageCount = (IF 1 <= pages THEN pages ELSE 1) /\ PageCount \in Int /\ k + 1 \in Int
        BY <3>3, <3>4, <4>1
      <4>3. Min({k + 1, PageCount}) = IF k + 1 <= PageCount THEN k + 1 ELSE PageCount
        BY <4>2, OfTwo
      <4>. QED
        BY <3>3, <4>2, <4>3 DEF Page
    <3>6. pages <= k + 1
      BY <3>1, <3>3, <3>5
    <3>7. pages * BatchSize <= (k + 1) * BatchSize /\ (k + 1) * BatchSize = k * BatchSize + BatchSize
      BY <3>1, <3>3, <3>6
    <3>8. total <= offset + BatchSize
      BY <3>1, <3>2, <3>3, <3>7
    <3>. QED
      BY <1>1, <3>1, <3>8 DEF ReportInv, PagesAreBehind
  <2>. QED
    BY <2>1, <2>2 DEF NothingIsMissed, Unread, UnreadAlone
<1>. QED
  BY <1>1, ReportInvariant, PTL

=============================================================================
