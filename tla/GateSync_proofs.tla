-------------------------- MODULE GateSync_proofs --------------------------
(***************************************************************************)
(* Proofs about GateSync for any tickets, days and clock, any page size    *)
(* and any limits.  What a theorem assumes beyond the module's assumption  *)
(* is said where it is stated.                                             *)
(***************************************************************************)
EXTENDS GateSync, NaturalSets

-----------------------------------------------------------------------------
(* What the server, the clock and a pull under way have to do with each    *)
(* other; no assumption.                                                   *)

\* A ticket that is used or cancelled.
Dead(t) == status[t] \in {"USED", "CANCELLED"}

\* A ticket moves once: it is issued, then used or cancelled, by whoever has its row.
TicketsMoveOnce ==
  \A t \in Tickets :
    /\ status[t] \in {Absent, "ACTIVE", "USED", "CANCELLED"}
    /\ open[t] # NoTx => \/ status[t] = Absent /\ open[t].to = "ACTIVE"
                         \/ status[t] = "ACTIVE" /\ open[t].to \in {"USED", "CANCELLED"}

\* No change_log id is beyond the sequence.
LogIsNumbered ==
  /\ \A r \in log : r.id <= seq
  /\ \A t \in Tickets : open[t].id <= seq

\* A pull knows its day from its first request on.
Begun == pull.phase \in {"READ", "PAGE", "DONE"} \/ ~pull.first

\* A pull is of no later day or time than the clock's, and so is the last one.
ClockLeads ==
  /\ meta.syncedAt \in 0 .. clock /\ pull.startedAt \in 0 .. clock
  /\ Begun => meta.syncedAt <= pull.startedAt
  /\ meta.day <= today /\ pull.day <= today

\* A pull starts before the first ticket; what it holds is of its day, and an
\* incremental one goes on from the last.
PullHolds ==
  /\ pull.phase = "IDLE" => pull.first
  /\ ~Begun => pull.after = NoTicket
  /\ Begun => pull.day \in Days
  /\ meta.day = NoDay => meta.version = 0
  /\ Begun /\ ~pull.full => /\ meta.day = pull.day
                            /\ pull.overlapFrom = meta.syncedAt - Overlap
  /\ Begun /\ ~pull.first => meta.day \in {NoDay, pull.day}
  /\ pull.rows # NoRows => pull.phase = "PAGE"
  /\ \A t \in Tickets : staging[t] # Missing => pull.full /\ ~pull.first

\* What was read of a ticket was its status then: of the pull's day, and issued.
ReadIsReal(t, s) ==
  /\ VisitDay(t) = pull.day /\ status[t] # Absent
  /\ s \in {"ACTIVE", "USED", "CANCELLED"}
  /\ s # "ACTIVE" => Dead(t)
ReadsAreReal ==
  \A t \in Tickets : /\ t \in DOMAIN pull.rows => ReadIsReal(t, pull.rows[t])
                     /\ staging[t] # Missing => ReadIsReal(t, staging[t])

\* A ticket the scanner has, shows or has let in was issued, for a day that has come.
KnownIsIssued ==
  \A t \in Tickets :
    /\ cache[t] # Missing => status[t] # Absent
    /\ admitted[t] > 0 \/ screen = t \/ look.ticket = t => status[t] # Absent /\ VisitDay(t) <= today

\* A boarding on its way is of a group that was let in, and what the server has
\* said of it stands.
EventsAreReal ==
  /\ \A e \in queue \union requests \union sent \union judged : admitted[TicketOf(e)] > 0
  /\ \A e \in boarded : Dead(TicketOf(e))
  /\ \A e \in judged : VisitDay(TicketOf(e)) = today => Dead(TicketOf(e))

\* The inductive invariant that needs no assumption.
GateInv ==
  /\ TypeOK /\ TicketsMoveOnce /\ LogIsNumbered /\ ClockLeads /\ PullHolds
  /\ ReadsAreReal /\ KnownIsIssued /\ EventsAreReal /\ AdmissionIsAccounted

-----------------------------------------------------------------------------
(* What keeps the scanner from admitting twice.                            *)

\* The pull has read past this ticket.
Passed(t) ==
  \/ Begun /\ t <= pull.after
  \/ pull.phase = "DONE" \/ (pull.phase = "PAGE" /\ ~pull.more)

\* A full pull has staged, or is about to, every ticket of its day the cache had
\* before a lookup could add one.
FullKeepsKnown ==
  pull.full => \A t \in Tickets :
    VisitDay(t) = pull.day /\ cache[t] # Missing /\ asked[t] = "NEVER" /\ Passed(t)
      => staging[t] # Missing \/ t \in DOMAIN pull.rows

\* A ticket the scanner has seen dead is nowhere on its way as ACTIVE.
DeadIsNotRead ==
  \A t \in Tickets : cache[t] \in {"CANCELLED", "EXPIRED"} =>
    Dead(t) /\ staging[t] # "ACTIVE" /\ (t \in DOMAIN pull.rows => pull.rows[t] # "ACTIVE")

\* The cache has nothing of a day to come, or of a day after the pull's unless it
\* was looked up; what it forgets is of a day gone by, or is lost.
CacheIsOfDay ==
  \A t \in Tickets :
    /\ cache[t] # Missing =>
         VisitDay(t) <= today /\ (Begun /\ asked[t] = "NEVER" => VisitDay(t) <= pull.day)
    /\ (admitted[t] > 0 \/ screen = t) /\ cache[t] = Missing /\ asked[t] # "LOST" =>
         VisitDay(t) < today /\ (Begun => VisitDay(t) < pull.day)

\* A ticket that was let in is not VALID here again, nor does anybody ask about it.
AdmittedIsSpent ==
  \A t \in Tickets : admitted[t] > 0 /\ asked[t] # "LOST" =>
    screen # t /\ cache[t] # "ACTIVE" /\ look.ticket # t

\* The scanner does not ask behind a verdict.
AsksBetweenScans == look = NoLook \/ screen = NoTicket

OnceInv ==
  /\ AdmittedOnce /\ AsksBetweenScans
  /\ FullKeepsKnown /\ DeadIsNotRead /\ CacheIsOfDay /\ AdmittedIsSpent

-----------------------------------------------------------------------------
(* What makes the overlap long enough.                                     *)

\* Neither a transaction nor a lookup outlives its limit.
NothingOutlives ==
  /\ \A t \in Tickets : open[t] # NoTx => open[t].at >= clock - TxLimit
  /\ look # NoLook => look.at \in (clock - LookupLimit) .. clock

\* The log shows a change of the ticket that was committed since then.
ChangedSince(t, from) == \E r \in log : r.ticket = t /\ r.at >= from - TxLimit

\* The same of a change that the sync after one begun then selects.
ResentAfter(t, from) == \E r \in log : r.ticket = t /\ r.at > from - Overlap

\* What was read, or looked up, and is no longer so, was changed since.
ReadsAreFresh ==
  /\ \A t \in Tickets : /\ t \in DOMAIN pull.rows /\ pull.rows[t] = "ACTIVE" /\ Dead(t) => ChangedSince(t, pull.startedAt)
                        /\ staging[t] = "ACTIVE" /\ Dead(t) => ChangedSince(t, pull.startedAt)
  /\ \A t \in Tickets : look.ticket = t /\ Dead(t) => ChangedSince(t, look.at)

\* What a full pull has passed and does not hold was issued since.
FullIsFresh ==
  pull.full => \A t \in Tickets :
    VisitDay(t) = pull.day /\ Passed(t) /\ staging[t] = Missing /\ t \notin DOMAIN pull.rows /\ status[t] = "ACTIVE"
      => ChangedSince(t, pull.startedAt)

\* What an incremental pull leaves outdated, the sync after it selects.
IncrementIsFresh ==
  Begun /\ ~pull.full => \A t \in Tickets :
    VisitDay(t) = pull.day /\ Passed(t) /\ t \notin DOMAIN pull.rows /\ Outdated(t) => ResentAfter(t, pull.startedAt)

\* What is outdated since the last sync, the next one selects.
OutdatedIsResent ==
  \A t \in Tickets : VisitDay(t) = meta.day /\ Outdated(t) => ResentAfter(t, meta.syncedAt)

FreshInv == NothingOutlives /\ ReadsAreFresh /\ FullIsFresh /\ IncrementIsFresh /\ OutdatedIsResent


-----------------------------------------------------------------------------
(* What the operators of a pull return.                                    *)

\* What a pull is.
Pulls ==
  [phase : {"IDLE", "ASK", "READ", "PAGE", "DONE"}, first : BOOLEAN, full : BOOLEAN,
   day : Days \union {NoDay}, since : Ids, version : Ids, startedAt : Times,
   overlapFrom : Times, after : Tickets \union {NoTicket}, rows : Rows, more : BOOLEAN]

\* Greatest returns the greatest element of a set that has one.
LEMMA GreatestIsLast ==
  ASSUME NEW S \in SUBSET Nat, S # {}, NEW bound \in Nat, \A x \in S : x <= bound
  PROVE  Greatest(S) \in S /\ \A y \in S : y <= Greatest(S)
<1>1. \E x \in S : \A y \in S : y <= x
  BY GreatestNatural
<1>. QED
  BY <1>1 DEF Greatest

\* The watermark is a change_log id.
LEMMA WatermarkIsId ==
  ASSUME TypeOK, LogIsNumbered
  PROVE  Watermark \in Nat
<1>. DEFINE S == {r.id : r \in log}
<1>1. CASE log = {}
  BY <1>1 DEF Watermark
<1>2. CASE log # {}
  <2>1. \A r \in log : r.id \in Nat /\ r.id <= seq
    BY DEF TypeOK, LogIsNumbered, Ids
  <2>2. S \in SUBSET Nat /\ S # {} /\ seq \in Nat /\ \A x \in S : x <= seq
    BY <1>2, <2>1 DEF TypeOK, Ids
  <2>3. Greatest(S) \in S
    <3>. HIDE DEF S
    <3>. QED
      BY <2>2, GreatestIsLast
  <2>. QED
    BY <1>2, <2>2, <2>3 DEF Watermark
<1>. QED
  BY <1>1, <1>2

\* A page is the first of the selected tickets, and not empty if any is selected.
LEMMA PageIsFirst ==
  ASSUME NEW S \in SUBSET Tickets
  PROVE  /\ Page(S) \subseteq S
         /\ S # {} => /\ Greatest(Page(S)) \in Page(S)
                      /\ \A t \in S : t <= Greatest(Page(S)) => t \in Page(S)
<1>. DEFINE Before(t) == {u \in S : u < t}
<1>1. Page(S) \subseteq S
  BY DEF Page
<1>2. NTickets \in Nat /\ Tickets \subseteq Nat /\ S \in SUBSET Nat /\ \A t \in Tickets : t <= NTickets
  BY GateAssumption DEF Tickets
<1>3. ASSUME S # {} PROVE Page(S) # {}
  <2>1. PICK x \in S : \A y \in S : x <= y
    BY <1>2, <1>3, LeastNatural
  <2>2. Before(x) = {}
    <3>1. \A y \in S : y \in Nat /\ x \in Nat /\ x <= y
      BY <1>2, <2>1
    <3>2. \A y \in S : ~(y < x)
      BY <3>1
    <3>. QED
      BY <3>2
  <2>3. Cardinality(Before(x)) = 0
    BY <2>2, FS_EmptySet, Zenon
  <2>. QED
    BY <2>1, <2>3, GateAssumption DEF Page
<1>4. ASSUME S # {} PROVE Greatest(Page(S)) \in Page(S)
  <2>1. Page(S) \in SUBSET Nat /\ Page(S) # {} /\ \A t \in Page(S) : t <= NTickets
    BY <1>1, <1>2, <1>3, <1>4
  <2>. QED
    BY <1>2, <2>1, GreatestIsLast
<1>5. ASSUME S # {}, NEW t \in S, t <= Greatest(Page(S)) PROVE t \in Page(S)
  <2>. DEFINE g == Greatest(Page(S))
  <2>1. g \in S /\ Cardinality(Before(g)) < PageSize
    BY <1>4, <1>5 DEF Page
  <2>2. Before(t) \subseteq Before(g)
    <3>1. t \in Nat /\ g \in Nat /\ t <= g /\ \A u \in S : u \in Nat
      BY <1>2, <1>5, <2>1
    <3>2. \A u \in S : u < t => u < g
      BY <3>1
    <3>. QED
      BY <3>2
  <2>3. IsFiniteSet(Before(g))
    <3>1. Before(g) \in SUBSET (1 .. NTickets)
      BY DEF Tickets
    <3>2. IsFiniteSet(1 .. NTickets)
      BY <1>2, FS_Interval
    <3>. HIDE DEF Before
    <3>. QED
      BY <3>1, <3>2, FS_Subset
  <2>4. Cardinality(Before(t)) <= Cardinality(Before(g)) /\ Cardinality(Before(g)) \in Nat
        /\ Cardinality(Before(t)) \in Nat
    <3>1. Before(t) \in SUBSET Before(g)
      BY <2>2
    <3>. HIDE DEF Before
    <3>2. Cardinality(Before(t)) <= Cardinality(Before(g)) /\ IsFiniteSet(Before(t))
      BY <2>3, <3>1, FS_Subset
    <3>. QED
      BY <2>3, <3>2, FS_CardinalityType
  <2>5. Cardinality(Before(t)) < PageSize
    BY <2>1, <2>4, GateAssumption
  <2>. QED
    BY <2>5 DEF Page
<1>. QED
  BY <1>1, <1>4, <1>5

\* What a page holds are statuses of tickets.
LEMMA RowsAreStatuses ==
  ASSUME TypeOK
  PROVE  DOMAIN pull.rows \subseteq Tickets /\ \A t \in DOMAIN pull.rows : pull.rows[t] \in TicketStatuses
<1>1. pull.rows \in Rows
  BY DEF TypeOK
<1>2. PICK S \in SUBSET Tickets : pull.rows \in [S -> TicketStatuses]
  BY <1>1 DEF Rows
<1>. QED
  BY <1>2

\* An empty page holds none, and is no other.
LEMMA NoRowsIsEmpty == NoRows \in Rows /\ DOMAIN NoRows = {}
<1>1. NoRows \in [{} -> TicketStatuses] /\ {} \in SUBSET Tickets
  BY DEF NoRows
<1>. QED
  BY <1>1 DEF Rows, NoRows

-----------------------------------------------------------------------------
(* What the steps of a pull write.                                         *)

\* SyncStarts only starts it.
LEMMA SyncStartsWrites ==
  ASSUME TypeOK, SyncStarts
  PROVE  /\ pull.phase = "IDLE" /\ pull' \in Pulls /\ pull'.phase = "ASK"
         /\ pull'.first = pull.first /\ pull'.full = pull.full /\ pull'.day = pull.day
         /\ pull'.startedAt = pull.startedAt /\ pull'.overlapFrom = pull.overlapFrom
         /\ pull'.after = pull.after /\ pull'.rows = pull.rows /\ pull'.more = pull.more
         /\ push' = "WALK"
         /\ UNCHANGED <<serverRows, time, requests, cache, queue, staging, meta, sent, judged, scanning,
                        asked>>
<1>1. pull \in Pulls
  BY DEF TypeOK, Pulls
<1>. QED
  BY <1>1 DEF SyncStarts, SyncDue, Pulls

\* FirstRequest takes the day and the time, and reads no row.
LEMMA FirstRequestWrites ==
  ASSUME TypeOK, LogIsNumbered, ClockLeads, FirstRequest
  PROVE  /\ pull.phase = "ASK" /\ pull.first /\ pull' \in Pulls /\ pull'.phase = "READ" /\ pull'.first
         /\ pull'.full = (meta.version = 0 \/ (meta.day # NoDay /\ meta.day # today))
         /\ pull'.day = today /\ pull'.startedAt = clock /\ pull'.overlapFrom = OverlapFrom
         /\ pull'.after = pull.after /\ pull'.rows = pull.rows
         /\ UNCHANGED <<serverRows, time, requests, cache, queue, staging, meta, pushing, scanning, asked>>
<1>1. pull \in Pulls
  BY DEF TypeOK, Pulls
<1>2. Watermark \in Ids /\ clock \in Times /\ OverlapFrom \in Times
  BY WatermarkIsId, GateAssumption DEF TypeOK, ClockLeads, OverlapFrom, Times, Ids
<1>3. today \in Days /\ meta.version \in Ids
  BY DEF TypeOK
<1>. QED
  BY <1>1, <1>2, <1>3 DEF FirstRequest, Pulls

\* NextRequest asks again.
LEMMA NextRequestWrites ==
  ASSUME TypeOK, NextRequest
  PROVE  /\ pull.phase = "ASK" /\ ~pull.first /\ pull' \in Pulls /\ pull'.phase = "READ"
         /\ pull'.first = pull.first /\ pull'.full = pull.full /\ pull'.day = pull.day
         /\ pull'.startedAt = pull.startedAt /\ pull'.overlapFrom = pull.overlapFrom
         /\ pull'.after = pull.after /\ pull'.rows = pull.rows /\ pull'.more = pull.more
         /\ UNCHANGED <<serverRows, time, requests, cache, queue, staging, meta, pushing, scanning, asked>>
<1>1. pull \in Pulls
  BY DEF TypeOK, Pulls
<1>. QED
  BY <1>1 DEF NextRequest, Pulls

\* ReadPage moves the cursor to the last ticket of the page.
LEMMA ReadPageWrites ==
  ASSUME TypeOK, ReadPage
  PROVE  /\ pull.phase = "READ" /\ pull' \in Pulls /\ pull'.phase = "PAGE"
         /\ pull'.first = pull.first /\ pull'.full = pull.full /\ pull'.day = pull.day
         /\ pull'.startedAt = pull.startedAt /\ pull'.overlapFrom = pull.overlapFrom
         /\ pull'.rows = [t \in Page(Selected) |-> status[t]]
         /\ pull'.more = (Page(Selected) # Selected)
         /\ pull'.after = IF Selected = {} THEN pull.after ELSE Greatest(Page(Selected))
         /\ UNCHANGED <<serverRows, time, requests, cache, queue, staging, meta, pushing, scanning, asked>>
<1>1. pull \in Pulls
  BY DEF TypeOK, Pulls
<1>2. Selected \in SUBSET Tickets
  BY DEF Selected
<1>3. Selected # {} => Greatest(Page(Selected)) \in Tickets
  BY <1>2, PageIsFirst
<1>4. [t \in Page(Selected) |-> status[t]] \in Rows
  <2>1. \A t \in Page(Selected) : status[t] \in TicketStatuses
    BY <1>2, PageIsFirst DEF Selected, TypeOK
  <2>2. Page(Selected) \in SUBSET Tickets
    BY <1>2, PageIsFirst
  <2>3. [t \in Page(Selected) |-> status[t]] \in [Page(Selected) -> TicketStatuses]
    BY <2>1
  <2>. QED
    BY <2>2, <2>3 DEF Rows
<1>5. (Page(Selected) # Selected) \in BOOLEAN
  OBVIOUS
<1>. DEFINE read == [t \in Page(Selected) |-> status[t]]
            left == (Page(Selected) # Selected)
            last == IF Selected = {} THEN pull.after ELSE Greatest(Page(Selected))
<1>6. /\ pull' = [pull EXCEPT !.phase = "PAGE", !.rows = read, !.more = left, !.after = last]
      /\ pull.phase = "READ"
      /\ UNCHANGED <<serverRows, time, requests, cache, queue, staging, meta, pushing, scanning, asked>>
  BY DEF ReadPage
<1>7. read \in Rows /\ left \in BOOLEAN /\ last \in Tickets \union {NoTicket}
  <2>1. pull.after \in Tickets \union {NoTicket}
    BY <1>1 DEF Pulls
  <2>2. last \in Tickets \union {NoTicket}
    BY <1>3, <2>1
  <2>. QED
    BY <1>4, <1>5, <2>2
<1>8. /\ pull' \in Pulls /\ pull'.phase = "PAGE"
      /\ pull'.first = pull.first /\ pull'.full = pull.full /\ pull'.day = pull.day
      /\ pull'.startedAt = pull.startedAt /\ pull'.overlapFrom = pull.overlapFrom
      /\ pull'.rows = read /\ pull'.more = left /\ pull'.after = last
  <2>. HIDE DEF read, left, last
  <2>. QED
    BY <1>1, <1>6, <1>7 DEF Pulls
<1>. QED
  BY <1>6, <1>8

\* PageArrives stages the page, or applies it.
LEMMA PageArrivesWrites ==
  ASSUME TypeOK, PageArrives
  PROVE  /\ pull.phase = "PAGE" /\ pull' \in Pulls /\ pull'.phase = (IF pull.more THEN "ASK" ELSE "DONE")
         /\ ~pull'.first /\ pull'.full = pull.full /\ pull'.day = pull.day
         /\ pull'.startedAt = pull.startedAt /\ pull'.overlapFrom = pull.overlapFrom
         /\ pull'.after = pull.after /\ pull'.rows = NoRows /\ pull'.more = pull.more
         /\ meta' = Rollover(meta)
         /\ UNCHANGED <<serverRows, time, requests, queue, pushing, scanning, asked>>
<1>1. pull \in Pulls
  BY DEF TypeOK, Pulls
<1>. QED
  BY <1>1, NoRowsIsEmpty DEF PageArrives, Pulls

\* The end of a pull leaves none.
LEMMA NoPullWrites ==
  /\ NoPull \in Pulls /\ NoPull.phase = "IDLE" /\ NoPull.first /\ ~NoPull.full /\ NoPull.day = NoDay
  /\ NoPull.startedAt = 0 /\ NoPull.after = NoTicket /\ NoPull.rows = NoRows
BY NoRowsIsEmpty, GateAssumption DEF NoPull, Pulls, Days, Ids, Times


-----------------------------------------------------------------------------
(* Type correctness.                                                       *)

\* Tickets and days are numbers.
LEMMA TicketsAreNumbers ==
  /\ Tickets \subseteq Nat /\ NoTicket \notin Tickets
  /\ \A t \in Tickets : t > NoTicket
BY GateAssumption DEF Tickets, NoTicket

\* A ticket's day is never NoDay.
LEMMA DaysAreNumbers ==
  /\ Days \subseteq Nat
  /\ \A t \in Tickets : VisitDay(t) \in {0, 1} /\ VisitDay(t) # NoDay
BY GateAssumption DEF Days, VisitDay, NoDay

\* Every action keeps the variables in their types.
LEMMA TypeStep == GateInv /\ [Next]_vars => TypeOK'
<1>. SUFFICES ASSUME GateInv, [Next]_vars PROVE TypeOK'
  OBVIOUS
<1>0. TypeOK /\ LogIsNumbered /\ ClockLeads
  BY DEF GateInv
<1>. USE <1>0, GateAssumption DEF serverRows, time, pulling, pushing, scanning
<1>1. ASSUME NEW t \in Tickets, NEW to \in TicketStatuses, TxWrites(t, to) PROVE TypeOK'
  <2>. DEFINE tx == [id |-> seq', at |-> clock, to |-> to]
  <2>1. tx \in [id : Ids, at : Times, to : TicketStatuses \union {Absent}] /\ seq' \in Ids
    BY <1>1 DEF TxWrites, TypeOK, Ids, Times
  <2>2. open' = [open EXCEPT ![t] = tx]
    BY <1>1 DEF TxWrites
  <2>. HIDE DEF tx
  <2>. QED
    BY <1>1, <2>1, <2>2 DEF TxWrites, TypeOK
<1>2. ASSUME NEW t \in Tickets, TxCommits(t) PROVE TypeOK'
  <2>1. NoTx \in [id : Ids, at : Times, to : TicketStatuses \union {Absent}]
    BY DEF NoTx, Ids, Times
  <2>2. [id |-> open[t].id, ticket |-> t, at |-> open[t].at] \in [id : Ids, ticket : Tickets, at : Times]
    BY DEF TypeOK
  <2>. QED
    BY <1>2, <2>1, <2>2 DEF TxCommits, TypeOK
<1>3. ASSUME Tick \/ NewDay PROVE TypeOK'
  BY <1>3 DEF Tick, NewDay, TypeOK, Days
<1>4. ASSUME pull' \in Pulls, UNCHANGED <<serverRows, time, requests, cache, queue, staging, meta, sent, judged, scanning,
                         asked>>,
             push' \in {"IDLE", "WALK", "SENT"}
      PROVE  TypeOK'
  BY <1>4 DEF TypeOK, Pulls
<1>5. ASSUME SyncStarts PROVE TypeOK'
  BY <1>4, <1>5, SyncStartsWrites
<1>6. ASSUME FirstRequest PROVE TypeOK'
  BY <1>4, <1>6, FirstRequestWrites DEF TypeOK
<1>7. ASSUME NextRequest PROVE TypeOK'
  BY <1>4, <1>7, NextRequestWrites DEF TypeOK
<1>8. ASSUME ReadPage PROVE TypeOK'
  BY <1>4, <1>8, ReadPageWrites DEF TypeOK
<1>9. ASSUME PageArrives PROVE TypeOK'
  <2>1. meta' \in [version : Ids, syncedAt : Times, day : Days \union {NoDay}]
    BY <1>9, PageArrivesWrites DEF Rollover, NeverSynced, TypeOK, Ids, Times
  <2>2. \A t \in Tickets, s \in TicketStatuses : Preserved(t, s) \in TicketStatuses
    BY DEF Preserved, TicketStatuses
  <2>3. cache' \in [Tickets -> TicketStatuses \union {Missing}]
    BY <1>9, <2>2, RowsAreStatuses DEF PageArrives, TypeOK
  <2>4. staging' \in [Tickets -> TicketStatuses \union {Missing}]
    BY <1>9, RowsAreStatuses DEF PageArrives, TypeOK
  <2>. QED
    BY <1>9, <2>1, <2>3, <2>4, PageArrivesWrites DEF TypeOK, Pulls
<1>10. ASSUME PullCompletes PROVE TypeOK'
  <2>1. [version |-> pull.version, syncedAt |-> pull.startedAt, day |-> pull.day]
          \in [version : Ids, syncedAt : Times, day : Days \union {NoDay}]
    BY DEF TypeOK
  <2>2. cache' \in [Tickets -> TicketStatuses \union {Missing}]
    <3>1. \A t \in Tickets, s \in TicketStatuses : Preserved(t, s) \in TicketStatuses
      BY DEF Preserved, TicketStatuses
    <3>. QED
      BY <1>10, <3>1 DEF PullCompletes, TypeOK
  <2>3. NoPull \in Pulls /\ pull' = NoPull
    BY <1>10, NoPullWrites DEF PullCompletes
  <2>4. asked' \in [Tickets -> {"NEVER", "STORED", "LOST"}]
    BY <1>10 DEF PullCompletes, TypeOK
  <2>. HIDE DEF NoPull
  <2>. QED
    BY <1>10, <2>1, <2>2, <2>3, <2>4 DEF PullCompletes, TypeOK, Pulls
<1>11. ASSUME PullFails PROVE TypeOK'
  <2>1. NoPull \in Pulls /\ pull' = NoPull
    BY <1>11, NoPullWrites DEF PullFails
  <2>. QED
    BY <1>11, <2>1 DEF PullFails, TypeOK, Pulls
<1>12. ASSUME PushSends \/ PushAnswered \/ PushEnds PROVE TypeOK'
  BY <1>12 DEF PushSends, PushAnswered, Answered, PushEnds, TypeOK
<1>13. ASSUME NEW e \in requests, JudgeEvent(e) PROVE TypeOK'
  <2>1. e \in Events /\ TicketOf(e) \in Tickets
    BY DEF TypeOK, Events, TicketOf
  <2>2. [id |-> seq + 1, ticket |-> TicketOf(e), at |-> clock] \in [id : Ids, ticket : Tickets, at : Times]
    BY <2>1 DEF TypeOK, Ids, Times
  <2>3. /\ status' \in [Tickets -> TicketStatuses \union {Absent}] /\ boarded' \subseteq Events /\ seq' \in Ids
        /\ open' = open
    BY <1>13, <2>1 DEF JudgeEvent, TypeOK, TicketStatuses, Ids
  <2>4. log' \subseteq [id : Ids, ticket : Tickets, at : Times]
    BY <1>13, <2>2 DEF JudgeEvent, TypeOK
  <2>. QED
    BY <1>13, <2>1, <2>3, <2>4 DEF JudgeEvent, TypeOK
<1>14. ASSUME NEW e \in requests, JudgeFails(e) PROVE TypeOK'
  BY <1>14 DEF JudgeFails, TypeOK
<1>15. ASSUME NEW t \in Tickets, Scan(t) \/ LookUp(t) PROVE TypeOK'
  BY <1>15 DEF Scan, LookUp, TypeOK, Times
<1>16. ASSUME LookupArrives PROVE TypeOK'
  <2>1. NoLook \in [ticket : Tickets \union {NoTicket}, at : Times]
    BY DEF NoLook, Times
  <2>. QED
    <3>1. look.ticket \in Tickets \union {NoTicket} /\ look' = NoLook /\ screen' = look.ticket
      BY <1>16 DEF LookupArrives, TypeOK
    <3>2. cache' \in [Tickets -> TicketStatuses \union {Missing}]
      BY <1>16 DEF LookupArrives, TypeOK, TicketStatuses
    <3>3. asked' \in [Tickets -> {"NEVER", "STORED", "LOST"}]
      BY <1>16 DEF LookupArrives, TypeOK
    <3>. QED
      BY <1>16, <2>1, <3>1, <3>2, <3>3 DEF LookupArrives, TypeOK
<1>17. ASSUME LookupFails \/ DismissResult PROVE TypeOK'
  <2>1. NoLook \in [ticket : Tickets \union {NoTicket}, at : Times]
    BY DEF NoLook, Times
  <2>. QED
    BY <1>17, <2>1 DEF LookupFails, DismissResult, TypeOK
<1>18. ASSUME ConfirmBoarding PROVE TypeOK'
  <2>1. screen \in Tickets
    BY <1>18 DEF ConfirmBoarding, ShowsValid, TypeOK
  <2>2. admitted' \in [Tickets -> 0 .. MaxAdmissions] /\ admitted'[screen] \in 1 .. MaxAdmissions
    BY <1>18, <2>1 DEF ConfirmBoarding, TypeOK, MaxAdmissions
  <2>3. cache' \in [Tickets -> TicketStatuses \union {Missing}]
    BY <1>18, <2>1 DEF ConfirmBoarding, CacheAfter, TypeOK, TicketStatuses
  <2>4. queue' \subseteq Events
    BY <1>18, <2>1, <2>2 DEF ConfirmBoarding, TypeOK, Events
  <2>. QED
    BY <1>18, <2>2, <2>3, <2>4 DEF ConfirmBoarding, TypeOK
<1>19. CASE UNCHANGED vars
  BY <1>19 DEF vars, TypeOK
<1>. QED
  BY <1>1, <1>2, <1>3, <1>5, <1>6, <1>7, <1>8, <1>9, <1>10, <1>11, <1>12, <1>13, <1>14, <1>15, <1>16, <1>17,
     <1>18, <1>19 DEF Next, Others, Pull, Push, Operator

-----------------------------------------------------------------------------
(* What needs no assumption.                                               *)

\* The rows of a page are selected ones.
LEMMA SelectedAreFirst == Page(Selected) \subseteq Selected
<1>1. Selected \in SUBSET Tickets
  BY DEF Selected
<1>. QED
  BY <1>1, PageIsFirst

\* A commit only moves a ticket on.
LEMMA CommitMoves ==
  ASSUME GateInv, NEW t \in Tickets, TxCommits(t)
  PROVE  \A u \in Tickets : /\ status[u] # Absent => status'[u] # Absent
                            /\ Dead(u) => Dead(u)'
<1>1. status' = [status EXCEPT ![t] = open[t].to] /\ open[t] # NoTx
  BY DEF TxCommits
<1>. QED
  BY <1>1 DEF GateInv, TypeOK, TicketsMoveOnce, Dead, Absent

\* So does a boarding the server accepts.
LEMMA JudgeMoves ==
  ASSUME GateInv, NEW e \in requests, JudgeEvent(e)
  PROVE  \A u \in Tickets : /\ status[u] # Absent => status'[u] # Absent
                            /\ Dead(u) => Dead(u)'
<1>1. status' \in {status, [status EXCEPT ![TicketOf(e)] = "USED"]}
  BY DEF JudgeEvent, serverRows
<1>. QED
  BY <1>1 DEF GateInv, TypeOK, Dead, Absent

\* Every step keeps server, pull and scanner in the order GateInv says.
LEMMA GateStep == GateInv /\ [Next]_vars => GateInv'
<1>. SUFFICES ASSUME GateInv, [Next]_vars PROVE GateInv'
  OBVIOUS
<1>1. ASSUME NEW t \in Tickets, NEW to \in TicketStatuses, TxWrites(t, to) PROVE GateInv'
  <2>1. /\ (status[t] = Absent /\ to = "ACTIVE") \/ (status[t] = "ACTIVE" /\ to \in {"USED", "CANCELLED"})
        /\ seq' = seq + 1 /\ open' = [open EXCEPT ![t] = [id |-> seq', at |-> clock, to |-> to]]
        /\ UNCHANGED <<status, log, boarded, clock, today, requests, cache, staging, queue, meta, pull,
                       sent, judged, look, screen, admitted>>
    BY <1>1 DEF TxWrites, serverRows, time, pulling, pushing, scanning
  <2>2. ClockLeads' /\ PullHolds' /\ ReadsAreReal' /\ KnownIsIssued' /\ EventsAreReal'
          /\ AdmissionIsAccounted'
    BY <2>1 DEF GateInv, ClockLeads, Begun, PullHolds, Begun, ReadsAreReal, ReadIsReal, Dead,
       KnownIsIssued, EventsAreReal, AdmissionIsAccounted
  <2>3. TicketsMoveOnce'
    BY <2>1 DEF GateInv, TypeOK, TicketsMoveOnce
  <2>4. LogIsNumbered'
    BY <2>1, GateAssumption DEF GateInv, TypeOK, LogIsNumbered, Ids
  <2>. QED
    BY TypeStep, <2>2, <2>3, <2>4 DEF GateInv
<1>2. ASSUME NEW t \in Tickets, TxCommits(t) PROVE GateInv'
  <2>1. /\ open[t] # NoTx /\ status' = [status EXCEPT ![t] = open[t].to]
        /\ open' = [open EXCEPT ![t] = NoTx]
        /\ log' = log \union {[id |-> open[t].id, ticket |-> t, at |-> open[t].at]}
        /\ UNCHANGED <<seq, boarded, clock, today, requests, cache, staging, queue, meta, pull, sent,
                       judged, look, screen, admitted>>
    BY <1>2 DEF TxCommits, serverRows, time, pulling, pushing, scanning
  <2>2. ClockLeads' /\ PullHolds'
    BY <2>1 DEF GateInv, ClockLeads, Begun, PullHolds, Begun
  <2>3. TicketsMoveOnce'
    BY <2>1 DEF GateInv, TypeOK, TicketsMoveOnce
  <2>4. LogIsNumbered'
    BY <2>1 DEF GateInv, TypeOK, LogIsNumbered, NoTx, Ids
  <2>5. ReadsAreReal'
    BY <2>1, CommitMoves, <1>2 DEF GateInv, ReadsAreReal, ReadIsReal
  <2>6. KnownIsIssued'
    BY <2>1, CommitMoves, <1>2 DEF GateInv, KnownIsIssued
  <2>7. EventsAreReal'
    BY <2>1, CommitMoves, <1>2 DEF GateInv, EventsAreReal, TypeOK, Events, TicketOf
  <2>8. AdmissionIsAccounted'
    BY <2>1, CommitMoves, <1>2 DEF GateInv, AdmissionIsAccounted, Dead
  <2>. QED
    BY TypeStep, <2>2, <2>3, <2>4, <2>5, <2>6, <2>7, <2>8 DEF GateInv
<1>3. ASSUME Tick PROVE GateInv'
  <2>1. /\ clock' = clock + 1
        /\ UNCHANGED <<status, open, log, seq, boarded, today, requests, cache, staging, queue, meta,
                       pull, sent, judged, look, screen, admitted>>
    BY <1>3 DEF Tick, serverRows, time, pulling, pushing, scanning
  <2>2. TicketsMoveOnce' /\ LogIsNumbered' /\ PullHolds' /\ ReadsAreReal' /\ KnownIsIssued'
          /\ EventsAreReal' /\ AdmissionIsAccounted'
    BY <2>1 DEF GateInv, TicketsMoveOnce, LogIsNumbered, PullHolds, Begun, ReadsAreReal, ReadIsReal, Dead,
       KnownIsIssued, EventsAreReal, AdmissionIsAccounted
  <2>3. ClockLeads'
    BY <2>1, GateAssumption DEF GateInv, TypeOK, ClockLeads, Begun
  <2>. QED
    BY TypeStep, <2>2, <2>3 DEF GateInv
<1>4. ASSUME NewDay PROVE GateInv'
  <2>1. /\ today' = today + 1
        /\ UNCHANGED <<status, open, log, seq, boarded, clock, requests, cache, staging, queue, meta,
                       pull, sent, judged, look, screen, admitted>>
    BY <1>4 DEF NewDay, serverRows, time, pulling, pushing, scanning
  <2>2. TicketsMoveOnce' /\ LogIsNumbered' /\ PullHolds' /\ ReadsAreReal'
    BY <2>1 DEF GateInv, TicketsMoveOnce, LogIsNumbered, PullHolds, Begun, ReadsAreReal, ReadIsReal, Dead
  <2>3. ClockLeads'
    BY <2>1, GateAssumption DEF GateInv, TypeOK, ClockLeads, Begun, Days, NoDay
  <2>4. KnownIsIssued'
    BY <2>1, DaysAreNumbers DEF GateInv, TypeOK, KnownIsIssued
  <2>5. EventsAreReal'
    BY <2>1, DaysAreNumbers DEF GateInv, TypeOK, EventsAreReal, KnownIsIssued, Events, TicketOf, Dead
  <2>6. AdmissionIsAccounted'
    BY <2>1, DaysAreNumbers DEF GateInv, TypeOK, AdmissionIsAccounted, KnownIsIssued
  <2>. QED
    BY TypeStep, <2>2, <2>3, <2>4, <2>5, <2>6 DEF GateInv
<1>5. ASSUME SyncStarts PROVE GateInv'
  <2>1. /\ pull.phase = "IDLE" /\ pull'.phase = "ASK"
        /\ pull'.first = pull.first /\ pull'.full = pull.full /\ pull'.day = pull.day
        /\ pull'.startedAt = pull.startedAt /\ pull'.overlapFrom = pull.overlapFrom
        /\ pull'.rows = pull.rows
        /\ pull'.after = pull.after
        /\ UNCHANGED <<status, open, log, seq, boarded, clock, today, requests, cache, staging, queue,
                       meta, sent, judged, look, screen, admitted>>
    BY <1>5, SyncStartsWrites DEF GateInv, SyncStarts, serverRows, time, pulling, pushing, scanning
  <2>2. TicketsMoveOnce' /\ LogIsNumbered' /\ KnownIsIssued' /\ EventsAreReal' /\ AdmissionIsAccounted'
    BY <2>1 DEF GateInv, TicketsMoveOnce, LogIsNumbered, KnownIsIssued, EventsAreReal, Dead,
       AdmissionIsAccounted
  <2>3. ClockLeads'
    BY <2>1 DEF GateInv, ClockLeads, Begun
  <2>4. PullHolds'
    BY <2>1 DEF GateInv, PullHolds, Begun
  <2>5. ReadsAreReal'
    BY <2>1 DEF GateInv, ReadsAreReal, ReadIsReal, Dead
  <2>. QED
    BY TypeStep, <2>2, <2>3, <2>4, <2>5 DEF GateInv
<1>6. ASSUME FirstRequest PROVE GateInv'
  <2>1. /\ ~Begun /\ pull'.phase = "READ" /\ pull'.first /\ pull.rows = NoRows /\ pull'.rows = NoRows
        /\ pull'.day = today /\ pull'.startedAt = clock
        /\ ~pull'.full => meta.version # 0 /\ (meta.day = NoDay \/ meta.day = today)
        /\ pull'.overlapFrom
             = (IF meta.day # NoDay /\ meta.syncedAt < clock THEN meta.syncedAt ELSE clock) - Overlap
        /\ UNCHANGED <<status, open, log, seq, boarded, clock, today, requests, cache, staging, queue,
                       meta, sent, judged, look, screen, admitted>>
    BY <1>6, FirstRequestWrites DEF GateInv, Begun, PullHolds, OverlapFrom, serverRows, time, pulling,
       pushing, scanning
  <2>2. TicketsMoveOnce' /\ LogIsNumbered' /\ KnownIsIssued' /\ EventsAreReal' /\ AdmissionIsAccounted'
    BY <2>1 DEF GateInv, TicketsMoveOnce, LogIsNumbered, KnownIsIssued, EventsAreReal, Dead,
       AdmissionIsAccounted
  <2>3. ClockLeads'
    BY <2>1, DaysAreNumbers, GateAssumption DEF GateInv, ClockLeads, Begun, TypeOK
  <2>4. PullHolds'
    <3>1. ~pull'.full => meta.day = today /\ pull'.overlapFrom = meta.syncedAt - Overlap
      <4>1. ~pull'.full => meta.day = today /\ meta.day # NoDay
        BY <2>1 DEF GateInv, PullHolds
      <4>2. meta.syncedAt \in Int /\ clock \in Int /\ meta.syncedAt <= clock
        BY GateAssumption DEF GateInv, ClockLeads, Begun, TypeOK
      <4>. QED
        BY <2>1, <4>1, <4>2
    <3>. QED
      BY <2>1, <3>1 DEF GateInv, PullHolds, TypeOK, Begun
  <2>5. ReadsAreReal'
    BY <2>1, NoRowsIsEmpty DEF GateInv, ReadsAreReal, PullHolds, Begun
  <2>. QED
    BY TypeStep, <2>2, <2>3, <2>4, <2>5 DEF GateInv
<1>7. ASSUME NextRequest PROVE GateInv'
  <2>1. /\ pull.phase = "ASK" /\ ~pull.first /\ pull'.phase = "READ"
        /\ pull'.first = pull.first /\ pull'.full = pull.full /\ pull'.day = pull.day
        /\ pull'.startedAt = pull.startedAt /\ pull'.overlapFrom = pull.overlapFrom
        /\ pull'.rows = pull.rows
        /\ UNCHANGED <<status, open, log, seq, boarded, clock, today, requests, cache, staging, queue,
                       meta, sent, judged, look, screen, admitted>>
    BY <1>7, NextRequestWrites DEF GateInv, NextRequest, serverRows, time, pulling, pushing, scanning
  <2>2. TicketsMoveOnce' /\ LogIsNumbered' /\ KnownIsIssued' /\ EventsAreReal' /\ AdmissionIsAccounted'
    BY <2>1 DEF GateInv, TicketsMoveOnce, LogIsNumbered, KnownIsIssued, EventsAreReal, Dead,
       AdmissionIsAccounted
  <2>3. ClockLeads'
    BY <2>1 DEF GateInv, ClockLeads, Begun
  <2>4. PullHolds'
    BY <2>1 DEF GateInv, PullHolds, Begun
  <2>5. ReadsAreReal'
    BY <2>1 DEF GateInv, ReadsAreReal, ReadIsReal, Dead
  <2>. QED
    BY TypeStep, <2>2, <2>3, <2>4, <2>5 DEF GateInv
<1>8. ASSUME ReadPage PROVE GateInv'
  <2>1. /\ pull.phase = "READ" /\ pull'.phase = "PAGE"
        /\ pull'.first = pull.first /\ pull'.full = pull.full /\ pull'.day = pull.day
        /\ pull'.startedAt = pull.startedAt /\ pull'.overlapFrom = pull.overlapFrom
        /\ pull'.rows = [t \in Page(Selected) |-> status[t]]
        /\ UNCHANGED <<status, open, log, seq, boarded, clock, today, requests, cache, staging, queue,
                       meta, sent, judged, look, screen, admitted>>
    BY <1>8, ReadPageWrites DEF GateInv, ReadPage, serverRows, time, pulling, pushing, scanning
  <2>2. TicketsMoveOnce' /\ LogIsNumbered' /\ KnownIsIssued' /\ EventsAreReal' /\ AdmissionIsAccounted'
    BY <2>1 DEF GateInv, TicketsMoveOnce, LogIsNumbered, KnownIsIssued, EventsAreReal, Dead,
       AdmissionIsAccounted
  <2>3. ClockLeads'
    BY <2>1 DEF GateInv, ClockLeads, Begun
  <2>4. PullHolds'
    BY <2>1 DEF GateInv, PullHolds, Begun
  <2>5. ReadsAreReal'
    <3>1. \A t \in DOMAIN pull'.rows : t \in Selected /\ pull'.rows[t] = status[t]
      BY <2>1, SelectedAreFirst
    <3>2. \A t \in Selected : t \in Tickets /\ VisitDay(t) = pull.day /\ status[t] # Absent
      BY DEF Selected
    <3>3. \A t \in DOMAIN pull'.rows : ReadIsReal(t, pull.rows[t])'
      BY <2>1, <3>1, <3>2 DEF GateInv, ReadIsReal, TicketsMoveOnce, Dead
    <3>4. \A t \in Tickets : staging'[t] # Missing => ReadIsReal(t, staging[t])'
      BY <2>1 DEF GateInv, ReadsAreReal, ReadIsReal, Dead
    <3>. QED
      BY <3>3, <3>4 DEF ReadsAreReal
  <2>. QED
    BY TypeStep, <2>2, <2>3, <2>4, <2>5 DEF GateInv
<1>9. ASSUME PageArrives PROVE GateInv'
  <2>1. /\ pull.phase = "PAGE" /\ pull'.phase \in {"ASK", "DONE"} /\ ~pull'.first /\ meta' = Rollover(meta)
        /\ pull'.full = pull.full /\ pull'.day = pull.day
        /\ pull'.startedAt = pull.startedAt /\ pull'.overlapFrom = pull.overlapFrom /\ pull'.rows = NoRows
        /\ UNCHANGED <<status, open, log, seq, boarded, clock, today, requests, queue, sent, judged, look,
                       screen, admitted>>
    BY <1>9, PageArrivesWrites DEF GateInv, PageArrives, serverRows, time, pushing, scanning
  <2>2. TicketsMoveOnce' /\ LogIsNumbered' /\ EventsAreReal' /\ AdmissionIsAccounted'
    BY <2>1 DEF GateInv, TicketsMoveOnce, LogIsNumbered, EventsAreReal, Dead, AdmissionIsAccounted
  <2>3. ClockLeads'
    BY <2>1, GateAssumption DEF GateInv, ClockLeads, Begun, TypeOK, Rollover, NeverSynced, Days, NoDay
  <2>4. PullHolds'
    <3>1. pull.day \in Days /\ Begun /\ Begun'
      BY <2>1 DEF GateInv, PullHolds, Begun
    <3>2. ~pull.full => meta' = meta
      BY <2>1, <3>1 DEF GateInv, PullHolds, Rollover
    <3>3. meta'.day \in {NoDay, pull.day} /\ (meta'.day = NoDay => meta'.version = 0)
      BY <2>1, <3>1 DEF GateInv, PullHolds, Rollover, NeverSynced
    <3>4. \A t \in Tickets : staging'[t] # Missing => pull.full
      BY <1>9 DEF GateInv, PullHolds, PageArrives
    <3>. QED
      BY <2>1, <3>1, <3>2, <3>3, <3>4 DEF GateInv, PullHolds
  <2>5. ReadsAreReal'
    <3>1. \A t \in Tickets : staging'[t] # Missing => \/ t \in DOMAIN pull.rows /\ staging'[t] = pull.rows[t]
                                                    \/ staging'[t] = staging[t]
      BY <1>9 DEF GateInv, PageArrives
    <3>. QED
      BY <2>1, <3>1, NoRowsIsEmpty DEF GateInv, ReadsAreReal, ReadIsReal, Dead
  <2>6. KnownIsIssued'
    <3>1. \A t \in Tickets : cache'[t] # Missing => t \in DOMAIN pull.rows \/ cache'[t] = cache[t]
      BY <1>9 DEF GateInv, PageArrives
    <3>. QED
      BY <2>1, <3>1 DEF GateInv, KnownIsIssued, ReadsAreReal, ReadIsReal
  <2>. QED
    BY TypeStep, <2>2, <2>3, <2>4, <2>5, <2>6 DEF GateInv
<1>10. ASSUME PullCompletes PROVE GateInv'
  <2>1. /\ pull.phase = "DONE" /\ pull' = NoPull
        /\ meta' = [version |-> pull.version, syncedAt |-> pull.startedAt, day |-> pull.day]
        /\ staging' = [t \in Tickets |-> Missing]
        /\ UNCHANGED <<status, open, log, seq, boarded, clock, today, requests, queue, sent, judged, look,
                       screen, admitted>>
    BY <1>10 DEF PullCompletes, serverRows, time, pushing, scanning
  <2>2. TicketsMoveOnce' /\ LogIsNumbered' /\ EventsAreReal' /\ AdmissionIsAccounted'
    BY <2>1 DEF GateInv, TicketsMoveOnce, LogIsNumbered, EventsAreReal, Dead, AdmissionIsAccounted
  <2>3. ClockLeads'
    BY <2>1, NoPullWrites, DaysAreNumbers DEF GateInv, ClockLeads, Begun, TypeOK, NoDay
  <2>4. PullHolds'
    BY <2>1, NoPullWrites, DaysAreNumbers DEF GateInv, PullHolds, TypeOK, Begun, NoDay
  <2>5. ReadsAreReal'
    BY <2>1, NoPullWrites, NoRowsIsEmpty DEF ReadsAreReal
  <2>6. KnownIsIssued'
    <3>1. \A t \in Tickets : cache'[t] # Missing => staging[t] # Missing \/ cache'[t] = cache[t]
      BY <1>10 DEF GateInv, PullCompletes
    <3>. QED
      BY <2>1, <3>1 DEF GateInv, KnownIsIssued, ReadsAreReal, ReadIsReal
  <2>. QED
    BY TypeStep, <2>2, <2>3, <2>4, <2>5, <2>6 DEF GateInv
<1>11. ASSUME PullFails PROVE GateInv'
  <2>1. /\ pull' = NoPull /\ staging' = [t \in Tickets |-> Missing]
        /\ UNCHANGED <<status, open, log, seq, boarded, clock, today, requests, cache, queue, meta, sent,
                       judged, look, screen, admitted>>
    BY <1>11 DEF PullFails, serverRows, time, pulling, pushing, scanning
  <2>2. TicketsMoveOnce' /\ LogIsNumbered' /\ KnownIsIssued' /\ EventsAreReal' /\ AdmissionIsAccounted'
    BY <2>1 DEF GateInv, TicketsMoveOnce, LogIsNumbered, KnownIsIssued, EventsAreReal, Dead,
       AdmissionIsAccounted
  <2>3. ClockLeads'
    BY <2>1, NoPullWrites, DaysAreNumbers DEF GateInv, ClockLeads, Begun, TypeOK, NoDay
  <2>4. PullHolds'
    BY <2>1, NoPullWrites DEF GateInv, PullHolds, Begun
  <2>5. ReadsAreReal'
    BY <2>1, NoPullWrites, NoRowsIsEmpty DEF ReadsAreReal
  <2>. QED
    BY TypeStep, <2>2, <2>3, <2>4, <2>5 DEF GateInv
<1>12. ASSUME PushSends PROVE GateInv'
  <2>1. /\ sent' = queue /\ requests' = requests \union queue
        /\ UNCHANGED <<status, open, log, seq, boarded, clock, today, cache, staging, queue, meta, pull,
                       judged, look, screen, admitted>>
    BY <1>12 DEF PushSends, serverRows, time, pulling, pushing, scanning
  <2>2. TicketsMoveOnce' /\ LogIsNumbered' /\ ClockLeads' /\ PullHolds' /\ ReadsAreReal'
          /\ KnownIsIssued' /\ AdmissionIsAccounted'
    BY <2>1 DEF GateInv, TicketsMoveOnce, LogIsNumbered, ClockLeads, PullHolds, Begun, ReadsAreReal,
       ReadIsReal, Dead, KnownIsIssued, AdmissionIsAccounted
  <2>3. EventsAreReal'
    BY <2>1 DEF GateInv, EventsAreReal, Dead
  <2>. QED
    BY TypeStep, <2>2, <2>3 DEF GateInv
<1>13. ASSUME PushAnswered PROVE GateInv'
  <2>1. /\ queue' = queue \ judged /\ sent' = {} /\ judged' = {}
        /\ UNCHANGED <<status, open, log, seq, boarded, clock, today, requests, cache, staging, meta,
                       pull, look, screen, admitted>>
    BY <1>13 DEF PushAnswered, Answered, serverRows, time, pulling, scanning
  <2>2. TicketsMoveOnce' /\ LogIsNumbered' /\ ClockLeads' /\ PullHolds' /\ ReadsAreReal' /\ KnownIsIssued'
    BY <2>1 DEF GateInv, TicketsMoveOnce, LogIsNumbered, ClockLeads, PullHolds, Begun, ReadsAreReal,
       ReadIsReal, Dead, KnownIsIssued
  <2>3. EventsAreReal'
    BY <2>1 DEF GateInv, EventsAreReal, Dead
  <2>4. AdmissionIsAccounted'
    <3>. SUFFICES ASSUME NEW t \in Tickets, admitted[t] > 0, today = VisitDay(t), ~Dead(t)
                  PROVE  \E e \in queue' : TicketOf(e) = t
      BY <2>1 DEF AdmissionIsAccounted, Dead
    <3>1. PICK e \in queue : TicketOf(e) = t
      BY DEF GateInv, AdmissionIsAccounted, Dead
    <3>. QED
      BY <2>1, <3>1 DEF GateInv, EventsAreReal
  <2>. QED
    BY TypeStep, <2>2, <2>3, <2>4 DEF GateInv
<1>14. ASSUME PushEnds PROVE GateInv'
  <2>1. /\ sent' = {} /\ judged' = {}
        /\ UNCHANGED <<status, open, log, seq, boarded, clock, today, requests, cache, staging, queue,
                       meta, pull, look, screen, admitted>>
    BY <1>14 DEF PushEnds, serverRows, time, pulling, scanning
  <2>2. TicketsMoveOnce' /\ LogIsNumbered' /\ ClockLeads' /\ PullHolds' /\ ReadsAreReal'
          /\ KnownIsIssued' /\ AdmissionIsAccounted'
    BY <2>1 DEF GateInv, TicketsMoveOnce, LogIsNumbered, ClockLeads, PullHolds, Begun, ReadsAreReal,
       ReadIsReal, Dead, KnownIsIssued, AdmissionIsAccounted
  <2>3. EventsAreReal'
    BY <2>1 DEF GateInv, EventsAreReal, Dead
  <2>. QED
    BY TypeStep, <2>2, <2>3 DEF GateInv
<1>15. ASSUME NEW e \in requests, JudgeEvent(e) PROVE GateInv'
  <2>1. /\ requests' = requests \ {e} /\ judged' \subseteq judged \union {e} /\ e \in Events
        /\ UNCHANGED <<open, clock, today, cache, staging, queue, meta, pull, sent, look, screen, admitted>>
    BY <1>15 DEF JudgeEvent, GateInv, TypeOK, serverRows, time, pulling, pushing, scanning
  <2>2. ClockLeads' /\ PullHolds'
    BY <2>1 DEF GateInv, ClockLeads, Begun, PullHolds, Begun
  <2>3. TicketsMoveOnce'
    BY <1>15, <2>1 DEF GateInv, TypeOK, TicketsMoveOnce, JudgeEvent, Boardable, serverRows, Events, TicketOf
  <2>4. LogIsNumbered'
    BY <1>15, <2>1 DEF GateInv, TypeOK, LogIsNumbered, JudgeEvent, serverRows, Ids
  <2>5. ReadsAreReal'
    BY <2>1, JudgeMoves, <1>15 DEF GateInv, ReadsAreReal, ReadIsReal
  <2>6. KnownIsIssued'
    BY <2>1, JudgeMoves, <1>15 DEF GateInv, KnownIsIssued
  <2>7. EventsAreReal'
    <3>1. TicketOf(e) \in Tickets /\ admitted[TicketOf(e)] > 0
      BY <2>1 DEF GateInv, EventsAreReal, Events, TicketOf
    <3>2. VisitDay(TicketOf(e)) = today => Dead(TicketOf(e))'
      BY <1>15, <3>1 DEF JudgeEvent, GateInv, EventsAreReal, KnownIsIssued, TicketsMoveOnce, Boardable,
         Dead, serverRows, TypeOK
    <3>3. \A c \in boarded' : c \in boarded \/ (c = e /\ Dead(TicketOf(e))')
      BY <1>15, <3>1 DEF JudgeEvent, Dead, serverRows, GateInv, TypeOK
    <3>4. \A c \in boarded \union judged : TicketOf(c) \in Tickets
      BY DEF GateInv, TypeOK, Events, TicketOf
    <3>. QED
      BY <1>15, <2>1, <3>1, <3>2, <3>3, <3>4, JudgeMoves DEF GateInv, EventsAreReal
  <2>8. AdmissionIsAccounted'
    BY <2>1, JudgeMoves, <1>15 DEF GateInv, AdmissionIsAccounted, Dead
  <2>. QED
    BY TypeStep, <2>2, <2>3, <2>4, <2>5, <2>6, <2>7, <2>8 DEF GateInv
<1>16. ASSUME NEW e \in requests, JudgeFails(e) PROVE GateInv'
  <2>1. /\ requests' = requests \ {e}
        /\ UNCHANGED <<status, open, log, seq, boarded, clock, today, cache, staging, queue, meta, pull,
                       sent, judged, look, screen, admitted>>
    BY <1>16 DEF JudgeFails, serverRows, time, pulling, pushing, scanning
  <2>2. TicketsMoveOnce' /\ LogIsNumbered' /\ ClockLeads' /\ PullHolds' /\ ReadsAreReal'
          /\ KnownIsIssued' /\ AdmissionIsAccounted'
    BY <2>1 DEF GateInv, TicketsMoveOnce, LogIsNumbered, ClockLeads, PullHolds, Begun, ReadsAreReal,
       ReadIsReal, Dead, KnownIsIssued, AdmissionIsAccounted
  <2>3. EventsAreReal'
    BY <2>1 DEF GateInv, EventsAreReal, Dead
  <2>. QED
    BY TypeStep, <2>2, <2>3 DEF GateInv
<1>17. ASSUME NEW t \in Tickets, Scan(t) PROVE GateInv'
  <2>1. /\ screen' = t /\ cache[t] = "ACTIVE" /\ meta.day = VisitDay(t)
        /\ UNCHANGED <<status, open, log, seq, boarded, clock, today, requests, cache, staging, queue,
                       meta, pull, sent, judged, look, admitted>>
    BY <1>17 DEF Scan, serverRows, time, pulling, pushing, scanning
  <2>2. TicketsMoveOnce' /\ LogIsNumbered' /\ ClockLeads' /\ PullHolds' /\ ReadsAreReal'
          /\ EventsAreReal' /\ AdmissionIsAccounted'
    BY <2>1 DEF GateInv, TicketsMoveOnce, LogIsNumbered, ClockLeads, PullHolds, Begun, ReadsAreReal,
       ReadIsReal, Dead, EventsAreReal, AdmissionIsAccounted
  <2>3. KnownIsIssued'
    BY <2>1 DEF GateInv, KnownIsIssued, ClockLeads, Missing
  <2>. QED
    BY TypeStep, <2>2, <2>3 DEF GateInv
<1>18. ASSUME NEW t \in Tickets, LookUp(t) PROVE GateInv'
  <2>1. /\ look' = [ticket |-> t, at |-> clock] /\ status[t] = "ACTIVE" /\ VisitDay(t) = today
        /\ UNCHANGED <<status, open, log, seq, boarded, clock, today, requests, cache, staging, queue,
                       meta, pull, sent, judged, screen, admitted>>
    BY <1>18 DEF LookUp, Boardable, serverRows, time, pulling, pushing, scanning
  <2>2. TicketsMoveOnce' /\ LogIsNumbered' /\ ClockLeads' /\ PullHolds' /\ ReadsAreReal'
          /\ EventsAreReal' /\ AdmissionIsAccounted'
    BY <2>1 DEF GateInv, TicketsMoveOnce, LogIsNumbered, ClockLeads, PullHolds, Begun, ReadsAreReal,
       ReadIsReal, Dead, EventsAreReal, AdmissionIsAccounted
  <2>3. KnownIsIssued'
    BY <2>1, DaysAreNumbers DEF GateInv, TypeOK, KnownIsIssued, Absent
  <2>. QED
    BY TypeStep, <2>2, <2>3 DEF GateInv
<1>19. ASSUME LookupArrives PROVE GateInv'
  <2>1. /\ look # NoLook /\ look' = NoLook /\ screen' = look.ticket
        /\ cache' = [cache EXCEPT ![look.ticket] = "ACTIVE"]
        /\ UNCHANGED <<status, open, log, seq, boarded, clock, today, requests, staging, queue, meta,
                       pull, sent, judged, admitted>>
    BY <1>19 DEF LookupArrives, serverRows, time, pulling, pushing, scanning
  <2>2. TicketsMoveOnce' /\ LogIsNumbered' /\ ClockLeads' /\ PullHolds' /\ ReadsAreReal'
          /\ EventsAreReal' /\ AdmissionIsAccounted'
    BY <2>1 DEF GateInv, TicketsMoveOnce, LogIsNumbered, ClockLeads, PullHolds, Begun, ReadsAreReal,
       ReadIsReal, Dead, EventsAreReal, AdmissionIsAccounted
  <2>3. KnownIsIssued'
    BY <2>1, TicketsAreNumbers DEF GateInv, TypeOK, KnownIsIssued, NoLook, NoTicket
  <2>. QED
    BY TypeStep, <2>2, <2>3 DEF GateInv
<1>20. ASSUME LookupFails PROVE GateInv'
  <2>1. /\ look' = NoLook
        /\ UNCHANGED <<status, open, log, seq, boarded, clock, today, requests, cache, staging, queue,
                       meta, pull, sent, judged, screen, admitted>>
    BY <1>20 DEF LookupFails, serverRows, time, pulling, pushing, scanning
  <2>2. TicketsMoveOnce' /\ LogIsNumbered' /\ ClockLeads' /\ PullHolds' /\ ReadsAreReal'
          /\ EventsAreReal' /\ AdmissionIsAccounted'
    BY <2>1 DEF GateInv, TicketsMoveOnce, LogIsNumbered, ClockLeads, PullHolds, Begun, ReadsAreReal,
       ReadIsReal, Dead, EventsAreReal, AdmissionIsAccounted
  <2>3. KnownIsIssued'
    BY <2>1, TicketsAreNumbers DEF GateInv, TypeOK, KnownIsIssued, NoLook, NoTicket
  <2>. QED
    BY TypeStep, <2>2, <2>3 DEF GateInv
<1>21. ASSUME ConfirmBoarding PROVE GateInv'
  <2>1. /\ screen \in Tickets /\ screen' = NoTicket /\ cache' = CacheAfter(screen)
        /\ admitted' = [admitted EXCEPT ![screen] = @ + 1] /\ queue' = queue \union {<<screen, admitted'[screen]>>}
        /\ UNCHANGED <<status, open, log, seq, boarded, clock, today, requests, staging, meta, pull, sent,
                       judged, look>>
    BY <1>21 DEF ConfirmBoarding, ShowsValid, GateInv, TypeOK, serverRows, time, pulling, pushing, scanning
  <2>2. TicketsMoveOnce' /\ LogIsNumbered' /\ ClockLeads' /\ PullHolds' /\ ReadsAreReal'
    BY <2>1 DEF GateInv, TicketsMoveOnce, LogIsNumbered, ClockLeads, PullHolds, Begun, ReadsAreReal,
       ReadIsReal, Dead
  <2>3. KnownIsIssued'
    BY <2>1, TicketsAreNumbers DEF GateInv, TypeOK, KnownIsIssued, CacheAfter, Missing, NoTicket
  <2>4. EventsAreReal'
    <3>1. \A t \in Tickets : admitted'[t] >= admitted[t] /\ admitted'[screen] > 0
      BY <2>1 DEF GateInv, TypeOK
    <3>2. \A e \in queue \union requests \union sent \union judged : TicketOf(e) \in Tickets
      BY DEF GateInv, TypeOK, Events, TicketOf
    <3>3. TicketOf(<<screen, admitted'[screen]>>) = screen
      BY DEF TicketOf
    <3>4. \A e \in queue' \union requests \union sent \union judged : admitted'[TicketOf(e)] > 0
      BY <2>1, <3>1, <3>2, <3>3 DEF GateInv, EventsAreReal, TypeOK
    <3>. QED
      BY <2>1, <3>4 DEF GateInv, EventsAreReal, Dead
  <2>5. AdmissionIsAccounted'
    <3>1. TicketOf(<<screen, admitted'[screen]>>) = screen
      BY DEF TicketOf
    <3>2. \A t \in Tickets : t # screen => admitted'[t] = admitted[t]
      BY <2>1 DEF GateInv, TypeOK
    <3>. QED
      BY <2>1, <3>1, <3>2 DEF GateInv, AdmissionIsAccounted
  <2>. QED
    BY TypeStep, <2>2, <2>3, <2>4, <2>5 DEF GateInv
<1>22. ASSUME DismissResult PROVE GateInv'
  <2>1. /\ screen' = NoTicket
        /\ UNCHANGED <<status, open, log, seq, boarded, clock, today, requests, cache, staging, queue,
                       meta, pull, sent, judged, look, admitted>>
    BY <1>22 DEF DismissResult, serverRows, time, pulling, pushing, scanning
  <2>2. TicketsMoveOnce' /\ LogIsNumbered' /\ ClockLeads' /\ PullHolds' /\ ReadsAreReal'
          /\ EventsAreReal' /\ AdmissionIsAccounted'
    BY <2>1 DEF GateInv, TicketsMoveOnce, LogIsNumbered, ClockLeads, PullHolds, Begun, ReadsAreReal,
       ReadIsReal, Dead, EventsAreReal, AdmissionIsAccounted
  <2>3. KnownIsIssued'
    BY <2>1, TicketsAreNumbers DEF GateInv, TypeOK, KnownIsIssued, NoTicket
  <2>. QED
    BY TypeStep, <2>2, <2>3 DEF GateInv
<1>23. CASE UNCHANGED vars
  <2>1. TicketsMoveOnce' /\ LogIsNumbered' /\ ClockLeads' /\ PullHolds' /\ ReadsAreReal' /\ KnownIsIssued'
        /\ EventsAreReal' /\ AdmissionIsAccounted'
    BY <1>23 DEF GateInv, TicketsMoveOnce, LogIsNumbered, ClockLeads, PullHolds, Begun, ReadsAreReal,
       ReadIsReal, Dead, KnownIsIssued, EventsAreReal, AdmissionIsAccounted, vars, serverRows, time,
       pulling, pushing, scanning
  <2>. QED
    BY <2>1, TypeStep DEF GateInv
<1>. QED
  BY <1>1, <1>2, <1>3, <1>4, <1>5, <1>6, <1>7, <1>8, <1>9, <1>10, <1>11, <1>12, <1>13, <1>14, <1>15,
     <1>16, <1>17, <1>18, <1>19, <1>20, <1>21, <1>22, <1>23
     DEF Next, Others, Pull, Push, Operator

\* GateInv is an invariant, whatever the bounds, the overlap and the limits are.
LEMMA GateInvariant == Spec => []GateInv
<1>1. Init => GateInv
  <2>. SUFFICES ASSUME Init PROVE GateInv
    OBVIOUS
  <2>. USE GateAssumption, TicketsAreNumbers, DaysAreNumbers, NoPullWrites, NoRowsIsEmpty
  <2>1. TypeOK
    <3>1. NoTx \in [id : Ids, at : Times, to : TicketStatuses \union {Absent}]
      BY DEF NoTx, Ids, Times
    <3>2. log \subseteq [id : Ids, ticket : Tickets, at : Times]
      BY DEF Init, Ids, Times
    <3>3. NeverSynced \in [version : Ids, syncedAt : Times, day : Days \union {NoDay}]
      BY DEF NeverSynced, Ids, Times
    <3>4. NoLook \in [ticket : Tickets \union {NoTicket}, at : Times]
      BY DEF NoLook, Times
    <3>5. pull \in Pulls
      BY DEF Init
    <3>6. status \in [Tickets -> TicketStatuses \union {Absent}]
      BY DEF Init, TicketStatuses
    <3>7. clock \in 0 .. LastTick /\ today \in Days /\ seq \in Ids
      BY DEF Init, Days, Ids
    <3>8. admitted \in [Tickets -> 0 .. MaxAdmissions]
      BY DEF Init, MaxAdmissions
    <3>. HIDE DEF NoTx, NeverSynced, NoLook, NoPull
    <3>. QED
      BY <3>1, <3>2, <3>3, <3>4, <3>5, <3>6, <3>7, <3>8 DEF Init, TypeOK, Pulls
  <2>2. TicketsMoveOnce /\ KnownIsIssued
    BY DEF Init, TicketsMoveOnce, KnownIsIssued, NoLook
  <2>3. LogIsNumbered
    BY DEF Init, LogIsNumbered, NoTx, Tickets
  <2>4. ClockLeads
    BY DEF Init, ClockLeads, NeverSynced, NoDay
  <2>5. PullHolds
    BY DEF Init, PullHolds, Begun, NeverSynced
  <2>6. ReadsAreReal /\ EventsAreReal /\ AdmissionIsAccounted
    BY DEF Init, ReadsAreReal, EventsAreReal, AdmissionIsAccounted
  <2>. QED
    BY <2>1, <2>2, <2>3, <2>4, <2>5, <2>6 DEF GateInv
<1>. QED
  BY <1>1, GateStep, PTL DEF Spec

\* The variables keep their types: GateSync.tla's TypeOK.
THEOREM TypeCorrect == Spec => []TypeOK
<1>1. GateInv => TypeOK
  BY DEF GateInv
<1>. QED
  BY <1>1, GateInvariant, PTL

\* A group that was let in on the day of its ticket is known to the server or
\* still queued for it: pushQueue forgets a boarding only on a verdict, and a
\* verdict of that day leaves the ticket used or cancelled (sync-client.ts,
\* confirmBoarding).
THEOREM AdmissionsAreAccounted == Spec => []AdmissionIsAccounted
<1>1. GateInv => AdmissionIsAccounted
  BY DEF GateInv
<1>. QED
  BY <1>1, GateInvariant, PTL

\* Once a page of the new day has arrived, the cache alone shows no ticket of an
\* earlier day as VALID: Rollover has cleared the day of the last sync.
THEOREM RolloverHolds == Spec => RolloverBlocks
<1>1. ASSUME GateInv, [Next]_vars, screen' # screen, screen' # NoTicket, look = NoLook,
             pull.phase # "IDLE", ~pull.first
      PROVE  VisitDay(screen') >= pull.day
  <2>1. PICK t \in Tickets : Scan(t) /\ screen' = t
    BY <1>1 DEF Next, Others, Pull, Push, Operator, TxCommits, TxWrites, Tick, NewDay, SyncStarts,
       FirstRequest,
       NextRequest, ReadPage, PageArrives, PullCompletes, PullFails, PushSends, PushAnswered, PushEnds,
       JudgeEvent,
       JudgeFails, Scan, LookUp, LookupArrives, LookupFails, ConfirmBoarding, DismissResult, vars, scanning
  <2>2. meta.day = VisitDay(t) /\ meta.day \in {NoDay, pull.day}
    BY <1>1, <2>1 DEF Scan, GateInv, PullHolds, Begun
  <2>3. VisitDay(t) = pull.day /\ VisitDay(t) \in {0, 1}
    BY <2>2, DaysAreNumbers
  <2>. QED
    BY <2>1, <2>3
<1>. QED
  BY <1>1, GateInvariant, PTL DEF Spec, RolloverBlocks

-----------------------------------------------------------------------------
(* What a pull has passed, and what a page covers.                         *)

\* Before the first request nothing has been passed; after it, and until the
\* end, what the cursor has.
LEMMA PassedIsBehind ==
  ASSUME GateInv
  PROVE  /\ pull.phase \in {"IDLE", "ASK", "READ"} =>
              \A t \in Tickets : Passed(t) <=> Begun /\ t <= pull.after
         /\ ~Begun => \A t \in Tickets : ~Passed(t)
<1>1. pull.phase \in {"IDLE", "ASK", "READ", "PAGE", "DONE"}
  BY DEF GateInv, TypeOK
<1>2. ~Begun => pull.phase \notin {"READ", "PAGE", "DONE"}
  BY DEF Begun
<1>. QED
  BY <1>1, <1>2 DEF Passed

\* What a page read says: statuses of tickets of the pull's day; and what of
\* that day has been passed was passed before, or selected and is on the page.
LEMMA PageCovers ==
  ASSUME GateInv, ReadPage
  PROVE  /\ \A t \in DOMAIN pull'.rows : t \in Selected /\ pull'.rows[t] = status[t]
         /\ \A t \in Tickets : Passed(t)' => Passed(t) \/ t \notin Selected \/ t \in DOMAIN pull'.rows
         /\ \A t \in Tickets : t \in Selected <=> /\ status[t] # Absent /\ VisitDay(t) = pull.day /\ ~Passed(t)
                                                  /\ pull.full \/ t \in Changed
<1>1. /\ pull.phase = "READ" /\ pull'.phase = "PAGE" /\ pull'.rows = [t \in Page(Selected) |-> status[t]]
      /\ pull'.more = (Page(Selected) # Selected)
      /\ pull'.after = IF Selected = {} THEN pull.after ELSE Greatest(Page(Selected))
  BY ReadPageWrites DEF GateInv
<1>2. Selected \in SUBSET Tickets
  BY DEF Selected
<1>3. Begun /\ Begun' /\ \A t \in Tickets : Passed(t) <=> t <= pull.after
  BY <1>1, PassedIsBehind DEF Begun
<1>4. pull.after \in Nat /\ Tickets \subseteq Nat
  <2>1. pull.after \in Tickets \union {NoTicket}
    BY DEF GateInv, TypeOK
  <2>2. NoTicket \in Nat
    BY DEF NoTicket
  <2>. QED
    BY <2>1, <2>2, TicketsAreNumbers, Zenon
<1>5. \A t \in Tickets : t \in Selected <=> /\ status[t] # Absent /\ VisitDay(t) = pull.day /\ ~Passed(t)
                                            /\ pull.full \/ t \in Changed
  BY <1>3, <1>4 DEF Selected
<1>6. ASSUME NEW t \in Tickets, Passed(t)', t \in Selected PROVE t \in Page(Selected)
  <2>1. t <= pull'.after \/ ~pull'.more
    BY <1>1, <1>6 DEF Passed
  <2>2. CASE ~pull'.more
    BY <1>1, <1>6, <2>2
  <2>3. CASE t <= pull'.after
    <3>1. Selected # {} /\ t <= Greatest(Page(Selected))
      BY <1>1, <1>6, <2>3
    <3>. QED
      BY <1>2, <1>6, <3>1, PageIsFirst
  <2>. QED
    BY <2>1, <2>2, <2>3
<1>7. \A t \in DOMAIN pull'.rows : t \in Selected /\ pull'.rows[t] = status[t]
  BY <1>1, SelectedAreFirst
<1>. QED
  BY <1>1, <1>5, <1>6, <1>7

-----------------------------------------------------------------------------
(* Nobody is let in twice, unless a manifest loses a looked-up boarding.   *)

\* A ticket that was let in comes back as VALID neither from a page nor from the
\* manifest: the cache or the queue still knows of it (putPreservingBoardings).
LEMMA SpentIsPreserved ==
  ASSUME GateInv, OnceInv, Begun, NEW t \in Tickets, admitted[t] > 0, asked[t] # "LOST",
         NEW s \in TicketStatuses, ReadIsReal(t, s),
         (t \in DOMAIN pull.rows /\ s = pull.rows[t]) \/ s = staging[t]
  PROVE  Preserved(t, s) # "ACTIVE"
<1>1. cache[t] \in {"USED", "CANCELLED", "EXPIRED", Missing}
  BY DEF OnceInv, AdmittedIsSpent, GateInv, TypeOK, TicketStatuses
<1>2. cache[t] # Missing
  <2>1. cache[t] = Missing => VisitDay(t) < pull.day
    BY DEF OnceInv, CacheIsOfDay
  <2>2. VisitDay(t) = pull.day /\ VisitDay(t) \in {0, 1}
    BY DaysAreNumbers DEF ReadIsReal
  <2>. QED
    BY <2>1, <2>2
<1>3. cache[t] \in {"CANCELLED", "EXPIRED"} => s # "ACTIVE"
  BY DEF OnceInv, DeadIsNotRead
<1>. QED
  BY <1>1, <1>2, <1>3 DEF Preserved

\* Every step keeps OnceInv.
LEMMA OnceStep == GateInv /\ OnceInv /\ [Next]_vars => OnceInv'
<1>. SUFFICES ASSUME GateInv, OnceInv, [Next]_vars PROVE OnceInv'
  OBVIOUS
<1>0. GateInv'
  BY GateStep
<1>1. ASSUME UNCHANGED <<status, today, cache, staging, pull, look, screen, admitted, asked>> PROVE OnceInv'
  BY <1>1 DEF OnceInv, AdmittedOnce, AsksBetweenScans, FullKeepsKnown, Passed, Begun, DeadIsNotRead, Dead, CacheIsOfDay,
     AdmittedIsSpent
<1>2. ASSUME NEW t \in Tickets, NEW to \in TicketStatuses, TxWrites(t, to) PROVE OnceInv'
  BY <1>1, <1>2 DEF TxWrites, time, pulling, scanning
<1>3. ASSUME Tick PROVE OnceInv'
  BY <1>1, <1>3 DEF Tick, serverRows, pulling, scanning
<1>4. ASSUME PushSends \/ PushAnswered \/ PushEnds PROVE OnceInv'
  BY <1>1, <1>4 DEF PushSends, PushAnswered, PushEnds, serverRows, time, pulling, scanning
<1>5. ASSUME NEW e \in requests, JudgeFails(e) PROVE OnceInv'
  BY <1>1, <1>5 DEF JudgeFails, serverRows, time, pulling, scanning
<1>6. ASSUME UNCHANGED <<today, cache, staging, pull, look, screen, admitted, asked>>,
             \A u \in Tickets : Dead(u) => Dead(u)'
      PROVE  OnceInv'
  <2>1. AdmittedOnce' /\ AsksBetweenScans' /\ FullKeepsKnown' /\ CacheIsOfDay' /\ AdmittedIsSpent'
    BY <1>6 DEF OnceInv, AdmittedOnce, AsksBetweenScans, FullKeepsKnown, Passed, Begun, CacheIsOfDay, AdmittedIsSpent
  <2>2. DeadIsNotRead'
    BY <1>6 DEF OnceInv, DeadIsNotRead
  <2>. QED
    BY <2>1, <2>2 DEF OnceInv
<1>7. ASSUME NEW t \in Tickets, TxCommits(t) PROVE OnceInv'
  BY <1>6, <1>7, CommitMoves DEF TxCommits, time, pulling, scanning
<1>8. ASSUME NEW e \in requests, JudgeEvent(e) PROVE OnceInv'
  BY <1>6, <1>8, JudgeMoves DEF JudgeEvent, time, pulling, scanning
<1>9. ASSUME NewDay PROVE OnceInv'
  <2>1. today' = today + 1 /\ UNCHANGED <<status, cache, staging, pull, look, screen, admitted, asked>>
    BY <1>9 DEF NewDay, serverRows, pulling, scanning
  <2>2. AdmittedOnce' /\ AsksBetweenScans' /\ FullKeepsKnown' /\ DeadIsNotRead' /\ AdmittedIsSpent'
    BY <2>1 DEF OnceInv, AdmittedOnce, AsksBetweenScans, FullKeepsKnown, Passed, Begun, DeadIsNotRead, Dead, AdmittedIsSpent
  <2>3. CacheIsOfDay'
    <3>1. today \in Nat /\ \A t \in Tickets : VisitDay(t) \in {0, 1}
      BY DaysAreNumbers DEF GateInv, TypeOK
    <3>. QED
      BY <2>1, <3>1 DEF OnceInv, CacheIsOfDay, Begun
  <2>. QED
    BY <2>2, <2>3 DEF OnceInv
<1>10. ASSUME UNCHANGED <<status, today, cache, staging, look, screen, admitted, asked>>, pull'.rows = pull.rows,
              \A t \in Tickets : Passed(t)' => pull'.full = pull.full /\ pull'.day = pull.day /\ Passed(t),
              Begun' => (Begun /\ pull'.day = pull.day) \/ pull'.day = today
       PROVE  OnceInv'
  <2>1. AdmittedOnce' /\ AsksBetweenScans' /\ DeadIsNotRead' /\ AdmittedIsSpent'
    BY <1>10 DEF OnceInv, AdmittedOnce, AsksBetweenScans, DeadIsNotRead, Dead, AdmittedIsSpent
  <2>2. FullKeepsKnown'
    BY <1>10 DEF OnceInv, FullKeepsKnown
  <2>3. CacheIsOfDay'
    BY <1>10 DEF OnceInv, CacheIsOfDay
  <2>. QED
    BY <2>1, <2>2, <2>3 DEF OnceInv
<1>11. ASSUME SyncStarts PROVE OnceInv'
  <2>1. /\ pull.phase = "IDLE" /\ pull'.phase = "ASK" /\ pull'.first = pull.first /\ pull'.rows = pull.rows
        /\ UNCHANGED <<status, today, cache, staging, look, screen, admitted, asked>>
    BY <1>11, SyncStartsWrites DEF GateInv, serverRows, time, scanning
  <2>2. ~Begun' /\ \A t \in Tickets : ~Passed(t)'
    BY <2>1 DEF Begun, Passed, GateInv, PullHolds
  <2>. QED
    BY <1>10, <2>1, <2>2
<1>12. ASSUME FirstRequest PROVE OnceInv'
  <2>1. /\ pull.phase = "ASK" /\ pull.first /\ pull'.phase = "READ" /\ pull'.after = pull.after
        /\ pull'.rows = pull.rows /\ pull'.day = today
        /\ UNCHANGED <<status, today, cache, staging, look, screen, admitted, asked>>
    BY <1>12, FirstRequestWrites DEF GateInv, serverRows, time, scanning
  <2>2. \A t \in Tickets : ~Passed(t)'
    <3>1. pull'.after = NoTicket
      BY <2>1 DEF GateInv, PullHolds, Begun
    <3>2. \A t \in Tickets : ~(t <= pull'.after)
      BY <3>1, TicketsAreNumbers DEF NoTicket
    <3>. QED
      BY <2>1, <3>2 DEF Passed
  <2>. QED
    BY <1>10, <2>1, <2>2
<1>13. ASSUME NextRequest PROVE OnceInv'
  <2>1. /\ pull.phase = "ASK" /\ ~pull.first /\ pull'.phase = "READ" /\ pull'.first = pull.first
        /\ pull'.full = pull.full /\ pull'.day = pull.day /\ pull'.after = pull.after
        /\ pull'.rows = pull.rows
        /\ UNCHANGED <<status, today, cache, staging, look, screen, admitted, asked>>
    BY <1>13, NextRequestWrites DEF GateInv, serverRows, time, scanning
  <2>2. Begun /\ \A t \in Tickets : Passed(t)' => Passed(t)
    BY <2>1 DEF Begun, Passed
  <2>. QED
    BY <1>10, <2>1, <2>2
<1>14. ASSUME ReadPage PROVE OnceInv'
  <2>1. /\ pull.phase = "READ" /\ pull'.phase = "PAGE" /\ pull'.full = pull.full /\ pull'.day = pull.day
        /\ UNCHANGED <<status, today, cache, staging, look, screen, admitted, asked>>
    BY <1>14, ReadPageWrites DEF GateInv, serverRows, time, scanning
  <2>2. Begun /\ DOMAIN pull.rows = {}
    BY <2>1, NoRowsIsEmpty DEF Begun, GateInv, PullHolds
  <2>3. AdmittedOnce' /\ AsksBetweenScans' /\ AdmittedIsSpent'
    BY <2>1 DEF OnceInv, AdmittedOnce, AsksBetweenScans, AdmittedIsSpent
  <2>4. CacheIsOfDay'
    BY <2>1, <2>2 DEF OnceInv, CacheIsOfDay
  <2>5. DeadIsNotRead'
    BY <1>14, <2>1, PageCovers DEF OnceInv, DeadIsNotRead, Dead
  <2>6. FullKeepsKnown'
    <3>. SUFFICES ASSUME pull.full, NEW t \in Tickets, VisitDay(t) = pull.day, cache[t] # Missing,
                         asked[t] = "NEVER", Passed(t)'
                  PROVE  staging[t] # Missing \/ t \in DOMAIN pull'.rows
      BY <2>1 DEF FullKeepsKnown
    <3>1. status[t] # Absent
      BY DEF GateInv, KnownIsIssued
    <3>2. Passed(t) => staging[t] # Missing
      BY <2>2 DEF OnceInv, FullKeepsKnown
    <3>. QED
      BY <1>14, <3>1, <3>2, PageCovers
  <2>. QED
    BY <2>3, <2>4, <2>5, <2>6 DEF OnceInv
<1>15. ASSUME PageArrives PROVE OnceInv'
  <2>1. /\ pull.phase = "PAGE" /\ pull'.phase = (IF pull.more THEN "ASK" ELSE "DONE")
        /\ ~pull'.first /\ pull'.full = pull.full /\ pull'.day = pull.day /\ pull'.after = pull.after
        /\ pull'.rows = NoRows
        /\ UNCHANGED <<status, today, look, screen, admitted, asked>>
    BY <1>15, PageArrivesWrites DEF GateInv, serverRows, time, scanning
  <2>2. Begun /\ \A t \in Tickets : Passed(t)' => Passed(t)
    BY <2>1 DEF Begun, Passed
  <2>3. \A t \in Tickets : /\ t \in DOMAIN pull.rows => pull.rows[t] \in TicketStatuses /\ ReadIsReal(t, pull.rows[t])
                           /\ pull.first => staging[t] = Missing
    BY RowsAreStatuses DEF GateInv, ReadsAreReal, PullHolds
  <2>4. CASE pull.full
    <3>1. /\ UNCHANGED cache
          /\ \A t \in Tickets : /\ t \in DOMAIN pull.rows => staging'[t] = pull.rows[t]
                                /\ t \notin DOMAIN pull.rows => staging'[t] = staging[t]
      BY <1>15, <2>3, <2>4 DEF PageArrives
    <3>2. AdmittedOnce' /\ AsksBetweenScans' /\ AdmittedIsSpent'
      BY <2>1, <3>1 DEF OnceInv, AdmittedOnce, AsksBetweenScans, AdmittedIsSpent
    <3>3. CacheIsOfDay'
      BY <2>1, <2>2, <3>1 DEF OnceInv, CacheIsOfDay
    <3>4. DeadIsNotRead'
      BY <2>1, <3>1, NoRowsIsEmpty DEF OnceInv, DeadIsNotRead, Dead
    <3>5. FullKeepsKnown'
      <4>1. \A t \in Tickets : staging[t] # Missing \/ t \in DOMAIN pull.rows => staging'[t] # Missing
        BY <2>3, <3>1 DEF Missing, TicketStatuses
      <4>. QED
        BY <2>1, <2>2, <3>1, <4>1 DEF OnceInv, FullKeepsKnown
    <3>. QED
      BY <3>2, <3>3, <3>4, <3>5 DEF OnceInv
  <2>5. CASE ~pull.full
    <3>1. /\ UNCHANGED staging
          /\ \A t \in Tickets : /\ t \in DOMAIN pull.rows => cache'[t] = Preserved(t, pull.rows[t])
                                /\ t \notin DOMAIN pull.rows => cache'[t] = cache[t]
      BY <1>15, <2>5 DEF PageArrives
    <3>2. AdmittedOnce' /\ AsksBetweenScans' /\ FullKeepsKnown'
      BY <2>1, <2>5 DEF OnceInv, AdmittedOnce, AsksBetweenScans, FullKeepsKnown
    <3>3. DeadIsNotRead'
      <4>1. \A t \in Tickets : staging[t] = Missing
        BY <2>5 DEF GateInv, PullHolds
      <4>2. \A t \in DOMAIN pull.rows : cache'[t] \in {"CANCELLED", "EXPIRED"} => Dead(t)
        BY <2>3, <3>1, RowsAreStatuses DEF Preserved, ReadIsReal, GateInv
      <4>. QED
        BY <2>1, <3>1, <4>1, <4>2, NoRowsIsEmpty DEF OnceInv, DeadIsNotRead, Dead, Missing
    <3>4. CacheIsOfDay'
      <4>1. \A t \in Tickets : t \in DOMAIN pull.rows => cache'[t] # Missing /\ VisitDay(t) = pull.day
        BY <2>3, <3>1 DEF Preserved, ReadIsReal, Missing, TicketStatuses
      <4>2. pull.day <= today /\ pull.day \in Int
        BY DEF GateInv, ClockLeads, TypeOK, Days, NoDay
      <4>. QED
        BY <2>1, <2>2, <3>1, <4>1, <4>2 DEF OnceInv, CacheIsOfDay
    <3>5. AdmittedIsSpent'
      <4>1. \A t \in Tickets :
              admitted[t] > 0 /\ asked[t] # "LOST" /\ t \in DOMAIN pull.rows => cache'[t] # "ACTIVE"
        BY <2>2, <2>3, <3>1, SpentIsPreserved
      <4>. QED
        BY <2>1, <3>1, <4>1 DEF OnceInv, AdmittedIsSpent
    <3>. QED
      BY <3>2, <3>3, <3>4, <3>5 DEF OnceInv
  <2>. QED
    BY <2>4, <2>5
<1>16. ASSUME PullCompletes PROVE OnceInv'
  <2>1. /\ pull.phase = "DONE" /\ ~pull'.full /\ ~Begun' /\ DOMAIN pull'.rows = {}
        /\ staging' = [t \in Tickets |-> Missing]
        /\ UNCHANGED <<status, today, look, screen, admitted>>
    BY <1>16, NoPullWrites, NoRowsIsEmpty DEF PullCompletes, Begun, serverRows, time, scanning
  <2>2. Begun /\ DOMAIN pull.rows = {} /\ \A t \in Tickets : Passed(t)
    BY <2>1, NoRowsIsEmpty DEF Begun, Passed, GateInv, PullHolds
  <2>6. \A t \in Tickets : /\ asked[t] # asked'[t] => asked[t] = "STORED" /\ asked'[t] = "LOST"
                           /\ pull.full /\ t \in Lost => asked'[t] = "LOST"
    BY <1>16 DEF PullCompletes, Lost
  <2>3. AdmittedOnce' /\ AsksBetweenScans' /\ FullKeepsKnown'
    BY <2>1, <2>6 DEF OnceInv, AdmittedOnce, AsksBetweenScans, FullKeepsKnown
  <2>4. CASE ~pull.full
    <3>1. UNCHANGED <<cache, asked>>
      BY <1>16, <2>4 DEF PullCompletes
    <3>2. DeadIsNotRead' /\ CacheIsOfDay' /\ AdmittedIsSpent'
      BY <2>1, <3>1 DEF OnceInv, DeadIsNotRead, Dead, CacheIsOfDay, AdmittedIsSpent, Missing
    <3>. QED
      BY <2>3, <3>2 DEF OnceInv
  <2>5. CASE pull.full
    <3>1. \A t \in Tickets : /\ staging[t] = Missing => cache'[t] = Missing
                             /\ staging[t] # Missing => cache'[t] = Preserved(t, staging[t])
      BY <1>16, <2>5 DEF PullCompletes
    <3>2. \A t \in Tickets : staging[t] # Missing => staging[t] \in TicketStatuses /\ ReadIsReal(t, staging[t])
      BY DEF GateInv, ReadsAreReal, TypeOK
    <3>3. DeadIsNotRead'
      <4>1. \A t \in Tickets : cache'[t] \in {"CANCELLED", "EXPIRED"} => Dead(t)
        BY <3>1, <3>2 DEF Preserved, ReadIsReal, Missing
      <4>. QED
        BY <2>1, <4>1 DEF DeadIsNotRead, Dead, Missing
    <3>4. CacheIsOfDay'
      <4>1. pull.day <= today /\ pull.day \in Int /\ today \in Int
        BY DEF GateInv, ClockLeads, TypeOK, Days, NoDay
      <4>2. ASSUME NEW t \in Tickets, cache'[t] # Missing PROVE VisitDay(t) <= today
        BY <3>1, <3>2, <4>1, <4>2 DEF ReadIsReal
      <4>3. ASSUME NEW t \in Tickets, admitted[t] > 0 \/ screen = t, cache'[t] = Missing, asked'[t] # "LOST"
            PROVE  VisitDay(t) < today
        <5>1. staging[t] = Missing
          BY <3>1, <3>2, <4>3 DEF Preserved, Missing, TicketStatuses
        <5>4. asked[t] # "LOST"
          BY <2>6, <4>3
        <5>2. cache[t] = Missing => VisitDay(t) < today
          BY <4>3, <5>4 DEF OnceInv, CacheIsOfDay
        <5>5. cache[t] # Missing => asked[t] = "NEVER"
          BY <2>5, <2>6, <4>3, <5>1, <5>4 DEF Lost, GateInv, TypeOK
        <5>3. cache[t] # Missing => VisitDay(t) <= pull.day /\ VisitDay(t) # pull.day
          BY <2>2, <2>5, <5>1, <5>5 DEF OnceInv, CacheIsOfDay, FullKeepsKnown
        <5>. QED
          BY <4>1, <5>2, <5>3, DaysAreNumbers
      <4>. QED
        BY <2>1, <4>2, <4>3 DEF CacheIsOfDay
    <3>5. AdmittedIsSpent'
      <4>1. \A t \in Tickets :
              admitted[t] > 0 /\ asked[t] # "LOST" /\ staging[t] # Missing => cache'[t] # "ACTIVE"
        BY <2>2, <3>1, <3>2, SpentIsPreserved
      <4>. QED
        BY <2>1, <2>6, <3>1, <4>1 DEF OnceInv, AdmittedIsSpent, Missing
    <3>. QED
      BY <2>3, <3>3, <3>4, <3>5 DEF OnceInv
  <2>. QED
    BY <2>4, <2>5
<1>17. ASSUME PullFails PROVE OnceInv'
  <2>1. /\ ~pull'.full /\ ~Begun' /\ DOMAIN pull'.rows = {} /\ staging' = [t \in Tickets |-> Missing]
        /\ UNCHANGED <<status, today, cache, look, screen, admitted, asked>>
    BY <1>17, NoPullWrites, NoRowsIsEmpty DEF PullFails, Begun, serverRows, time, scanning
  <2>. QED
    BY <2>1 DEF OnceInv, AdmittedOnce, AsksBetweenScans, FullKeepsKnown, DeadIsNotRead, Dead, CacheIsOfDay, AdmittedIsSpent,
       Missing
<1>18. ASSUME NEW t \in Tickets, Scan(t) PROVE OnceInv'
  <2>1. /\ screen' = t /\ cache[t] = "ACTIVE" /\ look = NoLook
        /\ UNCHANGED <<status, today, cache, staging, pull, look, admitted, asked>>
    BY <1>18 DEF Scan, AwaitsScan, serverRows, time, pulling
  <2>2. AdmittedOnce' /\ AsksBetweenScans' /\ FullKeepsKnown' /\ DeadIsNotRead'
    BY <2>1 DEF OnceInv, AdmittedOnce, AsksBetweenScans, FullKeepsKnown, Passed, Begun, DeadIsNotRead, Dead
  <2>3. CacheIsOfDay' /\ AdmittedIsSpent'
    BY <2>1 DEF OnceInv, CacheIsOfDay, Begun, AdmittedIsSpent, Missing
  <2>. QED
    BY <2>2, <2>3 DEF OnceInv
<1>19. ASSUME NEW t \in Tickets, LookUp(t) PROVE OnceInv'
  <2>1. /\ look' = [ticket |-> t, at |-> clock] /\ screen = NoTicket /\ cache[t] = Missing
        /\ VisitDay(t) = today
        /\ UNCHANGED <<status, today, cache, staging, pull, screen, admitted, asked>>
    BY <1>19 DEF LookUp, AwaitsScan, ShowsValid, Boardable, serverRows, time, pulling
  <2>2. AdmittedOnce' /\ AsksBetweenScans' /\ FullKeepsKnown' /\ DeadIsNotRead' /\ CacheIsOfDay'
    BY <2>1 DEF OnceInv, AdmittedOnce, AsksBetweenScans, FullKeepsKnown, Passed, Begun, DeadIsNotRead,
       Dead, CacheIsOfDay
  <2>3. admitted[t] > 0 => asked[t] = "LOST"
    <3>1. today \in Nat
      BY DaysAreNumbers DEF GateInv, TypeOK
    <3>. QED
      BY <2>1, <3>1 DEF OnceInv, CacheIsOfDay
  <2>4. AdmittedIsSpent'
    BY <2>1, <2>3 DEF OnceInv, AdmittedIsSpent
  <2>. QED
    BY <2>2, <2>4 DEF OnceInv
<1>20. ASSUME LookupArrives PROVE OnceInv'
  <2>1. /\ look' = NoLook /\ screen' = look.ticket
        /\ UNCHANGED <<status, today, staging, pull, admitted>>
    BY <1>20 DEF LookupArrives, serverRows, time, pulling
  <2>2. \A t \in Tickets :
          /\ t # look.ticket => cache'[t] = cache[t] /\ asked'[t] = asked[t]
          /\ t = look.ticket => cache'[t] = "ACTIVE" /\ asked'[t] # "NEVER"
          /\ asked'[t] = "LOST" <=> asked[t] = "LOST"
    BY <1>20 DEF LookupArrives, GateInv, TypeOK
  <2>3. \A t \in Tickets : t = look.ticket => VisitDay(t) <= today
    BY DEF GateInv, KnownIsIssued
  <2>4. AdmittedOnce' /\ AsksBetweenScans' /\ FullKeepsKnown' /\ DeadIsNotRead'
    BY <2>1, <2>2 DEF OnceInv, AdmittedOnce, AsksBetweenScans, FullKeepsKnown, Passed, Begun,
       DeadIsNotRead, Dead
  <2>5. CacheIsOfDay'
    BY <2>1, <2>2, <2>3 DEF OnceInv, CacheIsOfDay, Begun, Missing
  <2>6. AdmittedIsSpent'
    BY <2>1, <2>2, TicketsAreNumbers DEF OnceInv, AdmittedIsSpent, NoLook
  <2>. QED
    BY <2>4, <2>5, <2>6 DEF OnceInv
<1>24. ASSUME LookupFails PROVE OnceInv'
  <2>1. look' = NoLook /\ UNCHANGED <<status, today, cache, staging, pull, screen, admitted, asked>>
    BY <1>24 DEF LookupFails, serverRows, time, pulling
  <2>. QED
    BY <2>1, TicketsAreNumbers DEF OnceInv, AdmittedOnce, AsksBetweenScans, FullKeepsKnown, Passed, Begun,
       DeadIsNotRead, Dead, CacheIsOfDay, AdmittedIsSpent, NoLook
<1>21. ASSUME ConfirmBoarding PROVE OnceInv'
  <2>1. /\ screen \in Tickets /\ screen' = NoTicket /\ cache' = CacheAfter(screen)
        /\ admitted' = [admitted EXCEPT ![screen] = @ + 1]
        /\ UNCHANGED <<status, today, staging, pull, look, asked>>
    BY <1>21 DEF ConfirmBoarding, ShowsValid, GateInv, TypeOK, serverRows, time, pulling
  <2>2. \A t \in Tickets : /\ t # screen => admitted'[t] = admitted[t] /\ cache'[t] = cache[t]
                           /\ cache[t] = Missing <=> cache'[t] = Missing
                           /\ cache'[t] \in {cache[t], "USED"}
    BY <2>1 DEF CacheAfter, GateInv, TypeOK, Missing
  <2>3. cache'[screen] # "ACTIVE"
    BY <2>1 DEF CacheAfter, GateInv, TypeOK, Missing
  <2>4. AdmittedOnce'
    <3>1. admitted[screen] = 0 \/ asked[screen] = "LOST"
      BY <2>1 DEF OnceInv, AdmittedIsSpent, GateInv, TypeOK
    <3>. QED
      BY <2>1, <3>1 DEF OnceInv, AdmittedOnce, AsksBetweenScans, GateInv, TypeOK
  <2>5. AsksBetweenScans' /\ FullKeepsKnown' /\ DeadIsNotRead'
    BY <2>1, <2>2 DEF OnceInv, AsksBetweenScans, FullKeepsKnown, Passed, Begun, DeadIsNotRead, Dead
  <2>8. look.ticket # screen
    BY <2>1, TicketsAreNumbers DEF OnceInv, AsksBetweenScans, NoLook
  <2>6. CacheIsOfDay'
    BY <2>1, <2>2, TicketsAreNumbers DEF OnceInv, CacheIsOfDay, Begun
  <2>7. AdmittedIsSpent'
    BY <2>1, <2>2, <2>3, <2>8, TicketsAreNumbers DEF OnceInv, AdmittedIsSpent
  <2>. QED
    BY <2>4, <2>5, <2>6, <2>7 DEF OnceInv
<1>22. ASSUME DismissResult PROVE OnceInv'
  <2>1. screen' = NoTicket /\ UNCHANGED <<status, today, cache, staging, pull, look, admitted, asked>>
    BY <1>22 DEF DismissResult, serverRows, time, pulling
  <2>. QED
    BY <2>1, TicketsAreNumbers DEF OnceInv, AdmittedOnce, AsksBetweenScans, FullKeepsKnown, Passed, Begun, DeadIsNotRead,
       Dead,
       CacheIsOfDay, AdmittedIsSpent
<1>23. CASE UNCHANGED vars
  BY <1>1, <1>23 DEF vars, serverRows, time, pulling, scanning
<1>. QED
  BY <1>2, <1>3, <1>4, <1>5, <1>7, <1>8, <1>9, <1>11, <1>12, <1>13, <1>14, <1>15, <1>16, <1>17, <1>18,
     <1>19,
     <1>20, <1>24, <1>21, <1>22, <1>23 DEF Next, Others, Pull, Push, Operator

\* With or without a link, nobody is let in twice on one ticket: no page, manifest
\* or lookup brings back a ticket boarded here (db.ts, putPreservingBoardings),
\* except that a manifest may lose a boarding whose row a lookup had stored.
THEOREM NobodyGetsInTwice == Spec => []AdmittedOnce
<1>1. Init => OnceInv
  BY NoPullWrites, NoRowsIsEmpty, TicketsAreNumbers DEF Init, OnceInv, AdmittedOnce, AsksBetweenScans, FullKeepsKnown,
     DeadIsNotRead,
     CacheIsOfDay, AdmittedIsSpent, Missing
<1>2. OnceInv => AdmittedOnce
  BY DEF OnceInv
<1>3. GateInv /\ OnceInv /\ [Next]_vars => OnceInv'
  BY OnceStep
<1>. QED
  BY <1>1, <1>2, <1>3, GateInvariant, PTL DEF Spec

-----------------------------------------------------------------------------
(* What the cache has wrong, the next sync selects, as long as the overlap *)
(* is longer than a transaction and a lookup together.                     *)

\* The overlap reaches back behind every transaction a lookup can have missed.
OverlapCovers == TxLimit + LookupLimit < Overlap

\* A change that was not yet committed at a time is in what the overlap adds to
\* what came after.
LEMMA ChangedIsResent ==
  ASSUME OverlapCovers, NEW t \in Tickets, log \subseteq [id : Ids, ticket : Tickets, at : Times],
         NEW from \in Int, NEW since \in Int, since <= from + LookupLimit, ChangedSince(t, from)
  PROVE  ResentAfter(t, since)
<1>1. PICK r \in log : r.ticket = t /\ r.at >= from - TxLimit
  BY DEF ChangedSince
<1>2. r.at \in Int
  BY GateAssumption DEF Times
<1>3. r.at > since - Overlap
  BY <1>1, <1>2, GateAssumption DEF OverlapCovers
<1>. QED
  BY <1>1, <1>3 DEF ResentAfter

\* A ticket that a step moves is in the log with it, not long ago; the log only grows.
LEMMA MovesAreLogged ==
  ASSUME GateInv, NothingOutlives,
         \/ \E t \in Tickets : TxCommits(t)
         \/ \E e \in requests : JudgeEvent(e)
  PROVE  /\ log \subseteq log' /\ UNCHANGED <<clock, cache, staging, meta, pull, look>>
         /\ \A t \in Tickets : status'[t] # status[t] => \E r \in log' : r.ticket = t /\ r.at >= clock - TxLimit
<1>1. clock \in Int /\ TxLimit \in Nat
  BY GateAssumption DEF GateInv, TypeOK
<1>2. ASSUME NEW t \in Tickets, TxCommits(t)
      PROVE  /\ log \subseteq log' /\ UNCHANGED <<clock, cache, staging, meta, pull, look>>
             /\ \A u \in Tickets : status'[u] # status[u] => \E r \in log' : r.ticket = u /\ r.at >= clock - TxLimit
  <2>. DEFINE row == [id |-> open[t].id, ticket |-> t, at |-> open[t].at]
  <2>1. /\ open[t] # NoTx /\ status' = [status EXCEPT ![t] = open[t].to] /\ log' = log \union {row}
        /\ UNCHANGED <<clock, cache, staging, meta, pull, look>>
    BY <1>2 DEF TxCommits, time, pulling, scanning
  <2>2. row.ticket = t /\ row.at >= clock - TxLimit
    BY <2>1 DEF NothingOutlives
  <2>3. \A u \in Tickets : status'[u] # status[u] => u = t
    BY <2>1 DEF GateInv, TypeOK
  <2>. HIDE DEF row
  <2>. QED
    BY <2>1, <2>2, <2>3
<1>3. ASSUME NEW e \in requests, JudgeEvent(e)
      PROVE  /\ log \subseteq log' /\ UNCHANGED <<clock, cache, staging, meta, pull, look>>
             /\ \A u \in Tickets : status'[u] # status[u] => \E r \in log' : r.ticket = u /\ r.at >= clock - TxLimit
  <2>. DEFINE row == [id |-> seq', ticket |-> TicketOf(e), at |-> clock]
  <2>1. /\ \/ UNCHANGED <<status, log>>
           \/ status' = [status EXCEPT ![TicketOf(e)] = "USED"] /\ log' = log \union {row}
        /\ UNCHANGED <<clock, cache, staging, meta, pull, look>>
    BY <1>3 DEF JudgeEvent, serverRows, time, pulling, scanning
  <2>2. row.ticket = TicketOf(e) /\ row.at >= clock - TxLimit
    BY <1>1
  <2>3. \A u \in Tickets : status'[u] # status[u] => u = TicketOf(e)
    BY <2>1 DEF GateInv, TypeOK
  <2>. HIDE DEF row
  <2>. QED
    BY <2>1, <2>2, <2>3
<1>. QED
  BY <1>2, <1>3

\* Every step keeps FreshInv.
LEMMA FreshStep == OverlapCovers /\ GateInv /\ FreshInv /\ [Next]_vars => FreshInv'
<1>. SUFFICES ASSUME OverlapCovers, GateInv, FreshInv, [Next]_vars PROVE FreshInv'
  OBVIOUS
<1>0. /\ clock \in Int /\ pull.startedAt \in Int /\ meta.syncedAt \in Int /\ look.at \in Int
      /\ pull.startedAt <= clock /\ meta.syncedAt <= clock
      /\ TxLimit \in Nat /\ LookupLimit \in Nat /\ Overlap \in Nat
      /\ log \subseteq [id : Ids, ticket : Tickets, at : Times]
  <2>1. clock \in Nat /\ pull.startedAt \in 0 .. clock /\ meta.syncedAt \in 0 .. clock
    BY GateAssumption DEF GateInv, TypeOK, ClockLeads
  <2>2. look.at \in Times /\ log \subseteq [id : Ids, ticket : Tickets, at : Times]
    BY DEF GateInv, TypeOK
  <2>. QED
    BY <2>1, <2>2, GateAssumption DEF Times
<1>1. ASSUME UNCHANGED <<status, log, cache, staging, meta, pull, look>>, NothingOutlives' PROVE FreshInv'
  <2>1. ReadsAreFresh' /\ FullIsFresh'
    BY <1>1 DEF FreshInv, ReadsAreFresh, FullIsFresh, Passed, Begun, Dead, ChangedSince
  <2>2. IncrementIsFresh' /\ OutdatedIsResent'
    BY <1>1 DEF FreshInv, IncrementIsFresh, OutdatedIsResent, Passed, Begun, Outdated, ResentAfter
  <2>. QED
    BY <1>1, <2>1, <2>2 DEF FreshInv
<1>2. ASSUME UNCHANGED <<open, clock, look>> PROVE NothingOutlives'
  BY <1>2 DEF FreshInv, NothingOutlives
<1>3. ASSUME NEW t \in Tickets, NEW to \in TicketStatuses, TxWrites(t, to) PROVE FreshInv'
  <2>1. /\ open' = [open EXCEPT ![t] = [id |-> seq', at |-> clock, to |-> to]]
        /\ UNCHANGED <<status, log, clock, cache, staging, meta, pull, look>>
    BY <1>3 DEF TxWrites, time, pulling, scanning
  <2>2. NothingOutlives'
    BY <1>0, <2>1 DEF FreshInv, NothingOutlives, GateInv, TypeOK
  <2>. QED
    BY <1>1, <2>1, <2>2
<1>4. ASSUME Tick PROVE FreshInv'
  <2>1. /\ clock' = clock + 1 /\ \A t \in Tickets : open[t] # NoTx => clock - open[t].at < TxLimit
        /\ look # NoLook => clock - look.at < LookupLimit
        /\ UNCHANGED <<status, log, open, cache, staging, meta, pull, look>>
    BY <1>4 DEF Tick, serverRows, pulling, scanning
  <2>2. NothingOutlives'
    <3>1. \A t \in Tickets : open[t].at \in Int
      BY GateAssumption DEF GateInv, TypeOK, Times
    <3>. QED
      BY <1>0, <2>1, <3>1 DEF FreshInv, NothingOutlives
  <2>. QED
    BY <1>1, <2>1, <2>2
<1>5. ASSUME NewDay PROVE FreshInv'
  BY <1>1, <1>2, <1>5 DEF NewDay, serverRows, time, pulling, scanning
<1>6. ASSUME PushSends \/ PushAnswered \/ PushEnds PROVE FreshInv'
  BY <1>1, <1>2, <1>6 DEF PushSends, PushAnswered, PushEnds, serverRows, time, pulling, scanning
<1>7. ASSUME NEW e \in requests, JudgeFails(e) PROVE FreshInv'
  BY <1>1, <1>2, <1>7 DEF JudgeFails, serverRows, time, pulling, scanning
<1>8. ASSUME (\E t \in Tickets : TxCommits(t)) \/ (\E e \in requests : JudgeEvent(e)) PROVE FreshInv'
  <2>1. /\ log \subseteq log' /\ UNCHANGED <<clock, cache, staging, meta, pull, look>>
        /\ \A t \in Tickets : status'[t] # status[t] => \E r \in log' : r.ticket = t /\ r.at >= clock - TxLimit
    BY <1>8, MovesAreLogged DEF FreshInv
  <2>2. \A t \in Tickets : open'[t] # NoTx => open'[t] = open[t]
    BY <1>8 DEF TxCommits, JudgeEvent, serverRows, GateInv, TypeOK
  <2>3. NothingOutlives'
    BY <2>1, <2>2 DEF FreshInv, NothingOutlives
  <2>4. log' \subseteq [id : Ids, ticket : Tickets, at : Times]
    BY TypeStep DEF TypeOK
  <2>5. \A r \in log' : r.at \in Int
    BY <2>4, GateAssumption DEF Times
  <2>6. ASSUME NEW t \in Tickets, NEW from \in Int, from <= clock, status'[t] # status[t]
        PROVE  ChangedSince(t, from)' /\ ResentAfter(t, from)'
    <3>1. PICK r \in log' : r.ticket = t /\ r.at >= clock - TxLimit
      BY <2>1, <2>6
    <3>2. r.at \in Int
      BY <2>5
    <3>3. r.at >= from - TxLimit /\ r.at > from - Overlap
      BY <1>0, <2>6, <3>1, <3>2 DEF OverlapCovers
    <3>. QED
      BY <3>1, <3>3 DEF ChangedSince, ResentAfter
  <2>7. \A t \in Tickets, from \in Int : /\ ChangedSince(t, from) => ChangedSince(t, from)'
                                         /\ ResentAfter(t, from) => ResentAfter(t, from)'
    BY <2>1 DEF ChangedSince, ResentAfter
  <2>8. ReadsAreFresh'
    <3>1. \A t \in Tickets : Dead(t)' => Dead(t) \/ status'[t] # status[t]
      BY DEF Dead
    <3>2. ASSUME NEW t \in Tickets, Dead(t)',
                 (t \in DOMAIN pull.rows /\ pull.rows[t] = "ACTIVE") \/ staging[t] = "ACTIVE"
          PROVE  \E r \in log' : r.ticket = t /\ r.at >= pull.startedAt - TxLimit
      <4>1. Dead(t) => ChangedSince(t, pull.startedAt)
        BY <3>2 DEF FreshInv, ReadsAreFresh
      <4>2. CASE Dead(t)
        BY <2>1, <4>1, <4>2 DEF ChangedSince
      <4>3. CASE status'[t] # status[t]
        BY <1>0, <2>6, <4>3 DEF ChangedSince
      <4>. QED
        BY <3>1, <3>2, <4>2, <4>3
    <3>3. ASSUME NEW t \in Tickets, Dead(t)', look.ticket = t
          PROVE  \E r \in log' : r.ticket = t /\ r.at >= look.at - TxLimit
      <4>1. Dead(t) => ChangedSince(t, look.at)
        BY <3>3 DEF FreshInv, ReadsAreFresh
      <4>2. CASE Dead(t)
        BY <2>1, <4>1, <4>2 DEF ChangedSince
      <4>3. CASE status'[t] # status[t]
        <5>1. look # NoLook
          BY <3>3, TicketsAreNumbers DEF NoLook
        <5>2. look.at <= clock
          BY <1>0, <5>1 DEF FreshInv, NothingOutlives
        <5>. QED
          BY <1>0, <2>6, <4>3, <5>2 DEF ChangedSince
      <4>. QED
        BY <3>1, <3>3, <4>2, <4>3
    <3>. QED
      BY <2>1, <3>2, <3>3 DEF ReadsAreFresh, ChangedSince
  <2>9. FullIsFresh'
    <3>. SUFFICES ASSUME pull.full, NEW t \in Tickets, VisitDay(t) = pull.day, Passed(t), staging[t] = Missing,
                         t \notin DOMAIN pull.rows, status'[t] = "ACTIVE"
                  PROVE  \E r \in log' : r.ticket = t /\ r.at >= pull.startedAt - TxLimit
      BY <2>1 DEF FullIsFresh, ChangedSince, Passed, Begun
    <3>1. CASE status[t] = "ACTIVE"
      BY <2>1, <3>1 DEF FreshInv, FullIsFresh, ChangedSince
    <3>2. CASE status[t] # "ACTIVE"
      BY <1>0, <2>6, <3>2 DEF ChangedSince
    <3>. QED
      BY <3>1, <3>2
  <2>10. IncrementIsFresh'
    <3>. SUFFICES ASSUME Begun, ~pull.full, NEW t \in Tickets, VisitDay(t) = pull.day, Passed(t),
                         t \notin DOMAIN pull.rows, Outdated(t)'
                  PROVE  \E r \in log' : r.ticket = t /\ r.at > pull.startedAt - Overlap
      BY <2>1 DEF IncrementIsFresh, ResentAfter, Passed, Begun
    <3>1. CASE status'[t] = status[t]
      <4>1. Outdated(t)
        BY <2>1, <3>1 DEF Outdated
      <4>. QED
        BY <2>1, <4>1 DEF FreshInv, IncrementIsFresh, ResentAfter
    <3>2. CASE status'[t] # status[t]
      BY <1>0, <2>6, <3>2 DEF ResentAfter
    <3>. QED
      BY <3>1, <3>2
  <2>11. OutdatedIsResent'
    <3>. SUFFICES ASSUME NEW t \in Tickets, VisitDay(t) = meta.day, Outdated(t)'
                  PROVE  \E r \in log' : r.ticket = t /\ r.at > meta.syncedAt - Overlap
      BY <2>1 DEF OutdatedIsResent, ResentAfter
    <3>1. CASE status'[t] = status[t]
      <4>1. Outdated(t)
        BY <2>1, <3>1 DEF Outdated
      <4>. QED
        BY <2>1, <4>1 DEF FreshInv, OutdatedIsResent, ResentAfter
    <3>2. CASE status'[t] # status[t]
      BY <1>0, <2>6, <3>2 DEF ResentAfter
    <3>. QED
      BY <3>1, <3>2
  <2>. QED
    BY <2>3, <2>8, <2>9, <2>10, <2>11 DEF FreshInv
<1>9. ASSUME SyncStarts \/ FirstRequest \/ NextRequest PROVE FreshInv'
  <2>1. /\ UNCHANGED <<status, open, log, clock, cache, staging, meta, look>> /\ pull'.rows = pull.rows
        /\ pull.phase \in {"IDLE", "ASK"}
    BY <1>9, SyncStartsWrites, FirstRequestWrites, NextRequestWrites DEF GateInv, serverRows, time, scanning
  <2>2. DOMAIN pull.rows = {}
    BY <2>1, NoRowsIsEmpty DEF GateInv, PullHolds
  <2>3. \A t \in Tickets : Passed(t)' => /\ Begun /\ Passed(t) /\ pull'.full = pull.full /\ pull'.day = pull.day
                                         /\ pull'.startedAt = pull.startedAt
    <3>1. CASE NextRequest
      BY <3>1, NextRequestWrites DEF GateInv, Passed, Begun
    <3>2. CASE SyncStarts
      <4>1. /\ pull.phase = "IDLE" /\ pull'.phase = "ASK" /\ pull'.first
        BY <3>2, SyncStartsWrites DEF GateInv, PullHolds
      <4>. QED
        BY <4>1 DEF Passed, Begun
    <3>3. CASE FirstRequest
      <4>1. pull.phase = "ASK" /\ pull.first /\ pull'.phase = "READ" /\ pull'.after = pull.after
        BY <3>3, FirstRequestWrites DEF GateInv
      <4>2. pull'.after = NoTicket
        BY <4>1 DEF GateInv, PullHolds, Begun
      <4>3. \A t \in Tickets : ~(t <= pull'.after)
        BY <4>2, TicketsAreNumbers DEF NoTicket
      <4>. QED
        BY <4>1, <4>3 DEF Passed
    <3>. QED
      BY <1>9, <3>1, <3>2, <3>3
  <2>4. ASSUME NEW t \in Tickets, staging[t] # Missing PROVE pull'.startedAt = pull.startedAt
    <3>1. ~pull.first
      BY <2>4 DEF GateInv, PullHolds
    <3>2. NextRequest
      BY <1>9, <3>1, SyncStartsWrites, FirstRequestWrites DEF GateInv, PullHolds
    <3>. QED
      BY <3>2, NextRequestWrites DEF GateInv
  <2>5. ReadsAreFresh'
    <3>1. \A t \in Tickets : staging[t] = "ACTIVE" => pull'.startedAt = pull.startedAt
      BY <2>4 DEF Missing
    <3>. QED
      BY <2>1, <2>2, <3>1 DEF FreshInv, ReadsAreFresh, Dead, ChangedSince
  <2>6. FullIsFresh'
    BY <2>1, <2>2, <2>3 DEF FreshInv, FullIsFresh, ChangedSince
  <2>7. IncrementIsFresh'
    BY <2>1, <2>2, <2>3 DEF FreshInv, IncrementIsFresh, ResentAfter, Outdated
  <2>8. OutdatedIsResent'
    BY <2>1 DEF FreshInv, OutdatedIsResent, ResentAfter, Outdated
  <2>. QED
    BY <1>2, <2>1, <2>5, <2>6, <2>7, <2>8 DEF FreshInv
<1>10. ASSUME ReadPage PROVE FreshInv'
  <2>1. /\ UNCHANGED <<status, open, log, clock, cache, staging, meta, look>>
        /\ pull.phase = "READ" /\ pull'.phase = "PAGE" /\ pull'.full = pull.full /\ pull'.day = pull.day
        /\ pull'.startedAt = pull.startedAt
    BY <1>10, ReadPageWrites DEF GateInv, serverRows, time, scanning
  <2>2. Begun /\ DOMAIN pull.rows = {}
    BY <2>1, NoRowsIsEmpty DEF Begun, GateInv, PullHolds
  <2>3. ReadsAreFresh'
    <3>1. \A t \in DOMAIN pull'.rows : pull'.rows[t] = "ACTIVE" => ~Dead(t)
      BY <1>10, PageCovers DEF Dead
    <3>. QED
      BY <2>1, <3>1 DEF FreshInv, ReadsAreFresh, Dead, ChangedSince
  <2>4. FullIsFresh'
    <3>. SUFFICES ASSUME pull.full, NEW t \in Tickets, VisitDay(t) = pull.day, Passed(t)', staging[t] = Missing,
                         t \notin DOMAIN pull'.rows, status[t] = "ACTIVE"
                  PROVE  ChangedSince(t, pull.startedAt)
      BY <2>1 DEF FullIsFresh, ChangedSince
    <3>1. Passed(t)
      BY <1>10, PageCovers DEF Absent
    <3>. QED
      BY <2>2, <3>1 DEF FreshInv, FullIsFresh
  <2>5. IncrementIsFresh'
    <3>. SUFFICES ASSUME ~pull.full, NEW t \in Tickets, VisitDay(t) = pull.day, Passed(t)',
                         t \notin DOMAIN pull'.rows, Outdated(t)
                  PROVE  ResentAfter(t, pull.startedAt)
      BY <2>1 DEF IncrementIsFresh, ResentAfter, Outdated
    <3>1. status[t] # Absent
      BY DEF Outdated, Absent
    <3>2. meta.day = pull.day /\ pull.overlapFrom = meta.syncedAt - Overlap
      BY <2>2 DEF GateInv, PullHolds
    <3>3. PICK r \in log : r.ticket = t /\ r.at > meta.syncedAt - Overlap
      BY <3>2 DEF FreshInv, OutdatedIsResent, ResentAfter
    <3>4. t \in Changed
      BY <3>2, <3>3 DEF Changed
    <3>5. Passed(t)
      BY <1>10, <3>1, <3>4, PageCovers
    <3>. QED
      BY <2>2, <3>5 DEF FreshInv, IncrementIsFresh
  <2>6. OutdatedIsResent'
    BY <2>1 DEF FreshInv, OutdatedIsResent, ResentAfter, Outdated
  <2>. QED
    BY <1>2, <2>1, <2>3, <2>4, <2>5, <2>6 DEF FreshInv
<1>11. ASSUME PageArrives PROVE FreshInv'
  <2>1. /\ UNCHANGED <<status, open, log, clock, look>> /\ meta' = Rollover(meta)
        /\ pull.phase = "PAGE" /\ pull'.phase = (IF pull.more THEN "ASK" ELSE "DONE") /\ ~pull'.first
        /\ pull'.full = pull.full /\ pull'.day = pull.day /\ pull'.startedAt = pull.startedAt
        /\ pull'.after = pull.after /\ DOMAIN pull'.rows = {}
    BY <1>11, PageArrivesWrites, NoRowsIsEmpty DEF GateInv, serverRows, time, scanning
  <2>2. Begun /\ \A t \in Tickets : Passed(t)' => Passed(t)
    BY <2>1 DEF Begun, Passed
  <2>3. \A t \in DOMAIN pull.rows : t \in Tickets /\ pull.rows[t] \in TicketStatuses
    BY RowsAreStatuses DEF GateInv
  <2>4. meta.syncedAt <= pull.startedAt
    BY <2>2 DEF GateInv, ClockLeads
  <2>5. CASE pull.full
    <3>1. /\ UNCHANGED cache
          /\ \A t \in Tickets : /\ t \in DOMAIN pull.rows => staging'[t] = pull.rows[t]
                                /\ t \notin DOMAIN pull.rows => staging'[t] = staging[t]
      BY <1>11, <2>5 DEF PageArrives, GateInv, PullHolds
    <3>2. ReadsAreFresh'
      BY <2>1, <3>1 DEF FreshInv, ReadsAreFresh, Dead, ChangedSince
    <3>3. FullIsFresh'
      BY <2>1, <2>2, <2>3, <3>1 DEF FreshInv, FullIsFresh, ChangedSince, Missing, TicketStatuses
    <3>4. IncrementIsFresh'
      BY <2>1, <2>5 DEF IncrementIsFresh
    <3>5. OutdatedIsResent'
      <4>1. meta' = meta \/ meta'.day = NoDay
        BY <2>1 DEF Rollover, NeverSynced
      <4>. QED
        BY <2>1, <3>1, <4>1, DaysAreNumbers DEF FreshInv, OutdatedIsResent, ResentAfter, Outdated
    <3>. QED
      BY <1>2, <2>1, <3>2, <3>3, <3>4, <3>5 DEF FreshInv
  <2>6. CASE ~pull.full
    <3>1. /\ UNCHANGED <<staging, meta>>
          /\ \A t \in Tickets : /\ t \in DOMAIN pull.rows => cache'[t] = Preserved(t, pull.rows[t])
                                /\ t \notin DOMAIN pull.rows => cache'[t] = cache[t]
      BY <1>11, <2>1, <2>2, <2>6 DEF PageArrives, Rollover, GateInv, PullHolds
    <3>2. ReadsAreFresh' /\ FullIsFresh'
      BY <2>1, <2>6, <3>1 DEF FreshInv, ReadsAreFresh, FullIsFresh, Dead, ChangedSince
    <3>3. ASSUME NEW t \in Tickets, t \in DOMAIN pull.rows, Outdated(t)'
          PROVE  ResentAfter(t, pull.startedAt) /\ ResentAfter(t, meta.syncedAt)
      <4>1. cache'[t] = "ACTIVE" /\ Dead(t) /\ pull.rows[t] = "ACTIVE"
        BY <2>1, <2>3, <3>1, <3>3 DEF Outdated, Dead, Preserved, Missing, TicketStatuses
      <4>2. ChangedSince(t, pull.startedAt)
        BY <3>3, <4>1 DEF FreshInv, ReadsAreFresh
      <4>. QED
        BY <1>0, <2>4, <4>2, ChangedIsResent
    <3>4. \A t \in Tickets : t \notin DOMAIN pull.rows /\ Outdated(t)' => Outdated(t)
      BY <2>1, <3>1 DEF Outdated
    <3>5. IncrementIsFresh'
      BY <2>1, <2>2, <2>6, <3>3, <3>4 DEF FreshInv, IncrementIsFresh, ResentAfter
    <3>6. OutdatedIsResent'
      BY <2>1, <3>1, <3>3, <3>4 DEF FreshInv, OutdatedIsResent, ResentAfter
    <3>. QED
      BY <1>2, <2>1, <3>2, <3>5, <3>6 DEF FreshInv
  <2>. QED
    BY <2>5, <2>6
<1>12. ASSUME PullCompletes PROVE FreshInv'
  <2>1. /\ UNCHANGED <<status, open, log, clock, look>>
        /\ meta' = [version |-> pull.version, syncedAt |-> pull.startedAt, day |-> pull.day]
        /\ pull.phase = "DONE" /\ ~pull'.full /\ ~Begun' /\ DOMAIN pull'.rows = {}
        /\ staging' = [t \in Tickets |-> Missing]
    BY <1>12, NoPullWrites, NoRowsIsEmpty DEF PullCompletes, Begun, serverRows, time, scanning
  <2>2. Begun /\ DOMAIN pull.rows = {} /\ \A t \in Tickets : Passed(t)
    BY <2>1, NoRowsIsEmpty DEF Begun, Passed, GateInv, PullHolds
  <2>3. ReadsAreFresh' /\ FullIsFresh' /\ IncrementIsFresh'
    BY <2>1 DEF FreshInv, ReadsAreFresh, FullIsFresh, IncrementIsFresh, Missing, Dead, ChangedSince
  <2>4. ASSUME NEW t \in Tickets, VisitDay(t) = pull.day, Outdated(t)' PROVE ResentAfter(t, pull.startedAt)
    <3>1. CASE ~pull.full
      <4>1. Outdated(t)
        BY <1>12, <2>1, <2>4, <3>1 DEF PullCompletes, Outdated
      <4>. QED
        BY <2>2, <2>4, <3>1, <4>1 DEF FreshInv, IncrementIsFresh
    <3>2. CASE pull.full
      <4>1. /\ staging[t] = Missing => cache'[t] = Missing
            /\ staging[t] # Missing => cache'[t] = Preserved(t, staging[t])
        BY <1>12, <3>2 DEF PullCompletes
      <4>2. \/ staging[t] = "ACTIVE" /\ Dead(t)
            \/ staging[t] = Missing /\ status[t] = "ACTIVE"
        BY <2>1, <2>4, <4>1 DEF Outdated, Dead, Preserved, Missing, GateInv, TypeOK, TicketStatuses
      <4>3. ChangedSince(t, pull.startedAt)
        BY <2>2, <2>4, <3>2, <4>2 DEF FreshInv, ReadsAreFresh, FullIsFresh
      <4>. QED
        BY <1>0, <4>3, ChangedIsResent
    <3>. QED
      BY <3>1, <3>2
  <2>5. OutdatedIsResent'
    BY <2>1, <2>4 DEF OutdatedIsResent, ResentAfter
  <2>. QED
    BY <1>2, <2>1, <2>3, <2>5 DEF FreshInv
<1>13. ASSUME PullFails PROVE FreshInv'
  <2>1. /\ UNCHANGED <<status, open, log, clock, cache, meta, look>>
        /\ ~pull'.full /\ ~Begun' /\ DOMAIN pull'.rows = {} /\ staging' = [t \in Tickets |-> Missing]
    BY <1>13, NoPullWrites, NoRowsIsEmpty DEF PullFails, Begun, serverRows, time, scanning
  <2>2. ReadsAreFresh' /\ FullIsFresh' /\ IncrementIsFresh'
    BY <2>1 DEF FreshInv, ReadsAreFresh, FullIsFresh, IncrementIsFresh, Missing, Dead, ChangedSince
  <2>3. OutdatedIsResent'
    BY <2>1 DEF FreshInv, OutdatedIsResent, ResentAfter, Outdated
  <2>. QED
    BY <1>2, <2>1, <2>2, <2>3 DEF FreshInv
<1>14. ASSUME NEW t \in Tickets, Scan(t) PROVE FreshInv'
  BY <1>1, <1>2, <1>14 DEF Scan, serverRows, time, pulling
<1>15. ASSUME NEW t \in Tickets, LookUp(t) PROVE FreshInv'
  <2>1. /\ status[t] = "ACTIVE" /\ look' = [ticket |-> t, at |-> clock]
        /\ UNCHANGED <<status, open, log, clock, cache, staging, meta, pull>>
    BY <1>15 DEF LookUp, Boardable, serverRows, time, pulling
  <2>2. NothingOutlives'
    BY <1>0, <2>1 DEF FreshInv, NothingOutlives
  <2>3. ReadsAreFresh'
    BY <2>1 DEF FreshInv, ReadsAreFresh, Dead, ChangedSince
  <2>4. FullIsFresh' /\ IncrementIsFresh' /\ OutdatedIsResent'
    BY <2>1 DEF FreshInv, FullIsFresh, IncrementIsFresh, OutdatedIsResent, Passed, Begun, Outdated,
       ChangedSince,
       ResentAfter
  <2>. QED
    BY <2>2, <2>3, <2>4 DEF FreshInv
<1>16. ASSUME LookupArrives PROVE FreshInv'
  <2>1. /\ look # NoLook /\ look' = NoLook /\ cache' = [cache EXCEPT ![look.ticket] = "ACTIVE"]
        /\ UNCHANGED <<status, open, log, clock, staging, meta, pull>>
    BY <1>16 DEF LookupArrives, serverRows, time, pulling
  <2>2. NothingOutlives'
    BY <2>1 DEF FreshInv, NothingOutlives
  <2>3. ReadsAreFresh'
    BY <2>1, TicketsAreNumbers DEF FreshInv, ReadsAreFresh, NoLook, Dead, ChangedSince
  <2>4. FullIsFresh'
    BY <2>1 DEF FreshInv, FullIsFresh, Passed, Begun, ChangedSince
  <2>5. ASSUME NEW t \in Tickets, Outdated(t)', NEW since \in Int, since <= clock
        PROVE  Outdated(t) \/ ResentAfter(t, since)
    <3>1. CASE look.ticket # t
      BY <2>1, <2>5, <3>1 DEF Outdated, GateInv, TypeOK
    <3>2. CASE look.ticket = t
      <4>1. Dead(t)
        BY <2>1, <2>5, <3>2 DEF Outdated, Dead, GateInv, TypeOK, Missing
      <4>2. ChangedSince(t, look.at)
        BY <3>2, <4>1 DEF FreshInv, ReadsAreFresh
      <4>3. since <= look.at + LookupLimit
        BY <1>0, <2>1, <2>5 DEF FreshInv, NothingOutlives
      <4>. QED
        BY <1>0, <4>2, <4>3, ChangedIsResent
    <3>. QED
      BY <3>1, <3>2
  <2>6. IncrementIsFresh'
    BY <1>0, <2>1, <2>5 DEF FreshInv, IncrementIsFresh, Passed, Begun, ResentAfter
  <2>7. OutdatedIsResent'
    BY <1>0, <2>1, <2>5 DEF FreshInv, OutdatedIsResent, ResentAfter
  <2>. QED
    BY <2>2, <2>3, <2>4, <2>6, <2>7 DEF FreshInv
<1>17. ASSUME LookupFails PROVE FreshInv'
  <2>1. look' = NoLook /\ UNCHANGED <<status, open, log, clock, cache, staging, meta, pull>>
    BY <1>17 DEF LookupFails, serverRows, time, pulling
  <2>2. NothingOutlives'
    BY <2>1 DEF FreshInv, NothingOutlives
  <2>3. ReadsAreFresh'
    BY <2>1, TicketsAreNumbers DEF FreshInv, ReadsAreFresh, NoLook, Dead, ChangedSince
  <2>4. FullIsFresh' /\ IncrementIsFresh' /\ OutdatedIsResent'
    BY <2>1 DEF FreshInv, FullIsFresh, IncrementIsFresh, OutdatedIsResent, Passed, Begun, Outdated,
       ChangedSince,
       ResentAfter
  <2>. QED
    BY <2>2, <2>3, <2>4 DEF FreshInv
<1>18. ASSUME ConfirmBoarding PROVE FreshInv'
  <2>1. /\ cache' = CacheAfter(screen) /\ screen \in Tickets
        /\ UNCHANGED <<status, open, log, clock, staging, meta, pull, look>>
    BY <1>18 DEF ConfirmBoarding, ShowsValid, GateInv, TypeOK, serverRows, time, pulling
  <2>2. \A t \in Tickets : Outdated(t)' => Outdated(t)
    BY <2>1 DEF Outdated, CacheAfter, GateInv, TypeOK, Missing
  <2>3. ReadsAreFresh' /\ FullIsFresh'
    BY <2>1 DEF FreshInv, ReadsAreFresh, FullIsFresh, Passed, Begun, Dead, ChangedSince
  <2>4. IncrementIsFresh'
    BY <2>1, <2>2 DEF FreshInv, IncrementIsFresh, Passed, Begun, ResentAfter
  <2>5. OutdatedIsResent'
    BY <2>1, <2>2 DEF FreshInv, OutdatedIsResent, ResentAfter
  <2>. QED
    BY <1>2, <2>1, <2>3, <2>4, <2>5 DEF FreshInv
<1>19. ASSUME DismissResult PROVE FreshInv'
  BY <1>1, <1>2, <1>19 DEF DismissResult, serverRows, time, pulling
<1>20. CASE UNCHANGED vars
  BY <1>1, <1>2, <1>20 DEF vars, serverRows, time, pulling, scanning
<1>. QED
  BY <1>3, <1>4, <1>5, <1>6, <1>7, <1>8, <1>9, <1>10, <1>11, <1>12, <1>13, <1>14, <1>15, <1>16, <1>17,
     <1>18,
     <1>19, <1>20 DEF Next, Others, Pull, Push, Operator

\* As long as the overlap is longer than a transaction and a lookup together,
\* whatever today's cache has wrong is selected by the next incremental sync
\* (sync.ts: "such a row is never skipped").
THEOREM StaleRowsAreResent == OverlapCovers => (Spec => []StaleIsResent)
<1>. SUFFICES ASSUME OverlapCovers PROVE Spec => []StaleIsResent
  OBVIOUS
<1>1. Init => FreshInv
  BY NoPullWrites, NoRowsIsEmpty, TicketsAreNumbers, DaysAreNumbers DEF Init, FreshInv, NothingOutlives,
     ReadsAreFresh,
     FullIsFresh, IncrementIsFresh, OutdatedIsResent, Begun, Missing, NoLook, NeverSynced
<1>2. GateInv /\ FreshInv /\ [Next]_vars => FreshInv'
  BY FreshStep
<1>3. FreshInv => StaleIsResent
  BY DEF FreshInv, OutdatedIsResent, ResentAfter, StaleIsResent
<1>. QED
  BY <1>1, <1>2, <1>3, GateInvariant, PTL DEF Spec

=============================================================================
