------------------------- MODULE TicketBook_proofs -------------------------
(***************************************************************************)
(* Proofs about TicketBook for any number of tills, devices and blanks,    *)
(* any calendar and any limits.  Four theorems need no assumption beyond   *)
(* those of the module; what the other four assume is said where they are. *)
(***************************************************************************)
EXTENDS TicketBook, NaturalSets

-----------------------------------------------------------------------------
(* What is on its way through the system has been issued, and sold.        *)

\* A request that has counted has a day to stock.
CountedHasDay == \A r \in pulls : r.missing # Uncounted => r.todo # {}

\* A sale waiting anywhere, and a verdict on one, is of a ticket a guest has.
SalesHaveGuests ==
  /\ \A t \in Tills : /\ \A s \in queue[t] : guests[BlankOf(s)] > 0
                      /\ \A p \in pushed[t] : guests[BlankOf(SaleOf(p))] > 0
                      /\ \A b \in judged[t] : guests[b] > 0
  /\ \A p \in requests : guests[BlankOf(SaleOf(p))] > 0

\* What a till has, or is about to have, and what is sold, the server issued.
BlanksAreIssued ==
  /\ \A b \in Blanks : guests[b] > 0 => booking[b] # Absent
  /\ \A t \in Tills : \A b \in held[t] \union reply[t].blanks : booking[b] # Absent

\* The worker's list is of blanks whose day is over, and stays so.
StaleIsPast == \A b \in stale : booking[b] # Absent /\ visitDay[b] < today

\* Until its day is over, a blank's ticket goes through the gate.
TicketStands ==
  \A b \in Blanks :
    /\ booking[b] = Absent <=> ticket[b] = Absent
    /\ booking[b] # Absent => owner[b] \in Devices
    /\ booking[b] # Absent /\ today <= visitDay[b] =>
         ticket[b] \in {"ACTIVE", "USED"} \/ (booking[b] = "CANCELLED" /\ ticket[b] = "CANCELLED")

\* A till that forgot its key has no request under way, and a sale is in a
\* request only under the key the till still uses.
SyncIsKeyed ==
  /\ \A t \in Tills : sync[t] # "IDLE" => Enrolled(t)
  /\ \A t \in Tills : sync[t] # "PUSHING" => pushed[t] = {} /\ judged[t] = {}
  /\ \A t \in Tills : \A p \in pushed[t] : p[1] = key[t]
  /\ \A r \in pulls : r.waited => sync[r.till] = "ASKED" /\ r.dev = key[r.till]
  /\ \A r \in pulls, other \in pulls : r.waited /\ other.waited /\ r.till = other.till => r = other

\* The inductive invariant that needs no assumption.
BookInv ==
  TypeOK /\ CountedHasDay /\ SaleHasGuest /\ SalesHaveGuests /\ BlanksAreIssued /\ StaleIsPast
    /\ TicketStands /\ SyncIsKeyed

-----------------------------------------------------------------------------
(* What the bound on a book rests on.                                      *)

\* The requests at work are told apart.
NumbersDiffer == \A r, other \in pulls : r.no = other.no => r = other

\* The blanks that requests have counted as missing and not yet inserted.
Owed(d, day) ==
  {x \in (1 .. PullLimit) \X (1 .. Target) :
     \E r \in pulls :
       /\ r.no = x[1] /\ r.dev = d /\ Earliest(r.todo) = day
       /\ r.missing # Uncounted /\ x[2] <= r.missing}

\* What is unsold and what is still to come stay within the bound together.
OwedFits ==
  \A d \in Devices, day \in Days :
    Cardinality(Unsold(d, day)) + Cardinality(Owed(d, day)) <= PullLimit * Target

BoundInv == NumbersDiffer /\ OwedFits

-----------------------------------------------------------------------------
(* What "sold once" rests on.                                              *)

\* One browser and one key: whatever the office does with it.
Single == \E t \in Tills, d \in Devices : Tills = {t} /\ Devices = {d}

\* The only browser b can get into, and whether it would now.
Home(t, b) == Single \/ holder[owner[b]] = t
Loads(t, b) == Single \/ owner[b] = key[t]

\* A key that was ever entered belongs to the browser that entered it.
KeysStay ==
  Single \/
    /\ \A t \in Tills : Enrolled(t) => holder[key[t]] = t
    /\ \A r \in pulls : holder[r.dev] # NoTill
    /\ \A b \in Blanks : booking[b] # Absent => holder[owner[b]] # NoTill

\* What is in the book is unsold, and at home.
HeldIsUnsold == \A t \in Tills : \A b \in held[t] : Home(t, b) /\ guests[b] = 0

\* What is in the answer is unsold, or queued since.
ReplyIsUnsold ==
  \A t \in Tills : sync[t] = "BOOK" =>
    \A b \in reply[t].blanks : Loads(t, b) /\ (guests[b] = 0 \/ b \in QueuedBlanks(t))

\* A verdict means that the server will not offer the blank to this till again.
JudgedIsDone ==
  \A t \in Tills : \A b \in judged[t] : booking[b] = "RESERVED" => ~Loads(t, b)

\* Until then its sale is in the queue of the till that would get it.
SoldIsQueued ==
  \A b \in Blanks :
    booking[b] = "RESERVED" /\ guests[b] > 0 =>
      \E t \in Tills : Home(t, b) /\ (Loads(t, b) => b \in QueuedBlanks(t))

OnceInv ==
  NoBlankSoldTwice /\ KeysStay /\ HeldIsUnsold /\ ReplyIsUnsold /\ JudgedIsDone /\ SoldIsQueued

-----------------------------------------------------------------------------
(* What "no sale is lost" rests on.                                        *)

OneDevice == \E d \in Devices : Devices = {d}

\* A till keeps its key, and so does everything it has.
TillKeepsKey ==
  OneDevice \/
    /\ \A t \in Tills : Enrolled(t) => device[key[t]] = "ACTIVE" /\ holder[key[t]] = t
    /\ \A d \in Devices : device[d] # "INACTIVE"
    /\ \A t \in Tills : \A b \in held[t] \union QueuedBlanks(t) : owner[b] = key[t]
    /\ \A t \in Tills : sync[t] = "BOOK" => \A b \in reply[t].blanks : owner[b] = key[t]
    /\ \A t \in Tills : \A p \in pushed[t] : owner[BlankOf(SaleOf(p))] = p[1]

\* A verdict is only given on a sale that is recorded, or voided.
JudgedIsRecorded ==
  \A t \in Tills : \A b \in judged[t] : booking[b] \in {"CASH_CONFIRMED", "CANCELLED"}

AccountInv == SaleIsAccounted /\ TillKeepsKey /\ JudgedIsRecorded

-----------------------------------------------------------------------------
(* Type correctness.                                                       *)

\* The day allocateBook works on is the first of those it has yet to stock.
LEMMA EarliestIsFirst ==
  ASSUME NEW days \in SUBSET Nat, days # {}
  PROVE  /\ Earliest(days) \in days
         /\ \A other \in days : Earliest(days) <= other
<1>1. \E day \in days : \A other \in days : day <= other
  BY LeastNatural
<1>. QED
  BY <1>1 DEF Earliest

\* It is a day of the calendar.
LEMMA EarliestIsDay ==
  ASSUME NEW days \in SUBSET Days, days # {}
  PROVE  Earliest(days) \in days /\ Earliest(days) \in Days
<1>1. days \in SUBSET Nat
  BY BookAssumption DEF Days
<1>. QED
  BY <1>1, EarliestIsFirst

\* What allocateBook counts is a number, and so is what is missing.
LEMMA UnsoldIsFinite ==
  ASSUME NEW d, NEW day
  PROVE  IsFiniteSet(Unsold(d, day)) /\ Cardinality(Unsold(d, day)) \in Nat
<1>1. Unsold(d, day) \in SUBSET Blanks
  BY DEF Unsold
<1>. QED
  BY <1>1, BookAssumption, FS_Subset, FS_CardinalityType

\* At most the target is missing.
LEMMA MissingType ==
  ASSUME NEW d, NEW day
  PROVE  Missing(d, day) \in 0 .. Target
BY UnsoldIsFinite, BookAssumption DEF Missing

\* Every action keeps the variables in their types.
LEMMA TypeStep == TypeOK /\ CountedHasDay /\ [Next]_vars => TypeOK'
<1>. SUFFICES ASSUME TypeOK, CountedHasDay, [Next]_vars PROVE TypeOK'
  OBVIOUS
<1>. USE BookAssumption DEF bookRows, office, server, store, syncing
<1>1. ASSUME NEW d \in Devices, RegisterDevice(d) PROVE TypeOK'
  BY <1>1 DEF TypeOK, RegisterDevice
<1>2. ASSUME NEW d \in Devices, RotateKey(d) PROVE TypeOK'
  BY <1>2 DEF TypeOK, RotateKey
<1>3. ASSUME NEW d \in Devices, SetDeviceActive(d) PROVE TypeOK'
  BY <1>3 DEF TypeOK, SetDeviceActive
<1>4. ASSUME NEW t \in Tills, NEW d \in Devices, EnterKey(t, d) PROVE TypeOK'
  BY <1>4 DEF TypeOK, EnterKey
<1>5. ASSUME SetOfflineSelling PROVE TypeOK'
  BY <1>5 DEF TypeOK, SetOfflineSelling
<1>6. ASSUME SetCategoryActive PROVE TypeOK'
  BY <1>6 DEF TypeOK, SetCategoryActive
<1>7. ASSUME NEW b \in Blanks, CancelSale(b) PROVE TypeOK'
  BY <1>7 DEF TypeOK, CancelSale, Deactivate, TicketStatuses
<1>8. ASSUME NEW t \in Tills, NEW now \in Days, SellResolves(t, now) PROVE TypeOK'
  BY <1>8 DEF TypeOK, SellResolves, ParkDay
<1>9. ASSUME NEW t \in Tills, NEW b \in Blanks, NEW rate \in SaleRates, SellClaims(t, b, rate) PROVE TypeOK'
  <2>1. queue' \in [Tills -> SUBSET Sales]
    BY <1>9 DEF TypeOK, SellClaims, ClaimBlank, Sales
  <2>2. guests' \in [Blanks -> 0 .. 2]
    BY <1>9 DEF TypeOK, SellClaims
  <2>. QED
    BY <1>9, <2>1, <2>2 DEF TypeOK, SellClaims, ClaimBlank
<1>10. ASSUME NEW t \in Tills, NEW batch \in SUBSET queue[t], PushSends(t, batch) PROVE TypeOK'
  <2>1. CASE Unauthorized(t)
    BY <1>10, <2>1 DEF TypeOK, Unauthorized
  <2>2. CASE Authenticated(t) /\ ~Unauthorized(t)
    <3>1. key[t] \in Devices
      BY <2>2 DEF Authenticated, Enrolled, TypeOK
    <3>2. {key[t]} \X batch \subseteq Pushes
      BY <3>1 DEF TypeOK, Pushes
    <3>. HIDE DEF Pushes
    <3>. QED
      BY <1>10, <2>2, <3>2 DEF TypeOK, PushSends
  <2>. QED
    BY <1>10, <2>1, <2>2 DEF PushSends
<1>11. ASSUME NEW t \in Tills, PushAnswered(t) PROVE TypeOK'
  BY <1>11 DEF TypeOK, PushAnswered
<1>12. ASSUME NEW t \in Tills, PullAsks(t) PROVE TypeOK'
  <2>1. CASE Unauthorized(t)
    BY <1>12, <2>1 DEF TypeOK, Unauthorized
  <2>2. CASE Authenticated(t) /\ ~Unauthorized(t) /\ ~selling
    <3>. DEFINE new == [day |-> today, off |-> TRUE, blanks |-> {}]
    <3>0. reply' = [reply EXCEPT ![t] = new] /\ sync' = [sync EXCEPT ![t] = "BOOK"]
      BY <1>12, <2>2 DEF PullAsks
    <3>1. new \in Replies
      BY DEF TypeOK, Replies
    <3>. HIDE DEF new
    <3>2. reply' \in [Tills -> Replies]
      BY <3>0, <3>1 DEF TypeOK
    <3>3. sync' \in [Tills -> {"IDLE", "PUSHING", "PULL", "ASKED", "BOOK", "META"}]
      BY <3>0 DEF TypeOK
    <3>. QED
      BY <1>12, <2>2, <3>2, <3>3 DEF TypeOK, PullAsks
  <2>3. CASE Authenticated(t) /\ ~Unauthorized(t) /\ selling
    <3>1. key[t] \in Devices
      BY <2>3 DEF Authenticated, Enrolled, TypeOK
    <3>0. PICK no \in 1 .. PullLimit :
            pulls' = pulls \union
              {[no |-> no, till |-> t, dev |-> key[t], day |-> today, todo |-> BookDays,
                missing |-> Uncounted, waited |-> TRUE]}
      BY <1>12, <2>3 DEF PullAsks
    <3>. DEFINE new == [no |-> no, till |-> t, dev |-> key[t], day |-> today, todo |-> BookDays,
                        missing |-> Uncounted, waited |-> TRUE]
    <3>2. new \in Pulls
      BY <3>1 DEF TypeOK, Pulls, BookDays
    <3>3. pulls' = pulls \union {new} /\ sync' = [sync EXCEPT ![t] = "ASKED"]
      BY <1>12, <2>3, <3>0 DEF PullAsks
    <3>. HIDE DEF new
    <3>4. pulls' \subseteq Pulls
      BY <3>2, <3>3 DEF TypeOK
    <3>5. sync' \in [Tills -> {"IDLE", "PUSHING", "PULL", "ASKED", "BOOK", "META"}]
      BY <3>3 DEF TypeOK
    <3>. QED
      BY <1>12, <2>3, <3>4, <3>5 DEF TypeOK, PullAsks
  <2>. QED
    BY <1>12, <2>1, <2>2, <2>3 DEF PullAsks
<1>13. ASSUME NEW t \in Tills, AppliesBook(t) PROVE TypeOK'
  BY <1>13 DEF TypeOK, AppliesBook, NewBook, Replies
<1>14. ASSUME NEW t \in Tills, SetsMeta(t) PROVE TypeOK'
  BY <1>14 DEF TypeOK, SetsMeta, Replies, NoReply
<1>15. ASSUME NEW t \in Tills, SyncFails(t) PROVE TypeOK'
  <2>1. Abandoned(t) \subseteq Pulls
    <3>1. \A r \in Pulls : [r EXCEPT !.waited = @ /\ r.till # t] \in Pulls
      BY DEF Pulls
    <3>. QED
      BY <3>1 DEF TypeOK, Abandoned
  <2>2. NoReply \in Replies
    BY DEF NoReply, Replies
  <2>. QED
    BY <1>15, <2>1, <2>2 DEF TypeOK, SyncFails
<1>16. ASSUME NEW p \in requests, JudgeSale(p) PROVE TypeOK'
  BY <1>16 DEF TypeOK, JudgeSale, StatusAfter, Hear, Pushes, Sales, SaleOf, BlankOf
<1>17. ASSUME NEW p \in requests, JudgeFails(p) PROVE TypeOK'
  BY <1>17 DEF TypeOK, JudgeFails
<1>18. ASSUME NEW r \in pulls, AllocateCounts(r) PROVE TypeOK'
  <2>1. [r EXCEPT !.missing = Missing(r.dev, Earliest(r.todo))] \in Pulls
    BY MissingType DEF TypeOK, Pulls
  <2>. QED
    BY <1>18, <2>1 DEF TypeOK, AllocateCounts
<1>19. ASSUME NEW r \in pulls, AllocateInserts(r) PROVE TypeOK'
  <2>1. r \in Pulls
    BY DEF TypeOK
  <2>2. [r EXCEPT !.missing = Uncounted, !.todo = @ \ {Earliest(@)}] \in Pulls
    BY <2>1 DEF Pulls
  <2>3. PICK new \in SUBSET Fresh : InsertReserved(r.dev, Earliest(r.todo), new)
    BY <1>19 DEF AllocateInserts
  <2>4. r.dev \in Devices
    BY <2>1 DEF Pulls
  <2>5. Earliest(r.todo) \in Days
    BY <1>19, <2>1, EarliestIsDay DEF AllocateInserts, CountedHasDay, Pulls
  <2>. QED
    BY <1>19, <2>2, <2>3, <2>4, <2>5 DEF TypeOK, AllocateInserts, InsertReserved, Issue, TicketStatuses
<1>20. ASSUME NEW r \in pulls, PullAnswered(r) PROVE TypeOK'
  <2>1. r \in Pulls
    BY DEF TypeOK
  <2>2. [day |-> r.day, off |-> FALSE, blanks |-> LoadBook(r)] \in Replies
    BY <2>1 DEF Pulls, Replies, LoadBook
  <2>. DEFINE new == [day |-> r.day, off |-> FALSE, blanks |-> LoadBook(r)]
  <2>3. r.till \in Tills
    BY <2>1 DEF Pulls
  <2>4. \/ reply' = [reply EXCEPT ![r.till] = new] /\ sync' = [sync EXCEPT ![r.till] = "BOOK"]
        \/ UNCHANGED <<reply, sync>>
    BY <1>20 DEF PullAnswered
  <2>. HIDE DEF new
  <2>5. reply' \in [Tills -> Replies]
    BY <2>2, <2>3, <2>4 DEF TypeOK, new
  <2>6. sync' \in [Tills -> {"IDLE", "PUSHING", "PULL", "ASKED", "BOOK", "META"}]
    BY <2>3, <2>4 DEF TypeOK
  <2>. QED
    BY <1>20, <2>5, <2>6 DEF TypeOK, PullAnswered
<1>21. ASSUME NEW r \in pulls, PullDies(r) PROVE TypeOK'
  BY <1>21 DEF TypeOK, PullDies
<1>22. ASSUME NewDay PROVE TypeOK'
  BY <1>22 DEF TypeOK, NewDay, Days
<1>23. ASSUME ExpirySelects PROVE TypeOK'
  BY <1>23 DEF TypeOK, ExpirySelects, StaleBlanks
<1>24. ASSUME WorkerDies PROVE TypeOK'
  BY <1>24 DEF TypeOK, WorkerDies
<1>25. ASSUME NEW b \in Blanks, ExpiresBlank(b) PROVE TypeOK'
  BY <1>25 DEF TypeOK, ExpiresBlank, Deactivate, TicketStatuses
<1>26. ASSUME NEW b \in Blanks, Board(b) PROVE TypeOK'
  BY <1>26 DEF TypeOK, Board, TicketStatuses
<1>27. CASE UNCHANGED vars
  BY <1>27 DEF TypeOK, vars
<1>. QED
  BY <1>1, <1>2, <1>3, <1>4, <1>5, <1>6, <1>7, <1>8, <1>9, <1>10, <1>11, <1>12, <1>13, <1>14, <1>15,
     <1>16, <1>17, <1>18, <1>19, <1>20, <1>21, <1>22, <1>23, <1>24, <1>25, <1>26, <1>27
     DEF Next, Office, Till, Sync

-----------------------------------------------------------------------------
(* Which actions write what.                                               *)

\* Who touches sales, verdicts and statuses.
LEMMA SalesFrame ==
  ASSUME [Next]_vars
  PROVE  \/ \E b \in Blanks : CancelSale(b) \/ ExpiresBlank(b)
         \/ \E t \in Tills, b \in Blanks, rate \in SaleRates : SellClaims(t, b, rate)
         \/ \E t \in Tills : \E batch \in SUBSET queue[t] : PushSends(t, batch)
         \/ \E t \in Tills : PushAnswered(t) \/ SyncFails(t)
         \/ \E p \in requests : JudgeSale(p) \/ JudgeFails(p)
         \/ \E r \in pulls : AllocateInserts(r)
         \/ UNCHANGED <<queue, pushed, judged, requests, guests, booking>>
BY DEF vars, bookRows, office, server, store, syncing, Next, Office, Till, Sync,
  RegisterDevice, RotateKey, SetDeviceActive, EnterKey, SetOfflineSelling, SetCategoryActive,
  SellResolves, PullAsks, AppliesBook, SetsMeta, AllocateCounts, PullAnswered, PullDies, NewDay,
  ExpirySelects, WorkerDies, Board, Unauthorized

\* Who touches tickets.
LEMMA TicketFrame ==
  ASSUME [Next]_vars
  PROVE  \/ \E b \in Blanks : CancelSale(b) \/ ExpiresBlank(b) \/ Board(b)
         \/ \E t \in Tills, b \in Blanks, rate \in SaleRates : SellClaims(t, b, rate)
         \/ \E t \in Tills : PullAsks(t) \/ AppliesBook(t) \/ SetsMeta(t) \/ SyncFails(t)
         \/ \E p \in requests : JudgeSale(p)
         \/ \E r \in pulls : AllocateInserts(r) \/ PullAnswered(r)
         \/ NewDay
         \/ UNCHANGED <<guests, booking, held, reply, ticket, owner, visitDay, today>>
BY DEF vars, bookRows, office, server, store, syncing, Next, Office, Till, Sync,
  RegisterDevice, RotateKey, SetDeviceActive, EnterKey, SetOfflineSelling, SetCategoryActive,
  SellResolves, PushSends, PushAnswered, JudgeFails, AllocateCounts, PullDies, ExpirySelects, WorkerDies,
  Unauthorized

\* Who touches the worker's list and what it is about.
LEMMA StaleFrame ==
  ASSUME [Next]_vars
  PROVE  \/ \E b \in Blanks : CancelSale(b) \/ ExpiresBlank(b)
         \/ \E p \in requests : JudgeSale(p)
         \/ \E r \in pulls : AllocateInserts(r)
         \/ NewDay \/ ExpirySelects \/ WorkerDies
         \/ UNCHANGED <<stale, booking, visitDay, today>>
<1>1. ASSUME NEW t \in Tills, Till(t) PROVE UNCHANGED <<stale, booking, visitDay, today>>
  <2>1. ASSUME Sync(t) PROVE UNCHANGED <<stale, booking, visitDay, today>>
    BY <2>1 DEF Sync, PushSends, PushAnswered, PullAsks, AppliesBook, SetsMeta, SyncFails, Unauthorized,
       bookRows, server
  <2>. QED
    BY <1>1, <2>1 DEF Till, SellResolves, SellClaims, bookRows, server
<1>. QED
  BY <1>1 DEF Next, vars, bookRows, server, Office, RegisterDevice, RotateKey, SetDeviceActive, EnterKey,
    SetOfflineSelling, SetCategoryActive, JudgeFails, AllocateCounts, PullAnswered, PullDies, Board

\* Who touches the syncs, the keys and the requests.
LEMMA SyncFrame ==
  ASSUME [Next]_vars
  PROVE  \/ \E t \in Tills, d \in Devices : EnterKey(t, d)
         \/ \E t \in Tills : \E batch \in SUBSET queue[t] : PushSends(t, batch)
         \/ \E t \in Tills : PushAnswered(t) \/ PullAsks(t) \/ AppliesBook(t) \/ SetsMeta(t) \/ SyncFails(t)
         \/ \E p \in requests : JudgeSale(p)
         \/ \E r \in pulls : AllocateCounts(r) \/ AllocateInserts(r) \/ PullAnswered(r) \/ PullDies(r)
         \/ UNCHANGED <<sync, key, pushed, judged, pulls>>
BY DEF vars, bookRows, office, server, store, syncing, Next, Office, Till, Sync,
  RegisterDevice, RotateKey, SetDeviceActive, SetOfflineSelling, SetCategoryActive, CancelSale,
  SellResolves, SellClaims, JudgeFails, NewDay, ExpirySelects, WorkerDies, ExpiresBlank, Board, ClaimBlank

-----------------------------------------------------------------------------
(* The invariant that needs no assumption.                                 *)

\* Whatever is queued, pushed, judged or recorded is a sale some guest holds
\* the ticket of.
LEMMA SalesStep ==
  TypeOK /\ BlanksAreIssued /\ SalesHaveGuests /\ SaleHasGuest /\ [Next]_vars
    => SalesHaveGuests' /\ SaleHasGuest'
<1>. SUFFICES ASSUME TypeOK, BlanksAreIssued, SalesHaveGuests, SaleHasGuest, [Next]_vars
              PROVE  SalesHaveGuests' /\ SaleHasGuest'
  OBVIOUS
<1>. USE DEF SalesHaveGuests, SaleHasGuest, BlankOf, SaleOf
<1>1. ASSUME NEW b \in Blanks, CancelSale(b) \/ ExpiresBlank(b)
      PROVE  SalesHaveGuests' /\ SaleHasGuest'
  BY <1>1 DEF CancelSale, ExpiresBlank, server, store, syncing, TypeOK
<1>2. ASSUME NEW t \in Tills, NEW b \in Blanks, NEW rate \in SaleRates, SellClaims(t, b, rate)
      PROVE  SalesHaveGuests' /\ SaleHasGuest'
  <2>1. \A c \in Blanks : guests[c] > 0 => guests'[c] > 0
    BY <1>2 DEF SellClaims, TypeOK
  <2>2. guests'[b] > 0 /\ <<b, rate>>[1] = b
    BY <1>2 DEF SellClaims, TypeOK
  <2>3. \A u \in Tills : \A s \in queue'[u] : s \in queue[u] \/ s = <<b, rate>>
    BY <1>2 DEF SellClaims, ClaimBlank
  <2>4. /\ \A u \in Tills : \A s \in queue[u] : s[1] \in Blanks
        /\ \A u \in Tills : \A p \in pushed[u] : p[2][1] \in Blanks
        /\ \A u \in Tills : judged[u] \subseteq Blanks
        /\ \A p \in requests : p[2][1] \in Blanks
    BY DEF TypeOK, Sales, Pushes
  <2>5. UNCHANGED <<booking, pushed, judged, requests>>
    BY <1>2 DEF SellClaims, bookRows, server, syncing
  <2>. QED
    BY <2>1, <2>2, <2>3, <2>4, <2>5
<1>3. ASSUME NEW t \in Tills, NEW batch \in SUBSET queue[t], PushSends(t, batch)
      PROVE  SalesHaveGuests' /\ SaleHasGuest'
  BY <1>3 DEF PushSends, Unauthorized, bookRows, server, store, TypeOK
<1>4. ASSUME NEW t \in Tills, PushAnswered(t) \/ SyncFails(t)
      PROVE  SalesHaveGuests' /\ SaleHasGuest'
  BY <1>4 DEF PushAnswered, SyncFails, bookRows, server, store, TypeOK
<1>5. ASSUME NEW p \in requests, JudgeSale(p) PROVE SalesHaveGuests' /\ SaleHasGuest'
  <2>. DEFINE sold == p[2][1]
  <2>1. sold \in Blanks /\ guests[sold] > 0
    BY DEF TypeOK, Pushes, Sales
  <2>2. \A b \in Blanks : booking'[b] = booking[b] \/ b = sold
    BY <1>5 DEF JudgeSale
  <2>3. \A t \in Tills : \A b \in judged'[t] : b \in judged[t] \/ b = sold
    BY <1>5 DEF JudgeSale, Hear
  <2>4. requests' \subseteq requests /\ UNCHANGED <<queue, pushed, guests>>
    BY <1>5 DEF JudgeSale, store
  <2>. HIDE DEF sold
  <2>. QED
    BY <2>1, <2>2, <2>3, <2>4
<1>8. ASSUME NEW p \in requests, JudgeFails(p) PROVE SalesHaveGuests' /\ SaleHasGuest'
  BY <1>8 DEF JudgeFails, bookRows, store, syncing
<1>6. ASSUME NEW r \in pulls, AllocateInserts(r)
      PROVE  SalesHaveGuests' /\ SaleHasGuest'
  BY <1>6 DEF AllocateInserts, InsertReserved, store, syncing
<1>7. CASE UNCHANGED <<queue, pushed, judged, requests, guests, booking>>
  BY <1>7
<1>. QED
  BY <1>1, <1>2, <1>3, <1>4, <1>5, <1>6, <1>7, <1>8, SalesFrame

\* What is on its way to a till, and what is sold, exists, with its ticket.
LEMMA TicketsStep ==
  TypeOK /\ CountedHasDay /\ SalesHaveGuests /\ BlanksAreIssued /\ StaleIsPast /\ TicketStands /\ [Next]_vars
    => BlanksAreIssued' /\ TicketStands'
<1>. SUFFICES ASSUME TypeOK, CountedHasDay, SalesHaveGuests, BlanksAreIssued, StaleIsPast,
                      TicketStands, [Next]_vars
              PROVE  BlanksAreIssued' /\ TicketStands'
  OBVIOUS
<1>. USE DEF BlanksAreIssued, TicketStands
<1>1. ASSUME NEW b \in Blanks, CancelSale(b)
      PROVE  BlanksAreIssued' /\ TicketStands'
  BY <1>1 DEF CancelSale, Cancellable, Deactivate, server, store, syncing, TypeOK, Absent
<1>2. ASSUME NEW b \in Blanks, ExpiresBlank(b)
      PROVE  BlanksAreIssued' /\ TicketStands'
  BY <1>2, BookAssumption DEF ExpiresBlank, StaleIsPast, Deactivate, store, syncing, TypeOK, Absent, Days,
     NoDay
<1>3. ASSUME NEW b \in Blanks, Board(b)
      PROVE  BlanksAreIssued' /\ TicketStands'
  BY <1>3 DEF Board, server, store, syncing, Absent
<1>4. ASSUME NEW t \in Tills, NEW b \in Blanks, NEW rate \in SaleRates, SellClaims(t, b, rate)
      PROVE  BlanksAreIssued' /\ TicketStands'
  BY <1>4 DEF SellClaims, ClaimBlank, bookRows, server, syncing
<1>5. ASSUME NEW t \in Tills, PullAsks(t)
      PROVE  BlanksAreIssued' /\ TicketStands'
  BY <1>5 DEF PullAsks, Unauthorized, bookRows, store, server, TypeOK
<1>6. ASSUME NEW t \in Tills, AppliesBook(t)
      PROVE  BlanksAreIssued' /\ TicketStands'
  BY <1>6 DEF AppliesBook, NewBook, bookRows, server
<1>7. ASSUME NEW t \in Tills, SetsMeta(t) \/ SyncFails(t)
      PROVE  BlanksAreIssued' /\ TicketStands'
  BY <1>7 DEF SetsMeta, SyncFails, NoReply, bookRows, server, store, TypeOK
<1>8. ASSUME NEW p \in requests, JudgeSale(p)
      PROVE  BlanksAreIssued' /\ TicketStands'
  BY <1>8 DEF JudgeSale, StatusAfter, Activates, store, Absent
<1>9. ASSUME NEW r \in pulls, AllocateInserts(r)
      PROVE  BlanksAreIssued' /\ TicketStands'
  <2>1. PICK new \in SUBSET Fresh : InsertReserved(r.dev, Earliest(r.todo), new)
    BY <1>9 DEF AllocateInserts
  <2>2. UNCHANGED <<guests, held, reply, today>>
    BY <1>9 DEF AllocateInserts, store, syncing
  <2>3. r.dev \in Devices
    BY DEF TypeOK, Pulls
  <2>4. \A b \in Blanks : b \in new =>
          booking[b] = Absent /\ booking'[b] = "RESERVED" /\ ticket'[b] = "ACTIVE" /\ owner'[b] \in Devices
    BY <2>1, <2>3 DEF InsertReserved, Issue, Fresh
  <2>5. \A b \in Blanks : b \notin new =>
          /\ booking'[b] = booking[b] /\ ticket'[b] = ticket[b]
          /\ owner'[b] = owner[b] /\ visitDay'[b] = visitDay[b]
    BY <2>1 DEF InsertReserved
  <2>6. \A t \in Tills : held[t] \union reply[t].blanks \subseteq Blanks
    BY DEF TypeOK, Replies
  <2>. QED
    BY <2>2, <2>4, <2>5, <2>6 DEF Absent
<1>10. ASSUME NEW r \in pulls, PullAnswered(r)
      PROVE  BlanksAreIssued' /\ TicketStands'
  BY <1>10 DEF PullAnswered, LoadBook, bookRows, store, TypeOK
<1>11. CASE NewDay
  BY <1>11, BookAssumption DEF NewDay, bookRows, store, syncing, TypeOK, Days, NoDay
<1>12. CASE UNCHANGED <<guests, booking, held, reply, ticket, owner, visitDay, today>>
  BY <1>12
<1>. QED
  BY <1>1, <1>2, <1>3, <1>4, <1>5, <1>6, <1>7, <1>8, <1>9, <1>10, <1>11, <1>12, TicketFrame

\* What the worker has selected stays yesterday's: days only pass, and a blank
\* keeps its day.
LEMMA StaleStep ==
  TypeOK /\ StaleIsPast /\ [Next]_vars => StaleIsPast'
<1>. SUFFICES ASSUME TypeOK, StaleIsPast, [Next]_vars PROVE StaleIsPast'
  OBVIOUS
<1>. USE DEF StaleIsPast
<1>1. ASSUME NEW b \in Blanks, CancelSale(b) \/ ExpiresBlank(b)
      PROVE  StaleIsPast'
  BY <1>1 DEF CancelSale, ExpiresBlank, server, TypeOK, Absent
<1>2. ASSUME NEW p \in requests, JudgeSale(p)
      PROVE  StaleIsPast'
  BY <1>2 DEF JudgeSale, StatusAfter, Absent
<1>3. ASSUME NEW r \in pulls, AllocateInserts(r)
      PROVE  StaleIsPast'
  BY <1>3 DEF AllocateInserts, InsertReserved, Fresh, TypeOK
<1>4. CASE NewDay
  BY <1>4, BookAssumption DEF NewDay, bookRows, TypeOK, Days, NoDay
<1>5. CASE ExpirySelects
  BY <1>5 DEF ExpirySelects, StaleBlanks, bookRows, Absent
<1>6. CASE WorkerDies
  BY <1>6 DEF WorkerDies
<1>7. CASE UNCHANGED <<stale, booking, visitDay, today>>
  BY <1>7
<1>. QED
  BY <1>1, <1>2, <1>3, <1>4, <1>5, <1>6, <1>7, StaleFrame

\* A sync under way is one of an enrolled till, under the key it still has.
LEMMA SyncStep ==
  TypeOK /\ CountedHasDay /\ SyncIsKeyed /\ [Next]_vars => CountedHasDay' /\ SyncIsKeyed'
<1>. SUFFICES ASSUME TypeOK, CountedHasDay, SyncIsKeyed, [Next]_vars PROVE CountedHasDay' /\ SyncIsKeyed'
  OBVIOUS
<1>. USE DEF SyncIsKeyed, CountedHasDay, Enrolled
<1>1. ASSUME NEW t \in Tills, NEW d \in Devices, EnterKey(t, d)
      PROVE  CountedHasDay' /\ SyncIsKeyed'
  BY <1>1, BookAssumption DEF EnterKey, server, syncing
<1>2. ASSUME NEW t \in Tills, NEW batch \in SUBSET queue[t], PushSends(t, batch)
      PROVE  CountedHasDay' /\ SyncIsKeyed'
  <2>1. CASE Unauthorized(t)
    BY <1>2, <2>1, BookAssumption DEF PushSends, SyncDue, Unauthorized, server
  <2>2. CASE ~Unauthorized(t)
    <3>1. \A p \in {key[t]} \X batch : p[1] = key[t]
      OBVIOUS
    <3>2. /\ sync' = [sync EXCEPT ![t] = "PUSHING"] /\ pushed' = [pushed EXCEPT ![t] = {key[t]} \X batch]
          /\ UNCHANGED <<pulls, key, judged>> /\ sync[t] = "IDLE" /\ key[t] # NoKey
      BY <1>2, <2>2 DEF PushSends, SyncDue
    <3>. QED
      BY <3>1, <3>2 DEF TypeOK
  <2>. QED
    BY <2>1, <2>2
<1>3. ASSUME NEW t \in Tills, PushAnswered(t)
      PROVE  CountedHasDay' /\ SyncIsKeyed'
  BY <1>3 DEF PushAnswered, server, TypeOK
<1>4. ASSUME NEW t \in Tills, PullAsks(t)
      PROVE  CountedHasDay' /\ SyncIsKeyed'
  <2>1. sync[t] \in {"IDLE", "PULL"} /\ key[t] # NoKey
    BY <1>4 DEF PullAsks, SyncDue
  <2>2. CASE Unauthorized(t)
    BY <1>4, <2>1, <2>2, BookAssumption DEF Unauthorized, server, TypeOK
  <2>3. CASE ~Unauthorized(t) /\ ~selling
    BY <1>4, <2>1, <2>3 DEF PullAsks, server, TypeOK, Pulls
  <2>4. CASE ~Unauthorized(t) /\ selling
    <3>0. PICK no \in 1 .. PullLimit :
            pulls' = pulls \union
              {[no |-> no, till |-> t, dev |-> key[t], day |-> today, todo |-> BookDays,
                missing |-> Uncounted, waited |-> TRUE]}
      BY <1>4, <2>4 DEF PullAsks
    <3>. DEFINE new == [no |-> no, till |-> t, dev |-> key[t], day |-> today, todo |-> BookDays,
                        missing |-> Uncounted, waited |-> TRUE]
    <3>1. pulls' = pulls \union {new} /\ sync' = [sync EXCEPT ![t] = "ASKED"] /\ UNCHANGED <<key, pushed, judged>>
      BY <1>4, <2>4, <3>0 DEF PullAsks
    <3>2. new.till = t /\ new.dev = key[t] /\ new.missing = Uncounted
      OBVIOUS
    <3>. HIDE DEF new
    <3>. QED
      BY <2>1, <3>1, <3>2 DEF TypeOK
  <2>. QED
    BY <2>2, <2>3, <2>4
<1>5. ASSUME NEW t \in Tills, AppliesBook(t) \/ SetsMeta(t)
      PROVE  CountedHasDay' /\ SyncIsKeyed'
  BY <1>5 DEF AppliesBook, SetsMeta, server, TypeOK, Pulls
<1>6. ASSUME NEW t \in Tills, SyncFails(t)
      PROVE  CountedHasDay' /\ SyncIsKeyed'
  <2>1. \A r \in pulls' : \E old \in pulls :
          /\ r.till = old.till /\ r.dev = old.dev /\ r.todo = old.todo /\ r.missing = old.missing
          /\ r.waited => old.waited /\ old.till # t /\ r = old
    <3>. SUFFICES ASSUME NEW r \in pulls'
                  PROVE  \E old \in pulls :
                           /\ r.till = old.till /\ r.dev = old.dev /\ r.todo = old.todo
                           /\ r.missing = old.missing
                           /\ r.waited => old.waited /\ old.till # t /\ r = old
      OBVIOUS
    <3>1. PICK old \in pulls : r = [old EXCEPT !.waited = @ /\ old.till # t]
      BY <1>6 DEF SyncFails, Abandoned
    <3>2. old \in Pulls
      BY DEF TypeOK
    <3>3. \A w : w = old.waited => [old EXCEPT !.waited = w] = old
      BY <3>2 DEF Pulls
    <3>4. old.waited /\ old.till # t => (old.waited /\ old.till # t) = old.waited
      BY <3>2 DEF Pulls
    <3>. QED
      BY <3>1, <3>2, <3>3, <3>4 DEF Pulls
  <2>2. \A r \in pulls : r.till \in Tills
    BY DEF TypeOK, Pulls
  <2>3. /\ sync' = [sync EXCEPT ![t] = "IDLE"] /\ pushed' = [pushed EXCEPT ![t] = {}]
        /\ judged' = [judged EXCEPT ![t] = {}] /\ key' = key
    BY <1>6 DEF SyncFails
  <2>. QED
    BY <2>1, <2>2, <2>3 DEF TypeOK
<1>7. ASSUME NEW p \in requests, JudgeSale(p)
      PROVE  CountedHasDay' /\ SyncIsKeyed'
  BY <1>7 DEF JudgeSale, Hear
<1>8. ASSUME NEW r \in pulls, AllocateCounts(r) PROVE CountedHasDay' /\ SyncIsKeyed'
  <2>. DEFINE new == [r EXCEPT !.missing = Missing(r.dev, Earliest(r.todo))]
  <2>1. new.till = r.till /\ new.dev = r.dev /\ new.todo = r.todo /\ new.waited = r.waited
    BY DEF TypeOK
  <2>2. r.todo # {} /\ pulls' = (pulls \ {r}) \union {new} /\ UNCHANGED <<sync, key, pushed, judged>>
    BY <1>8 DEF AllocateCounts, syncing
  <2>. HIDE DEF new
  <2>. QED
    BY <2>1, <2>2
<1>11. ASSUME NEW r \in pulls, AllocateInserts(r) PROVE CountedHasDay' /\ SyncIsKeyed'
  <2>. DEFINE new == [r EXCEPT !.missing = Uncounted, !.todo = @ \ {Earliest(@)}]
  <2>1. new.till = r.till /\ new.dev = r.dev /\ new.missing = Uncounted /\ new.waited = r.waited
    BY DEF TypeOK
  <2>2. pulls' = (pulls \ {r}) \union {new} /\ UNCHANGED <<sync, key, pushed, judged>>
    BY <1>11 DEF AllocateInserts, syncing
  <2>. HIDE DEF new
  <2>. QED
    BY <2>1, <2>2
<1>9. ASSUME NEW r \in pulls, PullAnswered(r) PROVE CountedHasDay' /\ SyncIsKeyed'
  <2>1. pulls' = pulls \ {r} /\ UNCHANGED <<key, pushed, judged>>
    BY <1>9 DEF PullAnswered
  <2>2. CASE r.waited
    BY <1>9, <2>1, <2>2 DEF PullAnswered, TypeOK, Pulls
  <2>3. CASE ~r.waited
    BY <1>9, <2>1, <2>3 DEF PullAnswered
  <2>. QED
    BY <2>2, <2>3
<1>12. ASSUME NEW r \in pulls, PullDies(r) PROVE CountedHasDay' /\ SyncIsKeyed'
  BY <1>12 DEF PullDies, syncing
<1>10. CASE UNCHANGED <<sync, key, pushed, judged, pulls>>
  BY <1>10
<1>. QED
  BY <1>1, <1>2, <1>3, <1>4, <1>5, <1>6, <1>7, <1>8, <1>9, <1>10, <1>11, <1>12, SyncFrame

\* The first state has nothing issued, sold or under way.
LEMMA BookInvInit == Init => BookInv
<1>. SUFFICES ASSUME Init PROVE BookInv
  OBVIOUS
<1>. USE BookAssumption DEF Init
<1>1. TypeOK
  BY DEF TypeOK, Days, NoDay, Replies, NoReply
<1>2. CountedHasDay /\ SaleHasGuest /\ SalesHaveGuests /\ StaleIsPast
  BY DEF CountedHasDay, SaleHasGuest, SalesHaveGuests, StaleIsPast, Absent
<1>3. BlanksAreIssued /\ TicketStands
  BY DEF BlanksAreIssued, TicketStands, NoReply, Absent
<1>4. SyncIsKeyed
  BY DEF SyncIsKeyed
<1>. QED
  BY <1>1, <1>2, <1>3, <1>4 DEF BookInv

\* Every step keeps BookInv.
LEMMA BookInvStep == BookInv /\ [Next]_vars => BookInv'
BY TypeStep, SalesStep, TicketsStep, StaleStep, SyncStep DEF BookInv

\* BookInv always holds, whatever the constants are.
THEOREM BookInvariant == Spec => []BookInv
BY BookInvInit, BookInvStep, PTL DEF Spec

\* The variables of the book keep their types for any number of tills, devices
\* and blanks, any calendar and any limits.
THEOREM TypeCorrect == Spec => []TypeOK
<1>1. BookInv => TypeOK
  BY DEF BookInv
<1>. QED
  BY <1>1, BookInvariant, PTL

\* The server records no sale nobody made: whatever is pushed twice, late, after
\* a failed sync or under a key that has been rotated, comes from a queue, and a
\* queue holds only what was handed to a guest.
THEOREM SalesAreReal == Spec => []SaleHasGuest
<1>1. BookInv => SaleHasGuest
  BY DEF BookInv
<1>. QED
  BY <1>1, BookInvariant, PTL

\* The guest's promise: a ticket of today or a later day opens the gate until an
\* administrator cancels the sale, whatever the switch, the devices, the keys
\* and the worker do, and however old the list is the worker goes through.
THEOREM GuestsGetIn == Spec => []GuestGetsIn
<1>1. BookInv => GuestGetsIn
  BY DEF BookInv, BlanksAreIssued, TicketStands, GuestGetsIn
<1>. QED
  BY <1>1, BookInvariant, PTL

-----------------------------------------------------------------------------
(* A sale is of the day its till's clock shows.                            *)

\* No sale under way is for a day further ahead than a clock can be.
ResolvedIsNear == \A t \in Tills : \A d \in resolved[t] : d <= today + ClockSkew

\* A sale gets its day from counterState, and gives it up when it is made.
LEMMA ResolvedFrame ==
  ASSUME [Next]_vars
  PROVE  \/ \E t \in Tills, now \in Days : SellResolves(t, now)
         \/ \E t \in Tills, b \in Blanks, rate \in SaleRates : SellClaims(t, b, rate)
         \/ UNCHANGED <<resolved, guests>>
BY DEF vars, bookRows, office, server, store, syncing, Next, Office, Till, Sync,
  RegisterDevice, RotateKey, SetDeviceActive, EnterKey, SetOfflineSelling, SetCategoryActive, CancelSale,
  PushSends, PushAnswered, PullAsks, AppliesBook, SetsMeta, SyncFails, JudgeSale, JudgeFails,
  AllocateCounts, AllocateInserts, PullAnswered, PullDies, NewDay, ExpirySelects, WorkerDies,
  ExpiresBlank, Board, Unauthorized, InsertReserved

\* The server's day never goes back.
LEMMA TodayGrows ==
  ASSUME TypeOK, [Next]_vars
  PROVE  today \in Int /\ today' \in Int /\ today' >= today
<1>1. NewDay \/ UNCHANGED today
  BY DEF vars, bookRows, office, server, store, syncing, Next, Office, Till, Sync,
    RegisterDevice, RotateKey, SetDeviceActive, EnterKey, SetOfflineSelling, SetCategoryActive, CancelSale,
    SellResolves, SellClaims, PushSends, PushAnswered, PullAsks, AppliesBook, SetsMeta, SyncFails,
    JudgeSale, JudgeFails, AllocateCounts, AllocateInserts, PullAnswered, PullDies, ExpirySelects,
    WorkerDies, ExpiresBlank, Board, Unauthorized
<1>. QED
  BY <1>1, BookAssumption DEF NewDay, TypeOK, Days

\* What resolveParkDay lets through: the day on the clock, which is not before the
\* day of the last sync.
LEMMA ResolvesOwnDay ==
  ASSUME TypeOK, NEW t \in Tills, NEW now \in Days, SellResolves(t, now)
  PROVE  /\ resolved' = [resolved EXCEPT ![t] = @ \union {now}]
         /\ metaDay[t] <= now /\ today - ClockSkew <= now /\ now <= today + ClockSkew
<1>1. ParkDay(t, now) = now /\ metaDay[t] <= now
  <2>1. metaDay[t] \in Int /\ now \in Int
    BY BookAssumption DEF TypeOK, Days, NoDay
  <2>2. now # NoDay
    BY DEF Days, NoDay
  <2>. QED
    BY <2>1, <2>2 DEF SellResolves, ParkDay
<1>. QED
  BY <1>1 DEF SellResolves

\* A sale under way at midnight, or one whose till syncs meanwhile, keeps the day
\* it has, which time only brings nearer.
LEMMA NearStep == TypeOK /\ ResolvedIsNear /\ [Next]_vars => ResolvedIsNear'
<1>. SUFFICES ASSUME TypeOK, ResolvedIsNear, [Next]_vars, NEW u \in Tills, NEW d \in resolved'[u]
              PROVE  d <= today' + ClockSkew
  BY DEF ResolvedIsNear
<1>1. d \in Int /\ d <= today + ClockSkew
  <2>1. \A e \in resolved[u] : e \in Int /\ e <= today + ClockSkew
    BY BookAssumption DEF ResolvedIsNear, TypeOK, Days
  <2>2. ASSUME NEW t \in Tills, NEW now \in Days, SellResolves(t, now)
        PROVE  d \in Int /\ d <= today + ClockSkew
    <3>1. d \in resolved[u] \/ d = now
      BY <2>2, ResolvesOwnDay DEF TypeOK
    <3>. QED
      BY <2>1, <2>2, <3>1, ResolvesOwnDay, BookAssumption DEF Days
  <2>3. ASSUME NEW t \in Tills, NEW b \in Blanks, NEW rate \in SaleRates, SellClaims(t, b, rate)
        PROVE  d \in Int /\ d <= today + ClockSkew
    BY <2>1, <2>3 DEF SellClaims, TypeOK
  <2>4. CASE UNCHANGED <<resolved, guests>>
    BY <2>1, <2>4
  <2>. QED
    BY <2>2, <2>3, <2>4, ResolvedFrame
<1>2. today' >= today /\ today \in Int /\ today' \in Int /\ ClockSkew \in Int
  BY TodayGrows, BookAssumption
<1>3. \A x, y, k, z \in Int : y >= x /\ z <= x + k => z <= y + k
  OBVIOUS
<1>. QED
  BY <1>1, <1>2, <1>3, Zenon

\* However wrong the clocks: no sale starts for a day before the last sync's or
\* further back than the clock is off, and none ends in a ticket further ahead.
\* With ClockSkew 0 a sale starts for today, or not at all.
THEOREM SalesFollowClocks == Spec => SaleFollowsClock
<1>1. Init => ResolvedIsNear
  BY DEF Init, ResolvedIsNear
<1>2. TypeOK /\ ResolvedIsNear /\ [Next]_vars =>
        [/\ \A t \in Tills : \A d \in resolved'[t] \ resolved[t] :
               metaDay[t] <= d /\ today - ClockSkew <= d
         /\ \A b \in Blanks : guests'[b] > guests[b] => visitDay[b] <= today + ClockSkew]_vars
  <2>. SUFFICES ASSUME TypeOK, ResolvedIsNear, [Next]_vars
                PROVE  /\ \A t \in Tills : \A d \in resolved'[t] \ resolved[t] :
                            metaDay[t] <= d /\ today - ClockSkew <= d
                       /\ \A b \in Blanks : guests'[b] > guests[b] => visitDay[b] <= today + ClockSkew
    OBVIOUS
  <2>1. ASSUME NEW t \in Tills, NEW now \in Days, SellResolves(t, now)
        PROVE  /\ \A u \in Tills : \A d \in resolved'[u] \ resolved[u] :
                    metaDay[u] <= d /\ today - ClockSkew <= d
               /\ guests' = guests
    <3>1. resolved' = [resolved EXCEPT ![t] = @ \union {now}] /\ metaDay[t] <= now /\ today - ClockSkew <= now
      BY <2>1, ResolvesOwnDay
    <3>. QED
      BY <2>1, <3>1 DEF SellResolves, TypeOK
  <2>2. ASSUME NEW t \in Tills, NEW b \in Blanks, NEW rate \in SaleRates, SellClaims(t, b, rate)
        PROVE  /\ \A u \in Tills : resolved'[u] \subseteq resolved[u]
               /\ \A c \in Blanks : guests'[c] > guests[c] => visitDay[c] <= today + ClockSkew
    <3>1. \A u \in Tills : resolved'[u] \subseteq resolved[u]
      BY <2>2 DEF SellClaims, TypeOK
    <3>2. visitDay[b] <= today + ClockSkew
      BY <2>2 DEF SellClaims, ResolvedIsNear
    <3>3. \A c \in Blanks : c # b => guests'[c] = guests[c]
      BY <2>2 DEF SellClaims, TypeOK
    <3>4. \A c \in Blanks : ~ (guests[c] > guests[c])
      BY DEF TypeOK
    <3>. QED
      BY <3>1, <3>2, <3>3, <3>4
  <2>3. \A c \in Blanks : ~ (guests[c] > guests[c])
    BY DEF TypeOK
  <2>. QED
    BY <2>1, <2>2, <2>3, ResolvedFrame
<1>3. BookInv /\ ResolvedIsNear /\ [Next]_vars => ResolvedIsNear'
  BY NearStep DEF BookInv
<1>. QED
  BY <1>1, <1>2, <1>3, BookInvariant, TypeCorrect, PTL DEF Spec, SaleFollowsClock

-----------------------------------------------------------------------------
(* The book of a device is bounded.                                        *)

\* Who writes booking rows: sales and cancellations, and the insert.
LEMMA RowsFrame ==
  ASSUME [Next]_vars
  PROVE  \/ \E b \in Blanks : CancelSale(b) \/ ExpiresBlank(b)
         \/ \E p \in requests : JudgeSale(p)
         \/ \E r \in pulls : AllocateInserts(r)
         \/ UNCHANGED <<booking, owner, visitDay>>
<1>1. ASSUME NEW t \in Tills, Till(t) PROVE UNCHANGED <<booking, owner, visitDay>>
  <2>1. ASSUME Sync(t) PROVE UNCHANGED <<booking, owner, visitDay>>
    BY <2>1 DEF Sync, PushSends, PushAnswered, PullAsks, AppliesBook, SetsMeta, SyncFails, Unauthorized,
       bookRows
  <2>. QED
    BY <1>1, <2>1 DEF Till, SellResolves, SellClaims, bookRows
<1>. QED
  BY <1>1 DEF Next, vars, bookRows, Office, RegisterDevice, RotateKey, SetDeviceActive, EnterKey,
     SetOfflineSelling,
    SetCategoryActive, JudgeFails, AllocateCounts, PullAnswered, PullDies, NewDay, ExpirySelects,
    WorkerDies, Board

\* Who touches the book requests the server works on.
LEMMA PullsFrame ==
  ASSUME [Next]_vars
  PROVE  \/ \E t \in Tills : PullAsks(t) \/ SyncFails(t)
         \/ \E r \in pulls : AllocateCounts(r) \/ AllocateInserts(r) \/ PullAnswered(r) \/ PullDies(r)
         \/ UNCHANGED <<pulls>>
BY DEF vars, bookRows, office, server, store, syncing, Next, Office, Till, Sync,
  RegisterDevice, RotateKey, SetDeviceActive, EnterKey, SetOfflineSelling, SetCategoryActive, CancelSale,
  SellResolves, SellClaims, PushSends, PushAnswered, AppliesBook, SetsMeta, JudgeSale, JudgeFails, NewDay,
  ExpirySelects, WorkerDies, ExpiresBlank, Board, Unauthorized, ClaimBlank

\* Only allocateBook adds to what a device has unsold: no sale, verdict,
\* cancellation or rollover does.
LEMMA UnsoldShrinks ==
  ASSUME TypeOK, [Next]_vars, ~ \E r \in pulls : AllocateInserts(r), NEW d, NEW day
  PROVE  Cardinality(Unsold(d, day)') <= Cardinality(Unsold(d, day)) /\ Cardinality(Unsold(d, day)') \in Nat
<1>1. ASSUME NEW b \in Blanks, CancelSale(b) \/ ExpiresBlank(b)
      PROVE  Unsold(d, day)' \subseteq Unsold(d, day)
  BY <1>1 DEF CancelSale, ExpiresBlank, Unsold, TypeOK
<1>2. ASSUME NEW p \in requests, JudgeSale(p) PROVE Unsold(d, day)' \subseteq Unsold(d, day)
  BY <1>2 DEF JudgeSale, StatusAfter, Unsold, TypeOK
<1>3. ASSUME UNCHANGED <<booking, owner, visitDay>> PROVE Unsold(d, day)' \subseteq Unsold(d, day)
  <2>1. booking' = booking /\ owner' = owner /\ visitDay' = visitDay
    BY <1>3
  <2>. QED
    BY <2>1 DEF Unsold
<1>4. Unsold(d, day)' \subseteq Unsold(d, day)
  BY <1>1, <1>2, <1>3, RowsFrame
<1>5. Unsold(d, day)' \in SUBSET Unsold(d, day)
  BY <1>4
<1>. QED
  BY <1>5, UnsoldIsFinite, FS_Subset, FS_CardinalityType

\* An insert adds what is missing to the day it works on, and nothing to any
\* other day or device.
LEMMA InsertAddsMissing ==
  ASSUME TypeOK, CountedHasDay, NEW r \in pulls, AllocateInserts(r), NEW d, NEW day
  PROVE  /\ Cardinality(Unsold(d, day)') \in Nat
         /\ \/ Cardinality(Unsold(d, day)') <= Cardinality(Unsold(d, day))
            \/ /\ d = r.dev /\ day = Earliest(r.todo)
               /\ Cardinality(Unsold(d, day)') <= Cardinality(Unsold(d, day)) + r.missing
<1>1. PICK new \in SUBSET Fresh : /\ Cardinality(new) = r.missing \/ Cardinality(new) < r.missing
                                  /\ InsertReserved(r.dev, Earliest(r.todo), new)
  BY DEF AllocateInserts
<1>2. r.missing \in Nat
  BY BookAssumption DEF AllocateInserts, TypeOK, Pulls
<1>3. new \in SUBSET Blanks /\ IsFiniteSet(new) /\ Cardinality(new) \in Nat
  BY BookAssumption, FS_Subset, FS_CardinalityType DEF Fresh
<1>4. IsFiniteSet(Unsold(d, day)) /\ Cardinality(Unsold(d, day)) \in Nat
  BY UnsoldIsFinite
<1>5. Unsold(d, day)' \in SUBSET (Unsold(d, day) \union new)
  BY <1>1 DEF Unsold, InsertReserved
<1>6. /\ IsFiniteSet(Unsold(d, day) \union new)
      /\ Cardinality(Unsold(d, day) \union new) <= Cardinality(Unsold(d, day)) + Cardinality(new)
  <2>1. IsFiniteSet(Unsold(d, day) \cap new) /\ Cardinality(Unsold(d, day) \cap new) \in Nat
    BY <1>3, FS_Intersection, FS_CardinalityType
  <2>2. /\ IsFiniteSet(Unsold(d, day) \union new)
        /\ Cardinality(Unsold(d, day) \union new) =
             Cardinality(Unsold(d, day)) + Cardinality(new) - Cardinality(Unsold(d, day) \cap new)
    BY <1>3, <1>4, FS_Union, Zenon
  <2>. QED
    BY <1>3, <1>4, <2>1, <2>2
<1>7. IsFiniteSet(Unsold(d, day)') /\ Cardinality(Unsold(d, day)') \in Nat
      /\ Cardinality(Unsold(d, day)') <= Cardinality(Unsold(d, day) \union new)
  BY <1>5, <1>6, FS_Subset, FS_CardinalityType
<1>8. Cardinality(Unsold(d, day) \union new) \in Nat
  BY <1>6, FS_CardinalityType
<1>9. CASE d = r.dev /\ day = Earliest(r.todo)
  BY <1>1, <1>2, <1>3, <1>4, <1>6, <1>7, <1>8, <1>9
<1>10. CASE ~ (d = r.dev /\ day = Earliest(r.todo))
  <2>1. Unsold(d, day)' \in SUBSET Unsold(d, day)
    BY <1>1, <1>10 DEF Unsold, InsertReserved
  <2>. QED
    BY <1>4, <1>7, <2>1, FS_Subset
<1>. QED
  BY <1>9, <1>10

\* The places requests have promised to fill are finitely many.
LEMMA OwedIsFinite ==
  ASSUME NEW d, NEW day
  PROVE  /\ IsFiniteSet(Owed(d, day)) /\ Cardinality(Owed(d, day)) \in Nat
         /\ Cardinality(Owed(d, day)') \in Nat
<1>1. IsFiniteSet(1 .. PullLimit) /\ IsFiniteSet(1 .. Target)
  BY FS_Interval, BookAssumption
<1>2. IsFiniteSet((1 .. PullLimit) \X (1 .. Target))
  BY <1>1, FS_Product
<1>3. /\ Owed(d, day) \in SUBSET ((1 .. PullLimit) \X (1 .. Target))
      /\ Owed(d, day)' \in SUBSET ((1 .. PullLimit) \X (1 .. Target))
  BY DEF Owed
<1>. QED
  BY <1>2, <1>3, FS_Subset, FS_CardinalityType

\* One request that misses n blanks owes n.
LEMMA RowSize ==
  ASSUME NEW no, NEW n \in Nat
  PROVE  IsFiniteSet({no} \X (1 .. n)) /\ Cardinality({no} \X (1 .. n)) = n
<1>1. IsFiniteSet(1 .. n) /\ Cardinality(1 .. n) = n
  <2>1. 1 \in Int /\ n \in Int
    OBVIOUS
  <2>2. IsFiniteSet(1 .. n) /\ Cardinality(1 .. n) = IF 1 > n THEN 0 ELSE n - 1 + 1
    BY <2>1, FS_Interval, Zenon
  <2>. QED
    BY <2>2
<1>2. IsFiniteSet({no}) /\ Cardinality({no}) = 1
  BY FS_Singleton
<1>3. /\ IsFiniteSet({no} \X (1 .. n))
      /\ Cardinality({no} \X (1 .. n)) = Cardinality({no}) * Cardinality(1 .. n)
  BY <1>1, <1>2, FS_Product, Zenon
<1>4. Cardinality({no}) * Cardinality(1 .. n) = n
  BY <1>1, <1>2
<1>. QED
  BY <1>3, <1>4, Zenon

\* All requests but one owe at most the target each.
LEMMA OthersOwe ==
  ASSUME NEW no \in 1 .. PullLimit, NEW n \in 0 .. Target,
         NEW S \in SUBSET (((1 .. PullLimit \ {no}) \X (1 .. Target)) \union ({no} \X (1 .. n)))
  PROVE  Cardinality(S) <= PullLimit * Target - Target + n
<1>. DEFINE A == (1 .. PullLimit \ {no}) \X (1 .. Target)
            B == {no} \X (1 .. n)
<1>1. IsFiniteSet(1 .. PullLimit \ {no}) /\ Cardinality(1 .. PullLimit \ {no}) = PullLimit - 1
  <2>1. IsFiniteSet(1 .. PullLimit) /\ Cardinality(1 .. PullLimit) = PullLimit
    BY FS_Interval, BookAssumption
  <2>. QED
    BY <2>1, FS_RemoveElement
<1>2. IsFiniteSet(1 .. Target) /\ Cardinality(1 .. Target) = Target
  BY FS_Interval, BookAssumption
<1>3. IsFiniteSet(A) /\ Cardinality(A) = (PullLimit - 1) * Target
  BY <1>1, <1>2, FS_Product
<1>4. IsFiniteSet(B) /\ Cardinality(B) = n
  <2>1. n \in Nat
    BY BookAssumption
  <2>. QED
    BY <2>1, RowSize
<1>. HIDE DEF A, B
<1>5. Cardinality(A \cap B) \in Nat /\ IsFiniteSet(A \union B)
      /\ Cardinality(A \union B) = Cardinality(A) + Cardinality(B) - Cardinality(A \cap B)
  BY <1>3, <1>4, FS_Union, FS_Intersection, FS_CardinalityType
<1>6. S \in SUBSET (A \union B)
  BY DEF A, B
<1>7. Cardinality(S) <= Cardinality(A \union B) /\ Cardinality(S) \in Nat
  BY <1>5, <1>6, FS_Subset, FS_CardinalityType
<1>8. PullLimit \in Nat /\ Target \in Nat /\ n \in Nat
  BY BookAssumption
<1>9. (PullLimit - 1) * Target = PullLimit * Target - Target /\ PullLimit * Target \in Nat
  BY <1>8
<1>. QED
  BY <1>3, <1>4, <1>5, <1>7, <1>8, <1>9

\* Without a count or an insert, requests owe what they owed, or less.
LEMMA OwedShrinks ==
  ASSUME TypeOK, NumbersDiffer, [Next]_vars,
         ~ \E r \in pulls : AllocateInserts(r) \/ AllocateCounts(r)
  PROVE  NumbersDiffer' /\ \A d, day : Owed(d, day)' \subseteq Owed(d, day)
<1>1. ASSUME NEW t \in Tills, PullAsks(t)
      PROVE  NumbersDiffer' /\ \A d, day : Owed(d, day)' \subseteq Owed(d, day)
  <2>1. CASE pulls' = pulls
    BY <2>1 DEF NumbersDiffer, Owed
  <2>2. CASE pulls' # pulls
    <3>0. PICK no \in 1 .. PullLimit \ {r.no : r \in pulls} :
            pulls' = pulls \union
              {[no |-> no, till |-> t, dev |-> key[t], day |-> today, todo |-> BookDays,
                missing |-> Uncounted, waited |-> TRUE]}
      BY <1>1, <2>2 DEF PullAsks, Unauthorized, server
    <3>. DEFINE new == [no |-> no, till |-> t, dev |-> key[t], day |-> today, todo |-> BookDays,
                        missing |-> Uncounted, waited |-> TRUE]
    <3>1. new.no = no /\ new.missing = Uncounted
      OBVIOUS
    <3>2. pulls' = pulls \union {new} /\ \A r \in pulls : r.no # no
      BY <3>0
    <3>. HIDE DEF new
    <3>. QED
      BY <3>1, <3>2 DEF NumbersDiffer, Owed
  <2>. QED
    BY <2>1, <2>2
<1>2. ASSUME NEW t \in Tills, SyncFails(t)
      PROVE  NumbersDiffer' /\ \A d, day : Owed(d, day)' \subseteq Owed(d, day)
  <2>1. \A r \in pulls : \A w :
          LET new == [r EXCEPT !.waited = w]
          IN  new.no = r.no /\ new.dev = r.dev /\ new.todo = r.todo /\ new.missing = r.missing
    BY DEF TypeOK, Pulls
  <2>2. \A r \in pulls' : \E old \in pulls : r = [old EXCEPT !.waited = @ /\ old.till # t]
    BY <1>2 DEF SyncFails, Abandoned
  <2>3. \A r \in pulls' : \E old \in pulls :
          /\ r = [old EXCEPT !.waited = @ /\ old.till # t]
          /\ r.no = old.no /\ r.dev = old.dev /\ r.todo = old.todo /\ r.missing = old.missing
    <3>. SUFFICES ASSUME NEW r \in pulls'
                  PROVE  \E old \in pulls :
                           /\ r = [old EXCEPT !.waited = @ /\ old.till # t]
                           /\ r.no = old.no /\ r.dev = old.dev /\ r.todo = old.todo /\ r.missing = old.missing
      OBVIOUS
    <3>1. PICK old \in pulls : r = [old EXCEPT !.waited = @ /\ old.till # t]
      BY <2>2
    <3>. QED
      BY <2>1, <3>1
  <2>4. NumbersDiffer'
    <3>. SUFFICES ASSUME NEW r \in pulls', NEW other \in pulls', r.no = other.no PROVE r = other
      BY DEF NumbersDiffer
    <3>1. PICK x \in pulls : r = [x EXCEPT !.waited = @ /\ x.till # t] /\ r.no = x.no
      BY <2>3
    <3>2. PICK y \in pulls : other = [y EXCEPT !.waited = @ /\ y.till # t] /\ other.no = y.no
      BY <2>3
    <3>3. x = y
      BY <3>1, <3>2 DEF NumbersDiffer
    <3>. QED
      BY <3>1, <3>2, <3>3
  <2>. QED
    BY <2>3, <2>4 DEF Owed
<1>3. ASSUME NEW r \in pulls, PullAnswered(r) \/ PullDies(r)
      PROVE  NumbersDiffer' /\ \A d, day : Owed(d, day)' \subseteq Owed(d, day)
  BY <1>3 DEF PullAnswered, PullDies, NumbersDiffer, Owed
<1>4. CASE UNCHANGED pulls
  BY <1>4 DEF NumbersDiffer, Owed
<1>. QED
  BY <1>1, <1>2, <1>3, <1>4, PullsFrame

\* A request that counts owes what is missing then; the others owe their target at
\* most.
LEMMA CountFits ==
  ASSUME TypeOK, NumbersDiffer, OwedFits, NEW r \in pulls, AllocateCounts(r)
  PROVE  NumbersDiffer' /\ OwedFits'
<1>. DEFINE n == Missing(r.dev, Earliest(r.todo))
            new == [r EXCEPT !.missing = n]
<1>1. pulls' = (pulls \ {r}) \union {new} /\ UNCHANGED <<booking, owner, visitDay>> /\ r.todo # {}
      /\ r.missing = Uncounted
  BY DEF AllocateCounts, bookRows
<1>2. new.no = r.no /\ new.dev = r.dev /\ new.todo = r.todo /\ new.missing = n
      /\ r.dev \in Devices /\ r.no \in 1 .. PullLimit
  BY DEF TypeOK, Pulls
<1>3. n \in 0 .. Target
  BY MissingType
<1>. HIDE DEF new, n
<1>4. NumbersDiffer'
  BY <1>1, <1>2 DEF NumbersDiffer
<1>5. \A d, day : Unsold(d, day)' = Unsold(d, day)
  BY <1>1 DEF Unsold
<1>6. ASSUME NEW d \in Devices, NEW day \in Days
      PROVE  Cardinality(Unsold(d, day)') + Cardinality(Owed(d, day)') <= PullLimit * Target
  <2>0. /\ Cardinality(Unsold(d, day)) + Cardinality(Owed(d, day)) <= PullLimit * Target
        /\ Cardinality(Unsold(d, day)) \in Nat /\ Cardinality(Owed(d, day)) \in Nat
        /\ Cardinality(Owed(d, day)') \in Nat /\ IsFiniteSet(Owed(d, day))
        /\ PullLimit * Target \in Nat
    BY UnsoldIsFinite, OwedIsFinite, BookAssumption DEF OwedFits
  <2>1. CASE Owed(d, day)' \subseteq Owed(d, day)
    <3>1. Owed(d, day)' \in SUBSET Owed(d, day)
      BY <2>1
    <3>2. Cardinality(Owed(d, day)') <= Cardinality(Owed(d, day))
      BY <2>0, <3>1, FS_Subset
    <3>. QED
      BY <1>5, <2>0, <3>2
  <2>2. CASE d = r.dev /\ day = Earliest(r.todo) /\ n # 0
    <3>1. Owed(d, day)' \in
            SUBSET (((1 .. PullLimit \ {r.no}) \X (1 .. Target)) \union ({r.no} \X (1 .. n)))
      <4>. SUFFICES ASSUME NEW x \in Owed(d, day)'
                    PROVE  x \in ((1 .. PullLimit \ {r.no}) \X (1 .. Target)) \union ({r.no} \X (1 .. n))
        OBVIOUS
      <4>1. x \in (1 .. PullLimit) \X (1 .. Target)
        BY DEF Owed
      <4>2. PICK s \in pulls' : s.no = x[1] /\ x[2] <= s.missing
        BY DEF Owed
      <4>3. CASE s = new
        BY <1>2, <1>3, <4>1, <4>2, <4>3, BookAssumption
      <4>4. CASE s # new
        <5>1. s.no # r.no
          BY <1>1, <4>4 DEF NumbersDiffer
        <5>. QED
          BY <4>1, <4>2, <5>1
      <4>. QED
        BY <4>3, <4>4
    <3>2. Cardinality(Owed(d, day)') <= PullLimit * Target - Target + n
      BY <1>2, <1>3, <3>1, OthersOwe
    <3>3. n = Target - Cardinality(Unsold(d, day))
      BY <2>0, <2>2, BookAssumption DEF n, Missing
    <3>. QED
      BY <1>3, <1>5, <2>0, <3>2, <3>3, BookAssumption
  <2>3. CASE ~ (d = r.dev /\ day = Earliest(r.todo) /\ n # 0)
    <3>. SUFFICES ASSUME NEW x \in Owed(d, day)' PROVE x \in Owed(d, day)
      BY <2>1
    <3>1. /\ x \in (1 .. PullLimit) \X (1 .. Target)
          /\ \E s \in pulls' : /\ s.no = x[1] /\ s.dev = d /\ Earliest(s.todo) = day
                                /\ s.missing # Uncounted /\ x[2] <= s.missing
      BY DEF Owed
    <3>2. ~ x[2] <= 0
      BY <3>1, BookAssumption
    <3>. QED
      BY <1>1, <1>2, <2>3, <3>1, <3>2 DEF Owed
  <2>. QED
    BY <2>1, <2>2, <2>3
<1>. QED
  BY <1>4, <1>6 DEF OwedFits

\* An insert makes of what its request owed unsold blanks, at most.
LEMMA InsertFits ==
  ASSUME TypeOK, CountedHasDay, NumbersDiffer, OwedFits, NEW r \in pulls, AllocateInserts(r)
  PROVE  NumbersDiffer' /\ OwedFits'
<1>. DEFINE new == [r EXCEPT !.missing = Uncounted, !.todo = @ \ {Earliest(@)}]
<1>1. pulls' = (pulls \ {r}) \union {new} /\ r.missing # Uncounted
  BY DEF AllocateInserts
<1>2. new.no = r.no /\ new.missing = Uncounted /\ r.no \in 1 .. PullLimit
      /\ r.missing \in Nat /\ r.missing <= Target
  BY <1>1, BookAssumption DEF TypeOK, Pulls
<1>. HIDE DEF new
<1>3. NumbersDiffer'
  BY <1>1, <1>2 DEF NumbersDiffer
<1>4. ASSUME NEW d \in Devices, NEW day \in Days
      PROVE  Cardinality(Unsold(d, day)') + Cardinality(Owed(d, day)') <= PullLimit * Target
  <2>0. /\ Cardinality(Unsold(d, day)) + Cardinality(Owed(d, day)) <= PullLimit * Target
        /\ Cardinality(Unsold(d, day)) \in Nat /\ Cardinality(Owed(d, day)) \in Nat
        /\ Cardinality(Owed(d, day)') \in Nat /\ IsFiniteSet(Owed(d, day))
        /\ PullLimit * Target \in Nat
    BY UnsoldIsFinite, OwedIsFinite, BookAssumption DEF OwedFits
  <2>1. Owed(d, day)' \in SUBSET Owed(d, day)
    BY <1>1, <1>2 DEF Owed
  <2>2. Cardinality(Owed(d, day)') <= Cardinality(Owed(d, day))
    BY <2>0, <2>1, FS_Subset
  <2>3. CASE Cardinality(Unsold(d, day)') <= Cardinality(Unsold(d, day))
    BY <2>0, <2>2, <2>3, InsertAddsMissing
  <2>4. CASE /\ d = r.dev /\ day = Earliest(r.todo)
             /\ Cardinality(Unsold(d, day)') <= Cardinality(Unsold(d, day)) + r.missing
    <3>. DEFINE own == {r.no} \X (1 .. r.missing)
    <3>1. own \in SUBSET Owed(d, day)
      <4>. SUFFICES ASSUME NEW x \in own PROVE x \in Owed(d, day)
        OBVIOUS
      <4>1. x \in (1 .. PullLimit) \X (1 .. Target) /\ x[1] = r.no /\ x[2] <= r.missing
        BY <1>2, BookAssumption
      <4>. QED
        BY <1>1, <2>4, <4>1 DEF Owed
    <3>2. IsFiniteSet(own) /\ Cardinality(own) = r.missing
      BY <1>2, RowSize, Zenon
    <3>3. Owed(d, day)' \in SUBSET (Owed(d, day) \ own)
      <4>. SUFFICES ASSUME NEW x \in Owed(d, day)' PROVE x \notin own
        BY <2>1
      <4>1. PICK s \in pulls' : s.no = x[1] /\ s.missing # Uncounted
        BY DEF Owed
      <4>2. s \in pulls /\ s # r
        BY <1>1, <1>2, <4>1
      <4>3. s.no # r.no
        BY <4>2 DEF NumbersDiffer
      <4>. QED
        BY <4>1, <4>3
    <3>. HIDE DEF own
    <3>4. Owed(d, day) \cap own = own
      BY <3>1
    <3>5. /\ IsFiniteSet(Owed(d, day) \ own)
          /\ Cardinality(Owed(d, day) \ own) = Cardinality(Owed(d, day)) - r.missing
      <4>1. /\ IsFiniteSet(Owed(d, day) \ own)
            /\ Cardinality(Owed(d, day) \ own) =
                 Cardinality(Owed(d, day)) - Cardinality(Owed(d, day) \cap own)
        BY <2>0, FS_Difference, Zenon
      <4>. QED
        BY <3>2, <3>4, <4>1, Zenon
    <3>6. Cardinality(Owed(d, day)') <= Cardinality(Owed(d, day)) - r.missing
      BY <3>3, <3>5, FS_Subset
    <3>. QED
      BY <1>2, <2>0, <2>4, <3>6, InsertAddsMissing
  <2>. QED
    BY <2>3, <2>4, InsertAddsMissing
<1>. QED
  BY <1>3, <1>4 DEF OwedFits

\* Every step keeps the bound.
LEMMA BoundStep == TypeOK /\ CountedHasDay /\ BoundInv /\ [Next]_vars => BoundInv'
<1>. SUFFICES ASSUME TypeOK, CountedHasDay, BoundInv, [Next]_vars PROVE BoundInv'
  OBVIOUS
<1>. USE DEF BoundInv
<1>1. ASSUME NEW r \in pulls, AllocateInserts(r) PROVE BoundInv'
  BY <1>1, InsertFits
<1>2. ASSUME NEW r \in pulls, AllocateCounts(r) PROVE BoundInv'
  BY <1>2, CountFits
<1>3. ASSUME ~ \E r \in pulls : AllocateInserts(r) \/ AllocateCounts(r) PROVE BoundInv'
  <2>1. NumbersDiffer' /\ \A d, day : Owed(d, day)' \subseteq Owed(d, day)
    BY <1>3, OwedShrinks
  <2>2. ASSUME NEW d \in Devices, NEW day \in Days
        PROVE  Cardinality(Unsold(d, day)') + Cardinality(Owed(d, day)') <= PullLimit * Target
    <3>1. /\ Cardinality(Unsold(d, day)) + Cardinality(Owed(d, day)) <= PullLimit * Target
          /\ Cardinality(Unsold(d, day)) \in Nat /\ Cardinality(Owed(d, day)) \in Nat
          /\ IsFiniteSet(Owed(d, day)) /\ PullLimit * Target \in Nat
      BY UnsoldIsFinite, OwedIsFinite, BookAssumption DEF OwedFits
    <3>2. /\ Cardinality(Unsold(d, day)') <= Cardinality(Unsold(d, day))
          /\ Cardinality(Unsold(d, day)') \in Nat
      BY <1>3, UnsoldShrinks
    <3>3. Owed(d, day)' \in SUBSET Owed(d, day)
      BY <2>1
    <3>4. Cardinality(Owed(d, day)') <= Cardinality(Owed(d, day)) /\ Cardinality(Owed(d, day)') \in Nat
      BY <3>1, <3>3, FS_Subset, FS_CardinalityType
    <3>. QED
      BY <3>1, <3>2, <3>4
  <2>. QED
    BY <2>1, <2>2 DEF OwedFits
<1>. QED
  BY <1>1, <1>2, <1>3

\* A book stays small for any number of requests at once: the target for each of
\* them, however often tills sync, pulls die half way, and sales and rollovers run
\* between a count and its insert.  One request at a time keeps to the target.
THEOREM BooksAreBounded == Spec => []BookIsBounded
<1>1. Init => BoundInv
  <2>. SUFFICES ASSUME Init PROVE BoundInv
    OBVIOUS
  <2>1. \A d, day : Unsold(d, day) = {} /\ Owed(d, day) = {}
    BY DEF Init, Unsold, Owed, Absent
  <2>2. \A d, day : Cardinality(Unsold(d, day)) = 0 /\ Cardinality(Owed(d, day)) = 0
    BY <2>1, FS_EmptySet
  <2>3. PullLimit * Target \in Nat
    BY BookAssumption
  <2>. QED
    BY <2>2, <2>3 DEF Init, BoundInv, NumbersDiffer, OwedFits
<1>2. BookInv /\ BoundInv /\ [Next]_vars => BoundInv'
  BY BoundStep DEF BookInv
<1>3. BoundInv => BookIsBounded
  <2>1. \A d, day : Cardinality(Unsold(d, day)) \in Nat /\ Cardinality(Owed(d, day)) \in Nat
    BY UnsoldIsFinite, OwedIsFinite
  <2>2. PullLimit * Target \in Nat
    BY BookAssumption
  <2>. QED
    BY <2>1, <2>2 DEF BoundInv, OwedFits, BookIsBounded
<1>. QED
  BY <1>1, <1>2, <1>3, BookInvariant, PTL DEF Spec

-----------------------------------------------------------------------------
(* A ticket is sold once.                                                  *)

\* Who touches what a sale made twice would have to go through.
LEMMA OnceFrame ==
  ASSUME [Next]_vars
  PROVE  \/ \E d \in Devices : RotateKey(d)
         \/ \E t \in Tills, d \in Devices : EnterKey(t, d)
         \/ \E b \in Blanks : CancelSale(b) \/ ExpiresBlank(b)
         \/ \E t \in Tills, b \in Blanks, rate \in SaleRates : SellClaims(t, b, rate)
         \/ \E t \in Tills : \E batch \in SUBSET queue[t] : PushSends(t, batch)
         \/ \E t \in Tills : PushAnswered(t) \/ PullAsks(t) \/ AppliesBook(t) \/ SetsMeta(t) \/ SyncFails(t)
         \/ \E p \in requests : JudgeSale(p)
         \/ \E r \in pulls : AllocateCounts(r) \/ AllocateInserts(r) \/ PullAnswered(r) \/ PullDies(r)
         \/ UNCHANGED <<guests, holder, key, owner, booking, held, reply, queue, sync, judged, pulls>>
BY DEF vars, bookRows, office, server, store, syncing, Next, Office, Till, Sync,
  RegisterDevice, SetDeviceActive, SetOfflineSelling, SetCategoryActive, SellResolves, JudgeFails, NewDay,
  ExpirySelects, WorkerDies, Board

\* Every blank has one browser it can get into.
LEMMA HomeIsUnique ==
  ASSUME NEW t \in Tills, NEW u \in Tills, NEW b, Home(t, b), Home(u, b)
  PROVE  t = u
BY DEF Home, Single

\* What the theorem assumes of the office: either it never rotates a key, or
\* there is one browser and one key; and what it assumes of the counter: no
\* sale can be refused while its blank is still unsold.
KeepsKeys == Reissued = {} \/ Single
KeepsRates == "CATEGORY" \notin SaleRates

\* A blank that a till loads is at home there.
LEMMA LoadsAtHome ==
  ASSUME BookInv, KeysStay, NEW t \in Tills, Enrolled(t), NEW b, Loads(t, b)
  PROVE  Home(t, b)
BY DEF KeysStay, Loads, Home

\* A status that moves on, with a verdict that says so, prepares no second sale.
LEMMA VerdictIsHarmless ==
  ASSUME BookInv, OnceInv,
         UNCHANGED <<guests, holder, key, owner, held, reply, queue, sync, pulls>>,
         \A c \in Blanks :
           booking'[c] = booking[c] \/ (booking[c] # Absent /\ booking'[c] # "RESERVED" /\ booking'[c] # Absent),
         \A t \in Tills : judged'[t] \subseteq Blanks,
         \A t \in Tills : \A c \in judged'[t] : c \in judged[t] \/ (booking'[c] = "RESERVED" => ~Loads(t, c))
  PROVE  OnceInv'
<1>. USE DEF OnceInv, Home, Loads, QueuedBlanks, BlankOf, Enrolled
<1>1. NoBlankSoldTwice' /\ HeldIsUnsold' /\ ReplyIsUnsold'
  BY DEF NoBlankSoldTwice, HeldIsUnsold, ReplyIsUnsold
<1>2. KeysStay'
  BY DEF KeysStay
<1>3. JudgedIsDone'
  BY DEF JudgedIsDone
<1>4. SoldIsQueued'
  BY DEF SoldIsQueued
<1>. QED
  BY <1>1, <1>2, <1>3, <1>4

\* A 401 takes the key from a till that waits for nothing.
LEMMA KeyDropIsHarmless ==
  ASSUME BookInv, OnceInv, NEW t \in Tills, Unauthorized(t), sync[t] \in {"IDLE", "PULL"}
  PROVE  OnceInv'
<1>. USE DEF OnceInv, Home, Loads, QueuedBlanks, BlankOf, Enrolled
<1>1. /\ key' = [key EXCEPT ![t] = NoKey] /\ sync' = [sync EXCEPT ![t] = "IDLE"]
      /\ UNCHANGED <<guests, holder, owner, booking, held, reply, queue, judged, pulls>>
  BY DEF Unauthorized, bookRows, office, server, store
<1>2. NoBlankSoldTwice' /\ HeldIsUnsold'
  BY <1>1 DEF NoBlankSoldTwice, HeldIsUnsold
<1>3. KeysStay'
  BY <1>1 DEF KeysStay
<1>4. ReplyIsUnsold'
  BY <1>1 DEF ReplyIsUnsold
<1>5. JudgedIsDone'
  BY <1>1 DEF JudgedIsDone, BookInv, SyncIsKeyed
<1>6. \A b \in Blanks : booking[b] = "RESERVED" => owner[b] # NoKey
  BY BookAssumption DEF BookInv, TicketStands, Absent
<1>7. SoldIsQueued'
  BY <1>1, <1>6 DEF SoldIsQueued
<1>. QED
  BY <1>2, <1>3, <1>4, <1>5, <1>7

\* A step sells no ticket a second time, and prepares no such sale.
LEMMA OnceStep ==
  KeepsKeys /\ KeepsRates /\ BookInv /\ OnceInv /\ [Next]_vars => OnceInv'
<1>. SUFFICES ASSUME KeepsKeys, KeepsRates, BookInv, OnceInv, [Next]_vars PROVE OnceInv'
  OBVIOUS
<1>. USE DEF BookInv, OnceInv, NoBlankSoldTwice, KeysStay, HeldIsUnsold, ReplyIsUnsold, JudgedIsDone, SoldIsQueued,
  Home, Loads, QueuedBlanks, BlankOf, Enrolled, SalesHaveGuests, BlanksAreIssued, TicketStands, SyncIsKeyed
<1>1. ASSUME NEW d \in Devices, RotateKey(d) PROVE OnceInv'
  BY <1>1, HomeIsUnique, BookAssumption DEF TypeOK, RotateKey, KeepsKeys, bookRows, store, syncing
<1>2. ASSUME NEW t \in Tills, NEW d \in Devices, EnterKey(t, d) PROVE OnceInv'
  BY <1>2, HomeIsUnique, BookAssumption DEF TypeOK, EnterKey, KeyOnHand, bookRows, server, store, syncing
<1>3. ASSUME NEW b \in Blanks, CancelSale(b) \/ ExpiresBlank(b) PROVE OnceInv'
  <2>1. \A c \in Blanks : booking'[c] = booking[c] \/ (booking[c] # Absent /\ booking'[c] = "CANCELLED")
    BY <1>3 DEF CancelSale, Cancellable, ExpiresBlank, StaleIsPast, TypeOK, Absent
  <2>2. UNCHANGED <<guests, holder, key, owner, held, reply, queue, sync, judged, pulls>>
    BY <1>3 DEF CancelSale, ExpiresBlank, office, server, store, syncing
  <2>3. \A t \in Tills : judged'[t] \subseteq Blanks
    BY <2>2 DEF TypeOK
  <2>. QED
    BY <2>1, <2>2, <2>3, VerdictIsHarmless DEF Absent
<1>4. ASSUME NEW t \in Tills, NEW b \in Blanks, NEW rate \in SaleRates, SellClaims(t, b, rate)
      PROVE  OnceInv'
  <2>0. b \in held[t] /\ guests[b] = 0 /\ Home(t, b)
    BY <1>4 DEF SellClaims, ClaimBlank
  <2>1. /\ b \in held[t] /\ guests[b] = 0 /\ Home(t, b)
        /\ guests' = [guests EXCEPT ![b] = 1]
        /\ held' = [held EXCEPT ![t] = @ \ {b}]
        /\ queue' = [queue EXCEPT ![t] = @ \union {<<b, rate>>}]
        /\ UNCHANGED <<holder, key, owner, booking, reply, sync, judged, pulls>>
    BY <1>4, <2>0 DEF SellClaims, ClaimBlank, bookRows, office, server, syncing
  <2>2. NoBlankSoldTwice' /\ KeysStay' /\ JudgedIsDone'
    BY <2>1 DEF TypeOK
  <2>3. HeldIsUnsold'
    <3>. SUFFICES ASSUME NEW u \in Tills, NEW c \in held'[u] PROVE Home(u, c) /\ guests'[c] = 0
      BY <2>1
    <3>1. c \in held[u] /\ c \in Blanks /\ ~(u = t /\ c = b)
      BY <2>1 DEF TypeOK
    <3>2. Home(u, c) /\ guests[c] = 0
      BY <3>1
    <3>3. c # b
      BY <2>1, <3>1, <3>2, HomeIsUnique
    <3>. QED
      BY <2>1, <3>1, <3>2, <3>3 DEF TypeOK
  <2>4. \A u \in Tills : queue[u] \subseteq queue'[u]
    BY <2>1 DEF TypeOK
  <2>5. b \in QueuedBlanks(t)'
    <3>1. <<b, rate>> \in queue'[t] /\ <<b, rate>>[1] = b
      BY <2>1 DEF TypeOK
    <3>. QED
      BY <3>1
  <2>6. ReplyIsUnsold'
    <3>. SUFFICES ASSUME NEW u \in Tills, sync[u] = "BOOK", NEW c \in reply[u].blanks
                  PROVE  Loads(u, c) /\ (guests'[c] = 0 \/ c \in QueuedBlanks(u)')
      BY <2>1
    <3>1. Loads(u, c) /\ (guests[c] = 0 \/ c \in QueuedBlanks(u)) /\ Enrolled(u) /\ c \in Blanks
      BY DEF TypeOK, Replies
    <3>2. CASE c = b
      BY <2>1, <2>5, <3>1, <3>2, LoadsAtHome, HomeIsUnique
    <3>3. CASE c # b
      BY <2>1, <2>4, <3>1, <3>3 DEF TypeOK
    <3>. QED
      BY <3>2, <3>3
  <2>7. SoldIsQueued'
    <3>. SUFFICES ASSUME NEW c \in Blanks, booking[c] = "RESERVED", guests'[c] > 0
                  PROVE  \E u \in Tills : Home(u, c) /\ (Loads(u, c) => c \in QueuedBlanks(u)')
      BY <2>1
    <3>1. CASE c = b
      BY <2>1, <2>5, <3>1
    <3>2. CASE c # b
      BY <2>1, <2>4, <3>2 DEF TypeOK
    <3>. QED
      BY <3>1, <3>2
  <2>. QED
    BY <2>2, <2>3, <2>6, <2>7
<1>5. ASSUME NEW t \in Tills, NEW batch \in SUBSET queue[t], PushSends(t, batch) PROVE OnceInv'
  <2>1. CASE Unauthorized(t)
    BY <1>5, <2>1, KeyDropIsHarmless DEF PushSends, SyncDue
  <2>2. CASE ~Unauthorized(t)
    <3>1. /\ sync' = [sync EXCEPT ![t] = "PUSHING"]
          /\ UNCHANGED <<guests, holder, key, owner, booking, held, reply, queue, judged, pulls>>
      BY <1>5, <2>2 DEF PushSends, bookRows, office, store
    <3>. QED
      BY <3>1 DEF TypeOK
  <2>. QED
    BY <2>1, <2>2
<1>6. ASSUME NEW t \in Tills, PushAnswered(t) PROVE OnceInv'
  BY <1>6, HomeIsUnique, BookAssumption DEF TypeOK, PushAnswered, bookRows, office, server
<1>7. ASSUME NEW t \in Tills, PullAsks(t) PROVE OnceInv'
  <2>1. CASE Unauthorized(t)
    BY <1>7, <2>1, KeyDropIsHarmless DEF PullAsks, SyncDue
  <2>2. CASE ~Unauthorized(t) /\ ~selling
    <3>1. /\ sync' = [sync EXCEPT ![t] = "BOOK"] /\ reply'[t].blanks = {}
          /\ \A u \in Tills : u # t => reply'[u] = reply[u]
          /\ UNCHANGED <<guests, holder, key, owner, booking, held, queue, judged, pulls>>
      BY <1>7, <2>2 DEF PullAsks, bookRows, office, server, store, TypeOK
    <3>. QED
      BY <3>1 DEF TypeOK
  <2>3. CASE ~Unauthorized(t) /\ selling
    <3>0. PICK no \in 1 .. PullLimit :
            pulls' = pulls \union
              {[no |-> no, till |-> t, dev |-> key[t], day |-> today, todo |-> BookDays,
                missing |-> Uncounted, waited |-> TRUE]}
      BY <1>7, <2>3 DEF PullAsks
    <3>. DEFINE new == [no |-> no, till |-> t, dev |-> key[t], day |-> today, todo |-> BookDays,
                        missing |-> Uncounted, waited |-> TRUE]
    <3>1. /\ sync' = [sync EXCEPT ![t] = "ASKED"] /\ pulls' = pulls \union {new} /\ new.dev = key[t]
          /\ key[t] # NoKey
          /\ UNCHANGED <<guests, holder, key, owner, booking, held, reply, queue, judged>>
      BY <1>7, <2>3, <3>0 DEF PullAsks, Authenticated, bookRows, office, store
    <3>. HIDE DEF new
    <3>. QED
      BY <3>1, BookAssumption DEF TypeOK
  <2>. QED
    BY <2>1, <2>2, <2>3
<1>8. ASSUME NEW t \in Tills, AppliesBook(t) PROVE OnceInv'
  BY <1>8, HomeIsUnique, BookAssumption DEF TypeOK, AppliesBook, NewBook, bookRows, office, server
<1>9. ASSUME NEW t \in Tills, SetsMeta(t) PROVE OnceInv'
  BY <1>9, HomeIsUnique, BookAssumption DEF TypeOK, SetsMeta, bookRows, office, server
<1>10. ASSUME NEW t \in Tills, SyncFails(t) PROVE OnceInv'
  <2>1. /\ sync' = [sync EXCEPT ![t] = "IDLE"] /\ judged' = [judged EXCEPT ![t] = {}]
        /\ \A u \in Tills : u # t => reply'[u] = reply[u]
        /\ UNCHANGED <<guests, holder, key, owner, booking, held, queue>>
    BY <1>10 DEF SyncFails, bookRows, office, store
  <2>2. \A r \in pulls' : \E old \in pulls : r.dev = old.dev
    <3>. SUFFICES ASSUME NEW r \in pulls' PROVE \E old \in pulls : r.dev = old.dev
      OBVIOUS
    <3>1. PICK old \in pulls : r = [old EXCEPT !.waited = @ /\ old.till # t]
      BY <1>10 DEF SyncFails, Abandoned
    <3>. QED
      BY <3>1 DEF TypeOK
  <2>3. NoBlankSoldTwice' /\ HeldIsUnsold' /\ SoldIsQueued'
    BY <2>1
  <2>4. KeysStay'
    <3>1. Single \/ \A r \in pulls' : holder[r.dev] # NoTill
      BY <2>2
    <3>. QED
      BY <2>1, <3>1
  <2>5. ReplyIsUnsold' /\ JudgedIsDone'
    BY <2>1 DEF TypeOK
  <2>. QED
    BY <2>3, <2>4, <2>5
<1>11. ASSUME NEW p \in requests, JudgeSale(p) PROVE OnceInv'
  <2>. DEFINE sold == p[2][1]
  <2>1. p[1] \in Devices /\ sold \in Blanks /\ p[2][2] \in SaleRates /\ booking[sold] # Absent
    BY DEF TypeOK, Pushes, Sales, SaleOf
  <2>2. \A c \in Blanks : booking'[c] = booking[c] \/ (booking[c] = "RESERVED" /\ booking'[c] = "CASH_CONFIRMED")
    BY <1>11 DEF JudgeSale, StatusAfter, Activates
  <2>3. booking'[sold] = "RESERVED" => owner[sold] # p[1]
    BY <1>11, <2>1 DEF JudgeSale, StatusAfter, Activates, Refuses, SaleOf, KeepsRates, TypeOK
  <2>4. UNCHANGED <<guests, holder, key, owner, held, reply, queue, sync, pulls>>
    BY <1>11 DEF JudgeSale, office, store
  <2>5. /\ \A t \in Tills : judged'[t] \subseteq Blanks
        /\ \A t \in Tills : \A c \in judged'[t] : c \in judged[t] \/ (c = sold /\ p[1] = key[t])
    BY <1>11, <2>1 DEF JudgeSale, Hear, SaleOf, TypeOK
  <2>6. Single => owner[sold] = p[1]
    BY <2>1 DEF Single
  <2>. HIDE DEF sold
  <2>. QED
    BY <2>2, <2>3, <2>4, <2>5, <2>6, VerdictIsHarmless DEF Absent
<1>12. ASSUME NEW r \in pulls, AllocateCounts(r) PROVE OnceInv'
  <2>. DEFINE new == [r EXCEPT !.missing = Missing(r.dev, Earliest(r.todo))]
  <2>1. new.dev = r.dev
    BY DEF TypeOK
  <2>2. /\ pulls' = (pulls \ {r}) \union {new}
        /\ UNCHANGED <<guests, holder, key, owner, booking, held, reply, queue, sync, judged>>
    BY <1>12 DEF AllocateCounts, bookRows, office, store, syncing
  <2>. HIDE DEF new
  <2>. QED
    BY <2>1, <2>2
<1>13. ASSUME NEW r \in pulls, AllocateInserts(r) PROVE OnceInv'
  <2>. DEFINE again == [r EXCEPT !.missing = Uncounted, !.todo = @ \ {Earliest(@)}]
  <2>1. PICK new \in SUBSET Fresh : InsertReserved(r.dev, Earliest(r.todo), new)
    BY <1>13 DEF AllocateInserts
  <2>2. again.dev = r.dev
    BY DEF TypeOK
  <2>3. /\ pulls' = (pulls \ {r}) \union {again}
        /\ UNCHANGED <<guests, holder, key, held, reply, queue, sync, judged>>
    BY <1>13 DEF AllocateInserts, office, store, syncing
  <2>. HIDE DEF again
  <2>4. \A b \in new : b \in Blanks /\ booking[b] = Absent /\ ~ (guests[b] > 0) /\ guests[b] \in 0 .. 2
    BY DEF Fresh, TypeOK
  <2>5. \A b \in new : guests[b] = 0
    BY <2>4
  <2>6. \A b \in Blanks : IF b \in new THEN booking[b] = Absent /\ owner'[b] = r.dev /\ guests[b] = 0
                          ELSE booking'[b] = booking[b] /\ owner'[b] = owner[b]
    BY <2>1, <2>4, <2>5 DEF InsertReserved
  <2>7. NoBlankSoldTwice' /\ KeysStay'
    BY <2>2, <2>3, <2>6
  <2>8. HeldIsUnsold' /\ ReplyIsUnsold'
    <3>1. \A t \in Tills : \A b \in held[t] \union reply[t].blanks : b \in Blanks /\ b \notin new
      BY <2>6 DEF TypeOK, Replies
    <3>. QED
      BY <2>3, <2>6, <3>1
  <2>9. JudgedIsDone' /\ SoldIsQueued'
    <3>1. \A t \in Tills : \A b \in judged[t] : b \in Blanks /\ b \notin new
      BY <2>6 DEF TypeOK
    <3>. QED
      BY <2>3, <2>6, <3>1
  <2>. QED
    BY <2>7, <2>8, <2>9
<1>14. ASSUME NEW r \in pulls, PullAnswered(r) PROVE OnceInv'
  <2>1. pulls' = pulls \ {r} /\ UNCHANGED <<guests, holder, key, owner, booking, held, queue, judged>>
    BY <1>14 DEF PullAnswered, bookRows, office, store
  <2>2. CASE ~r.waited
    BY <1>14, <2>1, <2>2 DEF PullAnswered
  <2>3. CASE r.waited
    <3>1. r.till \in Tills /\ sync[r.till] = "ASKED" /\ r.dev = key[r.till] /\ Enrolled(r.till)
      BY <2>3 DEF TypeOK, Pulls
    <3>2. /\ sync' = [sync EXCEPT ![r.till] = "BOOK"] /\ reply'[r.till].blanks = LoadBook(r)
          /\ \A u \in Tills : u # r.till => reply'[u] = reply[u]
      BY <1>14, <2>3, <3>1 DEF PullAnswered, TypeOK
    <3>3. NoBlankSoldTwice' /\ KeysStay' /\ HeldIsUnsold' /\ JudgedIsDone' /\ SoldIsQueued'
      BY <2>1
    <3>4. ASSUME NEW b \in LoadBook(r)
          PROVE  Loads(r.till, b) /\ (guests[b] = 0 \/ b \in QueuedBlanks(r.till))
      <4>1. b \in Blanks /\ owner[b] = key[r.till] /\ booking[b] = "RESERVED" /\ Loads(r.till, b)
        BY <3>1 DEF LoadBook
      <4>2. Home(r.till, b)
        BY <3>1, <4>1, LoadsAtHome
      <4>3. guests[b] > 0 => b \in QueuedBlanks(r.till)
        BY <3>1, <4>1, <4>2, HomeIsUnique
      <4>4. guests[b] \in 0 .. 2
        BY <4>1 DEF TypeOK
      <4>. QED
        BY <4>1, <4>3, <4>4
    <3>5. ReplyIsUnsold'
      BY <2>1, <3>1, <3>2, <3>4 DEF TypeOK
    <3>. QED
      BY <3>3, <3>5
  <2>. QED
    BY <2>2, <2>3
<1>15. ASSUME NEW r \in pulls, PullDies(r) PROVE OnceInv'
  BY <1>15, HomeIsUnique, BookAssumption DEF TypeOK, PullDies, bookRows, office, store, syncing
<1>16. CASE UNCHANGED <<guests, holder, key, owner, booking, held, reply, queue, sync, judged, pulls>>
  BY <1>16
<1>. QED
  BY <1>1, <1>2, <1>3, <1>4, <1>5, <1>6, <1>7, <1>8, <1>9, <1>10, <1>11, <1>12, <1>13, <1>14, <1>15,
     <1>16, OnceFrame

\* A ticket is handed to one group only: claimBlank takes the blank out of the
\* book in the transaction that queues its sale, and between that and the
\* server's verdict applyBook keeps it out, whatever syncs fail, answers are
\* lost and pages reload in between.
THEOREM TicketsAreSoldOnce == KeepsKeys /\ KeepsRates => (Spec => []NoBlankSoldTwice)
<1>. SUFFICES ASSUME KeepsKeys, KeepsRates PROVE Spec => []NoBlankSoldTwice
  OBVIOUS
<1>1. Init => OnceInv
  BY DEF Init, OnceInv, NoBlankSoldTwice, KeysStay, HeldIsUnsold, ReplyIsUnsold, JudgedIsDone, SoldIsQueued,
    Enrolled, Absent
<1>2. BookInv /\ OnceInv /\ [Next]_vars => OnceInv'
  BY OnceStep
<1>3. OnceInv => NoBlankSoldTwice
  BY DEF OnceInv
<1>. QED
  BY <1>1, <1>2, <1>3, BookInvariant, PTL DEF Spec

-----------------------------------------------------------------------------
(* No sale is lost.                                                        *)

\* Who touches a sale on its way to the server.
LEMMA AccountFrame ==
  ASSUME [Next]_vars
  PROVE  \/ \E d \in Devices : RegisterDevice(d) \/ RotateKey(d) \/ SetDeviceActive(d)
         \/ \E t \in Tills, d \in Devices : EnterKey(t, d)
         \/ \E b \in Blanks : CancelSale(b) \/ ExpiresBlank(b)
         \/ \E t \in Tills, b \in Blanks, rate \in SaleRates : SellClaims(t, b, rate)
         \/ \E t \in Tills : \E batch \in SUBSET queue[t] : PushSends(t, batch)
         \/ \E t \in Tills : PushAnswered(t) \/ PullAsks(t) \/ AppliesBook(t) \/ SetsMeta(t) \/ SyncFails(t)
         \/ \E p \in requests : JudgeSale(p)
         \/ \E r \in pulls : AllocateInserts(r) \/ PullAnswered(r)
         \/ UNCHANGED <<booking, queue, guests, device, holder, key, held, owner, reply, sync, pushed,
                        judged>>
BY DEF vars, bookRows, office, server, store, syncing, Next, Office, Till, Sync,
  SetOfflineSelling, SetCategoryActive, SellResolves, JudgeFails, AllocateCounts, PullDies, NewDay,
  ExpirySelects, WorkerDies, Board

\* What the theorem assumes: either there is one device, or no till ever loses
\* the key it was given.
KeepsDevices == OneDevice \/ (Reissued = {} /\ Retired = {})

\* With one device every blank is that device's, and so is every key.
LEMMA OneOwner ==
  ASSUME BookInv, OneDevice, NEW b \in Blanks, booking[b] # Absent, NEW d \in Devices
  PROVE  owner[b] = d
BY DEF OneDevice, BookInv, TicketStands

\* A change of the tables of the office and of status that only moves on keeps
\* every sale accounted for.
LEMMA StatusIsHarmless ==
  ASSUME BookInv, AccountInv,
         UNCHANGED <<queue, guests, device, holder, key, held, owner, reply, sync, pushed>>,
         \A c \in Blanks : booking'[c] = booking[c] \/ booking'[c] \in {"CASH_CONFIRMED", "CANCELLED"},
         \A t \in Tills : judged'[t] \subseteq Blanks,
         \A t \in Tills : \A c \in judged'[t] : c \in judged[t] \/ booking'[c] \in {"CASH_CONFIRMED", "CANCELLED"}
  PROVE  AccountInv'
<1>. USE DEF AccountInv, QueuedBlanks, BlankOf, SaleOf, Enrolled
<1>1. SaleIsAccounted'
  BY DEF SaleIsAccounted
<1>2. TillKeepsKey'
  BY DEF TillKeepsKey
<1>3. JudgedIsRecorded'
  BY DEF JudgedIsRecorded
<1>. QED
  BY <1>1, <1>2, <1>3

\* A 401 loses no sale: only where there is one device does it take a key away
\* that sales were queued under.
LEMMA DropIsHarmless ==
  ASSUME KeepsDevices, BookInv, AccountInv, NEW t \in Tills, Unauthorized(t), Enrolled(t)
  PROVE  AccountInv'
<1>1. OneDevice
  BY DEF AccountInv, TillKeepsKey, Unauthorized, Authenticated, Enrolled
<1>2. UNCHANGED <<booking, queue, guests, judged>>
  BY DEF Unauthorized, bookRows, store
<1>. QED
  BY <1>1, <1>2 DEF AccountInv, SaleIsAccounted, TillKeepsKey, JudgedIsRecorded, QueuedBlanks

\* A step loses no sale.
LEMMA AccountStep ==
  KeepsDevices /\ KeepsRates /\ BookInv /\ AccountInv /\ [Next]_vars => AccountInv'
<1>. SUFFICES ASSUME KeepsDevices, KeepsRates, BookInv, AccountInv, [Next]_vars PROVE AccountInv'
  OBVIOUS
<1>. USE DEF BookInv, AccountInv, SaleIsAccounted, TillKeepsKey, JudgedIsRecorded,
            QueuedBlanks, BlankOf, SaleOf, Enrolled
<1>1. ASSUME NEW d \in Devices, RegisterDevice(d) \/ SetDeviceActive(d) PROVE AccountInv'
  BY <1>1 DEF TypeOK, RegisterDevice, SetDeviceActive, KeepsDevices, bookRows, store, syncing
<1>2. ASSUME NEW d \in Devices, RotateKey(d) PROVE AccountInv'
  BY <1>2 DEF RotateKey, KeepsDevices, bookRows, store, syncing
<1>3. ASSUME NEW t \in Tills, NEW d \in Devices, EnterKey(t, d) PROVE AccountInv'
  <2>1. /\ key[t] = NoKey /\ holder[d] = NoTill /\ device[d] # Absent
        /\ key' = [key EXCEPT ![t] = d] /\ holder' = [holder EXCEPT ![d] = t]
        /\ UNCHANGED <<booking, queue, guests, device, held, owner, reply, sync, pushed, judged>>
    BY <1>3 DEF EnterKey, KeyOnHand, Listed, bookRows, store, syncing
  <2>2. SaleIsAccounted' /\ JudgedIsRecorded'
    BY <2>1
  <2>3. CASE OneDevice
    BY <2>2, <2>3
  <2>4. CASE ~OneDevice
    <3>1. \A u \in Tills : key'[u] # NoKey => device[key'[u]] = "ACTIVE" /\ holder'[key'[u]] = u
      BY <2>1, <2>4, BookAssumption DEF TypeOK
    <3>2. \A b \in held[t] \union QueuedBlanks(t) : owner[b] # NoKey
      <4>1. \A b \in held[t] \union QueuedBlanks(t) : b \in Blanks /\ booking[b] # Absent
        BY DEF TypeOK, Sales, SalesHaveGuests, BlanksAreIssued
      <4>. QED
        BY <4>1, BookAssumption DEF TicketStands
    <3>3. \A u \in Tills : \A b \in held[u] \union QueuedBlanks(u) : owner[b] = key'[u]
      BY <2>1, <2>4, <3>2 DEF TypeOK
    <3>4. \A u \in Tills : sync[u] = "BOOK" => \A b \in reply[u].blanks : owner[b] = key'[u]
      BY <2>1, <2>4 DEF TypeOK, SyncIsKeyed
    <3>. QED
      BY <2>1, <2>2, <2>4, <3>1, <3>3, <3>4
  <2>. QED
    BY <2>3, <2>4
<1>4. ASSUME NEW b \in Blanks, CancelSale(b) \/ ExpiresBlank(b) PROVE AccountInv'
  <2>1. \A c \in Blanks : booking'[c] = booking[c] \/ booking'[c] = "CANCELLED"
    BY <1>4 DEF CancelSale, ExpiresBlank, TypeOK
  <2>2. UNCHANGED <<queue, guests, device, holder, key, held, owner, reply, sync, pushed, judged>>
    BY <1>4 DEF CancelSale, ExpiresBlank, office, store, syncing
  <2>3. \A t \in Tills : judged'[t] \subseteq Blanks
    BY <2>2 DEF TypeOK
  <2>. QED
    BY <2>1, <2>2, <2>3, StatusIsHarmless
<1>5. ASSUME NEW t \in Tills, NEW b \in Blanks, NEW rate \in SaleRates, SellClaims(t, b, rate)
      PROVE  AccountInv'
  <2>1. /\ b \in held[t]
        /\ guests' = [guests EXCEPT ![b] = @ + 1]
        /\ held' = [held EXCEPT ![t] = @ \ {b}]
        /\ queue' = [queue EXCEPT ![t] = @ \union {<<b, rate>>}]
        /\ UNCHANGED <<booking, device, holder, key, owner, reply, sync, pushed, judged>>
    BY <1>5 DEF SellClaims, ClaimBlank, bookRows, office, syncing
  <2>2. /\ QueuedBlanks(t)' = QueuedBlanks(t) \union {b}
        /\ \A u \in Tills : u # t => QueuedBlanks(u)' = QueuedBlanks(u)
    <3>1. queue'[t] = queue[t] \union {<<b, rate>>} /\ \A u \in Tills : u # t => queue'[u] = queue[u]
      BY <2>1 DEF TypeOK
    <3>2. <<b, rate>>[1] = b /\ <<b, rate>> \in queue'[t]
      BY <3>1
    <3>3. \A s \in queue'[t] : s \in queue[t] \/ s = <<b, rate>>
      BY <3>1
    <3>4. QueuedBlanks(t)' \subseteq QueuedBlanks(t) \union {b}
      BY <3>2, <3>3
    <3>5. b \in QueuedBlanks(t)'
      BY <3>2
    <3>6. QueuedBlanks(t) \subseteq QueuedBlanks(t)'
      BY <3>1
    <3>. QED
      BY <3>1, <3>4, <3>5, <3>6
  <2>3. SaleIsAccounted'
    <3>. SUFFICES ASSUME NEW c \in Blanks, guests'[c] > 0
                  PROVE  \/ \E u \in Tills : c \in QueuedBlanks(u)'
                         \/ booking'[c] \in {"CASH_CONFIRMED", "CANCELLED"}
      BY DEF SaleIsAccounted
    <3>1. c # b => guests[c] > 0
      BY <2>1 DEF TypeOK
    <3>. HIDE DEF QueuedBlanks
    <3>. QED
      BY <2>1, <2>2, <3>1
  <2>4. TillKeepsKey'
    BY <2>1, <2>2 DEF TypeOK
  <2>. QED
    BY <2>1, <2>3, <2>4
<1>6. ASSUME NEW t \in Tills, NEW batch \in SUBSET queue[t], PushSends(t, batch) PROVE AccountInv'
  <2>1. CASE Unauthorized(t)
    BY <1>6, <2>1, DropIsHarmless DEF PushSends, SyncDue
  <2>2. CASE ~Unauthorized(t)
    <3>1. /\ sync' = [sync EXCEPT ![t] = "PUSHING"] /\ pushed' = [pushed EXCEPT ![t] = {key[t]} \X batch]
          /\ UNCHANGED <<booking, queue, guests, device, holder, key, held, owner, reply, judged>>
      BY <1>6, <2>2 DEF PushSends, bookRows, office, store
    <3>2. \A p \in {key[t]} \X batch : p[1] = key[t] /\ p[2] \in queue[t] /\ p[2][1] \in QueuedBlanks(t)
      OBVIOUS
    <3>3. ~OneDevice => \A u \in Tills : \A p \in pushed'[u] : owner[BlankOf(SaleOf(p))] = p[1]
      BY <3>1, <3>2 DEF TypeOK
    <3>. QED
      BY <3>1, <3>3 DEF TypeOK
  <2>. QED
    BY <2>1, <2>2
<1>7. ASSUME NEW t \in Tills, PushAnswered(t) PROVE AccountInv'
  <2>1. /\ queue' = [queue EXCEPT ![t] = {s \in @ : BlankOf(s) \notin judged[t]}]
        /\ sync' = [sync EXCEPT ![t] = "PULL"]
        /\ pushed' = [pushed EXCEPT ![t] = {}] /\ judged' = [judged EXCEPT ![t] = {}]
        /\ UNCHANGED <<booking, guests, device, holder, key, held, owner, reply>>
    BY <1>7 DEF PushAnswered, bookRows, office
  <2>2. \A u \in Tills : \A b \in QueuedBlanks(u) :
          b \in QueuedBlanks(u)' \/ booking[b] \in {"CASH_CONFIRMED", "CANCELLED"}
    <3>. SUFFICES ASSUME NEW u \in Tills, NEW s \in queue[u]
                  PROVE  s[1] \in QueuedBlanks(u)' \/ booking[s[1]] \in {"CASH_CONFIRMED", "CANCELLED"}
      OBVIOUS
    <3>1. s \in queue'[u] \/ s[1] \in judged[u]
      BY <2>1 DEF TypeOK
    <3>. QED
      BY <3>1
  <2>3. \A u \in Tills : QueuedBlanks(u)' \subseteq QueuedBlanks(u)
    <3>1. \A u \in Tills : queue'[u] \subseteq queue[u]
      BY <2>1 DEF TypeOK
    <3>. QED
      BY <3>1
  <2>4. SaleIsAccounted'
    BY <2>1, <2>2
  <2>5. TillKeepsKey'
    BY <2>1, <2>3 DEF TypeOK
  <2>6. JudgedIsRecorded'
    BY <2>1 DEF TypeOK
  <2>. QED
    BY <2>4, <2>5, <2>6
<1>8. ASSUME NEW t \in Tills, PullAsks(t) PROVE AccountInv'
  <2>1. CASE Unauthorized(t)
    BY <1>8, <2>1, DropIsHarmless DEF PullAsks, SyncDue, SyncIsKeyed
  <2>2. CASE ~Unauthorized(t)
    <3>1. /\ \A u \in Tills : u # t => sync'[u] = sync[u] /\ reply'[u] = reply[u]
          /\ sync'[t] = "BOOK" => reply'[t].blanks = {}
          /\ UNCHANGED <<booking, queue, guests, device, holder, key, held, owner, pushed, judged>>
      BY <1>8, <2>2 DEF PullAsks, bookRows, office, store, TypeOK
    <3>. QED
      BY <3>1
  <2>. QED
    BY <2>1, <2>2
<1>9. ASSUME NEW t \in Tills, AppliesBook(t) PROVE AccountInv'
  <2>1. /\ sync[t] = "BOOK" /\ sync' = [sync EXCEPT ![t] = "META"]
        /\ held' = [held EXCEPT ![t] = NewBook(t)] /\ NewBook(t) \subseteq reply[t].blanks
        /\ UNCHANGED <<booking, queue, guests, device, holder, key, owner, reply, pushed, judged>>
    BY <1>9 DEF AppliesBook, NewBook, bookRows, office
  <2>. QED
    BY <2>1 DEF TypeOK
<1>15. ASSUME NEW t \in Tills, SetsMeta(t) PROVE AccountInv'
  <2>1. /\ sync' = [sync EXCEPT ![t] = "IDLE"] /\ \A u \in Tills : u # t => reply'[u] = reply[u]
        /\ UNCHANGED <<booking, queue, guests, device, holder, key, held, owner, pushed, judged>>
    BY <1>15 DEF SetsMeta, bookRows, office
  <2>. QED
    BY <2>1 DEF TypeOK
<1>10. ASSUME NEW t \in Tills, SyncFails(t) PROVE AccountInv'
  BY <1>10 DEF SyncFails, bookRows, office, store, TypeOK
<1>11. ASSUME NEW p \in requests, JudgeSale(p) PROVE AccountInv'
  <2>. DEFINE sold == p[2][1]
  <2>1. p[1] \in Devices /\ sold \in Blanks /\ p[2][2] \in SaleRates /\ booking[sold] # Absent
    BY DEF TypeOK, Pushes, Sales, SalesHaveGuests, BlanksAreIssued
  <2>2. \A c \in Blanks : booking'[c] = booking[c] \/ (booking[c] = "RESERVED" /\ booking'[c] = "CASH_CONFIRMED")
    BY <1>11 DEF JudgeSale, StatusAfter, Activates
  <2>3. owner[sold] = p[1] => booking'[sold] \in {"CASH_CONFIRMED", "CANCELLED"}
    BY <1>11, <2>1 DEF JudgeSale, StatusAfter, Activates, Refuses, KeepsRates, TypeOK
  <2>4. UNCHANGED <<queue, guests, device, holder, key, held, owner, reply, sync, pushed>>
    BY <1>11 DEF JudgeSale, office, store
  <2>5. /\ \A t \in Tills : judged'[t] \subseteq Blanks
        /\ \A t \in Tills : \A c \in judged'[t] : c \in judged[t] \/ (c = sold /\ p \in pushed[t])
    BY <1>11, <2>1 DEF JudgeSale, Hear, TypeOK
  <2>6. \A t \in Tills : p \in pushed[t] => owner[sold] = p[1]
    BY <2>1, OneOwner
  <2>. HIDE DEF sold
  <2>. QED
    BY <2>2, <2>3, <2>4, <2>5, <2>6, StatusIsHarmless
<1>12. ASSUME NEW r \in pulls, AllocateInserts(r) PROVE AccountInv'
  <2>1. PICK new \in SUBSET Fresh : InsertReserved(r.dev, Earliest(r.todo), new)
    BY <1>12 DEF AllocateInserts
  <2>2. UNCHANGED <<queue, guests, device, holder, key, held, reply, sync, pushed, judged>>
    BY <1>12 DEF AllocateInserts, office, store, syncing
  <2>3. \A b \in Blanks : b \notin new => booking'[b] = booking[b] /\ owner'[b] = owner[b]
    BY <2>1 DEF InsertReserved
  <2>4. \A b \in new : booking[b] = Absent /\ ~ (guests[b] > 0)
    BY DEF Fresh, BlanksAreIssued
  <2>5. \A t \in Tills : /\ \A b \in held[t] \union reply[t].blanks \union QueuedBlanks(t) \union judged[t] :
                               b \in Blanks /\ b \notin new
                         /\ \A p \in pushed[t] : BlankOf(SaleOf(p)) \in Blanks /\ BlankOf(SaleOf(p)) \notin new
    BY <2>4 DEF TypeOK, Replies, Sales, Pushes, SalesHaveGuests, BlanksAreIssued
  <2>6. SaleIsAccounted'
    BY <2>2, <2>3, <2>4
  <2>7. TillKeepsKey'
    BY <2>2, <2>3, <2>5
  <2>8. JudgedIsRecorded'
    BY <2>2, <2>3, <2>5
  <2>. QED
    BY <2>6, <2>7, <2>8
<1>13. ASSUME NEW r \in pulls, PullAnswered(r) PROVE AccountInv'
  <2>1. UNCHANGED <<booking, queue, guests, device, holder, key, held, owner, pushed, judged>>
    BY <1>13 DEF PullAnswered, bookRows, office, store
  <2>2. CASE ~r.waited
    BY <1>13, <2>1, <2>2 DEF PullAnswered
  <2>3. CASE r.waited
    <3>1. /\ \A u \in Tills : u # r.till => sync'[u] = sync[u] /\ reply'[u] = reply[u]
          /\ r.till \in Tills /\ reply'[r.till].blanks = LoadBook(r)
          /\ \A b \in LoadBook(r) : owner[b] = key[r.till]
      BY <1>13, <2>3 DEF PullAnswered, LoadBook, SyncIsKeyed, TypeOK, Pulls
    <3>. QED
      BY <2>1, <3>1
  <2>. QED
    BY <2>2, <2>3
<1>14. CASE UNCHANGED <<booking, queue, guests, device, holder, key, held, owner, reply, sync, pushed,
                        judged>>
  BY <1>14
<1>. QED
  BY <1>1, <1>2, <1>3, <1>4, <1>5, <1>6, <1>7, <1>8, <1>9, <1>10, <1>11, <1>12, <1>13, <1>14, <1>15,
     AccountFrame

\* No sale is lost: a ticket handed to a guest is in a queue until the server has
\* recorded the sale, or refused it because the blank was voided, across every
\* failed, half-finished or repeated push.
THEOREM SalesAreAccounted == KeepsDevices /\ KeepsRates => (Spec => []SaleIsAccounted)
<1>. SUFFICES ASSUME KeepsDevices, KeepsRates PROVE Spec => []SaleIsAccounted
  OBVIOUS
<1>1. Init => AccountInv
  BY DEF Init, AccountInv, SaleIsAccounted, TillKeepsKey, JudgedIsRecorded, QueuedBlanks, Enrolled, Absent
<1>2. BookInv /\ AccountInv /\ [Next]_vars => AccountInv'
  BY AccountStep
<1>3. AccountInv => SaleIsAccounted
  BY DEF AccountInv
<1>. QED
  BY <1>1, <1>2, <1>3, BookInvariant, PTL DEF Spec

=============================================================================
