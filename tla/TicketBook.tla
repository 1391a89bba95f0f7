----------------------------- MODULE TicketBook -----------------------------
(***************************************************************************)
(* Ticket books: blanks the server issues in advance to a till, so that    *)
(* the counter can sell while the internet is down.                        *)
(*                                                                         *)
(* Four parties act at their own pace: the till (sales and a sync loop     *)
(* over IndexedDB), the server's two routes (/api/counter/sales and        *)
(* /api/counter/book), the worker that voids yesterday's blanks, and the   *)
(* office (devices, keys, the offline switch, rates).  Guests and the gate *)
(* see only the printed ticket.                                            *)
(*                                                                         *)
(* A Dexie transaction or a database transaction is one action; an await   *)
(* between two of them splits the operation.                               *)
(***************************************************************************)
EXTENDS BookingStatus, Integers, FiniteSets

CONSTANTS
  Tills,     \* browsers, each with an IndexedDB of its own
  Devices,   \* rows of the devices table
  Blanks,    \* booking ids the server can draw
  LastDay,   \* the last business day of a behaviour
  Horizon,   \* BOOK_HORIZON_DAYS
  Target,    \* how many blanks allocateBook keeps per device and day
  PushLimit, \* the queue.limit(100) of a push
  PullLimit, \* how many book requests the server works on at once
  ClockSkew, \* how many days a till's clock may be off
  SaleRates, \* the rates staff sell at
  Reissued,  \* devices whose key the office may rotate
  Retired,   \* devices the office may deactivate
  Switched,  \* whether the office flips the offline switch
  NoKey, NoTill

ASSUME BookAssumption ==
  /\ LastDay \in Nat /\ Horizon \in Nat /\ Target \in Nat /\ PushLimit \in Nat \ {0}
  /\ PullLimit \in Nat \ {0}
  /\ ClockSkew \in Nat
  /\ SaleRates \subseteq {"STANDARD", "CATEGORY"}
  /\ Reissued \subseteq Devices /\ Retired \subseteq Devices /\ Switched \in BOOLEAN
  /\ NoKey \notin Devices /\ NoTill \notin Tills
  /\ IsFiniteSet(Blanks)

Days == 0 .. LastDay
NoDay == -1

VARIABLES
  \* Postgres
  booking,  \* bookings.status
  ticket,   \* tickets.status
  visitDay, \* bookings.visit_date
  owner,    \* bookings.reserved_device_id
  device,   \* devices.active
  holder,   \* which browser has the key whose hash is in devices.api_key_hash
  selling,  \* park_settings.offline_selling_enabled
  category, \* rate_categories.active of the category staff use
  \* the server and its worker
  today,    \* businessDate()
  requests, \* pushed sales the sales route has yet to judge
  pulls,    \* requests the book route is working on
  stale,    \* rows expireStaleBlanks has selected and not yet handled
  \* the tills
  key,      \* localStorage: the device whose key the till uses
  held,     \* blanks
  queue,    \* sales waiting to be pushed
  metaDay,  \* meta.visitDate
  metaOff,  \* meta.offlineSelling = false
  resolved, \* sales under way: the day counterState() gave them
  sync,     \* where runCounterSync is
  pushed,   \* the sales in the request it waits for
  judged,   \* of these, the ones the server gave a verdict on
  reply,    \* the book it received
  \* the park
  guests    \* how many groups were handed the ticket

bookRows == <<booking, ticket, visitDay, owner>>
office == <<device, holder, selling, category>>
server == <<today, requests, pulls, stale>>
store == <<held, queue, metaDay, metaOff>>
syncing == <<sync, pushed, judged, reply>>
vars == <<bookRows, office, server, key, store, resolved, syncing, guests>>

\* A queued sale, and one in a request that some device authenticated.
Sales == Blanks \X SaleRates
Pushes == Devices \X Sales
SaleOf(p) == p[2]
BlankOf(s) == s[1]

\* A book request: which of those at work, whose, its businessDate(), the days it
\* has yet to stock, what is missing on the next of them, and whether the till
\* still waits for it.
Uncounted == -1
Pulls == [no : 1 .. PullLimit, till : Tills, dev : Devices, day : Days, todo : SUBSET Days,
          missing : {Uncounted} \union (0 .. Target), waited : BOOLEAN]

Replies == [day : Days \union {NoDay}, off : BOOLEAN, blanks : SUBSET Blanks]
NoReply == [day |-> NoDay, off |-> FALSE, blanks |-> {}]

TypeOK ==
  /\ booking \in [Blanks -> {Absent, "RESERVED", "CASH_CONFIRMED", "CANCELLED"}]
  /\ ticket \in [Blanks -> TicketStatuses \union {Absent}]
  /\ visitDay \in [Blanks -> Days \union {NoDay}]
  /\ owner \in [Blanks -> Devices \union {NoKey}]
  /\ device \in [Devices -> {Absent, "ACTIVE", "INACTIVE"}]
  /\ holder \in [Devices -> Tills \union {NoTill}]
  /\ selling \in BOOLEAN /\ category \in BOOLEAN
  /\ today \in Days
  /\ requests \subseteq Pushes
  /\ pulls \subseteq Pulls
  /\ stale \subseteq Blanks
  /\ key \in [Tills -> Devices \union {NoKey}]
  /\ held \in [Tills -> SUBSET Blanks]
  /\ queue \in [Tills -> SUBSET Sales]
  /\ metaDay \in [Tills -> Days \union {NoDay}]
  /\ metaOff \in [Tills -> BOOLEAN]
  /\ resolved \in [Tills -> SUBSET Days]
  /\ sync \in [Tills -> {"IDLE", "PUSHING", "PULL", "ASKED", "BOOK", "META"}]
  /\ pushed \in [Tills -> SUBSET Pushes]
  /\ judged \in [Tills -> SUBSET Blanks]
  /\ reply \in [Tills -> Replies]
  /\ guests \in [Blanks -> 0 .. 2]

Init ==
  /\ booking = [b \in Blanks |-> Absent]
  /\ ticket = [b \in Blanks |-> Absent]
  /\ visitDay = [b \in Blanks |-> NoDay]
  /\ owner = [b \in Blanks |-> NoKey]
  /\ device = [d \in Devices |-> Absent]
  /\ holder = [d \in Devices |-> NoTill]
  /\ selling = TRUE /\ category = TRUE
  /\ today = 0
  /\ requests = {} /\ pulls = {} /\ stale = {}
  /\ key = [t \in Tills |-> NoKey]
  /\ held = [t \in Tills |-> {}]
  /\ queue = [t \in Tills |-> {}]
  /\ metaDay = [t \in Tills |-> NoDay]
  /\ metaOff = [t \in Tills |-> FALSE]
  /\ resolved = [t \in Tills |-> {}]
  /\ sync = [t \in Tills |-> "IDLE"]
  /\ pushed = [t \in Tills |-> {}]
  /\ judged = [t \in Tills |-> {}]
  /\ reply = [t \in Tills |-> NoReply]
  /\ guests = [b \in Blanks |-> 0]

-----------------------------------------------------------------------------
(* The office.                                                             *)

RegisterDevice(d) ==
  /\ device[d] = Absent
  /\ device' = [device EXCEPT ![d] = "ACTIVE"]
  /\ UNCHANGED <<holder, selling, category, bookRows, server, key, store, resolved, syncing, guests>>

\* The devices page lists every registered device, with its two buttons.
Listed(d) == device[d] # Absent

\* The raw key is shown once, by the page or by "Set up this till", which
\* registers the device too.
KeyOnHand(d) == Listed(d) /\ holder[d] = NoTill

\* localStorage has the key of an enrolled till.
Enrolled(t) == key[t] # NoKey

\* The key goes into one browser's localStorage.
EnterKey(t, d) ==
  /\ ~Enrolled(t) /\ KeyOnHand(d)
  /\ key' = [key EXCEPT ![t] = d]
  /\ holder' = [holder EXCEPT ![d] = t]
  /\ UNCHANGED <<device, selling, category, bookRows, server, store, resolved, syncing, guests>>

\* "The previous key stops working immediately."
RotateKey(d) ==
  /\ d \in Reissued
  /\ holder[d] # NoTill
  /\ holder' = [holder EXCEPT ![d] = NoTill]
  /\ UNCHANGED <<device, selling, category, bookRows, server, key, store, resolved, syncing, guests>>

SetDeviceActive(d) ==
  /\ d \in Retired /\ Listed(d)
  /\ device' = [device EXCEPT ![d] = IF @ = "ACTIVE" THEN "INACTIVE" ELSE "ACTIVE"]
  /\ UNCHANGED <<holder, selling, category, bookRows, server, key, store, resolved, syncing, guests>>

SetOfflineSelling ==
  /\ Switched
  /\ selling' = ~selling
  /\ UNCHANGED <<device, holder, category, bookRows, server, key, store, resolved, syncing, guests>>

SetCategoryActive ==
  /\ "CATEGORY" \in SaleRates
  /\ category' = ~category
  /\ UNCHANGED <<device, holder, selling, bookRows, server, key, store, resolved, syncing, guests>>

\* The booking page offers the office to cancel a sale, not a blank.
Cancellable(b) == booking[b] = "CASH_CONFIRMED"

\* cancelBooking.
CancelSale(b) ==
  /\ Cancellable(b)
  /\ booking' = [booking EXCEPT ![b] = "CANCELLED"]
  /\ ticket' = [ticket EXCEPT ![b] = Deactivate(@, "CANCELLED")]
  /\ UNCHANGED <<visitDay, owner, office, server, key, store, resolved, syncing, guests>>

-----------------------------------------------------------------------------
(* Selling from the book: counterState(), then claimBlank().               *)

HeldDays(t) == {visitDay[b] : b \in held[t]}

\* Mutant: the till sells for the day of its last sync.
ParkDayOfSync(t, now) == IF metaOff[t] THEN NoDay ELSE metaDay[t]

\* resolveParkDay: the synced day, or a later one the book holds blanks for.
ParkDay(t, now) ==
  IF metaDay[t] # NoDay /\ ~metaOff[t]
     /\ (now = metaDay[t] \/ (now > metaDay[t] /\ now \in HeldDays(t)))
  THEN now ELSE NoDay

\* What it reads may be out of date by the time the sale goes on.
SellResolves(t, now) ==
  /\ Enrolled(t)
  /\ today - ClockSkew <= now /\ now <= today + ClockSkew
  /\ ParkDay(t, now) # NoDay
  /\ resolved' = [resolved EXCEPT ![t] = @ \union {ParkDay(t, now)}]
  /\ UNCHANGED <<bookRows, office, server, key, store, syncing, guests>>

\* claimBlank, one Dexie transaction: out of the book, into the queue.
ClaimBlank(t, b, rate) ==
  /\ b \in held[t]
  /\ held' = [held EXCEPT ![t] = @ \ {b}]
  /\ queue' = [queue EXCEPT ![t] = @ \union {<<b, rate>>}]

\* The sale goes on with the day it resolved, and the ticket is handed over.
SellClaims(t, b, rate) ==
  /\ visitDay[b] \in resolved[t]
  /\ guests[b] < 2
  /\ ClaimBlank(t, b, rate)
  /\ resolved' = [resolved EXCEPT ![t] = @ \ {visitDay[b]}]
  /\ guests' = [guests EXCEPT ![b] = @ + 1]
  /\ UNCHANGED <<bookRows, office, server, key, metaDay, metaOff, syncing>>

-----------------------------------------------------------------------------
(* runCounterSync: push, then pull.  One sync per browser (a Web Lock).    *)

Authenticated(t) ==
  Enrolled(t) /\ device[key[t]] = "ACTIVE" /\ holder[key[t]] = t

\* The loop of useOfflineCounter: every minute, and when the link returns.
SyncDue(t) == sync[t] = "IDLE" /\ Enrolled(t)

\* A 401: the till forgets its key, and keeps its book and its queue.
Unauthorized(t) ==
  /\ ~Authenticated(t)
  /\ key' = [key EXCEPT ![t] = NoKey]
  /\ sync' = [sync EXCEPT ![t] = "IDLE"]
  /\ UNCHANGED <<bookRows, office, server, store, resolved, pushed, judged, reply, guests>>

\* The queue, or its first hundred, goes to the sales route.
PushSends(t, batch) ==
  /\ SyncDue(t)
  /\ batch # {} /\ batch \subseteq queue[t]
  /\ Cardinality(batch) <= PushLimit
  /\ batch = queue[t] \/ Cardinality(batch) = PushLimit
  /\ \/ Unauthorized(t)
     \/ /\ Authenticated(t)
        /\ sync' = [sync EXCEPT ![t] = "PUSHING"]
        /\ pushed' = [pushed EXCEPT ![t] = {key[t]} \X batch]
        /\ requests' = requests \union ({key[t]} \X batch)
        /\ UNCHANGED <<bookRows, office, today, pulls, stale, key, store, resolved, judged, reply, guests>>

\* activateReservedBooking: what it refuses for good, and what it changes.
Refuses(d, s) ==
  \/ owner[BlankOf(s)] # d
  \/ booking[BlankOf(s)] \notin {"RESERVED", "CASH_CONFIRMED"}
  \/ booking[BlankOf(s)] = "RESERVED" /\ s[2] = "CATEGORY" /\ ~category

Activates(d, s) == booking[BlankOf(s)] = "RESERVED" /\ ~Refuses(d, s)

\* Mutant: the status an online sale would get.
StatusAfterOnline(p) ==
  IF Activates(p[1], SaleOf(p)) THEN "PAID" ELSE booking[BlankOf(SaleOf(p))]

StatusAfter(p) ==
  IF Activates(p[1], SaleOf(p)) THEN "CASH_CONFIRMED" ELSE booking[BlankOf(SaleOf(p))]

\* Mutant: a sale that was accepted before gets no answer.
HearNewOnly(p) ==
  [t \in Tills |-> IF p \in pushed[t] /\ Activates(p[1], SaleOf(p))
                  THEN judged[t] \union {BlankOf(SaleOf(p))} ELSE judged[t]]

\* The verdict reaches whoever still waits for it.  "Accepted", "already
\* accepted" and "refused" all make the till forget the sale.
Hear(p) ==
  [t \in Tills |-> IF p \in pushed[t] THEN judged[t] \union {BlankOf(SaleOf(p))} ELSE judged[t]]

JudgeSale(p) ==
  /\ p \in requests
  /\ requests' = requests \ {p}
  /\ booking' = [booking EXCEPT ![BlankOf(SaleOf(p))] = StatusAfter(p)]
  /\ judged' = Hear(p)
  /\ UNCHANGED <<ticket, visitDay, owner, office, today, pulls, stale, key, store, resolved,
                 sync, pushed, reply, guests>>

\* An error that is not a DomainError: no verdict, "keep it queued".
JudgeFails(p) ==
  /\ p \in requests
  /\ requests' = requests \ {p}
  /\ UNCHANGED <<bookRows, office, today, pulls, stale, key, store, resolved, syncing, guests>>

\* Mutant: whatever was sent is forgotten.
PushAnsweredForgets(t) ==
  /\ sync[t] = "PUSHING"
  /\ pushed[t] \intersect requests = {}
  /\ queue' = [queue EXCEPT ![t] = {s \in @ : \A p \in pushed[t] : s # SaleOf(p)}]
  /\ sync' = [sync EXCEPT ![t] = "PULL"]
  /\ pushed' = [pushed EXCEPT ![t] = {}]
  /\ judged' = [judged EXCEPT ![t] = {}]
  /\ UNCHANGED <<bookRows, office, server, key, held, metaDay, metaOff, resolved, reply, guests>>

PushAnswered(t) ==
  /\ sync[t] = "PUSHING"
  /\ pushed[t] \intersect requests = {}
  /\ queue' = [queue EXCEPT ![t] = {s \in @ : BlankOf(s) \notin judged[t]}]
  /\ sync' = [sync EXCEPT ![t] = "PULL"]
  /\ pushed' = [pushed EXCEPT ![t] = {}]
  /\ judged' = [judged EXCEPT ![t] = {}]
  /\ UNCHANGED <<bookRows, office, server, key, held, metaDay, metaOff, resolved, reply, guests>>

\* The till gives up (no network, a timeout, a reload).  The server goes on with
\* what it has received.
Abandoned(t) == {[r EXCEPT !.waited = @ /\ r.till # t] : r \in pulls}

SyncFails(t) ==
  /\ sync[t] # "IDLE"
  /\ sync' = [sync EXCEPT ![t] = "IDLE"]
  /\ pushed' = [pushed EXCEPT ![t] = {}]
  /\ judged' = [judged EXCEPT ![t] = {}]
  /\ reply' = [reply EXCEPT ![t] = NoReply]
  /\ pulls' = Abandoned(t)
  /\ UNCHANGED <<bookRows, office, today, requests, stale, key, store, resolved, guests>>

BookDays == {day \in Days : today <= day /\ day <= today + Horizon}

\* The book route: empty while offline selling is switched off.
PullAsks(t) ==
  /\ sync[t] = "PULL" \/ (SyncDue(t) /\ queue[t] = {})
  /\ \/ Unauthorized(t)
     \/ /\ Authenticated(t) /\ ~selling
        /\ reply' = [reply EXCEPT ![t] = [day |-> today, off |-> TRUE, blanks |-> {}]]
        /\ sync' = [sync EXCEPT ![t] = "BOOK"]
        /\ UNCHANGED <<bookRows, office, server, key, store, resolved, pushed, judged, guests>>
     \/ /\ Authenticated(t) /\ selling
        /\ \E no \in 1 .. PullLimit \ {r.no : r \in pulls} :
             pulls' = pulls \union
               {[no |-> no, till |-> t, dev |-> key[t], day |-> today, todo |-> BookDays,
                 missing |-> Uncounted, waited |-> TRUE]}
        /\ sync' = [sync EXCEPT ![t] = "ASKED"]
        /\ UNCHANGED <<bookRows, office, today, requests, stale, key, store, resolved,
                       pushed, judged, reply, guests>>

\* allocateBook, for one day after the other: a transaction that counts what the
\* device has unsold, without a lock, ...
Unsold(d, day) == {b \in Blanks : owner[b] = d /\ booking[b] = "RESERVED" /\ visitDay[b] = day}
Fresh == {b \in Blanks : booking[b] = Absent}

\* Mutant: the blanks already held are not counted.
MissingAll(d, day) == Target

Missing(d, day) ==
  IF Cardinality(Unsold(d, day)) > Target THEN 0 ELSE Target - Cardinality(Unsold(d, day))

Earliest(days) == CHOOSE day \in days : \A other \in days : day <= other

AllocateCounts(r) ==
  /\ r \in pulls /\ r.todo # {} /\ r.missing = Uncounted
  /\ pulls' = (pulls \ {r}) \union {[r EXCEPT !.missing = Missing(r.dev, Earliest(r.todo))]}
  /\ UNCHANGED <<bookRows, office, today, requests, stale, key, store, resolved, syncing, guests>>

\* Mutant: blanks are issued as confirmed sales.
InsertConfirmed(d, day, new) ==
  /\ booking' = [b \in Blanks |-> IF b \in new THEN "CASH_CONFIRMED" ELSE booking[b]]
  /\ ticket' = [b \in Blanks |-> IF b \in new THEN Issue(ticket[b]) ELSE ticket[b]]
  /\ visitDay' = [b \in Blanks |-> IF b \in new THEN day ELSE visitDay[b]]
  /\ owner' = [b \in Blanks |-> IF b \in new THEN d ELSE owner[b]]

\* A blank is an ordinary RESERVED booking with an ACTIVE ticket.
InsertReserved(d, day, new) ==
  /\ booking' = [b \in Blanks |-> IF b \in new THEN "RESERVED" ELSE booking[b]]
  /\ ticket' = [b \in Blanks |-> IF b \in new THEN Issue(ticket[b]) ELSE ticket[b]]
  /\ visitDay' = [b \in Blanks |-> IF b \in new THEN day ELSE visitDay[b]]
  /\ owner' = [b \in Blanks |-> IF b \in new THEN d ELSE owner[b]]

\* ... and inserts what was missing when it looked.  The pool of ids may run out.
AllocateInserts(r) ==
  /\ r \in pulls /\ r.missing # Uncounted
  /\ \E new \in SUBSET Fresh :
       /\ Cardinality(new) = r.missing \/ (Cardinality(new) < r.missing /\ new = Fresh)
       /\ InsertReserved(r.dev, Earliest(r.todo), new)
  /\ pulls' = (pulls \ {r}) \union
       {[r EXCEPT !.missing = Uncounted, !.todo = @ \ {Earliest(@)}]}
  /\ UNCHANGED <<office, today, requests, stale, key, store, resolved, syncing, guests>>

\* The book in the answer: what is unsold now, for the days of the request.
LoadBook(r) ==
  {b \in Blanks : /\ owner[b] = r.dev /\ booking[b] = "RESERVED" /\ ticket[b] = "ACTIVE"
                  /\ r.day <= visitDay[b] /\ visitDay[b] <= r.day + Horizon}

PullAnswered(r) ==
  /\ r \in pulls /\ r.todo = {}
  /\ pulls' = pulls \ {r}
  /\ \/ /\ r.waited
        /\ reply' = [reply EXCEPT ![r.till] =
                       [day |-> r.day, off |-> FALSE, blanks |-> LoadBook(r)]]
        /\ sync' = [sync EXCEPT ![r.till] = "BOOK"]
     \/ ~r.waited /\ UNCHANGED <<reply, sync>>
  /\ UNCHANGED <<bookRows, office, today, requests, stale, key, store, resolved,
                 pushed, judged, guests>>

\* A 500, or the end of the server process: what is committed stays.
PullDies(r) ==
  /\ r \in pulls /\ ~r.waited
  /\ pulls' = pulls \ {r}
  /\ UNCHANGED <<bookRows, office, today, requests, stale, key, store, resolved, syncing, guests>>

QueuedBlanks(t) == {BlankOf(s) : s \in queue[t]}

\* Mutant: applyBook takes the server's word for what is unsold.
NewBookRaw(t) == reply[t].blanks

\* applyBook: what is queued as sold is kept out.
NewBook(t) == reply[t].blanks \ QueuedBlanks(t)

AppliesBook(t) ==
  /\ sync[t] = "BOOK"
  /\ held' = [held EXCEPT ![t] = NewBook(t)]
  /\ sync' = [sync EXCEPT ![t] = "META"]
  /\ UNCHANGED <<bookRows, office, server, key, queue, metaDay, metaOff, resolved,
                 pushed, judged, reply, guests>>

SetsMeta(t) ==
  /\ sync[t] = "META"
  /\ metaDay' = [metaDay EXCEPT ![t] = reply[t].day]
  /\ metaOff' = [metaOff EXCEPT ![t] = reply[t].off]
  /\ sync' = [sync EXCEPT ![t] = "IDLE"]
  /\ reply' = [reply EXCEPT ![t] = NoReply]
  /\ UNCHANGED <<bookRows, office, server, key, held, queue, resolved, pushed, judged, guests>>

-----------------------------------------------------------------------------
(* The day turns; the worker voids what was not sold; the gate.            *)

NewDay ==
  /\ today < LastDay
  /\ today' = today + 1
  /\ UNCHANGED <<bookRows, office, requests, pulls, stale, key, store, resolved, syncing, guests>>

\* Mutants: today's blanks are stale too; yesterday's are not yet.
StaleBlanksToday == {b \in Blanks : booking[b] = "RESERVED" /\ visitDay[b] <= today}
StaleBlanksLate == {b \in Blanks : booking[b] = "RESERVED" /\ visitDay[b] < today - 1}

StaleBlanks == {b \in Blanks : booking[b] = "RESERVED" /\ visitDay[b] < today}

\* expireStaleBlanks: one SELECT without locks ...
ExpirySelects ==
  /\ stale = {} /\ StaleBlanks # {}
  /\ stale' = StaleBlanks
  /\ UNCHANGED <<bookRows, office, today, requests, pulls, key, store, resolved, syncing, guests>>

\* ... then a transaction per row, which trusts it.
ExpiresBlank(b) ==
  /\ b \in stale
  /\ stale' = stale \ {b}
  /\ MayBecome(booking[b], "CANCELLED")
  /\ booking' = [booking EXCEPT ![b] = "CANCELLED"]
  /\ ticket' = [ticket EXCEPT ![b] = Deactivate(@, "EXPIRED")]
  /\ UNCHANGED <<visitDay, owner, office, today, requests, pulls, key, store, resolved, syncing, guests>>

WorkerDies ==
  /\ stale # {}
  /\ stale' = {}
  /\ UNCHANGED <<bookRows, office, today, requests, pulls, key, store, resolved, syncing, guests>>

\* The gate asks for an ACTIVE ticket of the day, and not for a sale.
Board(b) ==
  /\ ticket[b] = "ACTIVE" /\ visitDay[b] = today
  /\ ticket' = [ticket EXCEPT ![b] = "USED"]
  /\ UNCHANGED <<booking, visitDay, owner, office, server, key, store, resolved, syncing, guests>>

-----------------------------------------------------------------------------
Office ==
  \/ \E d \in Devices : RegisterDevice(d) \/ RotateKey(d) \/ SetDeviceActive(d)
  \/ \E t \in Tills, d \in Devices : EnterKey(t, d)
  \/ SetOfflineSelling \/ SetCategoryActive
  \/ \E b \in Blanks : CancelSale(b)

Sync(t) ==
  \/ \E batch \in SUBSET queue[t] : PushSends(t, batch)
  \/ PushAnswered(t) \/ PullAsks(t) \/ AppliesBook(t) \/ SetsMeta(t) \/ SyncFails(t)

Till(t) ==
  \/ \E now \in Days : SellResolves(t, now)
  \/ \E b \in Blanks, rate \in SaleRates : SellClaims(t, b, rate)
  \/ Sync(t)

Next ==
  \/ Office
  \/ \E t \in Tills : Till(t)
  \/ \E p \in requests : JudgeSale(p) \/ JudgeFails(p)
  \/ \E r \in pulls : AllocateCounts(r) \/ AllocateInserts(r) \/ PullAnswered(r) \/ PullDies(r)
  \/ NewDay \/ ExpirySelects \/ WorkerDies
  \/ \E b \in Blanks : ExpiresBlank(b) \/ Board(b)

Spec == Init /\ [][Next]_vars

-----------------------------------------------------------------------------
(* Fairness.                                                               *)

\* The worker runs every two minutes; a row it dies on is selected again.
WorkerFairness ==
  /\ WF_vars(ExpirySelects)
  /\ \A b \in Blanks : SF_vars(ExpiresBlank(b))

\* The till syncs every minute, the link comes back again and again, and not
\* every request ends in an error or loses its answer.
SyncFairness ==
  \A t \in Tills :
    /\ SF_vars(\E batch \in SUBSET queue[t] : PushSends(t, batch))
    /\ SF_vars(\E p \in pushed[t] : JudgeSale(p))
    /\ SF_vars(judged[t] # {} /\ PushAnswered(t))
    /\ WF_vars(AppliesBook(t) \/ SetsMeta(t) \/ SyncFails(t))

LiveSpec == Spec /\ WorkerFairness /\ SyncFairness

-----------------------------------------------------------------------------
(* Safety.                                                                 *)

\* A ticket is handed to one group only: claimBlank takes the blank out of the
\* book in the transaction that queues its sale, and applyBook keeps a queued
\* blank out of the new book, "re-adding them would let the same blank be
\* handed to a second guest".
NoBlankSoldTwice == \A b \in Blanks : guests[b] <= 1

\* No sale is lost: a ticket handed to a guest is in the queue of some till
\* until the server has recorded its sale (or refuses it as voided), across
\* every failed, half-finished or repeated push.
SaleIsAccounted ==
  \A b \in Blanks :
    guests[b] > 0 =>
      \/ \E t \in Tills : b \in QueuedBlanks(t)
      \/ booking[b] \in {"CASH_CONFIRMED", "CANCELLED"}

\* The server records no sale nobody made, whatever is pushed, and by whom.
SaleHasGuest ==
  \A b \in Blanks : booking[b] = "CASH_CONFIRMED" => guests[b] > 0

\* What bounds the exposure of a book ("books are small"): however often a device
\* syncs, or pulls and fails half way, it never has more unsold blanks for one day
\* than the target for each request the server works on at once.  Requests count
\* before they insert and nothing locks what they count, so several may add to one
\* book; one that comes later adds nothing to what they left.
BookIsBounded ==
  \A d \in Devices, day \in Days : Cardinality(Unsold(d, day)) <= PullLimit * Target

\* A guest who holds a ticket of today or a later day gets in with it, once,
\* unless an administrator cancelled the sale: no rollover, switch or
\* deactivation takes it away ("Voiding mid-day would invalidate a ticket a
\* guest is already holding and has already paid for").
GuestGetsIn ==
  \A b \in Blanks :
    guests[b] > 0 /\ today <= visitDay[b] =>
      ticket[b] \in {"ACTIVE", "USED"} \/ (booking[b] = "CANCELLED" /\ ticket[b] = "CANCELLED")

\* A till that has been offline for however long, its clock wrong by ClockSkew,
\* starts no sale for a day before that of its last sync, or further in the past
\* than its clock is off (resolveParkDay); and hands over no ticket of a day further
\* ahead than that, though the day may turn, or a sync come through, while the
\* sale is under way.
SaleFollowsClock ==
  [][/\ \A t \in Tills : \A d \in resolved'[t] \ resolved[t] :
          metaDay[t] <= d /\ today - ClockSkew <= d
     /\ \A b \in Blanks : guests'[b] > guests[b] => visitDay[b] <= today + ClockSkew]_vars

-----------------------------------------------------------------------------
(* Liveness.                                                               *)

\* "An unsold ticket can never be carried into another day": a blank whose day
\* is over leaves RESERVED, however often the worker dies.
StaleBlanksExpire ==
  \A b \in Blanks :
    booking[b] = "RESERVED" /\ visitDay[b] < today ~> booking[b] # "RESERVED"

\* A queued sale reaches a verdict and leaves the queue, if the till can sync.
QueueDrains ==
  \A t \in Tills, b \in Blanks :
    b \in QueuedBlanks(t) ~> b \notin QueuedBlanks(t)

-----------------------------------------------------------------------------
(* What comments and documents say, and the code does not do.              *)

\* reserve.ts: "Safe to call on every counter load: a device that is already
\* stocked gets nothing new".
StockedGetsNothingNew ==
  \A d \in Devices, day \in Days : Cardinality(Unsold(d, day)) <= Target

\* reserve.ts: "A late push of a genuine sale ... is also perfectly legitimate";
\* refusing it "would delete the only record that the sale happened".
LateSaleIsNotRefused ==
  [][\A t \in Tills : \A b \in judged'[t] \ judged[t] : ticket[b] # "EXPIRED"]_vars

\* reserve.ts: expireStaleBlanks voids "an unsold ticket".
ExpirySparesSales ==
  [][\A b \in Blanks :
       booking[b] = "CASH_CONFIRMED" /\ ticket[b] = "ACTIVE" => ticket'[b] # "EXPIRED"]_vars

\* issue.ts: deactivating the device "voids everything it still holds unsold".
RetiredDeviceHoldsNothing ==
  \A b \in Blanks :
    booking[b] = "RESERVED" /\ ticket[b] = "ACTIVE" => device[owner[b]] # "INACTIVE"

\* bookDiscrepancies: boarded, and "never reconciled into a sale".
Discrepancy(b) == ticket[b] = "USED" /\ booking[b] = "RESERVED"

\* issue.ts: "a reserved ticket boarded with no matching sale is reported daily".
DiscrepancyStaysReported ==
  [][\A b \in Blanks :
       Discrepancy(b) => Discrepancy(b)' \/ booking'[b] = "CASH_CONFIRMED"]_vars

=============================================================================
