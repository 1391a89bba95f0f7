------------------------------ MODULE GateSync ------------------------------
(***************************************************************************)
(* The gate scanner: a cache of the day's tickets in IndexedDB, kept up to *)
(* date by paged syncs, and boardings recorded on the device and pushed    *)
(* when the link allows.                                                   *)
(*                                                                         *)
(* One scanner is modelled in full.  Everybody else (the shop, the office, *)
(* another gate) appears as transactions on tickets, which take their      *)
(* change_log id when they write and show it when they commit.             *)
(*                                                                         *)
(* A sync pushes and pulls side by side, while the operator scans: a Dexie *)
(* transaction, a database transaction or one page query is one action.    *)
(***************************************************************************)
EXTENDS BookingStatus, Integers, FiniteSets

CONSTANTS
  NTickets,    \* tickets, in the order of their ids
  Late,        \* tickets issued during the behaviour
  Tomorrow,    \* tickets for day 1
  Elsewhere,   \* bound: tickets that others issue, use or cancel
  LastDay,     \* the last business day of a behaviour
  LastTick,    \* bound: how far the server's clock runs
  PageSize,    \* SYNC_PAGE_SIZE
  Overlap,     \* OVERLAP_SECONDS, in ticks
  CursorLimit, \* how long a cursor is good for, in ticks
  TxLimit,     \* how long a transaction stays open, in ticks
  LookupLimit, \* the timeout of a lookup, in ticks
  Shown        \* bound: tickets shown to this scanner

ASSUME GateAssumption ==
  /\ NTickets \in Nat /\ PageSize \in Nat \ {0}
  /\ LastDay \in Nat /\ LastTick \in Nat
  /\ Overlap \in Nat /\ CursorLimit \in Nat /\ TxLimit \in Nat /\ LookupLimit \in Nat
  /\ Tomorrow \subseteq 1 .. NTickets
  /\ Late \subseteq Elsewhere /\ Elsewhere \subseteq 1 .. NTickets
  /\ Shown \subseteq 1 .. NTickets

Tickets == 1 .. NTickets
Days == 0 .. LastDay
NoDay == -1
VisitDay(t) == IF t \in Tomorrow THEN 1 ELSE 0

VARIABLES
  \* Postgres
  status,   \* tickets.status, as committed
  open,     \* the open transaction on a ticket (it holds the row's lock)
  log,      \* change_log, as committed
  seq,      \* the sequence behind change_log.id
  boarded,  \* boarding_events
  clock,    \* the server's time
  today,    \* businessDate()
  requests, \* pushed events the events route has yet to judge
  \* the scanner's IndexedDB
  cache,    \* tickets
  staging,  \* staging
  queue,    \* boardings waiting to be pushed
  meta,     \* version, lastSyncAt and visitDate of the last completed sync
  \* the scanner app
  pull,     \* where pullManifest is, and the page it holds
  push,     \* where pushQueue is
  sent,     \* the events in the request it waits for
  judged,   \* of these, the ones the server gave a verdict on
  look,     \* a lookup's answer on its way
  screen,   \* the ticket shown as VALID
  admitted, \* how many groups the operator let in with a ticket
  \* history
  asked     \* whether a lookup stored the ticket's row, and a manifest lost it again

serverRows == <<status, open, log, seq, boarded>>
time == <<clock, today>>
pulling == <<staging, meta, pull>>
pushing == <<push, sent, judged>>
scanning == <<look, screen, admitted>>
vars == <<serverRows, time, requests, cache, queue, pulling, pushing, scanning, asked>>

Missing == "MISSING"
NoTicket == 0
NoTx == [id |-> 0, at |-> 0, to |-> Absent]
NoLook == [ticket |-> NoTicket, at |-> 0]
NoRows == [t \in {} |-> Absent]
NoPull == [phase |-> "IDLE", first |-> TRUE, full |-> FALSE, day |-> NoDay, since |-> 0,
           version |-> 0, startedAt |-> 0, overlapFrom |-> 0, after |-> NoTicket, rows |-> NoRows,
           more |-> FALSE]
NeverSynced == [version |-> 0, syncedAt |-> 0, day |-> NoDay]

\* A boarding, by its clientEventId: the scanner's n-th admission with ticket t.
\* Bound: MaxAdmissions, one more than is right.
MaxAdmissions == 2
Events == Tickets \X (1 .. MaxAdmissions)
TicketOf(e) == e[1]

Times == (-Overlap) .. LastTick
Ids == Nat
Rows == UNION {[S -> TicketStatuses] : S \in SUBSET Tickets}

TypeOK ==
  /\ status \in [Tickets -> TicketStatuses \union {Absent}]
  /\ open \in [Tickets -> [id : Ids, at : Times, to : TicketStatuses \union {Absent}]]
  /\ log \subseteq [id : Ids, ticket : Tickets, at : Times]
  /\ seq \in Ids
  /\ boarded \subseteq Events /\ requests \subseteq Events /\ queue \subseteq Events
  /\ sent \subseteq Events /\ judged \subseteq Events
  /\ clock \in 0 .. LastTick /\ today \in Days
  /\ cache \in [Tickets -> TicketStatuses \union {Missing}]
  /\ staging \in [Tickets -> TicketStatuses \union {Missing}]
  /\ meta \in [version : Ids, syncedAt : Times, day : Days \union {NoDay}]
  /\ pull \in [phase : {"IDLE", "ASK", "READ", "PAGE", "DONE"}, first : BOOLEAN, full : BOOLEAN,
               day : Days \union {NoDay}, since : Ids, version : Ids, startedAt : Times,
               overlapFrom : Times, after : Tickets \union {NoTicket}, rows : Rows, more : BOOLEAN]
  /\ push \in {"IDLE", "WALK", "SENT"}
  /\ look \in [ticket : Tickets \union {NoTicket}, at : Times]
  /\ screen \in Tickets \union {NoTicket}
  /\ admitted \in [Tickets -> 0 .. MaxAdmissions]
  /\ asked \in [Tickets -> {"NEVER", "STORED", "LOST"}]

\* Tickets that were sold long ago, and a scanner that was never used.
Init ==
  /\ status = [t \in Tickets |-> IF t \in Late THEN Absent ELSE "ACTIVE"]
  /\ open = [t \in Tickets |-> NoTx]
  /\ log = {[id |-> t, ticket |-> t, at |-> -Overlap] : t \in Tickets \ Late}
  /\ seq = NTickets
  /\ boarded = {} /\ clock = 0 /\ today = 0 /\ requests = {}
  /\ cache = [t \in Tickets |-> Missing]
  /\ staging = [t \in Tickets |-> Missing]
  /\ queue = {} /\ meta = NeverSynced
  /\ pull = NoPull /\ push = "IDLE" /\ sent = {} /\ judged = {}
  /\ look = NoLook /\ screen = NoTicket
  /\ admitted = [t \in Tickets |-> 0] /\ asked = [t \in Tickets |-> "NEVER"]

-----------------------------------------------------------------------------
(* Everybody else: transactions that issue, use or cancel a ticket.        *)

\* The row is locked, the change_log row inserted: its id is drawn, its
\* created_at is the start of the transaction.
TxWrites(t, to) ==
  /\ t \in Elsewhere /\ open[t] = NoTx
  /\ \/ status[t] = Absent /\ to = "ACTIVE"
     \/ status[t] = "ACTIVE" /\ to \in {"USED", "CANCELLED"}
  /\ seq' = seq + 1
  /\ open' = [open EXCEPT ![t] = [id |-> seq', at |-> clock, to |-> to]]
  /\ UNCHANGED <<status, log, boarded, time, requests, cache, queue, pulling, pushing, scanning, asked>>

TxCommits(t) ==
  /\ open[t] # NoTx
  /\ status' = [status EXCEPT ![t] = open[t].to]
  /\ log' = log \union {[id |-> open[t].id, ticket |-> t, at |-> open[t].at]}
  /\ open' = [open EXCEPT ![t] = NoTx]
  /\ UNCHANGED <<seq, boarded, time, requests, cache, queue, pulling, pushing, scanning, asked>>

\* Time passes, and neither a transaction nor a lookup outlives its limit.
Tick ==
  /\ clock < LastTick
  /\ \A t \in Tickets : open[t] # NoTx => clock - open[t].at < TxLimit
  /\ look # NoLook => clock - look.at < LookupLimit
  /\ clock' = clock + 1
  /\ UNCHANGED <<serverRows, today, requests, cache, queue, pulling, pushing, scanning, asked>>

NewDay ==
  /\ today < LastDay
  /\ today' = today + 1
  /\ UNCHANGED <<serverRows, clock, requests, cache, queue, pulling, pushing, scanning, asked>>

-----------------------------------------------------------------------------
(* pullManifest and buildSync.                                             *)

\* The loop of ScannerApp: a sync that is due waits for the one that runs.
SyncDue == pull.phase = "IDLE" /\ push = "IDLE"

\* runSync: push and pull start together, and the next one waits for both.
SyncStarts ==
  /\ SyncDue
  /\ pull' = [pull EXCEPT !.phase = "ASK"]
  /\ push' = "WALK"
  /\ UNCHANGED <<serverRows, time, requests, cache, queue, staging, meta, sent, judged, scanning, asked>>

Greatest(S) == CHOOSE x \in S : \A y \in S : y <= x
Watermark == IF log = {} THEN 0 ELSE Greatest({r.id : r \in log})

\* What changed since the last sync, as far as it is committed.
Changed ==
  {r.ticket : r \in {r \in log : r.id > pull.since \/ r.at > pull.overlapFrom}}

\* The rows from the cursor on, of which a page takes the first ones.
Selected ==
  {t \in Tickets :
     /\ status[t] # Absent /\ VisitDay(t) = pull.day /\ t > pull.after
     /\ pull.full \/ t \in Changed}

Page(S) == {t \in S : Cardinality({u \in S : u < t}) < PageSize}

\* Mutants: the overlap is anchored to this request, not to the last sync; the
\* scanner subtracts it as well.
OverlapFromNow == clock - Overlap
OverlapFromTwice ==
  (IF meta.day # NoDay /\ meta.syncedAt < clock THEN meta.syncedAt ELSE clock) - 2 * Overlap

\* syncedAt, or now, less the overlap.
OverlapFrom ==
  (IF meta.day # NoDay /\ meta.syncedAt < clock THEN meta.syncedAt ELSE clock) - Overlap

\* The first request: day, time and watermark are taken BEFORE any row is read.
FirstRequest ==
  /\ pull.phase = "ASK" /\ pull.first
  /\ pull' = [pull EXCEPT !.phase = "READ", !.day = today, !.since = meta.version,
                          !.full = (meta.version = 0 \/ (meta.day # NoDay /\ meta.day # today)),
                          !.version = Watermark, !.startedAt = clock,
                          !.overlapFrom = OverlapFrom]
  /\ UNCHANGED <<serverRows, time, requests, cache, queue, staging, meta, pushing, scanning, asked>>

\* A later one: the cursor carries everything but the rows, and is refused
\* (409) once the day has turned or it has expired.
NextRequest ==
  /\ pull.phase = "ASK" /\ ~pull.first
  /\ pull.day = today /\ clock - pull.startedAt <= CursorLimit
  /\ pull' = [pull EXCEPT !.phase = "READ"]
  /\ UNCHANGED <<serverRows, time, requests, cache, queue, staging, meta, pushing, scanning, asked>>

\* The query of one page, and its answer.
ReadPage ==
  /\ pull.phase = "READ"
  /\ pull' = [pull EXCEPT !.phase = "PAGE", !.rows = [t \in Page(Selected) |-> status[t]],
                          !.more = (Page(Selected) # Selected),
                          !.after = IF Selected = {} THEN @ ELSE Greatest(Page(Selected))]
  /\ UNCHANGED <<serverRows, time, requests, cache, queue, staging, meta, pushing, scanning, asked>>

\* Mutant: the manifest's word is final.
PreservedRaw(t, s) == s

\* putPreservingBoardings.
Preserved(t, s) ==
  IF s = "ACTIVE" /\ (cache[t] = "USED" \/ \E e \in queue : TicketOf(e) = t) THEN "USED" ELSE s

\* Mutant: yesterday's watermark and day stay until the new manifest is complete.
RolloverKeeps(m) == m

\* "Yesterday's manifest must not admit guests during a day rollover."
Rollover(m) ==
  IF pull.first /\ m.day # NoDay /\ m.day # pull.day THEN NeverSynced ELSE m

\* A full page is staged, a page of changes applied at once.
PageArrives ==
  /\ pull.phase = "PAGE"
  /\ pull' = [pull EXCEPT !.phase = IF pull.more THEN "ASK" ELSE "DONE", !.first = FALSE,
                          !.rows = NoRows]
  /\ meta' = Rollover(meta)
  /\ \/ /\ pull.full
        /\ staging' = [t \in Tickets |->
             IF t \in DOMAIN pull.rows THEN pull.rows[t]
             ELSE IF pull.first THEN Missing ELSE staging[t]]
        /\ UNCHANGED cache
     \/ /\ ~pull.full
        /\ cache' = [t \in Tickets |->
             IF t \in DOMAIN pull.rows THEN Preserved(t, pull.rows[t]) ELSE cache[t]]
        /\ UNCHANGED staging
  /\ UNCHANGED <<serverRows, time, requests, queue, pushing, scanning, asked>>

\* completeManifest deletes the rows the manifest does not list.  One of these may
\* be boarded, or on the screen: a lookup stored it after the pull had read past it.
Lost ==
  {t \in Tickets : /\ cache[t] # Missing /\ staging[t] = Missing
                   /\ asked[t] = "STORED" /\ (admitted[t] > 0 \/ screen = t)}

\* completeManifest, or setMeta after the last page of changes.
PullCompletes ==
  /\ pull.phase = "DONE"
  /\ IF pull.full
     THEN /\ cache' = [t \in Tickets |->
               IF staging[t] = Missing THEN Missing ELSE Preserved(t, staging[t])]
          /\ asked' = [t \in Tickets |-> IF t \in Lost THEN "LOST" ELSE asked[t]]
     ELSE UNCHANGED <<cache, asked>>
  /\ staging' = [t \in Tickets |-> Missing]
  /\ meta' = [version |-> pull.version, syncedAt |-> pull.startedAt, day |-> pull.day]
  /\ pull' = NoPull
  /\ UNCHANGED <<serverRows, time, requests, queue, pushing, scanning>>

\* "Leave the completed watermark untouched: the next attempt safely replays."
\* (A page that is closed leaves staged rows behind; nothing reads them before
\* the next full manifest clears them.)
PullFails ==
  /\ pull.phase # "IDLE"
  /\ staging' = [t \in Tickets |-> Missing]
  /\ pull' = NoPull
  /\ UNCHANGED <<serverRows, time, requests, cache, queue, meta, pushing, scanning, asked>>

-----------------------------------------------------------------------------
(* pushQueue and the events route.                                         *)

PushSends ==
  /\ push = "WALK" /\ queue # {}
  /\ push' = "SENT"
  /\ sent' = queue
  /\ requests' = requests \union queue
  /\ UNCHANGED <<serverRows, time, cache, queue, pulling, judged, scanning, asked>>

\* confirmBoarding, after the replay check: the locked ticket is ACTIVE, today.
Boardable(t) == status[t] = "ACTIVE" /\ VisitDay(t) = today

\* A replay, a boarding, or a refusal for good; the verdict reaches whoever
\* still waits for it.  (The same event, sent twice and judged at once, waits
\* for the row's lock and is then refused as ALREADY_USED: no row differs.)
JudgeEvent(e) ==
  /\ e \in requests
  /\ \/ e \in boarded /\ UNCHANGED serverRows
     \/ /\ e \notin boarded /\ open[TicketOf(e)] = NoTx
        /\ \/ /\ Boardable(TicketOf(e))
              /\ status' = [status EXCEPT ![TicketOf(e)] = "USED"]
              /\ boarded' = boarded \union {e}
              /\ seq' = seq + 1
              /\ log' = log \union {[id |-> seq', ticket |-> TicketOf(e), at |-> clock]}
              /\ UNCHANGED open
           \/ ~Boardable(TicketOf(e)) /\ UNCHANGED serverRows
  /\ requests' = requests \ {e}
  /\ judged' = IF e \in sent THEN judged \union {e} ELSE judged
  /\ UNCHANGED <<time, cache, queue, pulling, push, sent, scanning, asked>>

\* No verdict: "keep it queued and retry rather than drop it".
JudgeFails(e) ==
  /\ e \in requests
  /\ requests' = requests \ {e}
  /\ UNCHANGED <<serverRows, time, cache, queue, pulling, pushing, scanning, asked>>

\* Mutant: every event of the answered request is forgotten.
AnsweredForgets == queue \ sent

\* "Only acknowledge IDs from this request.  Missing results remain queued."
Answered == queue \ judged

PushAnswered ==
  /\ push = "SENT" /\ sent \intersect requests = {}
  /\ queue' = Answered
  /\ push' = "WALK"
  /\ sent' = {} /\ judged' = {}
  /\ UNCHANGED <<serverRows, time, requests, cache, pulling, scanning, asked>>

\* The walk is over, or a request dies and the server goes on with it.
PushEnds ==
  /\ push # "IDLE"
  /\ push' = "IDLE"
  /\ sent' = {} /\ judged' = {}
  /\ UNCHANGED <<serverRows, time, requests, cache, queue, pulling, scanning, asked>>

-----------------------------------------------------------------------------
(* handleScan and confirmBoarding.                                         *)

\* The screen that says VALID, with its two buttons, and nothing under it.
ShowsValid == screen # NoTicket

\* handleScan ignores the camera behind a verdict or a scan under way.
AwaitsScan == ~ShowsValid /\ look = NoLook

\* judge(): VALID.  (findByToken and getMeta are two reads; a sync in between
\* leaves the verdict as stale as one right after it would.)
Scan(t) ==
  /\ t \in Shown /\ AwaitsScan
  /\ cache[t] = "ACTIVE" /\ meta.day = VisitDay(t)
  /\ screen' = t
  /\ UNCHANGED <<serverRows, time, requests, cache, queue, pulling, pushing, look, admitted, asked>>

\* Unknown here: the server is asked, and says VALID.
LookUp(t) ==
  /\ t \in Shown /\ AwaitsScan
  /\ cache[t] = Missing
  /\ Boardable(t)
  /\ look' = [ticket |-> t, at |-> clock]
  /\ UNCHANGED <<serverRows, time, requests, cache, queue, pulling, pushing, screen, admitted, asked>>

LookupArrives ==
  /\ look # NoLook
  /\ cache' = [cache EXCEPT ![look.ticket] = "ACTIVE"]
  /\ asked' = [asked EXCEPT ![look.ticket] = IF @ = "NEVER" THEN "STORED" ELSE @]
  /\ screen' = look.ticket
  /\ look' = NoLook
  /\ UNCHANGED <<serverRows, time, requests, queue, pulling, pushing, admitted>>

LookupFails ==
  /\ look # NoLook
  /\ look' = NoLook
  /\ UNCHANGED <<serverRows, time, requests, cache, queue, pulling, pushing, screen, admitted, asked>>

\* recordBoardingLocally updates the row, if there is one.
CacheAfter(t) == IF cache[t] = Missing THEN cache ELSE [cache EXCEPT ![t] = "USED"]

\* The operator taps "board": one Dexie transaction, and no second look at the
\* ticket or the day.
ConfirmBoarding ==
  /\ ShowsValid
  /\ admitted[screen] < MaxAdmissions
  /\ admitted' = [admitted EXCEPT ![screen] = @ + 1]
  /\ queue' = queue \union {<<screen, admitted'[screen]>>}
  /\ cache' = CacheAfter(screen)
  /\ screen' = NoTicket
  /\ UNCHANGED <<serverRows, time, requests, pulling, pushing, look, asked>>

DismissResult ==
  /\ ShowsValid
  /\ screen' = NoTicket
  /\ UNCHANGED <<serverRows, time, requests, cache, queue, pulling, pushing, look, admitted, asked>>

-----------------------------------------------------------------------------
Others ==
  \/ \E t \in Tickets : TxCommits(t) \/ \E to \in TicketStatuses : TxWrites(t, to)
  \/ Tick \/ NewDay

Pull == FirstRequest \/ NextRequest \/ ReadPage \/ PageArrives \/ PullCompletes \/ PullFails
Push == PushSends \/ PushAnswered \/ PushEnds

Operator ==
  \/ \E t \in Tickets : Scan(t) \/ LookUp(t)
  \/ LookupArrives \/ LookupFails \/ ConfirmBoarding \/ DismissResult

Next ==
  \/ Others \/ SyncStarts \/ Pull \/ Push \/ Operator
  \/ \E e \in requests : JudgeEvent(e) \/ JudgeFails(e)

Spec == Init /\ [][Next]_vars

-----------------------------------------------------------------------------
(* Properties.                                                             *)

\* The cache would admit a guest the server would not, or not know a guest.
Outdated(t) ==
  \/ cache[t] = "ACTIVE" /\ status[t] \in {"USED", "CANCELLED"}
  \/ cache[t] = Missing /\ status[t] = "ACTIVE"

\* Whatever today's cache has wrong, the next incremental sync selects: no
\* commit slips between the watermark and the overlap (sync.ts: "such a row is
\* never skipped").
StaleIsResent ==
  \A t \in Tickets :
    Outdated(t) /\ meta.day = today /\ VisitDay(t) = today
      => \E r \in log : r.ticket = t /\ (r.id > meta.version \/ r.at > meta.syncedAt - Overlap)

\* This scanner lets nobody in twice on one ticket, with or without a link: no
\* page, no manifest and no lookup's answer brings back a ticket that was boarded
\* here (db.ts, putPreservingBoardings).  The exception is the code's own: a row
\* that only a lookup stored is deleted by a manifest that had been read before,
\* its boarding with it, and the server may then be asked again.
AdmittedOnce == \A t \in Tickets : admitted[t] <= 1 \/ asked[t] = "LOST"

\* A group that was let in is known to the server or still queued for it, on
\* the day of its ticket (sync-client.ts, pushQueue).
AdmissionIsAccounted ==
  \A t \in Tickets :
    admitted[t] > 0 /\ today = VisitDay(t)
      => \/ \E e \in queue : TicketOf(e) = t
         \/ status[t] \in {"USED", "CANCELLED"}

\* Once a sync has seen the new day, the cache says VALID for no ticket of the
\* day before, however long the new manifest takes (sync-client.ts: "Yesterday's
\* manifest must not admit guests during a day rollover").
RolloverBlocks ==
  [][screen' # screen /\ screen' # NoTicket /\ look = NoLook
     /\ pull.phase # "IDLE" /\ ~pull.first
       => VisitDay(screen') >= pull.day]_vars

-----------------------------------------------------------------------------
(* What a comment says, and the code does not do.                          *)

\* "A manifest response must not undo a boarding recorded while it was
\* downloading" (db.ts:93): a boarding that waits in the queue stays marked on
\* its ticket's row.
BoardingStands ==
  [][\A e \in queue :
       cache[TicketOf(e)] = "USED" => cache'[TicketOf(e)] \in {"USED", "CANCELLED"}]_vars

=============================================================================
