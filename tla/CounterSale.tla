---------------------------- MODULE CounterSale ----------------------------
(***************************************************************************)
(* Selling at the counter: one till (a browser tab at /counter), the       *)
(* server action behind its two buttons, the ticket page it lands on, and  *)
(* what the day-end slip says of it.  A sale is sent under a draft key     *)
(* that outlives a reload in sessionStorage, so that a request whose       *)
(* answer is lost can be repeated.  The sale from the offline book, which  *)
(* TicketBook models, is here one step: what matters is what the tab does  *)
(* before and after it.                                                    *)
(***************************************************************************)
EXTENDS BookingStatus, Naturals, FiniteSets

CONSTANTS
  Guests,        \* the groups that may come to the window
  Pays,          \* how each of them pays
  Keys,          \* bound: the idempotency keys the server may mint
  NoGuest,       \* nobody at the window
  NoKey          \* no key

ASSUME NoGuestIsNone == NoGuest \notin Guests
ASSUME NoKeyIsNone == NoKey \notin Keys
ASSUME EachPaysOneWay == Pays \in [Guests -> {"CASH", "UPI"}]
ASSUME GuestsAndKeysAreFew == IsFiniteSet(Guests) /\ IsFiniteSet(Keys) /\ Keys # {}
ASSUME AnswersAreNoKeys == {"none", "error", "login"} \intersect Keys = {}

VARIABLES
  page,       \* what the tab shows
  draft,      \* sessionStorage["ls_counter_draft_key"]
  shell,      \* the key in the copy of /counter the service worker keeps
  shown,      \* the sale on the ticket page
  link,       \* whether the till is online
  everCut,    \* history: the link has been down
  session,    \* whether the staff session is alive
  requests,   \* sales on their way to the server
  reply,      \* the answer on its way to the tab
  booking, ticket, buyer, tender,  \* the rows of each sale, by its key
  rateActive, \* whether the concession is still on sale
  voiding,    \* the sale voidOwnSaleAction has checked and not yet cancelled
  guest,      \* the group at the window, whose money is in the drawer
  paid,       \* the groups whose money the till holds
  given,      \* the sales whose ticket each group was handed
  offline     \* the groups sold a ticket of the offline book

tab == <<page, draft, shell, shown>>
net == <<link, everCut>>
wire == <<requests, reply>>
rows == <<booking, ticket, buyer, tender>>
window == <<guest, paid, given, offline>>
vars == <<tab, net, session, wire, rows, rateActive, voiding, window>>

Tenders == {"CASH", "UPI"}
Rates == {"STANDARD", "CATEGORY"}
NoReply == "none"

Request == [key: Keys, guest: Guests, rate: Rates, awaited: BOOLEAN]

----------------------------------------------------------------------------
(***************************************************************************)
(* The pages of the till.                                                  *)
(***************************************************************************)

\* randomUUID() never repeats a key; one that was minted and thrown away
\* unseen is free to stand for the next, so what counts is who holds it.
Mintable(held) ==
  {k \in Keys \ held : booking[k] = Absent /\ \A r \in requests : r.key # k}

Mint(held) == CHOOSE k \in Mintable(held) : TRUE

\* Mutants: the reload takes the new key; the key is not stored.
MountedNew(k) == k
MountedBare(k) == draft

\* CounterForm: a draft already in sessionStorage wins over the key the page
\* was rendered with; otherwise that key is stored.
Mounted(k) == IF draft # NoKey THEN draft ELSE k

Mount(k) ==
  /\ page' = "form"
  /\ draft' = Mounted(k)
  /\ shown' = NoKey

\* CounterPage, rendered by the server with a new key.  Bound: it takes one
\* that is left, unless a draft makes it needless.
RenderForm(held) ==
  /\ draft # NoKey \/ Mintable(held) # {}
  /\ Mount(Mint(held))

\* requirePageStaff: the page redirects a tab whose session has ended.
ToLogin ==
  /\ page' = "login"
  /\ shown' = NoKey
  /\ UNCHANGED <<draft, shell>>

\* networkFirst: without a link the service worker answers with the copy of
\* /counter it kept from the last full load, key and all.
CachedForm ==
  /\ ~link
  /\ Mount(shell)
  /\ UNCHANGED shell

\* A full load of /counter ("Reload and try again", or after an error): it
\* gives up whatever the tab was waiting for.
Reload ==
  /\ page \in {"form", "waiting"}
  /\ \/ /\ link /\ session
        /\ Mintable({draft}) # {}
        /\ Mount(Mint({draft}))
        /\ shell' = Mint({draft})
     \/ /\ link /\ ~session
        /\ ToLogin
     \/ CachedForm
  /\ requests' = {[r EXCEPT !.awaited = FALSE] : r \in requests}
  /\ reply' = NoReply
  /\ UNCHANGED <<net, session, rows, rateActive, voiding, window>>

\* Signing in again lands on /counter.
SignIn ==
  /\ page = "login" /\ link
  /\ session' = TRUE
  /\ RenderForm({draft, shell})
  /\ UNCHANGED <<shell, net, wire, rows, rateActive, voiding, window>>

\* "Next sale", or AutoPrint's return after the dialog: a client navigation.
\* Without a link it falls back to a full load, which the worker answers.
NextSale ==
  /\ page = "ticket" /\ voiding = NoKey
  /\ \/ link /\ session /\ RenderForm({draft, shell}) /\ UNCHANGED shell
     \/ link /\ ~session /\ ToLogin
     \/ CachedForm
  /\ UNCHANGED <<net, session, wire, rows, rateActive, voiding, window>>

\* Mutant: the ticket page leaves the key in sessionStorage.
ShowTicketKeepsDraft(k) ==
  /\ page' = "ticket"
  /\ shown' = k
  /\ UNCHANGED <<draft, shell>>

\* "Reaching this page is the reliable signal that a counter sale succeeded."
ClearDraftSaleKey == draft' = NoKey

\* CounterTicketPage, whichever sale it shows.
ShowTicket(k) ==
  /\ page' = "ticket"
  /\ shown' = k
  /\ ClearDraftSaleKey
  /\ UNCHANGED shell

\* "Your last sales today": every sale the server has, cancelled or not.
Recent(k) == booking[k] # Absent

\* Staff open an earlier sale from that list or from the lookup screen.  That
\* nobody is at the window is their discipline, not the code's.
Reprint(k) ==
  /\ page = "form" /\ link /\ session
  /\ guest = NoGuest
  /\ Recent(k)
  /\ ShowTicket(k)
  /\ UNCHANGED <<net, session, wire, rows, rateActive, voiding, window>>

----------------------------------------------------------------------------
(***************************************************************************)
(* A sale: "take the money before confirming".                             *)
(***************************************************************************)

\* A group pays.  Bounds: a key is left for the next full load, and no request
\* of the group before is still on its way.
Arrive(g) ==
  /\ page = "form" /\ guest = NoGuest
  /\ g \notin paid
  /\ requests = {}
  /\ \A k \in given[g] : ticket[k] # "USED"
  /\ Mintable({draft}) # {}
  /\ guest' = g
  /\ paid' = paid \union {g}
  /\ UNCHANGED <<tab, net, session, wire, rows, rateActive, voiding, given, offline>>

\* The form shows one pair of tender buttons or the other, by navigator.onLine.
ConfirmButtons == page = "form" /\ link /\ guest # NoGuest
OfflineConfirmButtons == page = "form" /\ ~link /\ guest # NoGuest

\* The form posts the draft key, the group and the rate it
\* names, and the tender of the button that was pressed; then both are
\* disabled.
Submit(rate) ==
  /\ ConfirmButtons
  /\ page' = "waiting"
  /\ requests' = requests \union
       {[key |-> draft, guest |-> guest, rate |-> rate, awaited |-> TRUE]}
  /\ UNCHANGED <<draft, shell, shown, net, session, reply, rows,
                 rateActive, voiding, window>>

\* The request, or the answer, does not get through.
LoseRequest(r) ==
  /\ requests' = requests \ {r}
  /\ UNCHANGED <<tab, net, session, reply, rows, rateActive, voiding, window>>

LoseReply ==
  /\ reply # NoReply
  /\ reply' = NoReply
  /\ UNCHANGED <<tab, net, session, requests, rows, rateActive, voiding, window>>

Answer(r, answer) ==
  /\ requests' = requests \ {r}
  /\ reply' = IF r.awaited THEN answer ELSE reply

\* requireStaff refuses: redirect to /login?expired=1.
ServeLogin(r) ==
  /\ ~session
  /\ Answer(r, "login")
  /\ UNCHANGED <<tab, net, session, rows, rateActive, voiding, window>>

\* resolveRate: a category is read from its row, which must be on sale.
RateFound(rate) == rate = "STANDARD" \/ rateActive

\* findByIdempotencyKey: a retry of a request already served.
Existing(k) == booking[k] # Absent

\* Mutant: a request already served is an error.
RepeatRefused(k) == ~Existing(k)

\* issueTicketFor answers a retry with the ticket there is, and refuses when
\* the earlier row has been cancelled since.
Repeatable(k) == ~Existing(k) \/ IsConfirmed(booking[k])

\* Mutant: the tender is left to its default.
TenderDefault(r) == "CASH"

TenderOf(r) == Pays[r.guest]

\* createBooking on the counter channel, one transaction: rate, earlier row,
\* insert, ticket.
ServeSale(r) ==
  /\ session
  /\ RateFound(r.rate) /\ Repeatable(r.key)
  /\ IF Existing(r.key)
       THEN UNCHANGED <<booking, buyer, tender>>
       ELSE /\ booking' = [booking EXCEPT ![r.key] = "CASH_CONFIRMED"]
            /\ buyer' = [buyer EXCEPT ![r.key] = r.guest]
            /\ tender' = [tender EXCEPT ![r.key] = TenderOf(r)]
  /\ ticket' = [ticket EXCEPT ![r.key] = Issue(@)]
  /\ Answer(r, r.key)
  /\ UNCHANGED <<tab, net, session, rateActive, voiding, window>>

\* A DomainError's message, or "could not reach the ticketing system": the
\* transaction is rolled back.
ServeError(r) ==
  /\ session
  /\ Answer(r, "error")
  /\ UNCHANGED <<tab, net, session, rows, rateActive, voiding, window>>

\* "Hand this to the guest", or "Do not hand this to a guest".
HandOver(k) == ticket[k] = "ACTIVE"

\* The redirect to the ticket page; the form with its message; the login page.
Receive ==
  /\ page = "waiting" /\ link
  /\ reply # NoReply
  /\ reply' = NoReply
  /\ \/ /\ reply \in Keys
        /\ ShowTicket(reply)
        /\ IF HandOver(reply)
             THEN /\ given' = [given EXCEPT ![guest] = @ \union {reply}]
                  /\ guest' = NoGuest
             ELSE UNCHANGED <<given, guest>>
     \/ /\ reply = "error"
        /\ page' = "form"
        /\ UNCHANGED <<draft, shell, shown, given, guest>>
     \/ /\ reply = "login"
        /\ ToLogin
        /\ UNCHANGED <<given, guest>>
  /\ UNCHANGED <<net, session, requests, rows, rateActive, voiding, paid, offline>>

----------------------------------------------------------------------------
(***************************************************************************)
(* Outages.                                                                *)
(***************************************************************************)

\* Bound: one outage.
LinkDrops ==
  /\ link /\ ~everCut
  /\ link' = FALSE
  /\ everCut' = TRUE
  /\ UNCHANGED <<tab, session, wire, rows, rateActive, voiding, window>>

\* sellOffline: a blank from the local book, shown in an overlay.
SellOffline ==
  /\ OfflineConfirmButtons
  /\ page' = "overlay"
  /\ offline' = offline \union {guest}
  /\ guest' = NoGuest
  /\ UNCHANGED <<draft, shell, shown, net, session, wire, rows, rateActive,
                 voiding, paid, given>>

\* router.refresh: CounterPage again, into the form that is already mounted.
Refresh ==
  \/ /\ session
     /\ page' = "form"
     /\ UNCHANGED <<draft, shell, shown>>
  \/ /\ ~session
     /\ ToLogin

\* onDone; the refresh an open ticket held up follows if the link is back.
OverlayDone ==
  /\ page = "overlay"
  /\ \/ link /\ Refresh
     \/ ~link /\ page' = "form" /\ UNCHANGED <<draft, shell, shown>>
  /\ UNCHANGED <<net, session, wire, rows, rateActive, voiding, window>>

\* "Once the link returns, pull a fresh page.  Never mid-sale."
LinkReturns ==
  /\ ~link
  /\ link' = TRUE
  /\ \/ page = "form" /\ Refresh
     \/ page # "form" /\ UNCHANGED tab
  /\ UNCHANGED <<everCut, session, wire, rows, rateActive, voiding, window>>

----------------------------------------------------------------------------
(***************************************************************************)
(* Cancelling a sale, the gate, the office.                                *)
(***************************************************************************)

\* cancelBooking, and the money goes back over the counter.
Cancel(k) ==
  /\ MayBecome(booking[k], "CANCELLED")
  /\ booking' = [booking EXCEPT ![k] = "CANCELLED"]
  /\ ticket' = [ticket EXCEPT ![k] = Deactivate(@, "CANCELLED")]
  /\ paid' = IF booking[k] = "CANCELLED" THEN paid
             ELSE paid \ {buyer[k]}
  /\ UNCHANGED <<buyer, tender, guest, given, offline>>

\* VoidSaleForm, on the page of the sale's ticket.
OffersVoid == page = "ticket" /\ voiding = NoKey

\* voidOwnSaleAction up to its checks: its own read, outside any transaction.
VoidReads ==
  /\ OffersVoid /\ link /\ session
  /\ guest = NoGuest
  /\ ticket[shown] = "ACTIVE"
  /\ voiding' = shown
  /\ UNCHANGED <<tab, net, session, wire, rows, rateActive, window>>

\* The rest of it.  The gate may have boarded the ticket in between.
VoidCancels ==
  /\ voiding # NoKey
  /\ Cancel(voiding)
  /\ voiding' = NoKey
  /\ UNCHANGED <<tab, net, session, wire, rateActive>>

\* cancelBookingAction: an admin, at the request of a guest who has the sale's
\* ticket.
AdminCancels(k) ==
  /\ booking[k] = "CASH_CONFIRMED"
  /\ k \in given[buyer[k]] /\ buyer[k] # guest
  /\ Cancel(k)
  /\ UNCHANGED <<tab, net, session, wire, rateActive, voiding>>

\* confirmBoarding, from a scanner or from markBoardedAction: the ticket's
\* status is all it asks.
Board(g, k) ==
  /\ k \in given[g]
  /\ ticket[k] = "ACTIVE"
  /\ ticket' = [ticket EXCEPT ![k] = "USED"]
  /\ UNCHANGED <<tab, net, session, wire, booking, buyer, tender, rateActive, voiding, window>>

\* setRateActiveAction.
RetireRate ==
  /\ rateActive
  /\ rateActive' = FALSE
  /\ UNCHANGED <<tab, net, session, wire, rows, voiding, window>>

\* The twelve-hour session ends.
SessionExpires ==
  /\ session
  /\ session' = FALSE
  /\ UNCHANGED <<tab, net, wire, rows, rateActive, voiding, window>>

----------------------------------------------------------------------------
(***************************************************************************)
(* The specification.                                                      *)
(***************************************************************************)

Init ==
  /\ page = "form"
  /\ draft = (CHOOSE k \in Keys : TRUE) /\ shell = draft
  /\ shown = NoKey
  /\ link = TRUE /\ everCut = FALSE
  /\ session = TRUE
  /\ requests = {}
  /\ reply = NoReply
  /\ booking = [k \in Keys |-> Absent]
  /\ ticket = [k \in Keys |-> Absent]
  /\ buyer = [k \in Keys |-> NoGuest]
  /\ tender = [k \in Keys |-> Absent]
  /\ rateActive = TRUE
  /\ voiding = NoKey
  /\ guest = NoGuest
  /\ paid = {}
  /\ given = [g \in Guests |-> {}]
  /\ offline = {}

Tab ==
  \/ Reload \/ SignIn \/ NextSale \/ Receive \/ OverlayDone
  \/ \E k \in Keys : Reprint(k)
  \/ \E rate \in Rates : Submit(rate)
  \/ SellOffline

Server ==
  \/ \E r \in requests : ServeLogin(r) \/ ServeSale(r) \/ ServeError(r)
  \/ VoidReads \/ VoidCancels
  \/ \E k \in Keys : AdminCancels(k)
  \/ RetireRate \/ SessionExpires

World ==
  \/ \E g \in Guests : Arrive(g)
  \/ \E r \in requests : LoseRequest(r)
  \/ LoseReply
  \/ LinkDrops \/ LinkReturns
  \/ \E g \in Guests, k \in Keys : Board(g, k)

Next == Tab \/ Server \/ World

Spec == Init /\ [][Next]_vars

\* Staff try until they succeed: they reload a sale that hangs, sign in again and
\* try the standard rate; not every try is lost, fails, or finds the session just
\* ended.
LiveSpec ==
  /\ Spec
  /\ WF_vars(page = "waiting" /\ Reload)
  /\ WF_vars(SignIn)
  /\ SF_vars(Submit("STANDARD")) /\ SF_vars(session /\ Submit("STANDARD"))
  /\ SF_vars(\E r \in requests : r.awaited /\ ServeSale(r))
  /\ SF_vars(reply \in Keys /\ Receive)

TypeOK ==
  /\ page \in {"form", "waiting", "ticket", "overlay", "login"}
  /\ draft \in Keys \union {NoKey} /\ shell \in Keys
  /\ shown \in Keys \union {NoKey} /\ voiding \in Keys \union {NoKey}
  /\ {link, everCut, session, rateActive} \subseteq BOOLEAN
  /\ requests \subseteq Request
  /\ reply \in Keys \union {NoReply, "error", "login"}
  /\ booking \in [Keys -> {Absent, "CASH_CONFIRMED", "CANCELLED"}]
  /\ ticket \in [Keys -> {Absent, "ACTIVE", "USED", "CANCELLED"}]
  /\ buyer \in [Keys -> Guests \union {NoGuest}]
  /\ tender \in [Keys -> Tenders \union {Absent}]
  /\ guest \in Guests \union {NoGuest}
  /\ paid \subseteq Guests
  /\ given \in [Guests -> SUBSET Keys]
  /\ offline \subseteq Guests
  /\ (page \in {"form", "waiting", "overlay"} => draft # NoKey)
  /\ (page = "ticket" <=> shown # NoKey)

----------------------------------------------------------------------------
(***************************************************************************)
(* Properties.                                                             *)
(***************************************************************************)

SalesOf(g) == {k \in Keys : booking[k] = "CASH_CONFIRMED" /\ buyer[k] = g}

\* "Safe to do: this sale won't be duplicated if it already went through."
\* However often a hanging sale is reloaded and sent again, before or after a
\* cancellation, a new login or an outage, a group has one live online sale.
OneSalePerGuest == \A g \in Guests : Cardinality(SalesOf(g)) <= 1

\* dayEndSummary's count of sales by tender.
Slip(t) == Cardinality({k \in Keys : booking[k] = "CASH_CONFIRMED" /\ tender[k] = t})

Drawer(t) == Cardinality({g \in paid : Pays[g] = t})

\* "What this staff member should be able to hand over at the end of the
\* shift": with nobody at the window the slip counts the money that was taken,
\* by tender, whatever was lost, repeated, cancelled or left in flight, as long
\* as the link has not been down.
DrawerMatchesSlip ==
  guest = NoGuest /\ ~everCut => \A t \in Tenders : Slip(t) = Drawer(t)

\* A group that has paid gets its ticket: there is always a way out of a sale
\* that hangs, fails or finds the session over, unless the link goes down.
GuestIsServed == \A g \in Guests : guest = g ~> (guest # g \/ everCut)

----------------------------------------------------------------------------
(* What a comment says, and the code does not do.                          *)

\* counter-form.tsx, of the key of a cached page, "which ... may be one that
\* has already been spent": "Refreshing before the next online sale replaces
\* all three".  No group is handed the ticket of another's sale.
SaleGetsItsOwnTicket == \A g \in Guests : \A k \in given[g] : buyer[k] = g

=============================================================================
