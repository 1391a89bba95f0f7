------------------------- MODULE CounterSale_proofs -------------------------
(***************************************************************************)
(* Proofs about CounterSale for any groups at the counter, any draft keys, *)
(* any answer lost and any tab closed: a group is sold to once, the drawer *)
(* holds what the shift's slip says, and, while no answer has been cut     *)
(* off, every group walks away with its own ticket.                        *)
(***************************************************************************)
EXTENDS CounterSale, FiniteSetTheorems, FunctionTheorems, TLAPS

-----------------------------------------------------------------------------
(* What a sale under way rests on.                                         *)

\* A sale that counts.
Live(k) == booking[k] = "CASH_CONFIRMED"

\* The rows of a sale agree with each other, and nobody has a ticket without one.
RowsAgree ==
  /\ \A k \in Keys :
       /\ booking[k] = Absent <=> ticket[k] = Absent
       /\ ticket[k] = "ACTIVE" => Live(k)
       /\ Existing(k) => buyer[k] \in Guests /\ tender[k] = Pays[buyer[k]]
  /\ \A g \in Guests : \A k \in given[g] : Existing(k)

\* A live sale is of a group whose money the till holds, and the only one of it.
LiveIsPaid == \A k \in Keys : Live(k) => buyer[k] \in paid
LiveIsOne == \A k, l \in Keys : Live(k) /\ Live(l) /\ buyer[k] = buyer[l] => k = l

\* The tab waits for one answer, to what it sent under the draft it still has.
TabWaits ==
  /\ page = "waiting" => guest # NoGuest
  /\ \A r \in requests : r.awaited => page = "waiting" /\ reply = NoReply /\ r.key = draft
  /\ \A r, other \in requests : r.awaited /\ other.awaited => r = other
  /\ reply # NoReply => page = "waiting"
  /\ reply \in Keys => reply = draft /\ Existing(reply)

\* A request that could still make a sale: it is for a group that has paid and
\* has none, and there is no second of another key or group.
New(r) == ~Existing(r.key)
NewRequestsAgree ==
  /\ \A r \in requests : New(r) => r.guest \in paid /\ SalesOf(r.guest) = {}
  /\ \A r, other \in requests : New(r) /\ New(other) => r.key = other.key /\ r.guest = other.guest

\* Whatever the group at the window has on the server is under the draft key,
\* and its ticket is still to be handed over.
WindowIsDraft ==
  guest # NoGuest =>
    /\ guest \in paid
    /\ \A r \in requests : New(r) => r.key = draft /\ r.guest = guest
    /\ \A k \in SalesOf(guest) : k = draft /\ ticket[k] = "ACTIVE" /\ \A g \in Guests : k \notin given[g]

\* A sale is voided from its page, with nobody at the window.
VoidIsAlone == voiding # NoKey => page = "ticket" /\ guest = NoGuest

\* The inductive invariant: no sale is made twice.
SaleInv ==
  TypeOK /\ RowsAgree /\ LiveIsPaid /\ LiveIsOne /\ TabWaits /\ NewRequestsAgree /\ WindowIsDraft
    /\ VoidIsAlone

\* As long as the link has not been down, the draft is the key of the group at
\* the window, or of nobody; every other group that has paid has its sale; and
\* what a group was handed is its own.
NoOutageInv ==
  ~everCut =>
    /\ link
    /\ draft # NoKey /\ Existing(draft) => guest # NoGuest /\ buyer[draft] = guest
    /\ guest = NoGuest => \A r \in requests : Existing(r.key)
    /\ \A g \in paid : g = guest \/ SalesOf(g) # {}
    /\ SaleGetsItsOwnTicket


-----------------------------------------------------------------------------
(* Type correctness.                                                       *)

\* A new key is taken from those that are left.
LEMMA MintIsFresh ==
  ASSUME NEW held, Mintable(held) # {}
  PROVE  /\ Mint(held) \in Keys \ held /\ booking[Mint(held)] = Absent
         /\ \A r \in requests : r.key # Mint(held)
<1>1. Mint(held) \in Mintable(held)
  BY DEF Mint
<1>. QED
  BY <1>1 DEF Mintable

\* Every action keeps the variables in their types.
LEMMA TypeStep == TypeOK /\ [Next]_vars => TypeOK'
<1>. SUFFICES ASSUME TypeOK, [Next]_vars PROVE TypeOK'
  OBVIOUS
<1>. USE NoGuestIsNone, NoKeyIsNone, AnswersAreNoKeys
     DEF TypeOK, tab, net, wire, rows, window
<1>1. ASSUME Reload PROVE TypeOK'
  <2>1. requests' \subseteq Request
    <3>1. \A r \in Request : [r EXCEPT !.awaited = FALSE] \in Request
      BY DEF Request
    <3>. QED
      BY <1>1, <3>1 DEF Reload
  <2>2. Mintable({draft}) # {} => Mint({draft}) \in Keys
    BY MintIsFresh
  <2>. QED
    BY <1>1, <2>1, <2>2 DEF Reload, ToLogin, CachedForm, Mount, Mounted
<1>2. ASSUME SignIn PROVE TypeOK'
  <2>1. Mintable({draft, shell}) # {} => Mint({draft, shell}) \in Keys
    BY MintIsFresh
  <2>. QED
    BY <1>2, <2>1 DEF SignIn, RenderForm, Mount, Mounted
<1>3. ASSUME NextSale PROVE TypeOK'
  <2>1. Mintable({draft, shell}) # {} => Mint({draft, shell}) \in Keys
    BY MintIsFresh
  <2>. QED
    BY <1>3, <2>1 DEF NextSale, ToLogin, CachedForm, RenderForm, Mount, Mounted
<1>4. ASSUME Receive PROVE TypeOK'
  BY <1>4 DEF Receive, ShowTicket, ClearDraftSaleKey, ToLogin
<1>5. ASSUME OverlayDone PROVE TypeOK'
  BY <1>5 DEF OverlayDone, Refresh, ToLogin
<1>6. ASSUME NEW k \in Keys, Reprint(k) PROVE TypeOK'
  BY <1>6 DEF Reprint, ShowTicket, ClearDraftSaleKey
<1>7. ASSUME NEW rate \in Rates, Submit(rate) PROVE TypeOK'
  <2>. DEFINE new == [key |-> draft, guest |-> guest, rate |-> rate, awaited |-> TRUE]
  <2>1. draft \in Keys /\ guest \in Guests
    BY <1>7 DEF Submit, ConfirmButtons
  <2>2. new \in Request
    BY <2>1 DEF Request
  <2>3. requests' = requests \union {new}
    BY <1>7 DEF Submit
  <2>. HIDE DEF new
  <2>. QED
    BY <1>7, <2>2, <2>3 DEF Submit, ConfirmButtons
<1>8. ASSUME SellOffline PROVE TypeOK'
  BY <1>8 DEF SellOffline, OfflineConfirmButtons
<1>9. ASSUME NEW r \in requests, ServeLogin(r) PROVE TypeOK'
  BY <1>9 DEF ServeLogin, Answer
<1>10. ASSUME NEW r \in requests, ServeSale(r) PROVE TypeOK'
  <2>1. r.key \in Keys /\ r.guest \in Guests
    BY DEF Request
  <2>2. TenderOf(r) \in Tenders
    BY <2>1, EachPaysOneWay DEF TenderOf, Tenders
  <2>3. booking' \in [Keys -> {Absent, "CASH_CONFIRMED", "CANCELLED"}]
    BY <1>10, <2>1 DEF ServeSale
  <2>4. ticket' \in [Keys -> {Absent, "ACTIVE", "USED", "CANCELLED"}]
    BY <1>10, <2>1 DEF ServeSale, Issue
  <2>5. buyer' \in [Keys -> Guests \union {NoGuest}] /\ tender' \in [Keys -> Tenders \union {Absent}]
    BY <1>10, <2>1, <2>2 DEF ServeSale
  <2>6. requests' \subseteq Request /\ reply' \in Keys \union {NoReply, "error", "login"}
    BY <1>10, <2>1 DEF ServeSale, Answer
  <2>. QED
    BY <1>10, <2>3, <2>4, <2>5, <2>6 DEF ServeSale
<1>11. ASSUME NEW r \in requests, ServeError(r) PROVE TypeOK'
  BY <1>11 DEF ServeError, Answer
<1>12. ASSUME VoidReads PROVE TypeOK'
  BY <1>12 DEF VoidReads, OffersVoid
<1>13. ASSUME VoidCancels PROVE TypeOK'
  BY <1>13 DEF VoidCancels, Cancel, Deactivate
<1>14. ASSUME NEW k \in Keys, AdminCancels(k) PROVE TypeOK'
  BY <1>14 DEF AdminCancels, Cancel, Deactivate
<1>15. ASSUME RetireRate PROVE TypeOK'
  BY <1>15 DEF RetireRate
<1>16. ASSUME SessionExpires PROVE TypeOK'
  BY <1>16 DEF SessionExpires
<1>17. ASSUME NEW g \in Guests, Arrive(g) PROVE TypeOK'
  BY <1>17 DEF Arrive
<1>18. ASSUME NEW r \in requests, LoseRequest(r) PROVE TypeOK'
  BY <1>18 DEF LoseRequest
<1>19. ASSUME LoseReply PROVE TypeOK'
  BY <1>19 DEF LoseReply
<1>20. ASSUME LinkDrops PROVE TypeOK'
  BY <1>20 DEF LinkDrops
<1>21. ASSUME LinkReturns PROVE TypeOK'
  BY <1>21 DEF LinkReturns, Refresh, ToLogin
<1>22. ASSUME NEW g \in Guests, NEW k \in Keys, Board(g, k) PROVE TypeOK'
  BY <1>22 DEF Board
<1>23. CASE UNCHANGED vars
  BY <1>23 DEF vars
<1>. QED
  BY <1>1, <1>2, <1>3, <1>4, <1>5, <1>6, <1>7, <1>8, <1>9, <1>10, <1>11, <1>12, <1>13, <1>14, <1>15,
     <1>16, <1>17, <1>18, <1>19, <1>20, <1>21, <1>22, <1>23
     DEF Next, Tab, Server, World

-----------------------------------------------------------------------------
(* No sale is made twice.                                                  *)

\* Where the rows, the money and the tickets handed over stay, and no request is
\* new, what is said of them stays.
LEMMA RowsStay ==
  ASSUME SaleInv, UNCHANGED <<rows, paid>>,
         \A g \in Guests : \A k \in given'[g] : Existing(k),
         \A r \in requests' : \E old \in requests : r.key = old.key /\ r.guest = old.guest
  PROVE  RowsAgree' /\ LiveIsPaid' /\ LiveIsOne' /\ NewRequestsAgree'
<1>. USE DEF SaleInv, Live, Existing, SalesOf, rows
<1>1. RowsAgree' /\ LiveIsPaid' /\ LiveIsOne'
  BY DEF RowsAgree, LiveIsPaid, LiveIsOne
<1>2. NewRequestsAgree'
  BY DEF NewRequestsAgree, New
<1>. QED
  BY <1>1, <1>2

\* A page that waits for nothing may take another draft when there was none, or
\* when nobody is at the window.
LEMMA PageTurns ==
  ASSUME SaleInv, page # "waiting", page' # "waiting", voiding' = NoKey,
         draft' = draft \/ draft = NoKey \/ guest = NoGuest,
         UNCHANGED <<wire, rows, window>>
  PROVE  RowsAgree' /\ LiveIsPaid' /\ LiveIsOne' /\ TabWaits' /\ NewRequestsAgree' /\ WindowIsDraft'
           /\ VoidIsAlone'
<1>. USE NoGuestIsNone, NoKeyIsNone, AnswersAreNoKeys DEF SaleInv, wire, rows, window
<1>1. RowsAgree' /\ LiveIsPaid' /\ LiveIsOne' /\ NewRequestsAgree'
  BY RowsStay DEF RowsAgree
<1>2. TabWaits' /\ VoidIsAlone'
  BY DEF TabWaits, VoidIsAlone, NoReply, Existing
<1>3. WindowIsDraft'
  BY DEF WindowIsDraft, New, Existing, SalesOf, TypeOK, Request
<1>. QED
  BY <1>1, <1>2, <1>3

\* A cancelled sale takes its own group's money back, and touches no other.
LEMMA CancelStays ==
  ASSUME SaleInv, NEW k \in Keys, Cancel(k), booking[k] = "CASH_CONFIRMED" => buyer[k] # guest,
         UNCHANGED <<tab, wire>>,
         voiding' \in {voiding, NoKey}
  PROVE  RowsAgree' /\ LiveIsPaid' /\ LiveIsOne' /\ TabWaits' /\ NewRequestsAgree' /\ WindowIsDraft'
           /\ VoidIsAlone'
<1>. USE NoGuestIsNone, NoKeyIsNone, AnswersAreNoKeys DEF SaleInv, tab, wire, Live, Existing
<1>1. booking[k] \in {"CASH_CONFIRMED", "CANCELLED"}
  BY DEF Cancel, MayBecome, CanTransition, Allowed, TypeOK, Absent
<1>2. \A l \in Keys : booking'[l] = IF l = k THEN "CANCELLED" ELSE booking[l]
  BY DEF Cancel, TypeOK
<1>3. \A l \in Keys : /\ ticket'[l] = "ACTIVE" => ticket[l] = "ACTIVE" /\ l # k
                      /\ ticket'[l] = Absent <=> ticket[l] = Absent
                      /\ l # k => ticket'[l] = ticket[l]
  <2>1. ticket' = [ticket EXCEPT ![k] = IF ticket[k] = "ACTIVE" THEN "CANCELLED" ELSE ticket[k]]
    BY DEF Cancel, Deactivate
  <2>. QED
    BY <2>1 DEF TypeOK, Absent
<1>4. \A l \in Keys : /\ Live(l)' <=> Live(l) /\ l # k
                      /\ Existing(l)' <=> Existing(l)
  BY <1>1, <1>2 DEF Absent
<1>5. \A g : SalesOf(g)' \subseteq SalesOf(g) \ {k}
  BY <1>2 DEF SalesOf, Cancel
<1>6. UNCHANGED <<buyer, tender, guest, given>>
  BY DEF Cancel
<1>7. Live(k) => paid' = paid \ {buyer[k]}
  BY DEF Cancel, Live
<1>8. ~Live(k) => paid' = paid
  BY <1>1 DEF Cancel, Live
<1>9. RowsAgree'
  BY <1>3, <1>4, <1>6 DEF RowsAgree, TypeOK
<1>10. LiveIsPaid' /\ LiveIsOne'
  BY <1>4, <1>6, <1>7, <1>8 DEF LiveIsPaid, LiveIsOne
<1>11. TabWaits' /\ VoidIsAlone'
  BY <1>4, <1>6 DEF TabWaits, VoidIsAlone
<1>12. NewRequestsAgree'
  <2>1. \A r \in requests : r.key \in Keys
    BY DEF TypeOK, Request
  <2>2. Live(k) => k \in SalesOf(buyer[k])
    BY DEF Live, SalesOf
  <2>. QED
    BY <1>4, <1>5, <1>7, <1>8, <2>1, <2>2 DEF NewRequestsAgree, New
<1>13. WindowIsDraft'
  <2>1. \A r \in requests : r.key \in Keys
    BY DEF TypeOK, Request
  <2>2. guest # NoGuest => guest \in paid'
    BY <1>6, <1>7, <1>8 DEF WindowIsDraft
  <2>3. guest # NoGuest => \A r \in requests : New(r)' => r.key = draft /\ r.guest = guest
    BY <1>4, <2>1 DEF WindowIsDraft, New
  <2>4. \A l \in SalesOf(guest)' : l \in SalesOf(guest) /\ ticket'[l] = ticket[l]
    BY <1>3, <1>5, <1>6 DEF SalesOf
  <2>. QED
    BY <1>6, <2>2, <2>3, <2>4 DEF WindowIsDraft
<1>. QED
  BY <1>9, <1>10, <1>11, <1>12, <1>13

\* Every step keeps the rows, the requests and the group at the window together.
LEMMA SaleStep == SaleInv /\ [Next]_vars => SaleInv'
<1>. SUFFICES ASSUME SaleInv, [Next]_vars PROVE SaleInv'
  OBVIOUS
<1>. DEFINE Rest == RowsAgree /\ LiveIsPaid /\ LiveIsOne /\ TabWaits /\ NewRequestsAgree
                    /\ WindowIsDraft /\ VoidIsAlone
<1>. USE NoGuestIsNone, NoKeyIsNone, AnswersAreNoKeys
     DEF SaleInv, RowsAgree, LiveIsPaid, LiveIsOne, TabWaits, NewRequestsAgree, New, WindowIsDraft,
         VoidIsAlone,
         Live, Existing, SalesOf, TypeOK, tab, net, wire, rows, window
<1>1. ASSUME Reload PROVE Rest'
  <2>1. /\ draft' = draft /\ page' \in {"form", "login"} /\ reply' = NoReply
        /\ UNCHANGED <<rows, window, voiding>>
    BY <1>1 DEF Reload, ToLogin, CachedForm, Mount, Mounted
  <2>2. \A r \in requests' : ~r.awaited /\ \E old \in requests : r.key = old.key /\ r.guest = old.guest
    <3>. SUFFICES ASSUME NEW r \in requests'
                  PROVE  ~r.awaited /\ \E old \in requests : r.key = old.key /\ r.guest = old.guest
      OBVIOUS
    <3>1. PICK old \in requests : r = [old EXCEPT !.awaited = FALSE]
      BY <1>1 DEF Reload
    <3>2. old \in Request
      OBVIOUS
    <3>. QED
      BY <3>1, <3>2 DEF Request
  <2>3. RowsAgree' /\ LiveIsPaid' /\ LiveIsOne' /\ NewRequestsAgree'
    BY <2>1, <2>2, RowsStay
  <2>4. TabWaits'
    BY <2>1, <2>2 DEF NoReply
  <2>5. WindowIsDraft'
    BY <2>1, <2>2
  <2>6. VoidIsAlone'
    BY <1>1, <2>1 DEF Reload
  <2>. QED
    BY <2>3, <2>4, <2>5, <2>6
<1>2. ASSUME SignIn PROVE Rest'
  <2>1. /\ page' = "form" /\ UNCHANGED <<voiding, wire, rows, window>>
        /\ draft' = draft \/ draft = NoKey
    BY <1>2 DEF SignIn, RenderForm, Mount, Mounted
  <2>. QED
    BY <1>2, <2>1, PageTurns DEF SignIn
<1>3. ASSUME NextSale PROVE Rest'
  <2>1. /\ page' # "waiting" /\ UNCHANGED <<voiding, wire, rows, window>>
        /\ draft' = draft \/ draft = NoKey
    BY <1>3 DEF NextSale, ToLogin, CachedForm, RenderForm, Mount, Mounted
  <2>. QED
    BY <1>3, <2>1, PageTurns DEF NextSale
<1>4. ASSUME Receive PROVE Rest'
  <2>0. /\ page = "waiting" /\ page' # "waiting" /\ guest # NoGuest /\ voiding = NoKey
        /\ reply # NoReply /\ reply' = NoReply /\ UNCHANGED <<requests, rows, paid, voiding>>
        /\ \A r \in requests : ~r.awaited
    BY <1>4 DEF Receive, ShowTicket, ToLogin, VoidReads
  <2>1. \A g \in Guests : \A k \in given'[g] : Existing(k)
    BY <1>4 DEF Receive
  <2>2. RowsAgree' /\ LiveIsPaid' /\ LiveIsOne' /\ NewRequestsAgree'
    BY <2>0, <2>1, RowsStay
  <2>3. TabWaits' /\ VoidIsAlone'
    BY <2>0 DEF NoReply
  <2>4. WindowIsDraft'
    <3>1. CASE reply \in Keys /\ HandOver(reply)
      BY <1>4, <3>1 DEF Receive
    <3>2. CASE reply \in Keys /\ ~HandOver(reply)
      <4>1. reply = draft /\ Existing(draft) /\ ticket[draft] # "ACTIVE"
        BY <3>2 DEF HandOver
      <4>2. SalesOf(guest) = {} /\ \A r \in requests : ~New(r)
        BY <2>0, <4>1
      <4>3. UNCHANGED <<guest, given>>
        BY <1>4, <3>2 DEF Receive
      <4>. QED
        BY <2>0, <4>2, <4>3
    <3>3. CASE reply \notin Keys
      BY <1>4, <2>0, <3>3 DEF Receive, ToLogin
    <3>. QED
      BY <3>1, <3>2, <3>3
  <2>. QED
    BY <2>2, <2>3, <2>4
<1>5. ASSUME OverlayDone PROVE Rest'
  <2>1. page' # "waiting" /\ UNCHANGED <<draft, voiding, wire, rows, window>>
    BY <1>5 DEF OverlayDone, Refresh, ToLogin
  <2>. QED
    BY <1>5, <2>1, PageTurns DEF OverlayDone
<1>6. ASSUME NEW k \in Keys, Reprint(k) PROVE Rest'
  <2>1. page' # "waiting" /\ UNCHANGED <<voiding, wire, rows, window>>
    BY <1>6 DEF Reprint, ShowTicket
  <2>. QED
    BY <1>6, <2>1, PageTurns DEF Reprint
<1>7. ASSUME NEW rate \in Rates, Submit(rate) PROVE Rest'
  <2>. DEFINE new == [key |-> draft, guest |-> guest, rate |-> rate, awaited |-> TRUE]
  <2>1. /\ page = "form" /\ page' = "waiting" /\ draft \in Keys /\ guest \in Guests
        /\ UNCHANGED <<draft, reply, rows, voiding, window>> /\ reply = NoReply
        /\ \A r \in requests : ~r.awaited
    BY <1>7 DEF Submit, ConfirmButtons, NoReply
  <2>2. requests' = requests \union {new} /\ new.key = draft /\ new.guest = guest /\ new.awaited
    BY <1>7 DEF Submit
  <2>. HIDE DEF new
  <2>3. RowsAgree' /\ LiveIsPaid' /\ LiveIsOne' /\ VoidIsAlone'
    BY <2>1
  <2>4. TabWaits'
    BY <2>1, <2>2
  <2>5. New(new) => SalesOf(guest) = {}
    BY <2>1, <2>2
  <2>6. NewRequestsAgree'
    BY <2>1, <2>2, <2>5
  <2>7. WindowIsDraft'
    BY <2>1, <2>2
  <2>. QED
    BY <2>3, <2>4, <2>6, <2>7
<1>8. ASSUME SellOffline PROVE Rest'
  BY <1>8 DEF SellOffline, OfflineConfirmButtons
<1>9. ASSUME NEW r \in requests, ServeLogin(r) PROVE Rest'
  BY <1>9 DEF ServeLogin, Answer
<1>10. ASSUME NEW r \in requests, ServeSale(r) PROVE Rest'
  <2>0. /\ r \in requests /\ r.key \in Keys /\ r.guest \in Guests
        /\ requests' = requests \ {r} /\ reply' = IF r.awaited THEN r.key ELSE reply
        /\ UNCHANGED <<tab, voiding, window>>
    BY <1>10 DEF ServeSale, Answer, Request
  <2>1. CASE Existing(r.key)
    <3>1. ticket' = ticket
      BY <1>10, <2>0, <2>1 DEF ServeSale, Issue
    <3>2. UNCHANGED rows
      BY <1>10, <2>1, <3>1 DEF ServeSale
    <3>3. RowsAgree' /\ LiveIsPaid' /\ LiveIsOne' /\ NewRequestsAgree'
      BY <2>0, <3>2, RowsStay
    <3>4. TabWaits'
      BY <2>0, <2>1, <3>2
    <3>5. WindowIsDraft' /\ VoidIsAlone'
      BY <2>0, <3>2
    <3>. QED
      BY <3>3, <3>4, <3>5
  <2>2. CASE ~Existing(r.key)
    <3>1. /\ booking' = [booking EXCEPT ![r.key] = "CASH_CONFIRMED"]
          /\ buyer' = [buyer EXCEPT ![r.key] = r.guest]
          /\ tender' = [tender EXCEPT ![r.key] = Pays[r.guest]]
          /\ ticket' = [ticket EXCEPT ![r.key] = "ACTIVE"]
      BY <1>10, <2>0, <2>2 DEF ServeSale, Issue, TenderOf
    <3>2. /\ r.guest \in paid /\ SalesOf(r.guest) = {}
          /\ \A other \in requests : New(other) => other.key = r.key
      BY <2>0, <2>2
    <3>3. \A other \in requests' : ~New(other)'
      BY <2>0, <3>1, <3>2 DEF Request, Absent
    <3>4. RowsAgree'
      BY <2>0, <3>1 DEF Absent
    <3>5. LiveIsPaid'
      BY <2>0, <3>1, <3>2
    <3>6. LiveIsOne'
      BY <2>0, <3>1, <3>2
    <3>7. TabWaits'
      BY <2>0, <3>1 DEF Absent
    <3>8. NewRequestsAgree'
      BY <3>3
    <3>9. WindowIsDraft'
      <4>. SUFFICES ASSUME guest # NoGuest
                    PROVE  \A k \in SalesOf(guest)' : k = draft /\ ticket'[k] = "ACTIVE" /\ \A g \in Guests : k \notin given[g]
        BY <2>0, <3>3
      <4>1. r.key = draft /\ r.guest = guest /\ SalesOf(guest) = {}
        BY <2>0, <2>2
      <4>2. SalesOf(guest)' \subseteq {r.key}
        BY <2>0, <3>1, <4>1
      <4>3. ticket'[r.key] = "ACTIVE" /\ \A g \in Guests : r.key \notin given[g]
        BY <2>0, <2>2, <3>1
      <4>. QED
        BY <4>1, <4>2, <4>3
    <3>10. VoidIsAlone'
      BY <2>0
    <3>. QED
      BY <3>4, <3>5, <3>6, <3>7, <3>8, <3>9, <3>10
  <2>. QED
    BY <2>1, <2>2
<1>11. ASSUME NEW r \in requests, ServeError(r) PROVE Rest'
  BY <1>11 DEF ServeError, Answer
<1>12. ASSUME VoidReads PROVE Rest'
  BY <1>12 DEF VoidReads, OffersVoid
<1>13. ASSUME VoidCancels PROVE Rest'
  <2>1. /\ voiding \in Keys /\ Cancel(voiding) /\ voiding' = NoKey /\ guest = NoGuest
        /\ UNCHANGED <<tab, wire>>
    BY <1>13 DEF VoidCancels
  <2>2. booking[voiding] = "CASH_CONFIRMED" => buyer[voiding] # guest
    BY <2>1, <1>13 DEF Absent
  <2>. QED
    BY <2>1, <2>2, CancelStays
<1>14. ASSUME NEW k \in Keys, AdminCancels(k) PROVE Rest'
  <2>1. Cancel(k) /\ buyer[k] # guest /\ UNCHANGED <<tab, wire, voiding>>
    BY <1>14 DEF AdminCancels
  <2>. QED
    BY <2>1, CancelStays
<1>15. ASSUME RetireRate PROVE Rest'
  BY <1>15 DEF RetireRate
<1>16. ASSUME SessionExpires PROVE Rest'
  BY <1>16 DEF SessionExpires
<1>17. ASSUME NEW g \in Guests, Arrive(g) PROVE Rest'
  BY <1>17 DEF Arrive
<1>18. ASSUME NEW r \in requests, LoseRequest(r) PROVE Rest'
  BY <1>18 DEF LoseRequest
<1>19. ASSUME LoseReply PROVE Rest'
  <2>1. reply' = NoReply /\ reply # NoReply /\ UNCHANGED <<tab, requests, rows, voiding, window>>
    BY <1>19 DEF LoseReply
  <2>2. RowsAgree' /\ LiveIsPaid' /\ LiveIsOne' /\ NewRequestsAgree'
    BY <2>1, RowsStay
  <2>3. TabWaits' /\ VoidIsAlone'
    BY <2>1 DEF NoReply
  <2>4. WindowIsDraft'
    BY <2>1
  <2>. QED
    BY <2>2, <2>3, <2>4
<1>20. ASSUME LinkDrops PROVE Rest'
  BY <1>20 DEF LinkDrops
<1>21. ASSUME LinkReturns PROVE Rest'
  BY <1>21 DEF LinkReturns, Refresh, ToLogin
<1>22. ASSUME NEW g \in Guests, NEW k \in Keys, Board(g, k) PROVE Rest'
  <2>1. /\ k \in given[g] /\ ticket[k] = "ACTIVE" /\ ticket' = [ticket EXCEPT ![k] = "USED"]
        /\ UNCHANGED <<tab, wire, booking, buyer, tender, voiding, window>>
    BY <1>22 DEF Board
  <2>2. RowsAgree'
    BY <2>1 DEF Absent
  <2>3. LiveIsPaid' /\ LiveIsOne' /\ NewRequestsAgree'
    BY <2>1
  <2>4. TabWaits' /\ VoidIsAlone'
    BY <2>1
  <2>5. WindowIsDraft'
    BY <2>1
  <2>. QED
    BY <2>2, <2>3, <2>4, <2>5
<1>23. CASE UNCHANGED vars
  <2>1. Rest'
    BY <1>23 DEF vars
  <2>. QED
    BY <2>1, TypeStep
<1>. QED
  <2>. HIDE DEF Rest
  <2>. QED
    BY <1>1, <1>2, <1>3, <1>4, <1>5, <1>6, <1>7, <1>8, <1>9, <1>10, <1>11, <1>12, <1>13, <1>14, <1>15,
       <1>16, <1>17, <1>18, <1>19, <1>20, <1>21, <1>22, <1>23, TypeStep
       DEF Next, Tab, Server, World, Rest

\* SaleInv holds in every reachable state.
LEMMA SaleInvariant == Spec => []SaleInv
<1>1. Init => SaleInv
  <2>. SUFFICES ASSUME Init PROVE SaleInv
    OBVIOUS
  <2>1. draft \in Keys /\ draft # NoKey
    BY GuestsAndKeysAreFew, NoKeyIsNone DEF Init
  <2>2. TypeOK
    BY <2>1 DEF Init, TypeOK, Absent, NoReply
  <2>3. RowsAgree /\ LiveIsPaid /\ LiveIsOne
    BY DEF Init, RowsAgree, LiveIsPaid, LiveIsOne, Live, Existing, Absent
  <2>4. TabWaits /\ NewRequestsAgree /\ WindowIsDraft /\ VoidIsAlone
    BY AnswersAreNoKeys DEF Init, TabWaits, NewRequestsAgree, WindowIsDraft, VoidIsAlone, NoReply
  <2>. QED
    BY <2>2, <2>3, <2>4 DEF SaleInv
<1>2. SaleInv /\ [Next]_vars => SaleInv'
  BY SaleStep
<1>. QED
  BY <1>1, <1>2, PTL DEF Spec

\* Every reachable state has the types TypeOK gives.
THEOREM TypeCorrect == Spec => []TypeOK
<1>1. SaleInv => TypeOK
  BY DEF SaleInv
<1>. QED
  BY <1>1, SaleInvariant, PTL

\* However often a hanging sale is reloaded and sent again, before or after a
\* cancellation, a new login or an outage, a group has one live online sale.
THEOREM NoSaleTwice == Spec => []OneSalePerGuest
<1>1. SaleInv => OneSalePerGuest
  <2>. SUFFICES ASSUME SaleInv, NEW g \in Guests PROVE Cardinality(SalesOf(g)) <= 1
    BY DEF OneSalePerGuest
  <2>1. CASE SalesOf(g) = {}
    BY <2>1, FS_EmptySet
  <2>2. CASE SalesOf(g) # {}
    <3>1. PICK k : k \in SalesOf(g)
      BY <2>2
    <3>2. SalesOf(g) = {k}
      BY <3>1 DEF SaleInv, LiveIsOne, Live, SalesOf
    <3>. QED
      <4>1. Cardinality(SalesOf(g)) = 1
        BY <3>2, FS_Singleton, Zenon
      <4>. QED
        BY <4>1
  <2>. QED
    BY <2>1, <2>2
<1>. QED
  BY <1>1, SaleInvariant, PTL

-----------------------------------------------------------------------------
(* The day-end slip, as long as the link has not been down.                *)

\* A page that turns keeps the draft of the group at the window; a new draft is
\* a key nobody has used.
LEMMA TurnKeepsDraft ==
  ASSUME SaleInv, NoOutageInv, UNCHANGED <<net, requests, rows, window>>,
         \/ draft' = draft
         \/ draft = NoKey /\ draft' \in Keys /\ ~Existing(draft')
         \/ guest = NoGuest /\ draft' = NoKey
  PROVE  NoOutageInv'
BY DEF NoOutageInv, SaleGetsItsOwnTicket, Existing, SalesOf, net, rows, window

\* A key the server mints for a form is in no row.
LEMMA FormHasFreshKey ==
  ASSUME NEW held, RenderForm(held)
  PROVE  draft' = draft \/ (draft = NoKey /\ draft' \in Keys /\ ~Existing(draft'))
<1>1. CASE draft # NoKey
  BY <1>1 DEF RenderForm, Mount, Mounted
<1>2. CASE draft = NoKey
  <2>1. draft' = Mint(held) /\ Mintable(held) # {}
    BY <1>2 DEF RenderForm, Mount, Mounted
  <2>2. Mint(held) \in Keys /\ booking[Mint(held)] = Absent
    BY <2>1, MintIsFresh
  <2>. QED
    BY <1>2, <2>1, <2>2 DEF Existing
<1>. QED
  BY <1>1, <1>2

\* A cancellation takes the money of the sale's own group and no other.
LEMMA CancelKeepsCount ==
  ASSUME SaleInv, NoOutageInv, NEW k \in Keys, Cancel(k), UNCHANGED <<draft, net, requests>>
  PROVE  NoOutageInv'
<1>. USE DEF SaleInv, TypeOK
<1>1. booking[k] \in {"CASH_CONFIRMED", "CANCELLED"}
  BY DEF Cancel, MayBecome, CanTransition, Allowed, Absent
<1>2. booking' = [booking EXCEPT ![k] = "CANCELLED"] /\ UNCHANGED <<buyer, guest, given>>
  BY DEF Cancel
<1>3. \A l \in Keys : Existing(l)' <=> Existing(l)
  BY <1>1, <1>2 DEF Existing, Absent
<1>4. CASE booking[k] = "CANCELLED"
  <2>1. UNCHANGED <<booking, paid>>
    BY <1>2, <1>4 DEF Cancel
  <2>. QED
    BY <1>2, <2>1 DEF NoOutageInv, SaleGetsItsOwnTicket, SalesOf, Existing, net
<1>5. CASE booking[k] = "CASH_CONFIRMED"
  <2>1. paid' = paid \ {buyer[k]}
    BY <1>5 DEF Cancel
  <2>2. \A g \in paid' : SalesOf(g)' = SalesOf(g)
    BY <1>2, <2>1 DEF SalesOf
  <2>3. \A r \in requests : r.key \in Keys
    BY DEF Request
  <2>. QED
    BY <1>2, <1>3, <2>1, <2>2, <2>3 DEF NoOutageInv, SaleGetsItsOwnTicket, net
<1>. QED
  BY <1>1, <1>4, <1>5

\* Until the link goes down, every step keeps the money of each group with its sale.
LEMMA NoOutageStep == SaleInv /\ NoOutageInv /\ [Next]_vars => NoOutageInv'
<1>. SUFFICES ASSUME SaleInv, NoOutageInv, [Next]_vars PROVE NoOutageInv'
  OBVIOUS
<1>. USE NoGuestIsNone, NoKeyIsNone, AnswersAreNoKeys DEF tab, wire
<1>0. CASE everCut'
  BY <1>0 DEF NoOutageInv
<1>1. ASSUME Reload, ~everCut' PROVE NoOutageInv'
  <2>1. ~everCut /\ link /\ UNCHANGED <<net, rows, window>>
    BY <1>1 DEF Reload, net, NoOutageInv
  <2>2. draft' = draft
    BY <1>1, <2>1 DEF Reload, ToLogin, CachedForm, Mount, Mounted, SaleInv, TypeOK
  <2>3. \A r \in requests' : \E old \in requests : r.key = old.key
    <3>. SUFFICES ASSUME NEW r \in requests' PROVE \E old \in requests : r.key = old.key
      OBVIOUS
    <3>1. PICK old \in requests : r = [old EXCEPT !.awaited = FALSE]
      BY <1>1 DEF Reload
    <3>. QED
      BY <3>1 DEF SaleInv, TypeOK, Request
  <2>. QED
    BY <2>1, <2>2, <2>3 DEF NoOutageInv, SaleGetsItsOwnTicket, Existing, SalesOf, net, rows, window
<1>2. ASSUME SignIn PROVE NoOutageInv'
  BY <1>2, FormHasFreshKey, TurnKeepsDraft DEF SignIn
<1>3. ASSUME NextSale, ~everCut' PROVE NoOutageInv'
  <2>1. link /\ UNCHANGED <<net, wire, rows, window>>
    BY <1>3 DEF NextSale, net, NoOutageInv
  <2>2. RenderForm({draft, shell}) \/ ToLogin
    BY <1>3, <2>1 DEF NextSale, CachedForm
  <2>. QED
    BY <2>1, <2>2, FormHasFreshKey, TurnKeepsDraft DEF ToLogin
<1>4. ASSUME Receive, ~everCut' PROVE NoOutageInv'
  <2>1. /\ ~everCut /\ guest # NoGuest /\ reply # NoReply /\ UNCHANGED <<net, requests, rows, paid>>
        /\ guest \in Guests
    BY <1>4 DEF Receive, net, SaleInv, TabWaits, TypeOK
  <2>2. CASE reply \in Keys /\ HandOver(reply)
    <3>1. /\ guest' = NoGuest /\ draft' = NoKey
          /\ given' = [given EXCEPT ![guest] = @ \union {reply}]
      BY <1>4, <2>2 DEF Receive, ShowTicket, ClearDraftSaleKey, NoReply
    <3>2. reply = draft /\ Existing(draft) /\ Live(draft) /\ buyer[draft] = guest
      BY <2>1, <2>2 DEF SaleInv, TabWaits, RowsAgree, HandOver, NoOutageInv
    <3>3. draft \in SalesOf(guest)
      BY <2>2, <3>2 DEF SalesOf, Live
    <3>4. \A r \in requests : Existing(r.key)
      BY <2>1, <3>2 DEF SaleInv, WindowIsDraft, New
    <3>5. SaleGetsItsOwnTicket'
      BY <2>1, <3>1, <3>2 DEF NoOutageInv, SaleGetsItsOwnTicket, SaleInv, TypeOK, rows
    <3>. QED
      BY <2>1, <3>1, <3>3, <3>4, <3>5 DEF NoOutageInv, SalesOf, Existing, net, rows
  <2>3. CASE ~(reply \in Keys /\ HandOver(reply))
    <3>1. UNCHANGED <<guest, given>> /\ (draft' = draft \/ draft' = NoKey)
      BY <1>4, <2>3 DEF Receive, ShowTicket, ClearDraftSaleKey, ToLogin
    <3>. QED
      BY <2>1, <3>1 DEF NoOutageInv, SaleGetsItsOwnTicket, SalesOf, Existing, net, rows
  <2>. QED
    BY <2>2, <2>3
<1>5. ASSUME OverlayDone PROVE NoOutageInv'
  BY <1>5, TurnKeepsDraft DEF OverlayDone, Refresh, ToLogin
<1>6. ASSUME NEW k \in Keys, Reprint(k) PROVE NoOutageInv'
  BY <1>6, TurnKeepsDraft DEF Reprint, ShowTicket, ClearDraftSaleKey
<1>7. ASSUME NEW rate \in Rates, Submit(rate) PROVE NoOutageInv'
  BY <1>7 DEF Submit, ConfirmButtons, NoOutageInv, SaleGetsItsOwnTicket, SalesOf, Existing, net, rows,
     window
<1>8. ASSUME SellOffline, ~everCut' PROVE NoOutageInv'
  BY <1>8 DEF SellOffline, OfflineConfirmButtons, NoOutageInv, net
<1>9. ASSUME NEW r \in requests, UNCHANGED <<draft, net, rows, window>>, requests' = requests \ {r}
      PROVE  NoOutageInv'
  BY <1>9 DEF NoOutageInv, SaleGetsItsOwnTicket, SalesOf, Existing, net, rows, window
<1>10. ASSUME NEW r \in requests, ServeSale(r) PROVE NoOutageInv'
  <2>0. /\ r.key \in Keys /\ r.guest \in Guests /\ requests' = requests \ {r}
        /\ UNCHANGED <<tab, net, window>>
    BY <1>10 DEF ServeSale, Answer, Request, SaleInv, TypeOK
  <2>1. CASE Existing(r.key)
    <3>1. UNCHANGED <<booking, buyer>>
      BY <1>10, <2>1 DEF ServeSale
    <3>. QED
      BY <2>0, <3>1 DEF NoOutageInv, SaleGetsItsOwnTicket, SalesOf, Existing, net, window
  <2>2. CASE ~Existing(r.key)
    <3>. SUFFICES ASSUME ~everCut PROVE NoOutageInv'
      BY <2>0 DEF NoOutageInv, net
    <3>1. /\ booking' = [booking EXCEPT ![r.key] = "CASH_CONFIRMED"]
          /\ buyer' = [buyer EXCEPT ![r.key] = r.guest]
      BY <1>10, <2>2 DEF ServeSale
    <3>2. guest # NoGuest /\ r.key = draft /\ r.guest = guest
      BY <2>0, <2>2 DEF NoOutageInv, SaleInv, WindowIsDraft, New
    <3>3. \A k \in Keys : k # r.key => booking'[k] = booking[k] /\ buyer'[k] = buyer[k]
      BY <2>0, <3>1 DEF SaleInv, TypeOK
    <3>4. buyer'[draft] = guest
      BY <2>0, <3>1, <3>2 DEF SaleInv, TypeOK
    <3>5. \A g \in paid : SalesOf(g) \subseteq SalesOf(g)'
      BY <2>2, <3>3 DEF SalesOf, Existing, Absent
    <3>6. SaleGetsItsOwnTicket'
      <4>1. \A g \in Guests : \A k \in given[g] : k \in Keys /\ k # r.key
        BY <2>2 DEF SaleInv, RowsAgree, TypeOK
      <4>. QED
        BY <2>0, <3>3, <4>1 DEF NoOutageInv, SaleGetsItsOwnTicket, window
    <3>. QED
      BY <2>0, <3>2, <3>4, <3>5, <3>6 DEF NoOutageInv, net, window
  <2>. QED
    BY <2>1, <2>2
<1>11. ASSUME UNCHANGED <<draft, net, requests, booking, buyer, guest, paid, given>> PROVE NoOutageInv'
  BY <1>11 DEF NoOutageInv, SaleGetsItsOwnTicket, SalesOf, Existing, net
<1>12. ASSUME VoidCancels PROVE NoOutageInv'
  BY <1>12, CancelKeepsCount DEF VoidCancels, SaleInv, TypeOK
<1>13. ASSUME NEW k \in Keys, AdminCancels(k) PROVE NoOutageInv'
  BY <1>13, CancelKeepsCount DEF AdminCancels
<1>14. ASSUME NEW g \in Guests, Arrive(g) PROVE NoOutageInv'
  <2>1. /\ guest = NoGuest /\ guest' = g /\ g # NoGuest /\ paid' = paid \union {g}
        /\ UNCHANGED <<draft, link, everCut, requests, booking, buyer, given>>
    BY <1>14 DEF Arrive, net, rows
  <2>2. \A p \in paid' : p = guest' \/ SalesOf(p)' # {} \/ everCut
    BY <2>1 DEF NoOutageInv, SalesOf, SaleInv, TypeOK
  <2>3. SaleGetsItsOwnTicket' \/ everCut
    BY <2>1 DEF NoOutageInv, SaleGetsItsOwnTicket
  <2>. QED
    BY <2>1, <2>2, <2>3 DEF NoOutageInv, Existing
<1>15. ASSUME LinkDrops \/ LinkReturns, ~everCut' PROVE NoOutageInv'
  BY <1>15 DEF LinkDrops, LinkReturns, NoOutageInv
<1>16. ASSUME NEW r \in requests, ServeLogin(r) \/ ServeError(r) \/ LoseRequest(r) PROVE NoOutageInv'
  BY <1>9, <1>16 DEF ServeLogin, ServeError, LoseRequest, Answer
<1>17. ASSUME \/ LoseReply \/ VoidReads \/ RetireRate \/ SessionExpires \/ UNCHANGED vars
              \/ \E g \in Guests, k \in Keys : Board(g, k)
       PROVE  NoOutageInv'
  BY <1>11, <1>17 DEF LoseReply, VoidReads, RetireRate, SessionExpires, Board, vars, rows, window
<1>. QED
  BY <1>0, <1>1, <1>2, <1>3, <1>4, <1>5, <1>6, <1>7, <1>8, <1>10, <1>12, <1>13, <1>14, <1>15, <1>16, <1>17
     DEF Next, Tab, Server, World

\* Until the link goes down, NoOutageInv holds in every reachable state.
LEMMA NoOutageInvariant == Spec => []NoOutageInv
<1>1. Init => NoOutageInv
  BY DEF Init, NoOutageInv, SaleGetsItsOwnTicket, Existing, SalesOf, Absent
<1>. QED
  BY <1>1, SaleInvariant, NoOutageStep, PTL DEF Spec

\* With nobody at the window the day-end slip counts the money that was taken,
\* by tender, as long as the link has not been down.
THEOREM SlipIsRight == Spec => []DrawerMatchesSlip
<1>1. SaleInv /\ NoOutageInv => DrawerMatchesSlip
  <2>. SUFFICES ASSUME SaleInv, NoOutageInv, guest = NoGuest, ~everCut, NEW t \in Tenders
                PROVE  Slip(t) = Drawer(t)
    BY DEF DrawerMatchesSlip
  <2>. DEFINE Sold == {k \in Keys : booking[k] = "CASH_CONFIRMED" /\ tender[k] = t}
              Payers == {g \in paid : Pays[g] = t}
              f == [k \in Sold |-> buyer[k]]
  <2>1. f \in [Sold -> Payers]
    BY DEF SaleInv, RowsAgree, LiveIsPaid, Live, Existing, Absent
  <2>2. \A k, l \in Sold : f[k] = f[l] => k = l
    BY DEF SaleInv, LiveIsOne, Live
  <2>3. \A g \in Payers : \E k \in Sold : f[k] = g
    <3>. SUFFICES ASSUME NEW g \in Payers PROVE \E k \in Sold : f[k] = g
      OBVIOUS
    <3>1. PICK k : k \in SalesOf(g)
      BY NoGuestIsNone DEF NoOutageInv, SaleInv, TypeOK
    <3>2. k \in Sold /\ buyer[k] = g
      BY <3>1 DEF SalesOf, SaleInv, RowsAgree, Existing, Absent
    <3>. QED
      BY <3>2
  <2>. HIDE DEF f
  <2>4. ExistsBijection(Sold, Payers)
    <3>. HIDE DEF Sold, Payers
    <3>1. f \in Bijection(Sold, Payers)
      BY <2>1, <2>2, <2>3, Fun_IsBij
    <3>. QED
      BY <3>1 DEF ExistsBijection
  <2>5. IsFiniteSet(Sold)
    <3>1. Sold \in SUBSET Keys
      OBVIOUS
    <3>. HIDE DEF Sold
    <3>. QED
      BY <3>1, GuestsAndKeysAreFew, FS_Subset
  <2>6. Cardinality(Sold) = Cardinality(Payers)
    <3>. HIDE DEF Sold, Payers
    <3>. QED
      BY <2>4, <2>5, FS_Bijection
  <2>. QED
    BY <2>6 DEF Slip, Drawer
<1>. QED
  BY <1>1, SaleInvariant, NoOutageInvariant, PTL

\* What the cached form says of its key, that a group may get the ticket of
\* another's sale, needs an outage: without one no group does.
THEOREM OwnTicketsWithoutOutage == Spec => [](~everCut => SaleGetsItsOwnTicket)
<1>1. NoOutageInv => (~everCut => SaleGetsItsOwnTicket)
  BY DEF NoOutageInv
<1>. QED
  BY <1>1, NoOutageInvariant, PTL

=============================================================================
