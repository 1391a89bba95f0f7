---------------------------- MODULE StaffAccess ----------------------------
(***************************************************************************)
(* Staff accounts, their sessions, and the administrators who change them. *)
(* A session is a row that every request looks up again, with its owner's  *)
(* row, so that an account can be shut at once.  Every server action is    *)
(* several statements outside a transaction, and two administrators may be *)
(* at work together.                                                       *)
(***************************************************************************)
EXTENDS Naturals, FiniteSets

CONSTANTS
  Staff,          \* the accounts there may ever be; a person each, a browser each
  Admins,         \* those that are administrators to begin with
  MaxFailures,    \* MAX_FAILURES of login.ts
  MaxResets,      \* bound: password resets of an account
  MaxRequests,    \* bound: what the administrators do
  None            \* no session, no request

ASSUME AdminsAreStaff == Admins \subseteq Staff
ASSUME SomebodyIsAdmin == Admins # {}
ASSUME MaxFailuresIsPositive == MaxFailures \in Nat \ {0}
ASSUME BoundsAreCounts == MaxResets \in Nat /\ MaxRequests \in Nat

VARIABLES
  account,     \* the staff_users rows
  sold,        \* the members whom a sale, a rate or a boarding names
  failures,    \* failed attempts in the last fifteen minutes, by username
  login,       \* loginAction, between the password check and the session
  session,     \* the session each browser's cookie leads to
  request,     \* the server action each browser has under way
  left,        \* bound: requests the administrators may still make
  together,    \* history: an administrator wrote while another was at work
  cutShort     \* history: accounts whose session revocation never ran

rows == <<account, sold>>
signIn == <<failures, login, session>>
history == <<together, cutShort>>
vars == <<rows, signIn, request, left, history>>

\* SCANNER differs from COUNTER in nothing here.
Roles == {"ADMIN", "COUNTER"}
Gone == [exists |-> FALSE, role |-> "COUNTER", active |-> FALSE, password |-> 0]
Account == [exists : BOOLEAN, role : Roles, active : BOOLEAN, password : 0 .. MaxResets]

\* A session, and a sign-in about to open it: the password it was checked
\* against, and (history) whether a revocation ran before it opened.
Session == [password : 0 .. MaxResets, raced : BOOLEAN]
Ops == {"create", "activate", "deactivate", "edit", "delete", "sell"}
Steps == {"start", "checked", "revoke"}
Request == [op : Ops, on : Staff, role : Roles, reset : BOOLEAN, changes : BOOLEAN, step : Steps]

ASSUME NoneIsNothing == None \notin Session \cup Request

----------------------------------------------------------------------------
(***************************************************************************)
(* Signing in and out.                                                     *)
(***************************************************************************)

\* Mutant: one attempt too many is let through.
LockedLate(s) == failures[s] > MaxFailures

\* recentFailureCount has reached MAX_FAILURES.
Locked(s) == failures[s] >= MaxFailures

\* A failed attempt is recorded, one against a locked account too, which
\* keeps it locked: the count stops where it stops mattering.
CountFailure(s) ==
  failures' = [failures EXCEPT ![s] = IF Locked(s) THEN @ ELSE @ + 1]

\* attemptLogin with this password: locked, refused, or good.  p is the
\* password the person types, an older one perhaps.
TryLogin(s, p) ==
  /\ login[s] = None /\ session[s] = None
  /\ IF /\ ~Locked(s)
        /\ account[s].exists /\ account[s].active
        /\ account[s].password = p
     THEN login' = [login EXCEPT ![s] = [password |-> p, raced |-> FALSE]] /\ UNCHANGED failures
     ELSE CountFailure(s) /\ UNCHANGED login
  /\ UNCHANGED <<rows, session, request, left, history>>

\* createSession, which looks at nothing again; the foreign key refuses an
\* account that has been deleted.
OpenSession(s) ==
  /\ login[s] # None
  /\ session' = IF account[s].exists THEN [session EXCEPT ![s] = login[s]] ELSE session
  /\ login' = [login EXCEPT ![s] = None]
  /\ UNCHANGED <<rows, failures, request, left, history>>

\* Fifteen minutes pass without another attempt.
WindowPasses(s) ==
  /\ failures[s] > 0
  /\ failures' = [failures EXCEPT ![s] = 0]
  /\ UNCHANGED <<rows, login, session, request, left, history>>

\* Signing out, or twelve hours.
EndSession(s) ==
  /\ session[s] # None
  /\ session' = [session EXCEPT ![s] = None]
  /\ UNCHANGED <<rows, failures, login, request, left, history>>

\* Mutant: the session alone decides, as it would in a stateless token.
KnownByCookie(s) == session[s] # None

\* getSessionStaff: the session's row and, joined to it, the account's.
Known(s) == session[s] # None /\ account[s].exists /\ account[s].active

\* requireStaff(["ADMIN"]) and requireStaff(["COUNTER"]).
MayAdminister(s) == Known(s) /\ account[s].role = "ADMIN"
MaySell(s) == Known(s)

----------------------------------------------------------------------------
(***************************************************************************)
(* The server actions.  Begin is the guard at the head of each; what comes *)
(* after runs as the member who passed it, whatever has happened since.    *)
(***************************************************************************)

\* Mutant: an administrator may act on the own account as on any other.
OnSelfToo(s, op, role) == TRUE

\* "You cannot deactivate your own account", "Ask another admin to change
\* your own role", "You cannot delete your own account".
AllowedOn(s, op, role) ==
  /\ op \notin {"activate", "deactivate", "delete"}
  /\ op = "edit" => role = account[s].role

\* Bound: an account is made where none is and where nothing under way means
\* the one that was, for a new account has a new id.
Vacant(t) ==
  /\ ~account[t].exists /\ login[t] = None /\ request[t] = None
  /\ \A o \in Staff : request[o] # None /\ request[o].on = t => request[o].op = "create"

Begin(s, op, t, role, reset) ==
  /\ request[s] = None
  /\ IF op = "sell" THEN MaySell(s) /\ t = s ELSE MayAdminister(s)
  /\ t = s => AllowedOn(s, op, role)
  /\ IF op = "sell" THEN UNCHANGED left ELSE left > 0 /\ left' = left - 1
  /\ op = "create" => Vacant(t) /\ ~reset
  /\ op \notin {"create", "edit"} => role = "COUNTER" /\ ~reset
  /\ request' = [request EXCEPT ![s] =
       [op |-> op, on |-> t, role |-> role, reset |-> reset, changes |-> FALSE, step |-> "start"]]
  /\ UNCHANGED <<rows, signIn, history>>

Finish(s) == request' = [request EXCEPT ![s] = None] /\ UNCHANGED left
GoOn(s, step) == request' = [request EXCEPT ![s].step = step] /\ UNCHANGED left

Is(s, op, step) == request[s] # None /\ request[s].op = op /\ request[s].step = step
Target(s) == request[s].on

\* What every write by an administrator notes for the record.
NoteCompany(s) ==
  together' = (together \/ \E o \in Staff \ {s} : request[o] # None /\ request[o].op # "sell")

\* createStaffAction: the name is free, and UNIQUE sees to it that it is.
Create(s) ==
  /\ Is(s, "create", "start")
  /\ account[Target(s)].exists \/ Vacant(Target(s))
  /\ account' = IF account[Target(s)].exists THEN account
                ELSE [account EXCEPT ![Target(s)] =
                        [exists |-> TRUE, role |-> request[s].role, active |-> TRUE, password |-> 0]]
  /\ Finish(s)
  /\ NoteCompany(s)
  /\ UNCHANGED <<sold, signIn, cutShort>>

\* setStaffActiveAction: the update, and the revocation still to come.
SetActive(s) ==
  /\ Is(s, "activate", "start") \/ Is(s, "deactivate", "start")
  /\ IF account[Target(s)].exists
     THEN /\ account' = [account EXCEPT ![Target(s)].active = (request[s].op = "activate")]
          /\ IF request[s].op = "deactivate" THEN GoOn(s, "revoke") ELSE Finish(s)
     ELSE UNCHANGED account /\ Finish(s)
  /\ NoteCompany(s)
  /\ UNCHANGED <<sold, signIn, cutShort>>

\* editStaffAction reads the row to see what is changing ...
ReadBefore(s) ==
  /\ Is(s, "edit", "start")
  /\ IF account[Target(s)].exists
     THEN /\ request' = [request EXCEPT ![s].step = "checked",
                        ![s].changes = (account[Target(s)].role # request[s].role) \/ request[s].reset]
          /\ UNCHANGED left
     ELSE Finish(s)
  /\ UNCHANGED <<rows, signIn, history>>

\* Mutant: a new password leaves the sessions alone.
RevokesForRole(s) == request[s].changes /\ ~request[s].reset

\* "A role change or a password reset both invalidate what the account is
\* currently trusted to do".
Revokes(s) == request[s].changes

\* ... and writes it.  Bound: a password is reset MaxResets times.
Edit(s) ==
  /\ Is(s, "edit", "checked")
  /\ LET a == account[Target(s)] IN
       IF a.exists /\ (request[s].reset => a.password < MaxResets)
       THEN /\ account' = [account EXCEPT ![Target(s)] =
                 [a EXCEPT !.role = request[s].role,
                           !.password = IF request[s].reset THEN @ + 1 ELSE @]]
            /\ IF Revokes(s) THEN GoOn(s, "revoke") ELSE Finish(s)
       ELSE UNCHANGED account /\ Finish(s)
  /\ NoteCompany(s)
  /\ UNCHANGED <<sold, signIn, cutShort>>

\* revokeAllSessionsFor, the statement after either update.
Revoke(s) ==
  /\ request[s] # None /\ request[s].step = "revoke"
  /\ session' = [session EXCEPT ![Target(s)] = None]
  /\ login' = IF login[Target(s)] = None THEN login
              ELSE [login EXCEPT ![Target(s)].raced = TRUE]
  /\ Finish(s)
  /\ UNCHANGED <<rows, failures, history>>

\* deleteStaffAction: "This is the last active admin", and the history.
CheckDelete(s) ==
  /\ Is(s, "delete", "start")
  /\ IF /\ account[Target(s)].exists
        /\ account[Target(s)].role = "ADMIN" =>
             \E o \in Staff \ {Target(s)} :
               account[o].exists /\ account[o].active /\ account[o].role = "ADMIN"
        /\ Target(s) \notin sold
     THEN GoOn(s, "checked") ELSE Finish(s)
  /\ UNCHANGED <<rows, signIn, history>>

\* Mutant: no foreign key.
DeletableAlways(t) == TRUE

\* bookings, rates and boardings reference the row: the database refuses.
Deletable(t) == t \notin sold

\* The deletion; the sessions go with the row.
Delete(s) ==
  /\ Is(s, "delete", "checked")
  /\ IF Deletable(Target(s))
     THEN /\ account' = [account EXCEPT ![Target(s)] = Gone]
          /\ session' = [session EXCEPT ![Target(s)] = None]
     ELSE UNCHANGED <<account, session>>
  /\ Finish(s)
  /\ NoteCompany(s)
  /\ UNCHANGED <<sold, failures, login, cutShort>>

\* A sale (or a rate, or a boarding) in the member's name.
Sell(s) ==
  /\ Is(s, "sell", "start")
  /\ sold' = IF account[s].exists THEN sold \cup {s} ELSE sold
  /\ Finish(s)
  /\ UNCHANGED <<account, signIn, history>>

\* A statement fails, or the process dies, between two statements.
CutShort(s) ==
  /\ request[s] # None /\ request[s].step # "start"
  /\ Finish(s)
  /\ cutShort' = IF request[s].step = "revoke" THEN cutShort \cup {Target(s)} ELSE cutShort
  /\ UNCHANGED <<rows, signIn, together>>

----------------------------------------------------------------------------
Init ==
  /\ account = [s \in Staff |->
       [exists |-> TRUE, role |-> IF s \in Admins THEN "ADMIN" ELSE "COUNTER",
        active |-> TRUE, password |-> 0]]
  /\ sold = {}
  /\ failures = [s \in Staff |-> 0]
  /\ login = [s \in Staff |-> None]
  /\ session = [s \in Staff |-> None]
  /\ request = [s \in Staff |-> None]
  /\ left = MaxRequests
  /\ together = FALSE /\ cutShort = {}

Next ==
  \E s \in Staff :
    \/ \E p \in 0 .. account[s].password : TryLogin(s, p)
    \/ OpenSession(s) \/ WindowPasses(s) \/ EndSession(s)
    \/ \E op \in Ops, t \in Staff, role \in Roles, reset \in BOOLEAN :
         Begin(s, op, t, role, reset)
    \/ Create(s) \/ SetActive(s) \/ ReadBefore(s) \/ Edit(s) \/ Revoke(s)
    \/ CheckDelete(s) \/ Delete(s) \/ Sell(s) \/ CutShort(s)

Spec == Init /\ [][Next]_vars

----------------------------------------------------------------------------
(***************************************************************************)
(* Properties.                                                             *)
(***************************************************************************)

\* What the variables hold.
TypeOK ==
  /\ account \in [Staff -> Account]
  /\ sold \subseteq Staff
  /\ failures \in [Staff -> 0 .. MaxFailures]
  /\ login \in [Staff -> Session \cup {None}]
  /\ session \in [Staff -> Session \cup {None}]
  /\ request \in [Staff -> Request \cup {None}]
  /\ left \in 0 .. MaxRequests /\ together \in BOOLEAN /\ cutShort \subseteq Staff

\* "The park would be locked out": an administrator always remains, unless
\* two administrators were at work on the accounts at the same moment.
\* Nothing but the guard on the own account and the fresh look at the session
\* and the account on every request keeps it so.
LockoutNeedsCompany ==
  \/ \E s \in Staff : account[s].exists /\ account[s].active /\ account[s].role = "ADMIN"
  \/ together

\* "Deactivating a staff member must take effect on the very next request":
\* a session that was opened with a password since replaced is gone, unless
\* the revocation is still to run, was cut short, or ran while the sign-in
\* was between its password check and its session.
NobodyInOnAnOldPassword ==
  \A s \in Staff :
    session[s] # None /\ session[s].password # account[s].password =>
      \/ session[s].raced \/ s \in cutShort
      \/ \E a \in Staff : request[a] # None /\ Target(a) = s /\ request[a].step = "revoke"

\* Whoever is named on a sale has an account, and so has every session: not
\* even what happens while an administrator deletes the account is orphaned.
NothingIsOrphaned ==
  \A s \in Staff : s \in sold \/ session[s] # None => account[s].exists

=============================================================================
