------------------------- MODULE StaffAccess_proofs -------------------------
(***************************************************************************)
(* Proofs about StaffAccess for any number of accounts, administrators,    *)
(* failed attempts, resets and requests.                                   *)
(***************************************************************************)
EXTENDS StaffAccess, TLAPS

-----------------------------------------------------------------------------
(* The strengthening: what a request or a sign-in under way may rely on.   *)

\* s can administer as far as the account goes.
ActiveAdmin(s) == account[s].exists /\ account[s].active /\ account[s].role = "ADMIN"

\* A revocation of t's sessions is still to run.
Revoking(t) == \E a \in Staff : request[a] # None /\ Target(a) = t /\ request[a].step = "revoke"

\* An edit that resets the password has noticed that it changes something.
ResetIsNoticed ==
  \A s \in Staff : Is(s, "edit", "checked") /\ request[s].reset => request[s].changes

\* A sign-in past its check was checked against the password the account has,
\* with the excuses of NobodyInOnAnOldPassword.
SignInIsCurrent ==
  \A s \in Staff :
    /\ login[s] # None
    /\ account[s].exists
    /\ login[s].password # account[s].password
    => login[s].raced \/ s \in cutShort \/ Revoking(s)

\* What an administrator does to the own account leaves it an administrator's.
OwnAccountStays ==
  \A s \in Staff :
    request[s] # None /\ Target(s) = s =>
      /\ request[s].op \notin {"activate", "deactivate", "delete"}
      /\ request[s].op = "edit" => request[s].role = "ADMIN"

\* As long as administrators worked alone, whoever is about to write is one.
WriterIsAdmin ==
  \/ together
  \/ \A s \in Staff :
       request[s] # None /\ request[s].op # "sell" /\ request[s].step # "revoke" => ActiveAdmin(s)

\* What the property on old passwords rests on.
PasswordInv == NobodyInOnAnOldPassword /\ ResetIsNoticed /\ SignInIsCurrent

\* What the property on the last administrator rests on.
LockoutInv == LockoutNeedsCompany /\ OwnAccountStays /\ WriterIsAdmin

\* The inductive invariant.
IInv == TypeOK /\ NothingIsOrphaned /\ PasswordInv /\ LockoutInv

-----------------------------------------------------------------------------
(* Type correctness.                                                       *)

\* The first state is well typed.
LEMMA TypeInit == Init => TypeOK
<1>. SUFFICES ASSUME Init PROVE TypeOK
  OBVIOUS
<1>1. account \in [Staff -> Account]
  <2>1. ASSUME NEW s \in Staff
        PROVE  [exists |-> TRUE, role |-> IF s \in Admins THEN "ADMIN" ELSE "COUNTER",
                active |-> TRUE, password |-> 0] \in Account
    <3>1. (IF s \in Admins THEN "ADMIN" ELSE "COUNTER") \in Roles
      BY DEF Roles
    <3>. QED
      BY <3>1, BoundsAreCounts DEF Account
  <2>. QED
    BY <2>1 DEF Init
<1>2. /\ failures \in [Staff -> 0 .. MaxFailures]
      /\ left \in 0 .. MaxRequests
  BY BoundsAreCounts, MaxFailuresIsPositive DEF Init
<1>. QED
  BY <1>1, <1>2 DEF Init, TypeOK

\* Every step keeps the types.
LEMMA TypeStep == TypeOK /\ [Next]_vars => TypeOK'
<1>. SUFFICES ASSUME TypeOK, [Next]_vars PROVE TypeOK'
  OBVIOUS
<1>. USE DEF TypeOK, rows, signIn, history
<1>1. ASSUME NEW s \in Staff, NEW p \in 0 .. account[s].password, TryLogin(s, p) PROVE TypeOK'
  <2>1. p \in 0 .. MaxResets /\ [password |-> p, raced |-> FALSE] \in Session
    BY <1>1, BoundsAreCounts DEF Account, Session
  <2>2. failures[s] < MaxFailures => failures[s] + 1 \in 0 .. MaxFailures
    BY MaxFailuresIsPositive
  <2>3. CASE CountFailure(s) /\ UNCHANGED login
    BY <1>1, <2>2, <2>3, MaxFailuresIsPositive DEF TryLogin, CountFailure, Locked
  <2>4. CASE login' = [login EXCEPT ![s] = [password |-> p, raced |-> FALSE]] /\ UNCHANGED failures
    BY <1>1, <2>1, <2>4 DEF TryLogin
  <2>. QED
    BY <1>1, <2>3, <2>4 DEF TryLogin
<1>2. ASSUME NEW s \in Staff, OpenSession(s) PROVE TypeOK'
  BY <1>2 DEF OpenSession
<1>3. ASSUME NEW s \in Staff, WindowPasses(s) PROVE TypeOK'
  BY <1>3, MaxFailuresIsPositive DEF WindowPasses
<1>4. ASSUME NEW s \in Staff, EndSession(s) PROVE TypeOK'
  BY <1>4 DEF EndSession
<1>5. ASSUME NEW s \in Staff, NEW op \in Ops, NEW t \in Staff, NEW role \in Roles,
             NEW reset \in BOOLEAN, Begin(s, op, t, role, reset)
      PROVE  TypeOK'
  <2>1. [op |-> op, on |-> t, role |-> role, reset |-> reset, changes |-> FALSE,
         step |-> "start"] \in Request
    BY DEF Request, Steps
  <2>2. left' \in 0 .. MaxRequests
    BY <1>5, BoundsAreCounts DEF Begin
  <2>. QED
    BY <1>5, <2>1, <2>2 DEF Begin
<1>6. ASSUME NEW s \in Staff, Create(s) PROVE TypeOK'
  <2>1. request[s] \in Request
    BY <1>6 DEF Create, Is
  <2>2. [exists |-> TRUE, role |-> request[s].role, active |-> TRUE, password |-> 0] \in Account
    BY <2>1, BoundsAreCounts DEF Request, Account
  <2>3. together' \in BOOLEAN
    BY <1>6 DEF Create, NoteCompany
  <2>. QED
    BY <1>6, <2>1, <2>2, <2>3 DEF Create, Finish, Target, Request
<1>7. ASSUME NEW s \in Staff, SetActive(s) PROVE TypeOK'
  <2>1. request[s] \in Request
    BY <1>7 DEF SetActive, Is
  <2>2. account' \in [Staff -> Account]
    <3>1. Target(s) \in Staff /\ account[Target(s)] \in Account
      BY <2>1 DEF Target, Request
    <3>. DEFINE on == request[s].op = "activate"
    <3>3. on \in BOOLEAN
      OBVIOUS
    <3>. HIDE DEF on
    <3>4. [account EXCEPT ![Target(s)].active = on] \in [Staff -> Account]
      BY <3>1, <3>3 DEF Account
    <3>5. \/ account' = [account EXCEPT ![Target(s)].active = on]
          \/ account' = account
      BY <1>7 DEF SetActive, on
    <3>. QED
      BY <3>4, <3>5
  <2>3. request' \in [Staff -> Request \cup {None}] /\ UNCHANGED left
    BY <1>7, <2>1 DEF SetActive, Finish, GoOn, Request, Steps
  <2>4. together' \in BOOLEAN
    BY <1>7 DEF SetActive, NoteCompany
  <2>. QED
    BY <1>7, <2>2, <2>3, <2>4 DEF SetActive
<1>8. ASSUME NEW s \in Staff, ReadBefore(s) PROVE TypeOK'
  <2>1. request[s] \in Request
    BY <1>8 DEF ReadBefore, Is
  <2>2. request' \in [Staff -> Request \cup {None}] /\ UNCHANGED left
    BY <1>8, <2>1 DEF ReadBefore, Finish, Request, Steps
  <2>. QED
    BY <1>8, <2>2 DEF ReadBefore
<1>9. ASSUME NEW s \in Staff, Edit(s) PROVE TypeOK'
  <2>1. request[s] \in Request
    BY <1>9 DEF Edit, Is
  <2>2. account' \in [Staff -> Account]
    <3>1. Target(s) \in Staff /\ account[Target(s)] \in Account /\ request[s].role \in Roles
      BY <2>1 DEF Target, Request
    <3>. DEFINE a == account[Target(s)]
                 pw == IF request[s].reset THEN a.password + 1 ELSE a.password
    <3>3. CASE a.exists /\ (request[s].reset => a.password < MaxResets)
      <4>1. pw \in 0 .. MaxResets
        BY <3>1, <3>3, BoundsAreCounts DEF Account
      <4>2. account' = [account EXCEPT ![Target(s)] =
                          [a EXCEPT !.role = request[s].role, !.password = pw]]
        BY <1>9, <3>3 DEF Edit
      <4>. HIDE DEF pw
      <4>3. [a EXCEPT !.role = request[s].role, !.password = pw] \in Account
        BY <3>1, <4>1 DEF Account
      <4>. QED
        BY <3>1, <4>2, <4>3
    <3>4. CASE ~(a.exists /\ (request[s].reset => a.password < MaxResets))
      BY <1>9, <3>4 DEF Edit
    <3>. QED
      BY <3>3, <3>4
  <2>3. request' \in [Staff -> Request \cup {None}] /\ UNCHANGED left
    BY <1>9, <2>1 DEF Edit, Finish, GoOn, Request, Steps
  <2>4. together' \in BOOLEAN
    BY <1>9 DEF Edit, NoteCompany
  <2>. QED
    BY <1>9, <2>2, <2>3, <2>4 DEF Edit
<1>10. ASSUME NEW s \in Staff, Revoke(s) PROVE TypeOK'
  <2>1. request[s] \in Request /\ Target(s) \in Staff
    BY <1>10 DEF Revoke, Target, Request
  <2>2. login' \in [Staff -> Session \cup {None}]
    BY <1>10, <2>1 DEF Revoke, Session
  <2>. QED
    BY <1>10, <2>1, <2>2 DEF Revoke, Finish
<1>11. ASSUME NEW s \in Staff, CheckDelete(s) PROVE TypeOK'
  <2>1. request[s] \in Request
    BY <1>11 DEF CheckDelete, Is
  <2>2. request' \in [Staff -> Request \cup {None}] /\ UNCHANGED left
    BY <1>11, <2>1 DEF CheckDelete, Finish, GoOn, Request, Steps
  <2>. QED
    BY <1>11, <2>2 DEF CheckDelete
<1>12. ASSUME NEW s \in Staff, Delete(s) PROVE TypeOK'
  <2>1. Gone \in Account /\ together' \in BOOLEAN
    BY <1>12, BoundsAreCounts DEF Delete, NoteCompany, Gone, Account, Roles
  <2>. QED
    BY <1>12, <2>1 DEF Delete, Finish
<1>13. ASSUME NEW s \in Staff, Sell(s) PROVE TypeOK'
  BY <1>13 DEF Sell, Finish
<1>14. ASSUME NEW s \in Staff, CutShort(s) PROVE TypeOK'
  <2>1. Target(s) \in Staff
    BY <1>14 DEF CutShort, Target, Request
  <2>. QED
    BY <1>14, <2>1 DEF CutShort, Finish
<1>15. CASE UNCHANGED vars
  BY <1>15 DEF vars
<1>. QED
  BY <1>1, <1>2, <1>3, <1>4, <1>5, <1>6, <1>7, <1>8, <1>9, <1>10, <1>11, <1>12, <1>13, <1>14,
     <1>15 DEF Next

\* The variables always hold what the code puts there.
THEOREM TypeCorrect == Spec => []TypeOK
<1>. QED
  BY TypeInit, TypeStep, PTL DEF Spec

-----------------------------------------------------------------------------
(* What the two updates of an account leave alone.                         *)

\* setStaffActiveAction writes one column of one row.
LEMMA SetActiveWrites ==
  ASSUME TypeOK, NEW s \in Staff, SetActive(s)
  PROVE  /\ Target(s) \in Staff
         /\ \A t \in Staff :
              /\ account'[t].exists = account[t].exists
              /\ account'[t].role = account[t].role
              /\ account'[t].password = account[t].password
              /\ t # Target(s) => account'[t] = account[t]
BY DEF TypeOK, SetActive, Is, Target, Account, Request

\* editStaffAction writes the role it was given, and a password when it was
\* given one.
LEMMA EditWrites ==
  ASSUME TypeOK, NEW s \in Staff, Edit(s)
  PROVE  /\ Target(s) \in Staff
         /\ \A t \in Staff :
              /\ account'[t].exists = account[t].exists
              /\ account'[t].active = account[t].active
              /\ account'[t].role \in {account[t].role, request[s].role}
              /\ ~request[s].reset => account'[t].password = account[t].password
              /\ t # Target(s) => account'[t] = account[t]
<1>1. Target(s) \in Staff /\ account[Target(s)] \in Account
  BY DEF TypeOK, Edit, Is, Target, Request
<1>. DEFINE a == account[Target(s)]
            pw == IF request[s].reset THEN a.password + 1 ELSE a.password
<1>2. CASE account' = [account EXCEPT ![Target(s)] =
                         [a EXCEPT !.role = request[s].role, !.password = pw]]
  <2>1. ~request[s].reset => pw = a.password
    OBVIOUS
  <2>. HIDE DEF pw
  <2>. QED
    BY <1>1, <1>2, <2>1 DEF TypeOK, Account
<1>3. CASE account' = account
  BY <1>1, <1>3 DEF TypeOK, Account
<1>. QED
  BY <1>1, <1>2, <1>3 DEF Edit

-----------------------------------------------------------------------------
(* Nothing is orphaned.                                                    *)

\* To begin with nobody has a session or a sale.
LEMMA OrphanInit == Init => NothingIsOrphaned
BY DEF Init, NothingIsOrphaned

\* Accounts only go with their sessions, and never while they are named.
LEMMA OrphanStep == TypeOK /\ NothingIsOrphaned /\ [Next]_vars => NothingIsOrphaned'
<1>. SUFFICES ASSUME TypeOK, NothingIsOrphaned, [Next]_vars PROVE NothingIsOrphaned'
  OBVIOUS
<1>. USE DEF NothingIsOrphaned, TypeOK
<1>1. CASE UNCHANGED <<account, sold, session>>
  BY <1>1
<1>2. ASSUME NEW s \in Staff, OpenSession(s) PROVE NothingIsOrphaned'
  BY <1>2 DEF OpenSession, rows
<1>3. ASSUME NEW s \in Staff, EndSession(s) PROVE NothingIsOrphaned'
  BY <1>3 DEF EndSession, rows
<1>4. ASSUME NEW s \in Staff, Create(s) PROVE NothingIsOrphaned'
  <2>1. request[s] \in Request
    BY <1>4 DEF Create, Is
  <2>. QED
    BY <1>4, <2>1 DEF Create, signIn, Request, Target
<1>5. ASSUME NEW s \in Staff, SetActive(s) PROVE NothingIsOrphaned'
  BY <1>5, SetActiveWrites DEF SetActive, signIn
<1>6. ASSUME NEW s \in Staff, Edit(s) PROVE NothingIsOrphaned'
  BY <1>6, EditWrites DEF Edit, signIn
<1>7. ASSUME NEW s \in Staff, Revoke(s) PROVE NothingIsOrphaned'
  BY <1>7 DEF Revoke, rows
<1>8. ASSUME NEW s \in Staff, Delete(s) PROVE NothingIsOrphaned'
  BY <1>8 DEF Delete, Deletable
<1>9. ASSUME NEW s \in Staff, Sell(s) PROVE NothingIsOrphaned'
  BY <1>9 DEF Sell, signIn
<1>10. ASSUME NEW s \in Staff,
              \/ \E p \in 0 .. account[s].password : TryLogin(s, p)
              \/ WindowPasses(s) \/ ReadBefore(s) \/ CheckDelete(s) \/ CutShort(s)
              \/ \E op \in Ops, t \in Staff, role \in Roles, reset \in BOOLEAN :
                   Begin(s, op, t, role, reset)
       PROVE  UNCHANGED <<account, sold, session>>
  BY <1>10 DEF TryLogin, WindowPasses, ReadBefore, CheckDelete, CutShort, Begin, rows, signIn
<1>. QED
  BY <1>1, <1>2, <1>3, <1>4, <1>5, <1>6, <1>7, <1>8, <1>9, <1>10 DEF Next, vars, rows, signIn

\* No sale and no session of an account that is gone.
THEOREM NobodyIsOrphaned == Spec => []NothingIsOrphaned
<1>. QED
  BY OrphanInit, OrphanStep, TypeCorrect, PTL DEF Spec

-----------------------------------------------------------------------------
(* Nobody is in on an old password.                                        *)

\* To begin with nobody is in, and nothing is under way.
LEMMA PasswordInit == Init => PasswordInv
BY DEF Init, PasswordInv, NobodyInOnAnOldPassword, ResetIsNoticed, SignInIsCurrent, Is

\* A revocation to come stays to come while only somebody else's request moves.
LEMMA RevokingStays ==
  ASSUME NEW s \in Staff, NEW t \in Staff,
         request[s] = None \/ request[s].step # "revoke",
         \A a \in Staff \ {s} : request'[a] = request[a],
         Revoking(t)
  PROVE  Revoking(t)'
<1>1. PICK a \in Staff : request[a] # None /\ Target(a) = t /\ request[a].step = "revoke"
  BY DEF Revoking
<1>. QED
  BY <1>1 DEF Revoking, Target

\* A step that touches no account, sign-in or session, and no request but one
\* that is no revocation, keeps all three parts.
LEMMA PasswordFrame ==
  ASSUME TypeOK, PasswordInv, NEW s \in Staff,
         \A t \in Staff : account'[t].exists = account[t].exists
                        /\ account'[t].password = account[t].password,
         UNCHANGED <<login, session>>, cutShort \subseteq cutShort',
         request[s] = None \/ request[s].step # "revoke",
         \A a \in Staff \ {s} : request'[a] = request[a],
         (Is(s, "edit", "checked") /\ request[s].reset => request[s].changes)'
  PROVE  PasswordInv'
<1>1. \A t \in Staff : Revoking(t) => Revoking(t)'
  BY RevokingStays
<1>2. NobodyInOnAnOldPassword'
  BY <1>1 DEF PasswordInv, NobodyInOnAnOldPassword, Revoking
<1>3. SignInIsCurrent'
  BY <1>1 DEF PasswordInv, SignInIsCurrent
<1>4. ResetIsNoticed'
  BY DEF PasswordInv, ResetIsNoticed, Is
<1>. QED
  BY <1>2, <1>3, <1>4 DEF PasswordInv

\* Every step keeps them.
LEMMA PasswordStep ==
  TypeOK /\ NothingIsOrphaned /\ PasswordInv /\ [Next]_vars => PasswordInv'
<1>. SUFFICES ASSUME TypeOK, NothingIsOrphaned, PasswordInv, [Next]_vars PROVE PasswordInv'
  OBVIOUS
<1>1. ASSUME NEW s \in Staff, NEW p \in 0 .. account[s].password, TryLogin(s, p)
      PROVE  PasswordInv'
  <2>1. UNCHANGED <<rows, session, request, history>>
    BY <1>1 DEF TryLogin
  <2>2. NobodyInOnAnOldPassword' /\ ResetIsNoticed'
    BY <2>1 DEF PasswordInv, NobodyInOnAnOldPassword, ResetIsNoticed, Is, Target, rows, history
  <2>3. \A t \in Staff : login'[t] = login[t] \/ login'[t].password = account[t].password
    BY <1>1 DEF TryLogin, TypeOK
  <2>4. SignInIsCurrent'
    BY <2>1, <2>3 DEF PasswordInv, SignInIsCurrent, Revoking, Target, rows, history
  <2>. QED
    BY <2>2, <2>4 DEF PasswordInv
<1>2. ASSUME NEW s \in Staff, OpenSession(s) PROVE PasswordInv'
  <2>1. UNCHANGED <<rows, request, history>>
    BY <1>2 DEF OpenSession
  <2>2. ResetIsNoticed'
    BY <2>1 DEF PasswordInv, ResetIsNoticed, Is
  <2>3. \A t \in Staff : login'[t] = login[t] \/ login'[t] = None
    BY <1>2 DEF OpenSession, TypeOK
  <2>4. SignInIsCurrent'
    BY <2>1, <2>3 DEF PasswordInv, SignInIsCurrent, Revoking, Target, rows, history
  <2>5. \A t \in Staff : \/ session'[t] = session[t]
                         \/ session'[t] = login[t] /\ login[t] # None /\ account[t].exists
    BY <1>2 DEF OpenSession, TypeOK
  <2>6. NobodyInOnAnOldPassword'
    BY <2>1, <2>5 DEF PasswordInv, NobodyInOnAnOldPassword, SignInIsCurrent, Revoking, Target,
                      rows, history
  <2>. QED
    BY <2>2, <2>4, <2>6 DEF PasswordInv
<1>3. ASSUME NEW s \in Staff, WindowPasses(s) PROVE PasswordInv'
  BY <1>3 DEF WindowPasses, rows, history, PasswordInv, NobodyInOnAnOldPassword, ResetIsNoticed,
              SignInIsCurrent, Revoking, Is, Target
<1>4. ASSUME NEW s \in Staff, EndSession(s) PROVE PasswordInv'
  <2>1. UNCHANGED <<rows, login, request, history>>
    BY <1>4 DEF EndSession
  <2>2. \A t \in Staff : session'[t] = session[t] \/ session'[t] = None
    BY <1>4 DEF EndSession, TypeOK
  <2>. QED
    BY <2>1, <2>2 DEF rows, history, PasswordInv, NobodyInOnAnOldPassword, ResetIsNoticed,
                      SignInIsCurrent, Revoking, Is, Target
<1>5. ASSUME NEW s \in Staff, NEW op \in Ops, NEW t \in Staff, NEW role \in Roles,
             NEW reset \in BOOLEAN, Begin(s, op, t, role, reset)
      PROVE  PasswordInv'
  <2>1. request'[s].step = "start" /\ request[s] = None
    BY <1>5 DEF Begin, TypeOK
  <2>2. \A a \in Staff \ {s} : request'[a] = request[a]
    BY <1>5 DEF Begin, TypeOK
  <2>. QED
    BY <1>5, <2>1, <2>2, PasswordFrame DEF Begin, rows, signIn, history, Is
<1>6. ASSUME NEW s \in Staff, Create(s) PROVE PasswordInv'
  <2>1. /\ request' = [request EXCEPT ![s] = None] /\ request[s].step = "start"
        /\ UNCHANGED <<login, session, cutShort>> /\ Target(s) \in Staff
    BY <1>6 DEF Create, Finish, signIn, Is, Target, TypeOK, Request
  <2>2. \A t \in Staff : Revoking(t) => Revoking(t)'
    BY <2>1, RevokingStays DEF TypeOK
  <2>3. ResetIsNoticed'
    BY <2>1 DEF PasswordInv, ResetIsNoticed, Is, TypeOK
  <2>4. \A t \in Staff : \/ account'[t] = account[t]
                         \/ ~account[t].exists /\ login[t] = None
    BY <1>6, <2>1 DEF Create, Vacant, TypeOK
  <2>5. \A t \in Staff : session[t] # None => account[t].exists
    BY DEF NothingIsOrphaned
  <2>6. NobodyInOnAnOldPassword'
    BY <2>1, <2>2, <2>4, <2>5 DEF PasswordInv, NobodyInOnAnOldPassword, Revoking
  <2>7. SignInIsCurrent'
    BY <2>1, <2>2, <2>4 DEF PasswordInv, SignInIsCurrent
  <2>. QED
    BY <2>3, <2>6, <2>7 DEF PasswordInv
<1>7. ASSUME NEW s \in Staff, SetActive(s) PROVE PasswordInv'
  <2>1. /\ request[s] \in Request /\ request[s].step = "start" /\ request[s].op # "edit"
        /\ UNCHANGED <<login, session, cutShort>>
    BY <1>7 DEF SetActive, Is, signIn, TypeOK
  <2>2. /\ \A a \in Staff \ {s} : request'[a] = request[a]
        /\ request'[s] = None \/ request'[s].op # "edit"
    BY <1>7, <2>1 DEF SetActive, Finish, GoOn, TypeOK, Request
  <2>. QED
    BY <1>7, <2>1, <2>2, SetActiveWrites, PasswordFrame DEF Is
<1>8. ASSUME NEW s \in Staff, ReadBefore(s) PROVE PasswordInv'
  <2>1. /\ request[s].step = "start" /\ UNCHANGED <<rows, login, session, cutShort>>
    BY <1>8 DEF ReadBefore, Is, signIn, history
  <2>2. /\ \A a \in Staff \ {s} : request'[a] = request[a]
        /\ request'[s] # None /\ request'[s].reset => request'[s].changes
    BY <1>8 DEF ReadBefore, Finish, TypeOK, Request, Is
  <2>. QED
    BY <2>1, <2>2, PasswordFrame DEF Is, rows
<1>9. ASSUME NEW s \in Staff, Edit(s) PROVE PasswordInv'
  <2>1. /\ request[s].step = "checked" /\ request[s] # None /\ request[s] \in Request
        /\ UNCHANGED <<login, session, cutShort>>
    BY <1>9 DEF Edit, Is, signIn, TypeOK
  <2>2. /\ \A a \in Staff \ {s} : request'[a] = request[a]
        /\ request'[s] = None \/ request'[s].step = "revoke"
    BY <1>9, <2>1 DEF Edit, Finish, GoOn, TypeOK, Request
  <2>3. CASE account' = account
    BY <2>1, <2>2, <2>3, PasswordFrame DEF Is
  <2>4. CASE account' # account /\ ~request[s].reset
    BY <1>9, <2>1, <2>2, <2>4, EditWrites, PasswordFrame DEF Is
  <2>5. CASE account' # account /\ request[s].reset
    <3>1. request[s].changes
      BY <1>9, <2>5 DEF Edit, Is, PasswordInv, ResetIsNoticed
    <3>2. GoOn(s, "revoke")
      BY <1>9, <2>5, <3>1 DEF Edit, Revokes
    <3>3. request'[s] = [request[s] EXCEPT !.step = "revoke"]
      BY <3>2 DEF GoOn, TypeOK
    <3>4. request'[s] # None /\ request'[s].on = Target(s) /\ request'[s].step = "revoke"
      <4>1. request'[s] \in Request
        BY <2>1, <3>3 DEF Request, Steps
      <4>. QED
        BY <2>1, <3>3, <4>1, NoneIsNothing DEF Target, Request
    <3>5. ASSUME NEW t \in Staff, t = Target(s) PROVE Revoking(t)'
      BY <3>4, <3>5 DEF Revoking, Target
    <3>6. \A t \in Staff : Revoking(t) => Revoking(t)'
      BY <2>1, <2>2, RevokingStays
    <3>7. \A t \in Staff : account'[t] = account[t] \/ Revoking(t)'
      BY <1>9, <3>5, EditWrites
    <3>8. NobodyInOnAnOldPassword'
      BY <2>1, <3>6, <3>7 DEF PasswordInv, NobodyInOnAnOldPassword, Revoking
    <3>9. SignInIsCurrent'
      BY <2>1, <3>6, <3>7 DEF PasswordInv, SignInIsCurrent
    <3>10. ResetIsNoticed'
      BY <2>2, <3>4 DEF PasswordInv, ResetIsNoticed, Is
    <3>. QED
      BY <3>8, <3>9, <3>10 DEF PasswordInv
  <2>. QED
    BY <2>3, <2>4, <2>5
<1>10. ASSUME NEW s \in Staff, Revoke(s) PROVE PasswordInv'
  <2>1. /\ request[s] # None /\ request[s] \in Request /\ Target(s) \in Staff
        /\ UNCHANGED <<rows, history>>
    BY <1>10 DEF Revoke, TypeOK, Target, Request
  <2>2. request' = [request EXCEPT ![s] = None] /\ session' = [session EXCEPT ![Target(s)] = None]
    BY <1>10 DEF Revoke, Finish
  <2>3. \A t \in Staff \ {Target(s)} : Revoking(t) => Revoking(t)'
    <3>1. SUFFICES ASSUME NEW t \in Staff \ {Target(s)}, Revoking(t) PROVE Revoking(t)'
      OBVIOUS
    <3>2. PICK a \in Staff : request[a] # None /\ Target(a) = t /\ request[a].step = "revoke"
      BY <3>1 DEF Revoking
    <3>3. a # s /\ request'[a] = request[a]
      BY <2>2, <3>1, <3>2 DEF TypeOK
    <3>. QED
      BY <3>2, <3>3 DEF Revoking, Target
  <2>4. NobodyInOnAnOldPassword'
    BY <2>1, <2>2, <2>3 DEF PasswordInv, NobodyInOnAnOldPassword, Revoking, TypeOK, rows, history
  <2>5. \A t \in Staff : t # Target(s) => login'[t] = login[t]
    BY <1>10 DEF Revoke, TypeOK
  <2>6. login'[Target(s)] = None \/ login'[Target(s)].raced
    BY <1>10, <2>1 DEF Revoke, TypeOK, Session
  <2>7. SignInIsCurrent'
    BY <2>1, <2>3, <2>5, <2>6 DEF PasswordInv, SignInIsCurrent, rows, history
  <2>8. ResetIsNoticed'
    BY <2>2 DEF PasswordInv, ResetIsNoticed, Is, TypeOK
  <2>. QED
    BY <2>4, <2>7, <2>8 DEF PasswordInv
<1>11. ASSUME NEW s \in Staff, CheckDelete(s) PROVE PasswordInv'
  <2>1. /\ request[s] \in Request /\ request[s].step = "start" /\ request[s].op # "edit"
        /\ UNCHANGED <<rows, signIn, history>>
    BY <1>11 DEF CheckDelete, Is, TypeOK
  <2>2. /\ \A a \in Staff \ {s} : request'[a] = request[a]
        /\ request'[s] = None \/ request'[s].op # "edit"
    BY <1>11, <2>1 DEF CheckDelete, Finish, GoOn, TypeOK, Request
  <2>. QED
    BY <2>1, <2>2, PasswordFrame DEF Is, rows, signIn, history
<1>12. ASSUME NEW s \in Staff, Delete(s) PROVE PasswordInv'
  <2>1. /\ request[s].step = "checked" /\ UNCHANGED <<login, cutShort>>
        /\ request' = [request EXCEPT ![s] = None]
        /\ request[s] \in Request /\ Target(s) \in Staff
    BY <1>12 DEF Delete, Is, Finish, TypeOK, Target, Request
  <2>2. \A t \in Staff : Revoking(t) => Revoking(t)'
    BY <2>1, RevokingStays DEF TypeOK
  <2>3. \A t \in Staff : \/ account'[t] = account[t] /\ session'[t] = session[t]
                         \/ ~account'[t].exists /\ session'[t] = None
    BY <1>12, <2>1 DEF Delete, TypeOK, Gone
  <2>4. NobodyInOnAnOldPassword'
    BY <2>1, <2>2, <2>3 DEF PasswordInv, NobodyInOnAnOldPassword, Revoking
  <2>5. SignInIsCurrent'
    BY <2>1, <2>2, <2>3 DEF PasswordInv, SignInIsCurrent
  <2>6. ResetIsNoticed'
    BY <2>1 DEF PasswordInv, ResetIsNoticed, Is, TypeOK
  <2>. QED
    BY <2>4, <2>5, <2>6 DEF PasswordInv
<1>13. ASSUME NEW s \in Staff, Sell(s) PROVE PasswordInv'
  <2>1. request[s].step = "start" /\ request' = [request EXCEPT ![s] = None]
    BY <1>13 DEF Sell, Is, Finish
  <2>. QED
    BY <1>13, <2>1, PasswordFrame DEF Sell, TypeOK, Is, signIn, history
<1>14. ASSUME NEW s \in Staff, CutShort(s) PROVE PasswordInv'
  <2>1. /\ request[s] # None /\ request' = [request EXCEPT ![s] = None]
        /\ UNCHANGED <<rows, signIn>>
    BY <1>14 DEF CutShort, Finish
  <2>2. cutShort' = IF request[s].step = "revoke" THEN cutShort \cup {Target(s)} ELSE cutShort
    BY <1>14 DEF CutShort
  <2>3. \A t \in Staff : Revoking(t) => Revoking(t)' \/ t \in cutShort'
    <3>1. SUFFICES ASSUME NEW t \in Staff, Revoking(t) PROVE Revoking(t)' \/ t \in cutShort'
      OBVIOUS
    <3>2. PICK a \in Staff : request[a] # None /\ Target(a) = t /\ request[a].step = "revoke"
      BY <3>1 DEF Revoking
    <3>3. CASE a = s
      BY <2>2, <3>2, <3>3
    <3>4. CASE a # s
      <4>1. request'[a] = request[a]
        BY <2>1, <3>4 DEF TypeOK
      <4>. QED
        BY <3>2, <4>1 DEF Revoking, Target
    <3>. QED
      BY <3>3, <3>4
  <2>4. NobodyInOnAnOldPassword'
    BY <2>1, <2>2, <2>3 DEF PasswordInv, NobodyInOnAnOldPassword, Revoking, rows, signIn
  <2>5. SignInIsCurrent'
    BY <2>1, <2>2, <2>3 DEF PasswordInv, SignInIsCurrent, rows, signIn
  <2>6. ResetIsNoticed'
    BY <2>1 DEF PasswordInv, ResetIsNoticed, Is, TypeOK
  <2>. QED
    BY <2>4, <2>5, <2>6 DEF PasswordInv
<1>15. CASE UNCHANGED vars
  BY <1>15 DEF vars, rows, signIn, history, PasswordInv, NobodyInOnAnOldPassword, ResetIsNoticed,
               SignInIsCurrent, Revoking, Is, Target
<1>. QED
  BY <1>1, <1>2, <1>3, <1>4, <1>5, <1>6, <1>7, <1>8, <1>9, <1>10, <1>11, <1>12, <1>13, <1>14,
     <1>15 DEF Next

\* A session opened with a password since replaced is gone, but for the three
\* ways NobodyInOnAnOldPassword names.
THEOREM OldPasswordShutsOut == Spec => []NobodyInOnAnOldPassword
<1>1. Spec => []PasswordInv
  BY PasswordInit, PasswordStep, TypeCorrect, NobodyIsOrphaned, PTL DEF Spec
<1>. QED
  BY <1>1, PTL DEF PasswordInv

-----------------------------------------------------------------------------
(* An administrator always remains, unless two were at work together.      *)

\* To begin with there is an administrator, and nothing is under way.
LEMMA LockoutInit == Init => LockoutInv
<1>. SUFFICES ASSUME Init PROVE LockoutInv
  OBVIOUS
<1>1. PICK s \in Admins : TRUE
  BY SomebodyIsAdmin
<1>2. s \in Staff /\ ActiveAdmin(s)
  BY <1>1, AdminsAreStaff DEF Init, ActiveAdmin
<1>. QED
  BY <1>2 DEF Init, LockoutInv, LockoutNeedsCompany, OwnAccountStays, WriterIsAdmin, ActiveAdmin

\* A step that touches no account keeps the parts, if the request it moves
\* was that request before, at a step that is still to write.
LEMMA LockoutFrame ==
  ASSUME TypeOK, LockoutInv, NEW s \in Staff, UNCHANGED <<account, together>>,
         \A a \in Staff \ {s} : request'[a] = request[a],
         \/ request'[s] = None
         \/ /\ request[s] # None
            /\ request'[s].op = request[s].op
            /\ request'[s].on = request[s].on
            /\ request'[s].role = request[s].role
            /\ request[s].step # "revoke"
  PROVE  LockoutInv'
<1>1. LockoutNeedsCompany'
  BY DEF LockoutInv, LockoutNeedsCompany
<1>2. OwnAccountStays'
  BY DEF LockoutInv, OwnAccountStays, Target
<1>3. WriterIsAdmin'
  BY DEF LockoutInv, WriterIsAdmin, ActiveAdmin
<1>. QED
  BY <1>1, <1>2, <1>3 DEF LockoutInv

\* A write by s, working alone, leaves s an administrator's account.
LEMMA LockoutWrite ==
  ASSUME TypeOK, LockoutInv, NEW s \in Staff,
         request[s] # None, request[s].op # "sell", request[s].step # "revoke",
         NoteCompany(s),
         ActiveAdmin(s) => ActiveAdmin(s)',
         \A a \in Staff \ {s} : request'[a] = request[a],
         \/ request'[s] = None
         \/ /\ request'[s].op = request[s].op
            /\ request'[s].on = request[s].on
            /\ request'[s].role = request[s].role
  PROVE  LockoutInv'
<1>1. OwnAccountStays'
  BY DEF LockoutInv, OwnAccountStays, Target
<1>2. CASE together'
  BY <1>1, <1>2 DEF LockoutInv, LockoutNeedsCompany, WriterIsAdmin
<1>3. CASE ~together'
  <2>1. ~together /\ \A o \in Staff \ {s} : request[o] = None \/ request[o].op = "sell"
    BY <1>3 DEF NoteCompany, TypeOK
  <2>2. ActiveAdmin(s)'
    BY <2>1 DEF LockoutInv, WriterIsAdmin
  <2>3. LockoutNeedsCompany'
    BY <2>2 DEF LockoutNeedsCompany, ActiveAdmin
  <2>4. WriterIsAdmin'
    <3>1. ASSUME NEW o \in Staff, request'[o] # None, request'[o].op # "sell"
          PROVE  o = s
      BY <2>1, <3>1
    <3>. QED
      BY <2>2, <3>1 DEF WriterIsAdmin, ActiveAdmin
  <2>. QED
    BY <1>1, <2>3, <2>4 DEF LockoutInv
<1>. QED
  BY <1>2, <1>3

\* Every step keeps them.
LEMMA LockoutStep == TypeOK /\ LockoutInv /\ [Next]_vars => LockoutInv'
<1>. SUFFICES ASSUME TypeOK, LockoutInv, [Next]_vars PROVE LockoutInv'
  OBVIOUS
<1>1. CASE UNCHANGED <<account, together, request>>
  BY <1>1 DEF LockoutInv, LockoutNeedsCompany, OwnAccountStays, WriterIsAdmin, ActiveAdmin, Target
<1>2. ASSUME NEW s \in Staff,
             \/ \E p \in 0 .. account[s].password : TryLogin(s, p)
             \/ OpenSession(s) \/ WindowPasses(s) \/ EndSession(s)
      PROVE  UNCHANGED <<account, together, request>>
  BY <1>2 DEF TryLogin, OpenSession, WindowPasses, EndSession, rows, history
<1>3. ASSUME NEW s \in Staff, NEW op \in Ops, NEW t \in Staff, NEW role \in Roles,
             NEW reset \in BOOLEAN, Begin(s, op, t, role, reset)
      PROVE  LockoutInv'
  <2>1. /\ UNCHANGED <<account, together>>
        /\ \A a \in Staff \ {s} : request'[a] = request[a]
        /\ request'[s] = [op |-> op, on |-> t, role |-> role, reset |-> reset,
                         changes |-> FALSE, step |-> "start"]
    BY <1>3 DEF Begin, rows, history, TypeOK
  <2>2. op # "sell" => ActiveAdmin(s)
    BY <1>3 DEF Begin, MayAdminister, Known, ActiveAdmin
  <2>3. t = s => /\ op \notin {"activate", "deactivate", "delete"}
                 /\ op = "edit" => role = "ADMIN"
    BY <1>3, <2>2 DEF Begin, AllowedOn, ActiveAdmin
  <2>4. LockoutNeedsCompany'
    BY <2>1 DEF LockoutInv, LockoutNeedsCompany
  <2>5. OwnAccountStays'
    BY <2>1, <2>3 DEF LockoutInv, OwnAccountStays, Target
  <2>6. WriterIsAdmin'
    BY <2>1, <2>2 DEF LockoutInv, WriterIsAdmin, ActiveAdmin
  <2>. QED
    BY <2>4, <2>5, <2>6 DEF LockoutInv
<1>4. ASSUME NEW s \in Staff, Create(s) PROVE LockoutInv'
  <2>1. /\ request[s] # None /\ request[s].op = "create" /\ request[s].step = "start"
        /\ request[s] \in Request /\ Target(s) \in Staff
    BY <1>4 DEF Create, Is, TypeOK, Target, Request
  <2>2. request'[s] = None /\ \A a \in Staff \ {s} : request'[a] = request[a]
    BY <1>4 DEF Create, Finish, TypeOK
  <2>3. ActiveAdmin(s) => account'[s] = account[s]
    BY <1>4, <2>1 DEF Create, ActiveAdmin, TypeOK
  <2>. QED
    BY <1>4, <2>1, <2>2, <2>3, LockoutWrite DEF Create, ActiveAdmin
<1>5. ASSUME NEW s \in Staff, SetActive(s) PROVE LockoutInv'
  <2>1. /\ request[s] # None /\ request[s] \in Request /\ request[s].step = "start"
        /\ request[s].op \in {"activate", "deactivate"}
    BY <1>5 DEF SetActive, Is, TypeOK
  <2>2. /\ \A a \in Staff \ {s} : request'[a] = request[a]
        /\ \/ request'[s] = None
           \/ /\ request'[s].op = request[s].op
              /\ request'[s].on = request[s].on
              /\ request'[s].role = request[s].role
    BY <1>5, <2>1 DEF SetActive, Finish, GoOn, TypeOK, Request
  <2>3. Target(s) # s
    BY <2>1 DEF LockoutInv, OwnAccountStays
  <2>4. account'[s] = account[s]
    BY <1>5, <2>3, SetActiveWrites
  <2>. QED
    BY <1>5, <2>1, <2>2, <2>4, LockoutWrite DEF SetActive, ActiveAdmin
<1>6. ASSUME NEW s \in Staff, ReadBefore(s) PROVE LockoutInv'
  <2>1. /\ request[s] # None /\ request[s] \in Request /\ request[s].step = "start"
        /\ UNCHANGED <<account, together>>
    BY <1>6 DEF ReadBefore, Is, TypeOK, rows, history
  <2>2. /\ \A a \in Staff \ {s} : request'[a] = request[a]
        /\ \/ request'[s] = None
           \/ /\ request'[s].op = request[s].op
              /\ request'[s].on = request[s].on
              /\ request'[s].role = request[s].role
    BY <1>6, <2>1 DEF ReadBefore, Finish, TypeOK, Request
  <2>. QED
    BY <2>1, <2>2, LockoutFrame
<1>7. ASSUME NEW s \in Staff, Edit(s) PROVE LockoutInv'
  <2>1. /\ request[s] # None /\ request[s] \in Request /\ request[s].step = "checked"
        /\ request[s].op = "edit"
    BY <1>7 DEF Edit, Is, TypeOK
  <2>2. /\ \A a \in Staff \ {s} : request'[a] = request[a]
        /\ \/ request'[s] = None
           \/ /\ request'[s].op = request[s].op
              /\ request'[s].on = request[s].on
              /\ request'[s].role = request[s].role
    BY <1>7, <2>1 DEF Edit, Finish, GoOn, TypeOK, Request
  <2>3. Target(s) = s => request[s].role = "ADMIN"
    BY <2>1 DEF LockoutInv, OwnAccountStays
  <2>4. ActiveAdmin(s) => ActiveAdmin(s)'
    BY <1>7, <2>3, EditWrites DEF ActiveAdmin
  <2>. QED
    BY <1>7, <2>1, <2>2, <2>4, LockoutWrite DEF Edit
<1>8. ASSUME NEW s \in Staff, Revoke(s) PROVE LockoutInv'
  BY <1>8, LockoutFrame DEF Revoke, Finish, rows, history, TypeOK
<1>9. ASSUME NEW s \in Staff, CheckDelete(s) PROVE LockoutInv'
  <2>1. /\ request[s] # None /\ request[s] \in Request /\ request[s].step = "start"
        /\ UNCHANGED <<account, together>>
    BY <1>9 DEF CheckDelete, Is, TypeOK, rows, history
  <2>2. /\ \A a \in Staff \ {s} : request'[a] = request[a]
        /\ \/ request'[s] = None
           \/ /\ request'[s].op = request[s].op
              /\ request'[s].on = request[s].on
              /\ request'[s].role = request[s].role
    BY <1>9, <2>1 DEF CheckDelete, Finish, GoOn, TypeOK, Request
  <2>. QED
    BY <2>1, <2>2, LockoutFrame
<1>10. ASSUME NEW s \in Staff, Delete(s) PROVE LockoutInv'
  <2>1. /\ request[s] # None /\ request[s].step = "checked" /\ request[s].op = "delete"
    BY <1>10 DEF Delete, Is
  <2>2. request'[s] = None /\ \A a \in Staff \ {s} : request'[a] = request[a]
    BY <1>10 DEF Delete, Finish, TypeOK
  <2>3. Target(s) # s
    BY <2>1 DEF LockoutInv, OwnAccountStays
  <2>4. account'[s] = account[s]
    BY <1>10, <2>3 DEF Delete, TypeOK
  <2>. QED
    BY <1>10, <2>1, <2>2, <2>4, LockoutWrite DEF Delete, ActiveAdmin
<1>11. ASSUME NEW s \in Staff, Sell(s) PROVE LockoutInv'
  BY <1>11, LockoutFrame DEF Sell, Finish, history, TypeOK
<1>12. ASSUME NEW s \in Staff, CutShort(s) PROVE LockoutInv'
  BY <1>12, LockoutFrame DEF CutShort, Finish, rows, TypeOK
<1>. QED
  BY <1>1, <1>2, <1>3, <1>4, <1>5, <1>6, <1>7, <1>8, <1>9, <1>10, <1>11, <1>12
     DEF Next, vars, rows, history

\* As long as no two administrators change accounts at the same moment, an
\* active administrator remains: the park is not locked out.
THEOREM ParkIsNotLockedOut == Spec => []LockoutNeedsCompany
<1>1. Spec => []LockoutInv
  BY LockoutInit, LockoutStep, TypeCorrect, PTL DEF Spec
<1>. QED
  BY <1>1, PTL DEF LockoutInv

\* The whole inductive invariant.
THEOREM Invariant == Spec => []IInv
<1>1. Init => IInv
  BY TypeInit, OrphanInit, PasswordInit, LockoutInit DEF IInv
<1>2. IInv /\ [Next]_vars => IInv'
  BY TypeStep, OrphanStep, PasswordStep, LockoutStep DEF IInv
<1>. QED
  BY <1>1, <1>2, PTL DEF Spec

=============================================================================
