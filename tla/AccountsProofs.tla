--------------------------- MODULE AccountsProofs ---------------------------
(***************************************************************************)
(* Sessions, tokens and the setup token of any number of accounts, served  *)
(* by any number of threads, over any time.                                *)
(***************************************************************************)
EXTENDS Accounts, TLAPS

\* A verification that is under way, and an account, is locked once the failures
\* have reached their limit.  Counting one more stays within it.
CountersSound ==
    /\ \A u \in Users :
           Live(accounts, u) => (accounts[u].lockedUntil = 0 => accounts[u].failed < MaxFailed)
    /\ \A t \in Threads :
           At(t, "verifying") => (threads[t].lockedUntil = 0 => threads[t].failed < MaxFailed)

\* Either nothing has happened but a setup that one thread is about to do, or
\* there is an enabled administrator and the setup is over.
SetupSound ==
    \/ /\ NoUsers
       /\ setups = 0
       /\ \A i \in Sessions : sessions[i] = Unissued
       /\ \A t \in Threads : threads[t] = Idle \/ At(t, "settingUp")
       /\ \A t, x \in Threads : At(t, "settingUp") /\ At(x, "settingUp") => t = x
    \/ /\ \E u \in Users : IsAdmin(u)
       /\ setups = 1
       /\ \A t \in Threads : ~At(t, "settingUp")

AccountsInv == AccountsTypeOK /\ CountersSound /\ SetupSound /\ SessionsInForce

-----------------------------------------------------------------------------

\* The special values are told apart from rows and threads.
LEMMA Special ==
    /\ \A row \in AccountRow \cup SessionRow \cup TokenRow : row \notin Absent
    /\ Unissued \in Absent /\ Deleted \in Absent /\ Unissued # Deleted
    /\ \A record \in Thread : record # Idle
BY AccountsAssumption DEF Absent

\* What is not absent is a row.
LEMMA Rows ==
    ASSUME AccountsTypeOK
    PROVE  /\ \A u \in Users : Live(accounts, u) => accounts[u] \in AccountRow
           /\ \A i \in Sessions : Live(sessions, i) => sessions[i] \in SessionRow
           /\ \A k \in Tokens : Live(tokens, k) => tokens[k] \in TokenRow
BY DEF AccountsTypeOK, Live

\* Constants that are positive, and sums of lengths of time.
LEMMA Bounds ==
    /\ MaxFailed \in Nat \ {0} /\ LockFor \in Nat \ {0} /\ SessionFor \in Nat \ {0}
    /\ IdleFor \in Nat \ {0} /\ SetupFor \in Nat \ {0}
    /\ MaxTime \in Nat /\ RestartLimit \in Nat
    /\ MaxPasswords \in Nat \ {0} /\ MaxVersion \in Nat \ {0}
BY AccountsAssumption

\* The step a thread is at gives its record.
LEMMA ThreadAt ==
    ASSUME AccountsTypeOK, NEW t \in Threads
    PROVE  /\ At(t, "verifying") => threads[t] \in Verifying
           /\ At(t, "settingUp") => threads[t] \in SettingUp
           /\ At(t, "serving") => threads[t] \in Serving
           /\ At(t, "rotating") \/ At(t, "enabling") => threads[t] \in Editing
           /\ At(t, "arriving") => threads[t] \in Arriving
           /\ At(t, "signing") => threads[t] \in Signing
           /\ At(t, "resetting") \/ At(t, "sealing") => threads[t] \in Resolved
BY DEF AccountsTypeOK, At, Thread, Verifying, SettingUp, Arriving, Serving, Editing, Signing,
       Resolved

\* What the clock has shown is a time up to now.
LEMMA ReadingsTyped ==
    ASSUME AccountsTypeOK, NEW t \in Threads, At(t, "verifying") \/ At(t, "signing")
    PROVE  \A clock \in Readings(t) : clock \in 0..MaxTime
<1>1. threads[t].at \in 0..MaxTime
    BY ThreadAt DEF Verifying, Signing
<1> QED BY <1>1, Bounds DEF Readings, AccountsTypeOK

LEMMA SigningInTyped ==
    ASSUME AccountsTypeOK, NEW u \in Users
    PROVE  SigningIn(u) \in Thread /\ SigningIn(u).pc = "signing"
BY DEF SigningIn, Thread, Signing, AccountsTypeOK

LEMMA NewAccountTyped ==
    ASSUME NEW admin \in BOOLEAN
    PROVE  /\ NewAccount(admin) \in AccountRow
           /\ NewAccount(admin).admin = admin
           /\ NewAccount(admin).enabled
           /\ NewAccount(admin).failed < MaxFailed
BY Bounds DEF NewAccount, AccountRow

LEMMA NewSessionTyped ==
    ASSUME NEW u \in Users, NEW clock \in 0..MaxTime
    PROVE  /\ NewSession(u, clock) \in SessionRow
           /\ NewSession(u, clock).user = u
           /\ ~NewSession(u, clock).revoked
BY Bounds DEF NewSession, SessionRow, Earlier

\* Revocation keeps rows rows, and whose they are.
LEMMA RevokedForTyped ==
    ASSUME AccountsTypeOK, NEW u \in Users
    PROVE  /\ RevokedFor(u) \in [Sessions -> SessionRow \cup Absent]
           /\ \A i \in Sessions :
                  /\ RevokedFor(u)[i] \in Absent <=> sessions[i] \in Absent
                  /\ sessions[i] \notin Absent =>
                         /\ RevokedFor(u)[i].user = sessions[i].user
                         /\ RevokedFor(u)[i].expires = sessions[i].expires
                         /\ RevokedFor(u)[i].idle = sessions[i].idle
                         /\ sessions[i].user = u => RevokedFor(u)[i].revoked
                         /\ sessions[i].user # u => RevokedFor(u)[i] = sessions[i]
                  /\ sessions[i] \in Absent => RevokedFor(u)[i] = sessions[i]
<1>1. \A i \in Sessions : Live(sessions, i) => [sessions[i] EXCEPT !.revoked = TRUE] \in SessionRow
    BY Rows DEF SessionRow
<1>2. \A i \in Sessions : Live(sessions, i) => [sessions[i] EXCEPT !.revoked = TRUE] \notin Absent
    BY <1>1, Special
<1>3. \A i \in Sessions : Live(sessions, i) => sessions[i] \in SessionRow
    BY Rows
<1> QED BY <1>1, <1>2, <1>3 DEF RevokedFor, Live, AccountsTypeOK, SessionRow

\* A new password leaves the account what it is otherwise, and unlocks it.
LEMMA ResetTyped ==
    ASSUME AccountsTypeOK, NEW u \in Users, Reset(u)
    PROVE  /\ accounts' \in [Users -> AccountRow \cup Absent]
           /\ accounts'[u] \in AccountRow
           /\ accounts'[u].admin = accounts[u].admin
           /\ accounts'[u].enabled = accounts[u].enabled
           /\ accounts'[u].failed = 0
           /\ \A v \in Users \ {u} : accounts'[v] = accounts[v]
<1>1. accounts[u] \in AccountRow
    BY Rows DEF Reset
<1>2. accounts[u].password + 1 \in 1..MaxPasswords
    BY <1>1, Bounds DEF Reset, AccountRow
<1>3. [admin |-> accounts[u].admin, enabled |-> accounts[u].enabled,
       password |-> accounts[u].password + 1, failed |-> 0, lockedUntil |-> 0] \in AccountRow
    BY <1>1, <1>2, Bounds DEF AccountRow
<1> QED BY <1>1, <1>3 DEF Reset, WithNewPassword, AccountsTypeOK

\* One failure more is within the limit, and a lock ends in the future.
LEMMA CountTyped ==
    ASSUME AccountsTypeOK, CountersSound, NEW t \in Threads, NEW clock \in 0..now,
           CountFailure(t, clock)
    PROVE  /\ threads[t].user \in Users
           /\ FailuresBefore(threads[t]) + 1 \in 0..MaxFailed
           /\ (IF FailuresBefore(threads[t]) + 1 >= MaxFailed THEN clock + LockFor ELSE 0)
                  \in 0..(MaxTime + LockFor)
           /\ clock + LockFor # 0
<1>1. threads[t] \in Verifying
    BY ThreadAt DEF CountFailure
<1>2. FailuresBefore(threads[t]) + 1 \in 0..MaxFailed
    BY <1>1, Bounds DEF FailuresBefore, CountersSound, CountFailure, Verifying
<1>3. clock + LockFor \in 0..(MaxTime + LockFor) /\ 0 \in 0..(MaxTime + LockFor)
    BY Bounds DEF AccountsTypeOK
<1>4. clock + LockFor # 0
    BY Bounds DEF AccountsTypeOK
<1> QED BY <1>1, <1>2, <1>3, <1>4 DEF Verifying

\* The session of an admitted request is touched, and nothing else of it changes: it
\* is not past its idle time then, nor past its end, as the request has read the clock.
AdmitsTouching(t, i, clock) ==
    LET touched == Earlier(sessions[i].expires, clock + IdleFor)
    IN  /\ i \in Sessions /\ clock \in 0..MaxTime
        /\ InForceAt(i, clock)
        /\ sessions[i] \in SessionRow
        /\ touched \in 0..(MaxTime + SessionFor) /\ touched <= sessions[i].expires
        /\ sessions' = [sessions EXCEPT ![i] = [sessions[i] EXCEPT !.idle = touched]]
        /\ sessions' \in [Sessions -> SessionRow \cup Absent]
        /\ sessions'[i] = [sessions[i] EXCEPT !.idle = touched]
        /\ sessions'[i] \in SessionRow
        /\ [pc |-> "serving", session |-> i, user |-> sessions[i].user,
            admin |-> accounts[sessions[i].user].admin] \in Thread

LEMMA AdmitSteps ==
    ASSUME AccountsTypeOK, NEW t \in Threads, Admit(t)
    PROVE  AdmitsTouching(t, threads[t].session, threads[t].at)
<1> DEFINE i == threads[t].session
           clock == threads[t].at
           touched == Earlier(sessions[i].expires, clock + IdleFor)
<1>1. i \in Sessions /\ clock \in 0..MaxTime /\ InForceAt(i, clock)
    BY ThreadAt DEF Admit, Arriving
<1>2. sessions[i] \in SessionRow /\ accounts[sessions[i].user] \in AccountRow
    BY <1>1, Rows DEF InForceAt, SessionRow
<1>3. touched \in 0..(MaxTime + SessionFor) /\ touched <= sessions[i].expires
    BY <1>1, <1>2, Bounds DEF Earlier, SessionRow
<1>4. sessions' = [sessions EXCEPT ![i] = [sessions[i] EXCEPT !.idle = touched]]
    BY <1>1 DEF Admit, AccountsTypeOK
<1>5. [sessions[i] EXCEPT !.idle = touched] \in SessionRow
    BY <1>2, <1>3 DEF SessionRow
<1>6. [pc |-> "serving", session |-> i, user |-> sessions[i].user,
       admin |-> accounts[sessions[i].user].admin] \in Thread
    BY <1>1, <1>2 DEF Thread, Serving, SessionRow, AccountRow
<1>7. sessions \in [Sessions -> SessionRow \cup Absent]
    BY DEF AccountsTypeOK
<1> HIDE DEF i, clock, touched
<1>8. /\ sessions' \in [Sessions -> SessionRow \cup Absent]
      /\ sessions'[i] = [sessions[i] EXCEPT !.idle = touched]
    BY <1>1, <1>4, <1>5, <1>7
<1>9. sessions'[i] \in SessionRow
    BY <1>5, <1>8
<1> QED BY <1>1, <1>2, <1>3, <1>4, <1>6, <1>8, <1>9 DEF AdmitsTouching, i, clock, touched

-----------------------------------------------------------------------------

\* Type correctness.

LEMMA Types ==
    ASSUME AccountsTypeOK, CountersSound, [Next]_vars
    PROVE  AccountsTypeOK'
<1> USE DEF AccountsTypeOK
<1>i. \A t \in Threads : [threads EXCEPT ![t] = Idle] \in [Threads -> Thread \cup {Idle}]
    OBVIOUS
<1>b. ASSUME NEW t \in Threads, NEW record \in Thread
      PROVE  [threads EXCEPT ![t] = record] \in [Threads -> Thread \cup {Idle}]
    OBVIOUS
<1>1. ASSUME NEW t \in Threads, SetupStep(t)
      PROVE  AccountsTypeOK'
    <2>1. CASE BeginSetup(t)
        BY <2>1, [pc |-> "settingUp"] \in Thread, <1>b DEF BeginSetup, Becomes, Thread, SettingUp
    <2>2. ASSUME NEW u \in Users, CreateFirst(t, u)
          PROVE  AccountsTypeOK'
        <3>1. [pc |-> "sealing", user |-> u] \in Thread
            BY DEF Thread, Resolved
        <3>2. accounts' \in [Users -> AccountRow \cup Absent]
            BY <2>2, NewAccountTyped DEF CreateFirst
        <3>3. setups' \in Nat
            BY <2>2 DEF CreateFirst
        <3>4. threads' \in [Threads -> Thread \cup {Idle}]
            BY <2>2, <3>1 DEF CreateFirst, Becomes
        <3> QED BY <2>2, <3>2, <3>3, <3>4 DEF CreateFirst
    <2>3. CASE SetupFails(t)
        BY <2>3, <1>i DEF SetupFails, Becomes
    <2>4. CASE Seal(t)
        <3>1. SigningIn(threads[t].user) \in Thread /\ SigningIn(threads[t].user).pc = "signing"
            BY <2>4, ThreadAt, SigningInTyped DEF Seal, Resolved
        <3> QED BY <2>4, <3>1, <1>b DEF Seal, Becomes
    <2> QED BY <1>1, <2>1, <2>2, <2>3, <2>4 DEF SetupStep
<1>2. ASSUME NEW t \in Threads, PasswordStep(t)
      PROVE  AccountsTypeOK'
    <2>1. ASSUME NEW u \in Users, NEW right \in BOOLEAN, ReadAccount(t, u, right)
          PROVE  AccountsTypeOK'
        <3>1. accounts[u] \in AccountRow
            BY <2>1, Rows DEF ReadAccount
        <3>2. threads'[t] \in Thread /\ threads' = [threads EXCEPT ![t] = threads'[t]]
            BY <2>1, <3>1 DEF ReadAccount, Becomes, AccountRow, Thread, Verifying
        <3> QED BY <2>1, <3>2, <1>b DEF ReadAccount, NotLogin
    <2>2. CASE Refuse(t)
        BY <2>2, <1>i DEF Refuse, Becomes, NotLogin
    <2>s. ASSUME NEW u \in Users, NEW failed \in 0..MaxFailed,
                 NEW lockedUntil \in 0..(MaxTime + LockFor), SetCounter(u, failed, lockedUntil)
          PROVE  accounts' \in [Users -> AccountRow \cup Absent]
        <3>1. CASE Live(accounts, u)
            <4> DEFINE row == [accounts[u] EXCEPT !.failed = failed, !.lockedUntil = lockedUntil]
            <4>1. row \in AccountRow
                BY <3>1, Rows DEF AccountRow
            <4>2. accounts' = [accounts EXCEPT ![u] = row]
                BY <2>s, <3>1 DEF SetCounter, AccountsTypeOK
            <4> HIDE DEF row
            <4> QED BY <4>1, <4>2 DEF AccountsTypeOK
        <3>2. CASE ~Live(accounts, u)
            BY <2>s, <3>2 DEF SetCounter, AccountsTypeOK
        <3> QED BY <3>1, <3>2
    <2>3. ASSUME NEW clock \in 0..now, CountFailure(t, clock)
          PROVE  AccountsTypeOK'
        <3>1. accounts' \in [Users -> AccountRow \cup Absent]
            BY <2>3, CountTyped, <2>s DEF CountFailure
        <3> QED BY <2>3, <3>1, <1>i DEF CountFailure, Becomes, NotLogin
    <2>4. CASE Authenticated(t)
        <3>1. threads[t] \in Verifying
            BY <2>4, ThreadAt DEF Authenticated
        <3> DEFINE record == IF threads[t].purpose = "signing" THEN SigningIn(threads[t].user)
                             ELSE [pc |-> "resetting", user |-> threads[t].user]
        <3>2. record \in Thread /\ record.pc \in {"signing", "resetting"}
            BY <3>1, SigningInTyped DEF Verifying, Thread, Resolved
        <3>3. accounts' \in [Users -> AccountRow \cup Absent]
            BY <2>4, <3>1, Bounds, <2>s DEF Authenticated, Verifying
        <3>4. threads' = [threads EXCEPT ![t] = record]
            BY <2>4 DEF Authenticated, Becomes
        <3> HIDE DEF record
        <3> QED BY <2>4, <3>2, <3>3, <3>4, <1>b DEF Authenticated, NotLogin
    <2>5. ASSUME NEW i \in Sessions, SignIn(t, i)
          PROVE  AccountsTypeOK'
        <3>1. threads[t].user \in Users
            BY <2>5, ThreadAt DEF SignIn, Signing
        <3>2. accounts[threads[t].user].password \in 0..MaxPasswords
            BY <2>5, <3>1, Rows, Bounds DEF SignIn, AccountRow
        <3>3. PICK clock \in Readings(t) :
                  sessions' = [sessions EXCEPT ![i] = NewSession(threads[t].user, clock)]
            BY <2>5 DEF SignIn
        <3>4. NewSession(threads[t].user, clock) \in SessionRow
            BY <2>5, <3>1, ReadingsTyped, NewSessionTyped DEF SignIn
        <3> QED BY <2>5, <3>2, <3>3, <3>4, <1>i DEF SignIn, Becomes, NotLogin
    <2>6. CASE SignInFails(t)
        BY <2>6, <1>i DEF SignInFails, Becomes, NotLogin
    <2>7. CASE ChangePassword(t)
        <3>1. threads[t].user \in Users
            BY <2>7, ThreadAt DEF ChangePassword, Resolved
        <3>2. accounts' \in [Users -> AccountRow \cup Absent]
            BY <2>7, <3>1, ResetTyped DEF ChangePassword
        <3> QED BY <2>7, <3>1, <3>2, <1>i, RevokedForTyped
                DEF ChangePassword, Reset, Becomes, NotLogin
    <2>8. CASE ChangeFails(t)
        BY <2>8, <1>i DEF ChangeFails, Becomes, NotLogin
    <2> QED BY <1>2, <2>1, <2>2, <2>3, <2>4, <2>5, <2>6, <2>7, <2>8 DEF PasswordStep
<1>3. ASSUME NEW t \in Threads, AccountStep(t)
      PROVE  AccountsTypeOK'
    <2>1. CASE Finish(t)
        BY <2>1, <1>i DEF Finish, Becomes, NotLogin
    <2>2. CASE Logout(t)
        <3>1. threads[t].session \in Sessions
            BY <2>2, ThreadAt DEF Logout, Serves, Serving
        <3>2. sessions' \in [Sessions -> SessionRow \cup Absent]
            BY <2>2, <3>1, Rows DEF Logout, SessionRow
        <3> QED BY <2>2, <3>2, <1>i DEF Logout, Serves, Becomes, NotLogin
    <2>3. CASE Admit(t)
        <3>1. AdmitsTouching(t, threads[t].session, threads[t].at)
            BY <2>3, AdmitSteps
        <3> QED BY <2>3, <3>1, <1>b DEF AdmitsTouching, Admit, Becomes, NotLogin
    <2>9. ASSUME NEW i \in Sessions, Arrive(t, i)
          PROVE  AccountsTypeOK'
        <3>1. [pc |-> "arriving", session |-> i, at |-> now] \in Thread
            BY DEF Thread, Arriving
        <3> QED BY <2>9, <3>1, <1>b DEF Arrive, Becomes, NotLogin
    <2>10. CASE RefuseRequest(t)
        BY <2>10, <1>i DEF RefuseRequest, Becomes, NotLogin
    <2>4. ASSUME NEW u \in Users, NEW admin \in BOOLEAN, CreateUser(t, u, admin)
          PROVE  AccountsTypeOK'
        BY <2>4, <1>i, NewAccountTyped DEF CreateUser, AdminServes, Serves, Becomes, NotLogin
    <2>5. ASSUME NEW u \in Users, ResetPassword(t, u)
          PROVE  AccountsTypeOK'
        <3>2. accounts' \in [Users -> AccountRow \cup Absent]
            BY <2>5, ResetTyped DEF ResetPassword
        <3> QED BY <2>5, <3>2, <1>i, RevokedForTyped
                DEF ResetPassword, Reset, AdminServes, Serves, Becomes, NotLogin
    <2>6. ASSUME NEW u \in Users, EnableUser(t, u)
          PROVE  AccountsTypeOK'
        <3>1. accounts' \in [Users -> AccountRow \cup Absent]
            BY <2>6, Rows DEF EnableUser, AccountRow
        <3> QED BY <2>6, <3>1, <1>i DEF EnableUser, AdminServes, Serves, Becomes, NotLogin
    <2>7. ASSUME NEW u \in Users, DisableUser(t, u)
          PROVE  AccountsTypeOK'
        <3>1. accounts' \in [Users -> AccountRow \cup Absent]
            BY <2>7, Rows DEF DisableUser, AccountRow
        <3> QED BY <2>7, <3>1, <1>i, RevokedForTyped
                DEF DisableUser, AdminServes, Serves, Becomes, NotLogin
    <2>8. ASSUME NEW u \in Users, DeleteUser(t, u)
          PROVE  AccountsTypeOK'
        <3>1. /\ accounts' \in [Users -> AccountRow \cup Absent]
              /\ sessions' \in [Sessions -> SessionRow \cup Absent]
              /\ tokens' \in [Tokens -> TokenRow \cup Absent]
            BY <2>8 DEF DeleteUser, Absent
        <3> QED BY <2>8, <3>1, <1>i DEF DeleteUser, AdminServes, Serves, Becomes
    <2> QED BY <1>3, <2>1, <2>2, <2>3, <2>4, <2>5, <2>6, <2>7, <2>8, <2>9, <2>10 DEF AccountStep
<1>4. ASSUME NEW t \in Threads, TokenStep(t)
      PROVE  AccountsTypeOK'
    <2>e. threads[t] \in Editing => threads[t].token \in Tokens
        BY DEF Editing
    <2>1. ASSUME NEW k \in Tokens, CreateToken(t, k)
          PROVE  AccountsTypeOK'
        <3>1. threads[t].user \in Users
            BY <2>1, ThreadAt DEF CreateToken, Serves, Serving
        <3>2. [owner |-> threads[t].user, version |-> 1, revoked |-> FALSE,
               enabled |-> TRUE] \in TokenRow
            BY <3>1, Bounds DEF TokenRow
        <3> QED BY <2>1, <3>2, <1>i DEF CreateToken, Serves, Becomes, NotTokens
    <2>2. ASSUME NEW k \in Tokens, NEW edit \in {"rotating", "enabling"}, ReadToken(t, k, edit)
          PROVE  AccountsTypeOK'
        <3>1. [pc |-> edit, token |-> k] \in Thread
            BY DEF Thread, Editing
        <3> QED BY <2>2, <3>1, <1>b DEF ReadToken, Becomes, NotTokens
    <2>3. ASSUME NEW k \in Tokens, DisableToken(t, k) \/ RevokeToken(t, k) \/ DeleteToken(t, k)
          PROVE  AccountsTypeOK'
        <3>1. tokens' \in [Tokens -> TokenRow \cup Absent]
            <4>1. CASE DisableToken(t, k)
                BY <4>1, Rows DEF DisableToken, TokenRow
            <4>2. CASE RevokeToken(t, k)
                BY <4>2, Rows DEF RevokeToken, TokenRow
            <4>3. CASE DeleteToken(t, k)
                BY <4>3 DEF DeleteToken, Absent
            <4> QED BY <2>3, <4>1, <4>2, <4>3
        <3> QED BY <2>3, <3>1, <1>i
                DEF DisableToken, RevokeToken, DeleteToken, Serves, Becomes, NotTokens
    <2>4. CASE RotateToken(t)
        <3>1. threads[t].token \in Tokens
            BY <2>4, <2>e, ThreadAt DEF RotateToken
        <3>2. tokens' \in [Tokens -> TokenRow \cup Absent]
            BY <2>4, <3>1, Rows, Bounds DEF RotateToken, TokenRow
        <3> QED BY <2>4, <3>2, <1>i DEF RotateToken, Becomes, NotTokens
    <2>5. CASE EnableToken(t)
        <3>1. threads[t].token \in Tokens
            BY <2>5, <2>e, ThreadAt DEF EnableToken
        <3>2. tokens' \in [Tokens -> TokenRow \cup Absent]
            BY <2>5, <3>1, Rows DEF EnableToken, TokenRow
        <3> QED BY <2>5, <3>2, <1>i DEF EnableToken, Becomes, NotTokens
    <2> QED BY <1>4, <2>1, <2>2, <2>3, <2>4, <2>5 DEF TokenStep
<1>5. CASE Restart
    <2>0. now + SetupFor \in 0..(MaxTime + SetupFor)
        BY Bounds
    <2>1. setup' \in [open : BOOLEAN, until : 0..(MaxTime + SetupFor)]
        BY <1>5, <2>0 DEF Restart
    <2>2. restartsLeft' \in 0..RestartLimit
        BY <1>5, Bounds DEF Restart
    <2> QED BY <1>5, <2>1, <2>2 DEF Restart
<1>6. CASE Tick
    <2>1. now' \in 0..MaxTime
        BY <1>6, Bounds DEF Tick
    <2> QED BY <1>6, <2>1 DEF Tick
<1>7. CASE UNCHANGED vars
    BY <1>7 DEF vars
<1> QED BY <1>1, <1>2, <1>3, <1>4, <1>5, <1>6, <1>7 DEF Next

-----------------------------------------------------------------------------

\* A thread that is idle afterwards verifies nothing.
LEMMA NoVerifying ==
    ASSUME AccountsTypeOK, CountersSound, NEW t \in Threads, NEW record \in Thread \cup {Idle},
           Becomes(t, record),
           record # Idle /\ record.pc = "verifying" =>
               (record.lockedUntil = 0 => record.failed < MaxFailed)
    PROVE  \A x \in Threads :
               At(x, "verifying")' => (threads'[x].lockedUntil = 0 => threads'[x].failed < MaxFailed)
BY DEF AccountsTypeOK, CountersSound, Becomes, At

\* A lock is set with the failure that reaches the limit, and no failure is
\* counted on an account that was locked when it was read.
LEMMA Counters ==
    ASSUME AccountsTypeOK, CountersSound, [Next]_vars
    PROVE  CountersSound'
<1> DEFINE AccountsFine(a) ==
        \A u \in Users : a[u] \notin Absent => (a[u].lockedUntil = 0 => a[u].failed < MaxFailed)
           ThreadsFine ==
        \A x \in Threads :
            At(x, "verifying")' => (threads'[x].lockedUntil = 0 => threads'[x].failed < MaxFailed)
<1>0. SUFFICES AccountsFine(accounts') /\ ThreadsFine
    BY DEF CountersSound, Live
<1>a. AccountsFine(accounts)
    BY DEF CountersSound, Live
<1>i. ASSUME NEW t \in Threads, Becomes(t, Idle)
      PROVE  ThreadsFine
    BY <1>i, NoVerifying
<1>b. ASSUME NEW t \in Threads, NEW record \in Thread, Becomes(t, record), record.pc # "verifying"
      PROVE  ThreadsFine
    BY <1>b, NoVerifying
<1>n. ASSUME NEW u \in Users, NEW admin \in BOOLEAN,
             accounts' = [accounts EXCEPT ![u] = NewAccount(admin)]
      PROVE  AccountsFine(accounts')
    BY <1>n, <1>a, NewAccountTyped DEF AccountsTypeOK
<1>r. ASSUME NEW u \in Users, Reset(u)
      PROVE  AccountsFine(accounts')
    BY <1>r, <1>a, ResetTyped, Bounds
<1> HIDE DEF AccountsFine, ThreadsFine
<1>1. ASSUME NEW t \in Threads, SetupStep(t)
      PROVE  AccountsFine(accounts') /\ ThreadsFine
    <2>1. CASE BeginSetup(t)
        BY <2>1, <1>a, <1>b, [pc |-> "settingUp"] \in Thread DEF BeginSetup, Thread, SettingUp
    <2>2. ASSUME NEW u \in Users, CreateFirst(t, u)
          PROVE  AccountsFine(accounts') /\ ThreadsFine
        <3>1. [pc |-> "sealing", user |-> u] \in Thread
            BY DEF Thread, Resolved
        <3> QED BY <2>2, <3>1, <1>b, <1>n DEF CreateFirst
    <2>3. CASE SetupFails(t)
        BY <2>3, <1>a, <1>i DEF SetupFails
    <2>4. CASE Seal(t)
        <3>1. SigningIn(threads[t].user) \in Thread /\ SigningIn(threads[t].user).pc = "signing"
            BY <2>4, ThreadAt, SigningInTyped DEF Seal, Resolved
        <3> QED BY <2>4, <3>1, <1>a, <1>b DEF Seal
    <2> QED BY <1>1, <2>1, <2>2, <2>3, <2>4 DEF SetupStep
<1>2. ASSUME NEW t \in Threads, PasswordStep(t)
      PROVE  AccountsFine(accounts') /\ ThreadsFine
    <2>1. ASSUME NEW u \in Users, NEW right \in BOOLEAN, ReadAccount(t, u, right)
          PROVE  AccountsFine(accounts') /\ ThreadsFine
        <3> DEFINE record ==
                [pc |-> "verifying", user |-> u, right |-> right,
                 enabled |-> accounts[u].enabled, failed |-> accounts[u].failed,
                 lockedUntil |-> accounts[u].lockedUntil,
                 purpose |-> IF threads[t] = Idle THEN "signing" ELSE "resetting",
                 at |-> now]
        <3>1. accounts[u] \in AccountRow
            BY <2>1, Rows DEF ReadAccount
        <3>2. record \in Thread
            BY <3>1 DEF AccountRow, Thread, Verifying, AccountsTypeOK
        <3>3. record.lockedUntil = 0 => record.failed < MaxFailed
            BY <2>1 DEF ReadAccount, CountersSound
        <3>4. Becomes(t, record) /\ accounts' = accounts
            BY <2>1 DEF ReadAccount
        <3> HIDE DEF record
        <3> QED BY <3>2, <3>3, <3>4, <1>a, NoVerifying DEF ThreadsFine
    <2>2. CASE Refuse(t)
        BY <2>2, <1>a, <1>i DEF Refuse
    <2>s. ASSUME NEW u \in Users, NEW failed \in 0..MaxFailed,
                 NEW lockedUntil \in 0..(MaxTime + LockFor), SetCounter(u, failed, lockedUntil),
                 lockedUntil = 0 => failed < MaxFailed
          PROVE  AccountsFine(accounts')
        BY <2>s, <1>a, Rows DEF SetCounter, AccountRow, AccountsFine, AccountsTypeOK
    <2>3. ASSUME NEW clock \in 0..now, CountFailure(t, clock)
          PROVE  AccountsFine(accounts') /\ ThreadsFine
        <3>1. CASE FailuresBefore(threads[t]) + 1 >= MaxFailed
            BY <2>3, <3>1, CountTyped, <2>s, <1>i DEF CountFailure
        <3>2. CASE ~(FailuresBefore(threads[t]) + 1 >= MaxFailed)
            <4>1. FailuresBefore(threads[t]) + 1 < MaxFailed
                BY <2>3, <3>2, CountTyped, Bounds
            <4> QED BY <2>3, <3>2, <4>1, CountTyped, <2>s, <1>i DEF CountFailure
        <3> QED BY <3>1, <3>2
    <2>4. CASE Authenticated(t)
        <3>1. threads[t] \in Verifying
            BY <2>4, ThreadAt DEF Authenticated
        <3> DEFINE record == IF threads[t].purpose = "signing" THEN SigningIn(threads[t].user)
                             ELSE [pc |-> "resetting", user |-> threads[t].user]
        <3>2. record \in Thread /\ record.pc \in {"signing", "resetting"}
            BY <3>1, SigningInTyped DEF Verifying, Thread, Resolved
        <3>3. threads[t].user \in Users /\ record.pc # "verifying"
            BY <3>1, <3>2 DEF Verifying
        <3>4. 0 \in 0..MaxFailed /\ 0 \in 0..(MaxTime + LockFor) /\ 0 < MaxFailed
            BY Bounds
        <3>5. Becomes(t, record)
            BY <2>4 DEF Authenticated
        <3> HIDE DEF record
        <3> QED BY <2>4, <3>2, <3>3, <3>4, <3>5, <2>s, <1>b DEF Authenticated
    <2>5. ASSUME NEW i \in Sessions, SignIn(t, i)
          PROVE  AccountsFine(accounts') /\ ThreadsFine
        BY <2>5, <1>a, <1>i DEF SignIn
    <2>6. CASE SignInFails(t)
        BY <2>6, <1>a, <1>i DEF SignInFails
    <2>7. CASE ChangePassword(t)
        <3>1. threads[t].user \in Users
            BY <2>7, ThreadAt DEF ChangePassword, Resolved
        <3> QED BY <2>7, <3>1, <1>r, <1>i DEF ChangePassword
    <2>8. CASE ChangeFails(t)
        BY <2>8, <1>a, <1>i DEF ChangeFails
    <2> QED BY <1>2, <2>1, <2>2, <2>3, <2>4, <2>5, <2>6, <2>7, <2>8 DEF PasswordStep
<1>3. ASSUME NEW t \in Threads, AccountStep(t)
      PROVE  AccountsFine(accounts') /\ ThreadsFine
    <2>1. CASE Finish(t) \/ Logout(t) \/ RefuseRequest(t)
        BY <2>1, <1>a, <1>i DEF Finish, Logout, RefuseRequest, Serves
    <2>2. CASE Admit(t)
        <3>1. AdmitsTouching(t, threads[t].session, threads[t].at)
            BY <2>2, AdmitSteps
        <3> QED BY <2>2, <3>1, <1>a, <1>b DEF AdmitsTouching, Admit
    <2>7. ASSUME NEW i \in Sessions, Arrive(t, i)
          PROVE  AccountsFine(accounts') /\ ThreadsFine
        <3>1. [pc |-> "arriving", session |-> i, at |-> now] \in Thread
            BY DEF Thread, Arriving, AccountsTypeOK
        <3> QED BY <2>7, <3>1, <1>a, <1>b DEF Arrive
    <2>3. ASSUME NEW u \in Users, NEW admin \in BOOLEAN, CreateUser(t, u, admin)
          PROVE  AccountsFine(accounts') /\ ThreadsFine
        BY <2>3, <1>n, <1>i DEF CreateUser, AdminServes, Serves
    <2>4. ASSUME NEW u \in Users, ResetPassword(t, u)
          PROVE  AccountsFine(accounts') /\ ThreadsFine
        BY <2>4, <1>r, <1>i DEF ResetPassword, AdminServes, Serves
    <2>5. ASSUME NEW u \in Users, EnableUser(t, u) \/ DisableUser(t, u)
          PROVE  AccountsFine(accounts') /\ ThreadsFine
        <3>1. AccountsFine(accounts')
            <4>1. accounts[u] \in AccountRow /\ accounts[u] \notin Absent
                BY <2>5, Rows DEF EnableUser, DisableUser, Live
            <4>2. PICK enabled \in BOOLEAN : accounts' = [accounts EXCEPT ![u].enabled = enabled]
                BY <2>5 DEF EnableUser, DisableUser
            <4> QED BY <4>1, <4>2, <1>a DEF AccountsFine, AccountsTypeOK, AccountRow
        <3> QED BY <2>5, <3>1, <1>i DEF EnableUser, DisableUser, AdminServes, Serves
    <2>6. ASSUME NEW u \in Users, DeleteUser(t, u)
          PROVE  AccountsFine(accounts') /\ ThreadsFine
        <3>1. AccountsFine(accounts')
            BY <2>6, <1>a DEF DeleteUser, AccountsFine, AccountsTypeOK, Absent
        <3> QED BY <2>6, <3>1, <1>i DEF DeleteUser, AdminServes, Serves
    <2> QED BY <1>3, <2>1, <2>2, <2>3, <2>4, <2>5, <2>6, <2>7 DEF AccountStep
<1>4. ASSUME NEW t \in Threads, TokenStep(t)
      PROVE  AccountsFine(accounts') /\ ThreadsFine
    <2>1. ASSUME NEW k \in Tokens,
                 CreateToken(t, k) \/ DisableToken(t, k) \/ RevokeToken(t, k) \/ DeleteToken(t, k)
          PROVE  AccountsFine(accounts') /\ ThreadsFine
        BY <2>1, <1>a, <1>i DEF CreateToken, DisableToken, RevokeToken, DeleteToken, Serves, NotTokens
    <2>2. ASSUME NEW k \in Tokens, NEW edit \in {"rotating", "enabling"}, ReadToken(t, k, edit)
          PROVE  AccountsFine(accounts') /\ ThreadsFine
        <3>1. [pc |-> edit, token |-> k] \in Thread
            BY DEF Thread, Editing
        <3> QED BY <2>2, <3>1, <1>a, <1>b DEF ReadToken, NotTokens
    <2>3. CASE RotateToken(t) \/ EnableToken(t)
        BY <2>3, <1>a, <1>i DEF RotateToken, EnableToken, NotTokens
    <2> QED BY <1>4, <2>1, <2>2, <2>3 DEF TokenStep
<1>5. CASE Restart
    BY <1>5, <1>a DEF Restart, ThreadsFine, At
<1>6. CASE Tick \/ UNCHANGED vars
    BY <1>6, <1>a DEF Tick, vars, ThreadsFine, CountersSound, At
<1> QED BY <1>1, <1>2, <1>3, <1>4, <1>5, <1>6 DEF Next

-----------------------------------------------------------------------------

\* The setup.

\* There is always an enabled administrator once there was one: who is disabled or
\* deleted was none, or left another.
LEMMA AdminKept ==
    ASSUME AccountsTypeOK, CountersSound, NEW a \in Users, IsAdmin(a), [Next]_vars
    PROVE  \E v \in Users : IsAdmin(v)'
<1>0. accounts[a] \in AccountRow /\ accounts[a] \notin Absent
    BY Rows DEF IsAdmin, Live
<1>s. ASSUME accounts' = accounts
      PROVE  \E v \in Users : IsAdmin(v)'
    BY <1>s DEF IsAdmin, Live
<1>n. ASSUME NEW u \in Users, NEW admin \in BOOLEAN, accounts[u] = Unissued,
             accounts' = [accounts EXCEPT ![u] = NewAccount(admin)]
      PROVE  \E v \in Users : IsAdmin(v)'
    <2>1. accounts'[a] = accounts[a]
        BY <1>n, <1>0, Special DEF AccountsTypeOK
    <2> QED BY <2>1 DEF IsAdmin, Live
<1>c. ASSUME NEW u \in Users, NEW failed, NEW lockedUntil, SetCounter(u, failed, lockedUntil),
             failed \in 0..MaxFailed, lockedUntil \in 0..(MaxTime + LockFor)
      PROVE  \E v \in Users : IsAdmin(v)'
    <2>1. /\ accounts'[a] \in AccountRow
          /\ accounts'[a].admin = accounts[a].admin
          /\ accounts'[a].enabled = accounts[a].enabled
        BY <1>c, <1>0 DEF SetCounter, AccountsTypeOK, AccountRow, Live
    <2> QED BY <2>1, Special DEF IsAdmin, Live
<1>r. ASSUME NEW u \in Users, Reset(u)
      PROVE  \E v \in Users : IsAdmin(v)'
    <2>1. /\ accounts'[a] \in AccountRow
          /\ accounts'[a].admin = accounts[a].admin
          /\ accounts'[a].enabled = accounts[a].enabled
        BY <1>r, <1>0, ResetTyped
    <2> QED BY <2>1, Special DEF IsAdmin, Live
<1>o. ASSUME NEW u \in Users, IsAdmin(u) => OtherAdmin(u),
             \A v \in Users \ {u} : accounts'[v] = accounts[v]
      PROVE  \E v \in Users : IsAdmin(v)'
    <2>1. PICK v \in Users \ {u} : IsAdmin(v)
        BY <1>o DEF OtherAdmin
    <2> QED BY <1>o, <2>1 DEF IsAdmin, Live
<1>1. ASSUME NEW t \in Threads, SetupStep(t)
      PROVE  \E v \in Users : IsAdmin(v)'
    BY <1>1, <1>s, <1>n DEF SetupStep, BeginSetup, CreateFirst, SetupFails, Seal
<1>2. ASSUME NEW t \in Threads, PasswordStep(t)
      PROVE  \E v \in Users : IsAdmin(v)'
    <2>1. ASSUME NEW clock \in 0..now, CountFailure(t, clock)
          PROVE  \E v \in Users : IsAdmin(v)'
        BY <2>1, CountTyped, <1>c DEF CountFailure
    <2>2. CASE Authenticated(t)
        <3>1. threads[t].user \in Users
            BY <2>2, ThreadAt DEF Authenticated, Verifying
        <3> QED BY <2>2, <3>1, <1>c, Bounds DEF Authenticated
    <2>3. CASE ChangePassword(t)
        <3>1. threads[t].user \in Users
            BY <2>3, ThreadAt DEF ChangePassword, Resolved
        <3> QED BY <2>3, <3>1, <1>r DEF ChangePassword
    <2> QED BY <1>2, <2>1, <2>2, <2>3, <1>s
            DEF PasswordStep, ReadAccount, Refuse, SignIn, SignInFails, ChangeFails
<1>3. ASSUME NEW t \in Threads, AccountStep(t)
      PROVE  \E v \in Users : IsAdmin(v)'
    <2>1. ASSUME NEW u \in Users, EnableUser(t, u)
          PROVE  \E v \in Users : IsAdmin(v)'
        <3>1. /\ accounts'[a] \in AccountRow /\ accounts'[a].admin
              /\ accounts'[a].enabled
            BY <2>1, <1>0 DEF EnableUser, AccountsTypeOK, AccountRow, IsAdmin
        <3> QED BY <3>1, Special DEF IsAdmin, Live
    <2>2. ASSUME NEW u \in Users, DisableUser(t, u) \/ DeleteUser(t, u)
          PROVE  \E v \in Users : IsAdmin(v)'
        <3>1. /\ IsAdmin(u) => OtherAdmin(u)
              /\ \A v \in Users \ {u} : accounts'[v] = accounts[v]
            BY <2>2 DEF DisableUser, DeleteUser, AccountsTypeOK
        <3> QED BY <3>1, <1>o
    <2>3. ASSUME NEW u \in Users, ResetPassword(t, u)
          PROVE  \E v \in Users : IsAdmin(v)'
        BY <2>3, <1>r DEF ResetPassword
    <2>4. ASSUME NEW u \in Users, NEW admin \in BOOLEAN, CreateUser(t, u, admin)
          PROVE  \E v \in Users : IsAdmin(v)'
        BY <2>4, <1>n DEF CreateUser
    <2> QED BY <1>3, <2>1, <2>2, <2>3, <2>4, <1>s
            DEF AccountStep, Finish, Logout, Arrive, Admit, RefuseRequest
<1>4. ASSUME NEW t \in Threads, TokenStep(t)
      PROVE  \E v \in Users : IsAdmin(v)'
    BY <1>4, <1>s DEF TokenStep, CreateToken, ReadToken, DisableToken, RevokeToken, DeleteToken,
                      RotateToken, EnableToken, NotTokens
<1>5. CASE Restart \/ Tick \/ UNCHANGED vars
    BY <1>5, <1>s DEF Restart, Tick, vars
<1> QED BY <1>1, <1>2, <1>3, <1>4, <1>5 DEF Next

\* Once there are accounts, no setup begins.
LEMMA SetupOver ==
    ASSUME AccountsTypeOK, ~NoUsers, \A x \in Threads : ~At(x, "settingUp"), [Next]_vars
    PROVE  setups' = setups /\ \A x \in Threads : ~At(x, "settingUp")'
<1> DEFINE SetUp == setups' = setups /\ \A x \in Threads : ~At(x, "settingUp")'
<1>b. ASSUME NEW t \in Threads, NEW record, record # Idle => record.pc # "settingUp",
             Becomes(t, record), setups' = setups
      PROVE  SetUp
    BY <1>b DEF Becomes, At, AccountsTypeOK
<1> HIDE DEF SetUp
<1>1. ASSUME NEW t \in Threads, SetupStep(t)
      PROVE  SetUp
    BY <1>1, <1>b DEF SetupStep, BeginSetup, CreateFirst, SetupFails, Seal, SigningIn
<1>2. ASSUME NEW t \in Threads, PasswordStep(t)
      PROVE  SetUp
    <2>1. CASE Authenticated(t)
        BY <2>1, <1>b DEF Authenticated, SigningIn, NotLogin
    <2>2. ASSUME NEW u \in Users, NEW right \in BOOLEAN, ReadAccount(t, u, right)
          PROVE  SetUp
        BY <2>2, <1>b DEF ReadAccount, NotLogin
    <2> QED BY <1>2, <2>1, <2>2, <1>b
            DEF PasswordStep, Refuse, CountFailure, SignIn, SignInFails, ChangePassword,
                ChangeFails, NotLogin
<1>3. ASSUME NEW t \in Threads, AccountStep(t)
      PROVE  SetUp
    BY <1>3, <1>b DEF AccountStep, Finish, Logout, Arrive, Admit, RefuseRequest, CreateUser,
                      ResetPassword, EnableUser, DisableUser, DeleteUser, AdminServes, Serves,
                      NotLogin
<1>4. ASSUME NEW t \in Threads, TokenStep(t)
      PROVE  SetUp
    BY <1>4, <1>b DEF TokenStep, CreateToken, ReadToken, DisableToken, RevokeToken, DeleteToken,
                      RotateToken, EnableToken, Serves, NotTokens
<1>5. CASE Restart \/ Tick \/ UNCHANGED vars
    BY <1>5 DEF Restart, Tick, vars, SetUp, At
<1> QED BY <1>1, <1>2, <1>3, <1>4, <1>5 DEF Next, SetUp

\* Before the first account nobody logs in, and one thread at a time sets up.
LEMMA Setup ==
    ASSUME AccountsTypeOK, CountersSound, SetupSound, [Next]_vars
    PROVE  SetupSound'
<1>1. CASE \E u \in Users : IsAdmin(u)
    <2>1. setups = 1 /\ ~NoUsers /\ \A t \in Threads : ~At(t, "settingUp")
        BY <1>1 DEF SetupSound, NoUsers, IsAdmin
    <2>2. \E u \in Users : IsAdmin(u)'
        BY <1>1, AdminKept
    <2> QED BY <2>1, <2>2, SetupOver DEF SetupSound
<1>2. CASE ~\E u \in Users : IsAdmin(u)
    <2>0. /\ \A u \in Users : ~Live(accounts, u)
          /\ setups = 0
          /\ \A i \in Sessions : sessions[i] = Unissued
          /\ \A t \in Threads : threads[t] = Idle \/ At(t, "settingUp")
          /\ \A t, x \in Threads : At(t, "settingUp") /\ At(x, "settingUp") => t = x
        BY <1>2 DEF SetupSound, NoUsers
    <2>i. ASSUME NEW t \in Threads, Becomes(t, Idle), UNCHANGED <<accounts, sessions, setups>>
          PROVE  SetupSound'
        BY <2>i, <2>0 DEF SetupSound, NoUsers, Live, Becomes, At, AccountsTypeOK
    <2>1. ASSUME NEW t \in Threads, SetupStep(t)
          PROVE  SetupSound'
        <3>1. CASE BeginSetup(t)
            <4>1. [pc |-> "settingUp"] # Idle
                BY Special DEF Thread, SettingUp
            <4>2. \A x \in Threads : At(x, "settingUp")' <=> x = t
                BY <3>1, <2>0, <4>1 DEF BeginSetup, Becomes, At, AccountsTypeOK
            <4>3. \A x \in Threads : threads'[x] = Idle \/ At(x, "settingUp")'
                BY <3>1, <2>0, <4>2 DEF BeginSetup, Becomes, At, AccountsTypeOK
            <4> QED BY <3>1, <2>0, <4>2, <4>3 DEF BeginSetup, SetupSound, NoUsers, Live
        <3>2. ASSUME NEW u \in Users, CreateFirst(t, u)
              PROVE  SetupSound'
            <4>1. IsAdmin(u)'
                BY <3>2, NewAccountTyped, Special
                DEF CreateFirst, IsAdmin, Live, AccountsTypeOK
            <4>2. \A x \in Threads : ~At(x, "settingUp")'
                BY <3>2, <2>0 DEF CreateFirst, Becomes, At, AccountsTypeOK
            <4>3. setups' = 1
                BY <3>2, <2>0 DEF CreateFirst
            <4> QED BY <4>1, <4>2, <4>3 DEF SetupSound
        <3>3. CASE SetupFails(t)
            BY <3>3, <2>i DEF SetupFails
        <3>4. CASE Seal(t)
            BY <3>4, <2>0 DEF Seal, At
        <3> QED BY <2>1, <3>1, <3>2, <3>3, <3>4 DEF SetupStep
    <2>2. ASSUME NEW t \in Threads
          PROVE  ~PasswordStep(t) /\ ~AccountStep(t) /\ ~TokenStep(t)
        <3>1. ~PasswordStep(t)
            BY <2>0 DEF PasswordStep, ReadAccount, Refuse, CountFailure, Authenticated, SignIn,
                        SignInFails, ChangePassword, ChangeFails, At
        <3>2. ~AccountStep(t)
            BY <2>0 DEF AccountStep, Finish, Logout, Arrive, Admit, RefuseRequest, CreateUser,
                        ResetPassword, EnableUser, DisableUser, DeleteUser, AdminServes, Serves,
                        At
        <3>3. ~TokenStep(t)
            BY <2>0 DEF TokenStep, CreateToken, ReadToken, DisableToken, RevokeToken, DeleteToken,
                        RotateToken, EnableToken, Serves, At
        <3> QED BY <3>1, <3>2, <3>3
    <2>3. CASE Restart
        BY <2>3, <2>0 DEF Restart, SetupSound, NoUsers, Live, At
    <2>4. CASE Tick \/ UNCHANGED vars
        BY <2>4, <2>0 DEF Tick, vars, SetupSound, NoUsers, Live, At
    <2> QED BY <2>1, <2>2, <2>3, <2>4 DEF Next
<1> QED BY <1>1, <1>2

-----------------------------------------------------------------------------

\* Sessions.

\* No clock opens the session now that did not open it before, and its end is the same.
Lessens(i) ==
    /\ sessions'[i] # Unissued
    /\ \A clock \in 0..MaxTime :
           InForceAt(i, clock)' =>
               InForceAt(i, clock) /\ sessions'[i].expires = sessions[i].expires

\* What becomes of a session in a step: it begins under an account that is enabled
\* and its present password, or it stays, touched by a request it admits, or it is
\* revoked or deleted.  Accounts that are disabled, deleted or given a new password
\* leave no session in force.
LEMMA SessionSteps ==
    ASSUME AccountsTypeOK, CountersSound, SessionsInForce, [Next]_vars
    PROVE  /\ SessionsInForce'
           /\ \A i \in Sessions :
                  sessions[i] # Unissued =>
                      \/ Lessens(i)
                      \/ \E t \in Threads : Admit(t) /\ threads[t].session = i
<1> DEFINE Lessen == \A i \in Sessions : sessions[i] # Unissued => Lessens(i)
           Kept == SessionsInForce' /\ Lessen
<1>0. \A i \in Sessions : Live(sessions, i) =>
          /\ sessions[i] \in SessionRow
          /\ sessions[i].user \in Users
    BY Rows DEF SessionRow
<1>u. /\ \A u \in Users : Live(accounts, u) => accounts[u] \in AccountRow
      /\ Unissued \in Absent
    BY Rows, Special
<1>s. ASSUME UNCHANGED <<accounts, sessions, since>>
      PROVE  Kept
    BY <1>s DEF SessionsInForce, InForceAt, Live, Lessens
<1>a. ASSUME UNCHANGED <<sessions, since>>,
             \A u \in Users :
                 Live(accounts, u) =>
                     /\ accounts'[u] \notin Absent
                     /\ accounts'[u].enabled = accounts[u].enabled
                     /\ accounts'[u].password = accounts[u].password
      PROVE  Kept
    <2>1. SessionsInForce'
        BY <1>a, <1>0 DEF SessionsInForce, Live
    <2>2. ASSUME NEW i \in Sessions, NEW clock \in 0..MaxTime, InForceAt(i, clock)'
          PROVE  InForceAt(i, clock)
        <3>1. Live(sessions, i) /\ ~sessions[i].revoked
            BY <1>a, <2>2 DEF InForceAt, Live
        <3>2. Live(accounts, sessions[i].user) /\ accounts[sessions[i].user].enabled
            BY <3>1 DEF SessionsInForce
        <3> QED BY <1>a, <2>2, <3>1, <3>2 DEF InForceAt, Live
    <2> QED BY <1>a, <2>1, <2>2 DEF Lessens
<1>x. ASSUME NEW u \in Users, sessions' = RevokedFor(u), UNCHANGED since,
             \A v \in Users \ {u} : accounts'[v] = accounts[v]
      PROVE  Kept
    <2>1. ASSUME NEW i \in Sessions, Live(sessions, i)', ~sessions'[i].revoked
          PROVE  /\ Live(sessions, i)
                 /\ sessions[i].user # u
                 /\ sessions'[i] = sessions[i]
        BY <1>x, <2>1, RevokedForTyped DEF Live
    <2>2. SessionsInForce'
        BY <1>x, <1>0, <2>1 DEF SessionsInForce, Live
    <2>3. ASSUME NEW i \in Sessions, NEW clock \in 0..MaxTime, InForceAt(i, clock)'
          PROVE  InForceAt(i, clock) /\ sessions'[i].expires = sessions[i].expires
        BY <1>x, <1>0, <2>1, <2>3 DEF InForceAt, Live
    <2>4. ASSUME NEW i \in Sessions, sessions[i] # Unissued
          PROVE  sessions'[i] # Unissued
        BY <1>x, <1>u, <2>4, RevokedForTyped
    <2> QED BY <2>2, <2>3, <2>4 DEF Lessens
<1> HIDE DEF Kept, Lessen
<1>1. ASSUME NEW t \in Threads, SetupStep(t)
      PROVE  Kept
    <2>1. ASSUME NEW u \in Users, CreateFirst(t, u)
          PROVE  Kept
        <3>1. \A v \in Users : Live(accounts, v) => accounts'[v] = accounts[v]
            BY <2>1, <1>u DEF CreateFirst, AccountsTypeOK, Live
        <3> QED BY <2>1, <3>1, <1>a DEF CreateFirst, Live
    <2> QED BY <1>1, <2>1, <1>s DEF SetupStep, BeginSetup, SetupFails, Seal
<1>2. ASSUME NEW t \in Threads, PasswordStep(t)
      PROVE  Kept
    <2>1. ASSUME NEW u \in Users, NEW failed \in 0..MaxFailed,
                 NEW lockedUntil \in 0..(MaxTime + LockFor), SetCounter(u, failed, lockedUntil),
                 UNCHANGED <<sessions, since>>
          PROVE  Kept
        <3>1. ASSUME NEW v \in Users, Live(accounts, v)
              PROVE  /\ accounts'[v] \in AccountRow
                     /\ accounts'[v].enabled = accounts[v].enabled
                     /\ accounts'[v].password = accounts[v].password
            BY <2>1, <3>1, <1>u DEF SetCounter, AccountsTypeOK, AccountRow
        <3> QED BY <2>1, <3>1, <1>a, Special
    <2>2. ASSUME NEW clock \in 0..now, CountFailure(t, clock)
          PROVE  Kept
        BY <2>1, <2>2, CountTyped DEF CountFailure
    <2>3. CASE Authenticated(t)
        <3>1. threads[t].user \in Users
            BY <2>3, ThreadAt DEF Authenticated, Verifying
        <3> QED BY <2>1, <2>3, <3>1, Bounds DEF Authenticated
    <2>4. ASSUME NEW i \in Sessions, SignIn(t, i)
          PROVE  Kept
        <3>1. threads[t].user \in Users
            BY <2>4, ThreadAt DEF SignIn, Signing
        <3>2. PICK clock \in Readings(t) :
                  sessions' = [sessions EXCEPT ![i] = NewSession(threads[t].user, clock)]
            BY <2>4 DEF SignIn
        <3>3. NewSession(threads[t].user, clock).user = threads[t].user
            BY <2>4, <3>1, <3>2, ReadingsTyped, NewSessionTyped DEF SignIn
        <3>4. /\ sessions'[i].user = threads[t].user
              /\ sessions[i] = Unissued
              /\ since'[i] = accounts[threads[t].user].password
              /\ \A x \in Sessions \ {i} : sessions'[x] = sessions[x] /\ since'[x] = since[x]
              /\ UNCHANGED accounts
              /\ Live(accounts, threads[t].user) /\ accounts[threads[t].user].enabled
            BY <2>4, <3>2, <3>3 DEF SignIn, AccountsTypeOK
        <3>5. SessionsInForce'
            BY <3>4 DEF SessionsInForce, Live
        <3>6. ASSUME NEW x \in Sessions, sessions[x] # Unissued
              PROVE  Lessens(x)
            BY <3>4, <3>6 DEF Lessens, InForceAt, Live
        <3> QED BY <3>5, <3>6 DEF Kept, Lessen
    <2>5. CASE ChangePassword(t)
        <3>1. threads[t].user \in Users
            BY <2>5, ThreadAt DEF ChangePassword, Resolved
        <3> QED BY <2>5, <3>1, ResetTyped, <1>x DEF ChangePassword, Reset
    <2> QED BY <1>2, <2>2, <2>3, <2>4, <2>5, <1>s
            DEF PasswordStep, ReadAccount, Refuse, SignInFails, ChangeFails
<1>3. ASSUME NEW t \in Threads, AccountStep(t), ~Admit(t)
      PROVE  Kept
    <2>1. CASE Logout(t)
        <3>1. threads[t].session \in Sessions
            BY <2>1, ThreadAt DEF Logout, Serves, Serving
        <3>2. /\ UNCHANGED <<accounts, since>>
              /\ \A x \in Sessions :
                     \/ sessions'[x] = sessions[x]
                     \/ sessions'[x] \in SessionRow /\ sessions'[x].revoked
            BY <2>1, <3>1, <1>0 DEF Logout, AccountsTypeOK, SessionRow
        <3>3. SessionsInForce'
            BY <3>2 DEF SessionsInForce, Live
        <3>4. ASSUME NEW x \in Sessions, sessions[x] # Unissued
              PROVE  Lessens(x)
            BY <3>2, <3>4, Special DEF Lessens, InForceAt, Live
        <3> QED BY <3>3, <3>4 DEF Kept, Lessen
    <2>3. ASSUME NEW u \in Users, NEW admin \in BOOLEAN, CreateUser(t, u, admin)
          PROVE  Kept
        <3>1. \A v \in Users : Live(accounts, v) => accounts'[v] = accounts[v]
            BY <2>3, <1>u DEF CreateUser, AccountsTypeOK, Live
        <3> QED BY <2>3, <3>1, <1>a DEF CreateUser, Live
    <2>4. ASSUME NEW u \in Users, ResetPassword(t, u)
          PROVE  Kept
        BY <2>4, ResetTyped, <1>x DEF ResetPassword, Reset
    <2>5. ASSUME NEW u \in Users, EnableUser(t, u)
          PROVE  Kept
        <3>1. ASSUME NEW v \in Users, Live(accounts, v)
              PROVE  /\ accounts'[v] \in AccountRow
                     /\ accounts'[v].password = accounts[v].password
                     /\ accounts[v].enabled => accounts'[v].enabled
                     /\ v # u => accounts'[v] = accounts[v]
            BY <2>5, <3>1, <1>u DEF EnableUser, AccountsTypeOK, AccountRow
        <3>2. UNCHANGED <<sessions, since>>
            BY <2>5 DEF EnableUser
        <3>3. \A i \in Sessions : Live(sessions, i) /\ ~sessions[i].revoked =>
                  Live(accounts, sessions[i].user) /\ accounts[sessions[i].user].enabled
            BY DEF SessionsInForce
        <3>4. SessionsInForce'
            BY <3>1, <3>2, <1>0, Special DEF SessionsInForce, Live
        <3>5. ASSUME NEW i \in Sessions, sessions[i] # Unissued
              PROVE  Lessens(i)
            BY <3>2, <3>3, <3>5 DEF Lessens, InForceAt, Live
        <3> QED BY <3>4, <3>5 DEF Kept, Lessen
    <2>6. ASSUME NEW u \in Users, DisableUser(t, u)
          PROVE  Kept
        <3>1. \A v \in Users \ {u} : accounts'[v] = accounts[v]
            BY <2>6 DEF DisableUser, AccountsTypeOK
        <3> QED BY <2>6, <3>1, <1>x DEF DisableUser
    <2>7. ASSUME NEW u \in Users, DeleteUser(t, u)
          PROVE  Kept
        <3>1. /\ \A v \in Users \ {u} : accounts'[v] = accounts[v]
              /\ UNCHANGED since
            BY <2>7 DEF DeleteUser, AccountsTypeOK
        <3>2. \A i \in Sessions :
                  \/ sessions'[i] = Deleted
                  \/ /\ sessions'[i] = sessions[i]
                     /\ Live(sessions, i) => sessions[i].user # u
            BY <2>7 DEF DeleteUser
        <3>3. SessionsInForce'
            BY <3>1, <3>2, <1>0, Special DEF SessionsInForce, Live
        <3>4. ASSUME NEW i \in Sessions, sessions[i] # Unissued
              PROVE  Lessens(i)
            BY <3>1, <3>2, <3>4, <1>0, Special DEF Lessens, InForceAt, Live
        <3> QED BY <3>3, <3>4 DEF Kept, Lessen
    <2> QED BY <1>3, <2>1, <2>3, <2>4, <2>5, <2>6, <2>7, <1>s
            DEF AccountStep, Arrive, RefuseRequest, Finish
<1>4. ASSUME NEW t \in Threads, TokenStep(t)
      PROVE  Kept
    BY <1>4, <1>s DEF TokenStep, CreateToken, ReadToken, DisableToken, RevokeToken, DeleteToken,
                      RotateToken, EnableToken, NotTokens
<1>5. ASSUME Restart \/ Tick \/ UNCHANGED vars
      PROVE  Kept
    BY <1>5, <1>s DEF Restart, Tick, vars
<1>6. ASSUME NEW t \in Threads, Admit(t)
      PROVE  /\ SessionsInForce'
             /\ \A x \in Sessions \ {threads[t].session} : sessions[x] # Unissued => Lessens(x)
    <2> DEFINE i == threads[t].session
    <2>1. AdmitsTouching(t, i, threads[t].at)
        BY <1>6, AdmitSteps
    <2>2. UNCHANGED <<accounts, since>>
        BY <1>6 DEF Admit
    <2>3. /\ i \in Sessions /\ Live(sessions, i)
          /\ sessions'[i].user = sessions[i].user
          /\ sessions'[i].revoked = sessions[i].revoked
          /\ \A x \in Sessions \ {i} : sessions'[x] = sessions[x]
        BY <2>1 DEF AdmitsTouching, InForceAt, AccountsTypeOK, SessionRow
    <2> HIDE DEF i
    <2>4. SessionsInForce'
        BY <2>2, <2>3 DEF SessionsInForce, Live
    <2>5. \A x \in Sessions \ {i} : sessions[x] # Unissued => Lessens(x)
        BY <2>2, <2>3 DEF Lessens, InForceAt, Live
    <2> QED BY <2>4, <2>5 DEF i
<1>7. CASE \E t \in Threads : Admit(t)
    BY <1>6, <1>7
<1>8. CASE ~\E t \in Threads : Admit(t)
    <2>1. Kept
        BY <1>1, <1>2, <1>3, <1>4, <1>5, <1>8 DEF Next
    <2> QED BY <2>1 DEF Kept, Lessen
<1> QED BY <1>7, <1>8

\* A request that waits has waited before, or has read the clock just now.
LEMMA Arrivals ==
    ASSUME AccountsTypeOK, [Next]_vars
    PROVE  \A t \in Threads :
               At(t, "arriving")' => threads'[t] = threads[t] \/ threads'[t].at = now
<1> DEFINE Waits == \A t \in Threads :
                        At(t, "arriving")' => threads'[t] = threads[t] \/ threads'[t].at = now
<1>b. ASSUME NEW t \in Threads, NEW record, Becomes(t, record),
             record # Idle /\ record.pc = "arriving" => record.at = now
      PROVE  Waits
    BY <1>b DEF Becomes, At, AccountsTypeOK
<1> HIDE DEF Waits
<1>1. ASSUME NEW t \in Threads, SetupStep(t)
      PROVE  Waits
    BY <1>1, <1>b DEF SetupStep, BeginSetup, CreateFirst, SetupFails, Seal, SigningIn
<1>2. ASSUME NEW t \in Threads, PasswordStep(t)
      PROVE  Waits
    <2>1. CASE Authenticated(t)
        BY <2>1, <1>b DEF Authenticated, SigningIn
    <2>2. ASSUME NEW u \in Users, NEW right \in BOOLEAN, ReadAccount(t, u, right)
          PROVE  Waits
        BY <2>2, <1>b DEF ReadAccount
    <2> QED BY <1>2, <2>1, <2>2, <1>b
            DEF PasswordStep, Refuse, CountFailure, SignIn, SignInFails, ChangePassword,
                ChangeFails
<1>3. ASSUME NEW t \in Threads, AccountStep(t)
      PROVE  Waits
    BY <1>3, <1>b DEF AccountStep, Finish, Logout, Arrive, Admit, RefuseRequest, CreateUser,
                      ResetPassword, EnableUser, DisableUser, DeleteUser, AdminServes, Serves
<1>4. ASSUME NEW t \in Threads, TokenStep(t)
      PROVE  Waits
    BY <1>4, <1>b DEF TokenStep, CreateToken, ReadToken, DisableToken, RevokeToken, DeleteToken,
                      RotateToken, EnableToken, Serves
<1>5. CASE Restart \/ Tick \/ UNCHANGED vars
    BY <1>5 DEF Restart, Tick, vars, Waits, At
<1> QED BY <1>1, <1>2, <1>3, <1>4, <1>5 DEF Next, Waits

\* A session that is over stays over.  Only a request that waits can touch it, and it
\* is one that reads the clock in time; so the session is past its end, which no
\* touch moves.
LEMMA OverSteps ==
    ASSUME AccountsTypeOK, CountersSound, SessionsInForce, [Next]_vars,
           NEW i \in Sessions, Over(i)
    PROVE  Over(i)'
<1>0. /\ AccountsTypeOK'
      /\ now \in 0..MaxTime /\ now' \in 0..MaxTime
      /\ sessions[i] # Unissued
    BY Types DEF AccountsTypeOK, Over
<1>n. now' = now \/ now' = now + 1
    <2>1. ASSUME NEW t \in Threads, SetupStep(t)
          PROVE  now' = now
        BY <2>1 DEF SetupStep, BeginSetup, CreateFirst, SetupFails, Seal
    <2>2. ASSUME NEW t \in Threads, PasswordStep(t)
          PROVE  now' = now
        BY <2>2 DEF PasswordStep, ReadAccount, Refuse, CountFailure, Authenticated, SignIn,
                    SignInFails, ChangePassword, ChangeFails, NotLogin
    <2>3. ASSUME NEW t \in Threads, AccountStep(t)
          PROVE  now' = now
        BY <2>3 DEF AccountStep, Finish, Logout, Arrive, Admit, RefuseRequest, CreateUser,
                    ResetPassword, EnableUser, DisableUser, DeleteUser, NotLogin
    <2>4. ASSUME NEW t \in Threads, TokenStep(t)
          PROVE  now' = now
        BY <2>4 DEF TokenStep, CreateToken, ReadToken, DisableToken, RevokeToken, DeleteToken,
                    RotateToken, EnableToken, NotTokens
    <2>5. ASSUME Restart \/ Tick \/ UNCHANGED vars
          PROVE  now' = now \/ now' = now + 1
        BY <2>5 DEF Restart, Tick, vars
    <2> QED BY <2>1, <2>2, <2>3, <2>4, <2>5 DEF Next
<1>r. Live(sessions, i) => /\ sessions[i].expires \in Nat
                           /\ sessions[i].idle \in Nat
    BY Rows, Bounds DEF SessionRow
<1>1. CASE Lessens(i)
    <2>1. ASSUME NEW clock \in 0..MaxTime, InForceAt(i, clock)', clock = now \/ clock = now'
          PROVE  FALSE
        <3>1. InForceAt(i, clock)
            BY <1>1, <2>1 DEF Lessens
        <3>2. InForce(i)
            BY <1>0, <1>n, <1>r, <2>1, <3>1 DEF InForce, InForceAt
        <3> QED BY <3>2 DEF Over
    <2>2. ASSUME Awaited(i)'
          PROVE  now' >= sessions'[i].expires
        <3>1. PICK t \in Threads :
                  /\ At(t, "arriving")' /\ threads'[t].session = i
                  /\ InForceAt(i, threads[t].at)'
            BY <2>2 DEF Awaited
        <3>2. threads'[t].at \in 0..MaxTime
            <4>1. threads'[t] \in Thread /\ threads'[t].pc = "arriving"
                BY <1>0, <3>1 DEF AccountsTypeOK, At
            <4> QED BY <4>1 DEF Thread, Verifying, Signing, Resolved, SettingUp, Arriving,
                                Serving, Editing
        <3>3. threads'[t].at # now
            BY <2>1, <3>1, <3>2
        <3>4. threads'[t] = threads[t]
            BY <3>1, <3>3, Arrivals
        <3>5. /\ InForceAt(i, threads[t].at)
              /\ sessions'[i].expires = sessions[i].expires
            BY <1>1, <3>1, <3>2, <3>4 DEF Lessens
        <3>6. Awaited(i)
            BY <3>1, <3>4, <3>5 DEF Awaited, At
        <3>7. Live(sessions, i)
            BY <3>5 DEF InForceAt
        <3> QED BY <1>0, <1>n, <1>r, <3>5, <3>6, <3>7 DEF Over
    <2>3. ~InForce(i)'
        BY <1>0, <2>1 DEF InForce
    <2> QED BY <1>1, <2>2, <2>3 DEF Over, Lessens
<1>2. ASSUME NEW t \in Threads, Admit(t), threads[t].session = i
      PROVE  Over(i)'
    <2>1. AdmitsTouching(t, i, threads[t].at)
        BY <1>2, AdmitSteps
    <2>2. Awaited(i)
        BY <1>2, <2>1 DEF Awaited, Admit, AdmitsTouching
    <2>3. /\ sessions'[i] \in SessionRow
          /\ sessions'[i].expires = sessions[i].expires
        BY <2>1 DEF AdmitsTouching, SessionRow
    <2>4. now' = now
        BY <1>2 DEF Admit, NotLogin
    <2>5. now >= sessions[i].expires
        BY <2>2 DEF Over
    <2>6. sessions[i].expires \in Nat
        BY <2>1, <1>r DEF AdmitsTouching, InForceAt
    <2>7. sessions'[i] # Unissued
        BY <2>3, Special
    <2>8. ~InForce(i)'
        BY <1>0, <2>3, <2>4, <2>5, <2>6 DEF InForce, InForceAt
    <2> QED BY <2>3, <2>4, <2>5, <2>7, <2>8 DEF Over
<1> QED BY <1>0, <1>1, <1>2, SessionSteps

-----------------------------------------------------------------------------

\* Tokens.

\* A step changes at most one token: it is new, or gets a new value, a new switch or
\* a revocation.  What was spent stays spent.
LEMMA TokenSteps ==
    ASSUME AccountsTypeOK, [Next]_vars, NEW k \in Tokens
    PROVE  \/ tokens[k] = Unissued
           \/ tokens'[k] = Deleted
           \/ /\ tokens[k] \in TokenRow /\ tokens'[k] \in TokenRow
              /\ tokens[k].revoked => tokens'[k].revoked
              /\ tokens'[k].version >= tokens[k].version
<1> DEFINE Onward(old, new) ==
        \/ old = Unissued
        \/ new = Deleted
        \/ /\ old \in TokenRow /\ new \in TokenRow
           /\ old.revoked => new.revoked
           /\ new.version >= old.version
<1>0. tokens[k] \in TokenRow \/ tokens[k] = Unissued \/ tokens[k] = Deleted
    BY DEF AccountsTypeOK, Absent
<1>s. ASSUME tokens'[k] = tokens[k]
      PROVE  Onward(tokens[k], tokens'[k])
    BY <1>0, <1>s, Bounds DEF TokenRow
<1>e. ASSUME tokens[k] \in TokenRow, tokens'[k] \in TokenRow,
             tokens[k].revoked => tokens'[k].revoked,
             tokens'[k].version = tokens[k].version
      PROVE  Onward(tokens[k], tokens'[k])
    <2>1. tokens[k].version \in Nat
        BY <1>e, Bounds DEF TokenRow
    <2>2. tokens'[k].version >= tokens[k].version
        BY <1>e, <2>1
    <2> QED BY <1>e, <2>2
<1>r. \A x \in Tokens : Live(tokens, x) => tokens[x] \in TokenRow
    BY Rows
<1> HIDE DEF Onward
<1>1. ASSUME NEW t \in Threads, TokenStep(t)
      PROVE  Onward(tokens[k], tokens'[k])
    <2>0. At(t, "rotating") \/ At(t, "enabling") => threads[t].token \in Tokens
        BY ThreadAt DEF Editing
    <2>1. ASSUME NEW x \in Tokens, CreateToken(t, x)
          PROVE  Onward(tokens[k], tokens'[k])
        <3>1. CASE x = k
            BY <2>1, <3>1 DEF CreateToken, Onward
        <3>2. CASE x # k
            BY <2>1, <3>2, <1>s DEF CreateToken, AccountsTypeOK
        <3> QED BY <3>1, <3>2
    <2>2. ASSUME NEW x \in Tokens, DisableToken(t, x)
          PROVE  Onward(tokens[k], tokens'[k])
        <3>1. CASE x = k
            <4>1. tokens[k] \in TokenRow /\ tokens'[k] = [tokens[k] EXCEPT !.enabled = FALSE]
                BY <2>2, <3>1, <1>r DEF DisableToken, AccountsTypeOK
            <4>2. /\ tokens'[k] \in TokenRow
                  /\ tokens[k].revoked => tokens'[k].revoked
                  /\ tokens'[k].version = tokens[k].version
                BY <4>1 DEF TokenRow
            <4> QED BY <4>1, <4>2, <1>e
        <3>2. CASE x # k
            BY <2>2, <3>2, <1>s DEF DisableToken, AccountsTypeOK
        <3> QED BY <3>1, <3>2
    <2>3. ASSUME NEW x \in Tokens, RevokeToken(t, x)
          PROVE  Onward(tokens[k], tokens'[k])
        <3>1. CASE x = k
            <4>1. tokens[k] \in TokenRow /\ tokens'[k] = [tokens[k] EXCEPT !.revoked = TRUE]
                BY <2>3, <3>1, <1>r DEF RevokeToken, AccountsTypeOK
            <4>2. /\ tokens'[k] \in TokenRow
                  /\ tokens[k].revoked => tokens'[k].revoked
                  /\ tokens'[k].version = tokens[k].version
                BY <4>1 DEF TokenRow
            <4> QED BY <4>1, <4>2, <1>e
        <3>2. CASE x # k
            BY <2>3, <3>2, <1>s DEF RevokeToken, AccountsTypeOK
        <3> QED BY <3>1, <3>2
    <2>4. ASSUME NEW x \in Tokens, DeleteToken(t, x)
          PROVE  Onward(tokens[k], tokens'[k])
        <3>1. CASE x = k
            BY <2>4, <3>1 DEF DeleteToken, AccountsTypeOK, Onward
        <3>2. CASE x # k
            BY <2>4, <3>2, <1>s DEF DeleteToken, AccountsTypeOK
        <3> QED BY <3>1, <3>2
    <2>5. CASE RotateToken(t)
        <3>1. CASE threads[t].token = k /\ Live(tokens, k)
            <4>1. tokens[k] \in TokenRow /\ tokens'[k] = [tokens[k] EXCEPT !.version = @ + 1]
                BY <2>5, <3>1, <1>r DEF RotateToken, AccountsTypeOK
            <4>2. tokens[k].version \in 1..MaxVersion /\ tokens[k].version < MaxVersion
                BY <2>5, <3>1, <4>1 DEF RotateToken, TokenRow
            <4>3. tokens[k].version + 1 \in 1..MaxVersion
                BY <4>2, Bounds
            <4>4. tokens'[k] \in TokenRow
                BY <4>1, <4>3 DEF TokenRow
            <4>5. /\ tokens'[k].revoked = tokens[k].revoked
                  /\ tokens'[k].version = tokens[k].version + 1
                BY <4>1 DEF TokenRow
            <4>6. tokens[k].version + 1 >= tokens[k].version
                BY <4>2, Bounds
            <4> QED BY <4>1, <4>4, <4>5, <4>6 DEF Onward
        <3>2. CASE ~(threads[t].token = k /\ Live(tokens, k))
            BY <2>5, <2>0, <3>2, <1>s DEF RotateToken, AccountsTypeOK
        <3> QED BY <3>1, <3>2
    <2>6. CASE EnableToken(t)
        <3>1. CASE threads[t].token = k /\ Live(tokens, k)
            <4>1. tokens[k] \in TokenRow /\ tokens'[k] = [tokens[k] EXCEPT !.enabled = TRUE]
                BY <2>6, <3>1, <1>r DEF EnableToken, AccountsTypeOK
            <4>2. /\ tokens'[k] \in TokenRow
                  /\ tokens[k].revoked => tokens'[k].revoked
                  /\ tokens'[k].version = tokens[k].version
                BY <4>1 DEF TokenRow
            <4> QED BY <4>1, <4>2, <1>e
        <3>2. CASE ~(threads[t].token = k /\ Live(tokens, k))
            BY <2>6, <2>0, <3>2, <1>s DEF EnableToken, AccountsTypeOK
        <3> QED BY <3>1, <3>2
    <2> QED BY <1>1, <2>1, <2>2, <2>3, <2>4, <2>5, <2>6, <1>s DEF TokenStep, ReadToken
<1>2. ASSUME NEW t \in Threads, AccountStep(t)
      PROVE  Onward(tokens[k], tokens'[k])
    <2>1. ASSUME NEW u \in Users, DeleteUser(t, u)
          PROVE  Onward(tokens[k], tokens'[k])
        <3>1. tokens'[k] = Deleted \/ tokens'[k] = tokens[k]
            BY <2>1 DEF DeleteUser
        <3> QED BY <3>1, <1>s DEF Onward
    <2> QED BY <1>2, <2>1, <1>s
            DEF AccountStep, Finish, Logout, Arrive, Admit, RefuseRequest, CreateUser,
                ResetPassword, EnableUser, DisableUser, NotLogin
<1>3. ASSUME NEW t \in Threads, SetupStep(t) \/ PasswordStep(t)
      PROVE  Onward(tokens[k], tokens'[k])
    BY <1>3, <1>s DEF SetupStep, BeginSetup, CreateFirst, SetupFails, Seal, PasswordStep,
                      ReadAccount, Refuse, CountFailure, Authenticated, SignIn, SignInFails,
                      ChangePassword, ChangeFails, NotLogin
<1>4. ASSUME Restart \/ Tick \/ UNCHANGED vars
      PROVE  Onward(tokens[k], tokens'[k])
    BY <1>4, <1>s DEF Restart, Tick, vars
<1> QED BY <1>1, <1>2, <1>3, <1>4 DEF Next, Onward

-----------------------------------------------------------------------------

LEMMA InitInv == Init => AccountsInv
<1> SUFFICES ASSUME Init
             PROVE  AccountsInv
    OBVIOUS
<1>1. AccountsTypeOK
    BY Bounds DEF Init, AccountsTypeOK, Absent
<1>2. CountersSound /\ SetupSound /\ SessionsInForce
    BY Special DEF Init, CountersSound, SetupSound, SessionsInForce, NoUsers, Live, At
<1> QED BY <1>1, <1>2 DEF AccountsInv

\* The invariant the other theorems follow from: types, counters within their limit,
\* one setup at most, and no session of an account that is disabled or deleted or
\* has a new password since.
THEOREM AccountsInvariant == Spec => []AccountsInv
<1>1. AccountsInv /\ [Next]_vars => AccountsInv'
    BY Types, Counters, Setup, SessionSteps DEF AccountsInv
<1> QED BY InitInv, <1>1, PTL DEF Spec

\* Rows and records keep their types; the failed logins that users.py counts never
\* exceed the limit, whatever attempts run in parallel.
THEOREM AccountsTypeCorrect == Spec => []AccountsTypeOK
BY AccountsInvariant, PTL DEF AccountsInv

\* A session that is not revoked belongs to an enabled account and began after the
\* last change of its password (users.py, sessions.py).
THEOREM AccountsSessionsInForce == Spec => []SessionsInForce
BY AccountsInvariant, PTL DEF AccountsInv

\* The setup token makes at most one administrator (bootstrap.py), across restarts
\* and stops between its two transactions.
THEOREM AccountsSetupOnce == Spec => []SetupOnce
<1>1. AccountsInv => SetupOnce
    BY DEF AccountsInv, SetupSound, SetupOnce
<1> QED BY AccountsInvariant, <1>1, PTL

\* A session that is over is over for good (sessions.py): logged out, deleted, past
\* its end, revoked with its account, or idle too long while no request waits that
\* read the clock before.
THEOREM AccountsEndedStayEnded == Spec => EndedStayEnded
<1>1. AccountsInv /\ [Next]_vars => [\A i \in Sessions : Over(i) => Over(i)']_vars
    BY OverSteps DEF AccountsInv
<1> QED BY AccountsInvariant, <1>1, PTL DEF Spec, EndedStayEnded

\* A value of a token that was replaced, and a token that was revoked or deleted,
\* are never accepted again (api_tokens.py).
THEOREM AccountsSpentTokensRefused == Spec => SpentTokensRefused
<1>1. ASSUME AccountsTypeOK, [Next]_vars, NEW k \in Tokens, NEW version \in 1..MaxVersion,
             \/ tokens[k] = Deleted
             \/ Live(tokens, k) /\ (tokens[k].revoked \/ version < tokens[k].version)
      PROVE  ~Accepts(k, version)'
    <2>1. \/ tokens'[k] = Deleted
          \/ /\ tokens[k] \in TokenRow /\ tokens'[k] \in TokenRow
             /\ tokens[k].revoked => tokens'[k].revoked
             /\ tokens'[k].version >= tokens[k].version
        BY <1>1, TokenSteps, Special DEF Live
    <2>2. CASE tokens'[k] = Deleted
        BY <2>2, Special DEF Accepts, Live
    <2>3. CASE /\ tokens[k] \in TokenRow /\ tokens'[k] \in TokenRow
               /\ tokens[k].revoked => tokens'[k].revoked
               /\ tokens'[k].version >= tokens[k].version
        <3>1. tokens[k] # Deleted
            BY <2>3, Special
        <3>2. version < tokens[k].version => version # tokens'[k].version
            BY <2>3, Bounds DEF TokenRow
        <3> QED BY <1>1, <2>3, <3>1, <3>2 DEF Accepts
    <2> QED BY <2>1, <2>2, <2>3
<1>2. AccountsInv /\ [Next]_vars =>
          [\A k \in Tokens, version \in 1..MaxVersion :
              \/ tokens[k] = Deleted
              \/ Live(tokens, k) /\ (tokens[k].revoked \/ version < tokens[k].version)
              => ~Accepts(k, version)']_vars
    BY <1>1 DEF AccountsInv
<1> QED BY AccountsInvariant, <1>2, PTL DEF Spec, SpentTokensRefused

=============================================================================
