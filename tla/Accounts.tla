------------------------------ MODULE Accounts ------------------------------
(***************************************************************************)
(* Local accounts and what opens the management API: passwords with a      *)
(* lockout, browser sessions, tokens of applications, and the setup token  *)
(* that makes the first administrator.                                     *)
(*                                                                         *)
(* A request is served by a thread.  Each connection to the database is    *)
(* one step; what a thread read in one connection and uses in a later one  *)
(* is kept in its record, as the rows and principals are in the code.      *)
(* Verifying a password takes long and holds no lock.  The clock is read   *)
(* before the lock of the connection it is used in is waited for.          *)
(***************************************************************************)
EXTENDS Naturals

CONSTANTS
    Users, Sessions, Tokens, \* identifiers, none of them issued twice
    Threads,                 \* threads that serve requests
    MaxFailed,               \* max_failed_logins
    LockFor, SessionFor, IdleFor, SetupFor, \* lifetimes
    MaxTime,                 \* bound: the clock
    MaxPasswords,            \* bound: passwords an account has had
    MaxVersion,              \* bound: values a token has had
    RestartLimit,            \* bound: restarts of the process
    Unissued, Deleted, Idle

VARIABLES
    accounts, sessions, tokens, \* the tables
    setup,                      \* the newest row of bootstrap_tokens
    threads,
    now,
    restartsLeft,
    since,  \* history variable: the password of its account when a session began
    setups  \* history variable: administrators made with a setup token

vars == <<accounts, sessions, tokens, setup, threads, now, restartsLeft, since, setups>>

-----------------------------------------------------------------------------

\* Passwords are numbered as they are set; lockedUntil is 0 for NULL.
AccountRow ==
    [admin : BOOLEAN, enabled : BOOLEAN, password : 1..MaxPasswords,
     failed : 0..MaxFailed, lockedUntil : 0..(MaxTime + LockFor)]

SessionRow ==
    [user : Users, expires : 0..(MaxTime + SessionFor),
     idle : 0..(MaxTime + SessionFor), revoked : BOOLEAN]

\* The values of a token are numbered by its version.
TokenRow ==
    [owner : Users, version : 1..MaxVersion, revoked : BOOLEAN, enabled : BOOLEAN]

Absent == {Unissued, Deleted}

Live(table, x) == table[x] \notin Absent

\* authenticate(), between its read of the row, at that time, and its decision.
Verifying ==
    [pc : {"verifying"}, user : Users, right : BOOLEAN, enabled : BOOLEAN,
     failed : 0..MaxFailed, lockedUntil : 0..(MaxTime + LockFor),
     purpose : {"signing", "resetting"}, at : 0..MaxTime]

\* After authenticate() or the setup, which ended at that time.
Signing == [pc : {"signing"}, user : Users, at : 0..MaxTime]

\* After authenticate(), or in BootstrapStore.consume.
Resolved == [pc : {"resetting", "sealing"}, user : Users]

SettingUp == [pc : {"settingUp"}]

\* A request that has read the clock and waits for the database.
Arriving == [pc : {"arriving"}, session : Sessions, at : 0..MaxTime]

\* An admitted request: the session and the actor of its principal.
Serving == [pc : {"serving"}, session : Sessions, user : Users, admin : BOOLEAN]

\* APITokenStore.rotate and set_enabled, between their connections.
Editing == [pc : {"rotating", "enabling"}, token : Tokens]

Thread ==
    Verifying \cup Signing \cup Resolved \cup SettingUp \cup Arriving \cup Serving \cup Editing

ASSUME AccountsAssumption ==
    /\ {MaxFailed, LockFor, SessionFor, IdleFor, SetupFor} \subseteq Nat \ {0}
    /\ {MaxTime, RestartLimit} \subseteq Nat
    /\ {MaxPasswords, MaxVersion} \subseteq Nat \ {0}
    /\ Unissued # Deleted
    /\ Absent \cap (AccountRow \cup SessionRow \cup TokenRow) = {}
    /\ Idle \notin Thread

At(t, pc) == threads[t] # Idle /\ threads[t].pc = pc

NoUsers == \A u \in Users : ~Live(accounts, u)

IsAdmin(u) == Live(accounts, u) /\ accounts[u].admin /\ accounts[u].enabled

OtherAdmin(u) == \E v \in Users \ {u} : IsAdmin(v)

\* SessionStore.authenticate accepts the session, with that reading of the clock.
InForceAt(i, clock) ==
    /\ Live(sessions, i)
    /\ ~sessions[i].revoked
    /\ Live(accounts, sessions[i].user)
    /\ accounts[sessions[i].user].enabled
    /\ clock < sessions[i].expires
    /\ clock < sessions[i].idle

InForce(i) == InForceAt(i, now)

\* APITokenStore.authenticate accepts the value of that version.
Accepts(k, version) ==
    /\ Live(tokens, k)
    /\ tokens[k].version = version
    /\ Live(accounts, tokens[k].owner)
    /\ accounts[tokens[k].owner].enabled
    /\ tokens[k].enabled
    /\ ~tokens[k].revoked

Earlier(a, b) == IF a < b THEN a ELSE b

Becomes(t, record) == threads' = [threads EXCEPT ![t] = record]

RevokedFor(u) ==
    [i \in Sessions |-> IF Live(sessions, i) /\ sessions[i].user = u
                        THEN [sessions[i] EXCEPT !.revoked = TRUE]
                        ELSE sessions[i]]

-----------------------------------------------------------------------------

\* The setup token.

Init ==
    /\ accounts = [u \in Users |-> Unissued]
    /\ sessions = [i \in Sessions |-> Unissued]
    /\ tokens = [k \in Tokens |-> Unissued]
    /\ setup = [open |-> TRUE, until |-> SetupFor]
    /\ threads = [t \in Threads |-> Idle]
    /\ now = 0
    /\ restartsLeft = RestartLimit
    /\ since = [i \in Sessions |-> 0]
    /\ setups = 0

\* rotate_for_startup.  Threads end with the process.
Restart ==
    /\ restartsLeft > 0
    /\ restartsLeft' = restartsLeft - 1
    /\ threads' = [t \in Threads |-> Idle]
    /\ setup' = IF NoUsers THEN [open |-> TRUE, until |-> now + SetupFor]
                ELSE [setup EXCEPT !.open = FALSE]
    /\ UNCHANGED <<accounts, sessions, tokens, now, since, setups>>

\* Mutant: consume() without its lock.
BeginSetupUnlocked(t) ==
    /\ threads[t] = Idle
    /\ NoUsers
    /\ setup.open /\ setup.until > now
    /\ Becomes(t, [pc |-> "settingUp"])
    /\ UNCHANGED <<accounts, sessions, tokens, setup, now, restartsLeft, since, setups>>

\* consume() and bootstrap_admin() look whether there are users, and whether the
\* token they were given is the open one; the lock is held until Seal.
BeginSetup(t) ==
    /\ threads[t] = Idle
    /\ \A x \in Threads : ~At(x, "settingUp") /\ ~At(x, "sealing")
    /\ NoUsers
    /\ setup.open /\ setup.until > now
    /\ Becomes(t, [pc |-> "settingUp"])
    /\ UNCHANGED <<accounts, sessions, tokens, setup, now, restartsLeft, since, setups>>

NewAccount(admin) ==
    [admin |-> admin, enabled |-> TRUE, password |-> 1, failed |-> 0, lockedUntil |-> 0]

CreateFirst(t, u) ==
    /\ At(t, "settingUp")
    /\ accounts[u] = Unissued
    /\ accounts' = [accounts EXCEPT ![u] = NewAccount(TRUE)]
    /\ setups' = setups + 1
    /\ Becomes(t, [pc |-> "sealing", user |-> u])
    /\ UNCHANGED <<sessions, tokens, setup, now, restartsLeft, since>>

\* The name or the password is refused.
SetupFails(t) ==
    /\ At(t, "settingUp")
    /\ Becomes(t, Idle)
    /\ UNCHANGED <<accounts, sessions, tokens, setup, now, restartsLeft, since, setups>>

SigningIn(u) == [pc |-> "signing", user |-> u, at |-> now]

Seal(t) ==
    /\ At(t, "sealing")
    /\ setup' = [setup EXCEPT !.open = FALSE]
    /\ Becomes(t, SigningIn(threads[t].user))
    /\ UNCHANGED <<accounts, sessions, tokens, now, restartsLeft, since, setups>>

SetupStep(t) ==
    BeginSetup(t) \/ (\E u \in Users : CreateFirst(t, u)) \/ SetupFails(t) \/ Seal(t)

-----------------------------------------------------------------------------

\* Passwords.

\* What steps of the login leave alone.
NotLogin == <<tokens, setup, now, restartsLeft, setups>>

\* authenticate() reads the row and verifies the password it was given: for a
\* login, or for the account of an admitted request.
ReadAccount(t, u, right) ==
    /\ threads[t] = Idle \/ (At(t, "serving") /\ threads[t].user = u)
    /\ Live(accounts, u)
    /\ Becomes(t, [pc |-> "verifying", user |-> u, right |-> right,
                   enabled |-> accounts[u].enabled, failed |-> accounts[u].failed,
                   lockedUntil |-> accounts[u].lockedUntil,
                   purpose |-> IF threads[t] = Idle THEN "signing" ELSE "resetting",
                   at |-> now])
    /\ UNCHANGED <<accounts, sessions, since, NotLogin>>

\* What the clock may have shown the thread, after its last step.
Readings(t) == threads[t].at..now

\* The row that was read decides, at the time the verification is done.
Refuse(t) ==
    /\ At(t, "verifying")
    /\ ~threads[t].enabled \/ \E clock \in Readings(t) : threads[t].lockedUntil > clock
    /\ Becomes(t, Idle)
    /\ UNCHANGED <<accounts, sessions, since, NotLogin>>

\* UPDATE users ... WHERE id = u: no row when the account was deleted.
SetCounter(u, failed, lockedUntil) ==
    accounts' = IF Live(accounts, u)
                THEN [accounts EXCEPT ![u].failed = failed, ![u].lockedUntil = lockedUntil]
                ELSE accounts

\* The failures so far; a lock that has expired starts the count again.
FailuresBefore(row) == IF row.lockedUntil # 0 THEN 0 ELSE row.failed

CountFailure(t, clock) ==
    LET row == threads[t]
        failed == FailuresBefore(row) + 1
    IN  /\ At(t, "verifying")
        /\ clock \in Readings(t)
        /\ row.enabled /\ row.lockedUntil <= clock
        /\ ~row.right
        /\ SetCounter(row.user, failed,
                      IF failed >= MaxFailed THEN clock + LockFor ELSE 0)
        /\ Becomes(t, Idle)
        /\ UNCHANGED <<sessions, since, NotLogin>>

Authenticated(t) ==
    LET row == threads[t]
    IN  /\ At(t, "verifying")
        /\ row.enabled /\ \E clock \in Readings(t) : row.lockedUntil <= clock
        /\ row.right
        /\ SetCounter(row.user, 0, 0)
        /\ Becomes(t, IF row.purpose = "signing" THEN SigningIn(row.user)
                      ELSE [pc |-> "resetting", user |-> row.user])
        /\ UNCHANGED <<sessions, since, NotLogin>>

NewSession(u, clock) ==
    [user |-> u, expires |-> clock + SessionFor,
     idle |-> Earlier(clock + SessionFor, clock + IdleFor), revoked |-> FALSE]

\* Mutant: the account is not looked at again.
SignInUnchecked(t, i) ==
    /\ At(t, "signing")
    /\ Live(accounts, threads[t].user)
    /\ sessions[i] = Unissued
    /\ \E clock \in Readings(t) :
           sessions' = [sessions EXCEPT ![i] = NewSession(threads[t].user, clock)]
    /\ since' = [since EXCEPT ![i] = accounts[threads[t].user].password]
    /\ Becomes(t, Idle)
    /\ UNCHANGED <<accounts, NotLogin>>

\* SessionStore.create looks at the account in its transaction.
SignIn(t, i) ==
    /\ At(t, "signing")
    /\ Live(accounts, threads[t].user)
    /\ accounts[threads[t].user].enabled
    /\ sessions[i] = Unissued
    /\ \E clock \in Readings(t) :
           sessions' = [sessions EXCEPT ![i] = NewSession(threads[t].user, clock)]
    /\ since' = [since EXCEPT ![i] = accounts[threads[t].user].password]
    /\ Becomes(t, Idle)
    /\ UNCHANGED <<accounts, NotLogin>>

SignInFails(t) ==
    /\ At(t, "signing")
    /\ Live(accounts, threads[t].user) => ~accounts[threads[t].user].enabled
    /\ Becomes(t, Idle)
    /\ UNCHANGED <<accounts, sessions, since, NotLogin>>

WithNewPassword(u) ==
    [accounts EXCEPT
        ![u] = [admin |-> @.admin, enabled |-> @.enabled, password |-> @.password + 1,
                failed |-> 0, lockedUntil |-> 0]]

\* Mutant: sessions stay.
ResetKeepingSessions(u) ==
    /\ Live(accounts, u)
    /\ accounts[u].password < MaxPasswords
    /\ accounts' = WithNewPassword(u)
    /\ UNCHANGED sessions

\* UserStore.reset_password
Reset(u) ==
    /\ Live(accounts, u)
    /\ accounts[u].password < MaxPasswords
    /\ accounts' = WithNewPassword(u)
    /\ sessions' = RevokedFor(u)

ChangePassword(t) ==
    /\ At(t, "resetting")
    /\ Reset(threads[t].user)
    /\ Becomes(t, Idle)
    /\ UNCHANGED <<since, NotLogin>>

\* The account is gone, or the new password is refused.
ChangeFails(t) ==
    /\ At(t, "resetting")
    /\ Becomes(t, Idle)
    /\ UNCHANGED <<accounts, sessions, since, NotLogin>>

PasswordStep(t) ==
    \/ \E u \in Users, right \in BOOLEAN : ReadAccount(t, u, right)
    \/ Refuse(t) \/ Authenticated(t)
    \/ \E clock \in 0..now : CountFailure(t, clock)
    \/ \E i \in Sessions : SignIn(t, i)
    \/ SignInFails(t) \/ ChangePassword(t) \/ ChangeFails(t)

-----------------------------------------------------------------------------

\* Requests with a session.

\* SessionStore.authenticate reads the clock, and then waits for the database.
Arrive(t, i) ==
    /\ threads[t] = Idle
    /\ sessions[i] # Unissued
    /\ Becomes(t, [pc |-> "arriving", session |-> i, at |-> now])
    /\ UNCHANGED <<accounts, sessions, since, NotLogin>>

\* It reads the row, decides and touches the row in one transaction, all with the
\* clock as it was read on arrival.
Admit(t) ==
    LET i == threads[t].session
        clock == threads[t].at
    IN  /\ At(t, "arriving")
        /\ InForceAt(i, clock)
        /\ sessions' = [sessions EXCEPT ![i].idle = Earlier(sessions[i].expires, clock + IdleFor)]
        /\ Becomes(t, [pc |-> "serving", session |-> i, user |-> sessions[i].user,
                       admin |-> accounts[sessions[i].user].admin])
        /\ UNCHANGED <<accounts, since, NotLogin>>

RefuseRequest(t) ==
    /\ At(t, "arriving")
    /\ ~InForceAt(threads[t].session, threads[t].at)
    /\ Becomes(t, Idle)
    /\ UNCHANGED <<accounts, sessions, since, NotLogin>>

\* A request that changes nothing here, or is refused.
Finish(t) ==
    /\ At(t, "serving")
    /\ Becomes(t, Idle)
    /\ UNCHANGED <<accounts, sessions, since, NotLogin>>

\* The end of a request, in the step that has its effect.
Serves(t) == At(t, "serving") /\ Becomes(t, Idle)

AdminServes(t) == Serves(t) /\ threads[t].admin

Logout(t) ==
    /\ Serves(t)
    /\ sessions' = IF Live(sessions, threads[t].session)
                   THEN [sessions EXCEPT ![threads[t].session].revoked = TRUE]
                   ELSE sessions
    /\ UNCHANGED <<accounts, since, NotLogin>>

CreateUser(t, u, admin) ==
    /\ AdminServes(t)
    /\ accounts[u] = Unissued
    /\ accounts' = [accounts EXCEPT ![u] = NewAccount(admin)]
    /\ UNCHANGED <<sessions, since, NotLogin>>

ResetPassword(t, u) ==
    /\ AdminServes(t)
    /\ u # threads[t].user
    /\ Reset(u)
    /\ UNCHANGED <<since, NotLogin>>

EnableUser(t, u) ==
    /\ AdminServes(t)
    /\ Live(accounts, u)
    /\ accounts' = [accounts EXCEPT ![u].enabled = TRUE]
    /\ UNCHANGED <<sessions, since, NotLogin>>

\* Mutant: sessions stay, and are refused as long as the account is disabled.
DisableUserKeepingSessions(t, u) ==
    /\ AdminServes(t)
    /\ Live(accounts, u)
    /\ IsAdmin(u) => OtherAdmin(u)
    /\ accounts' = [accounts EXCEPT ![u].enabled = FALSE]
    /\ UNCHANGED <<sessions, since, NotLogin>>

DisableUser(t, u) ==
    /\ AdminServes(t)
    /\ Live(accounts, u)
    /\ IsAdmin(u) => OtherAdmin(u)
    /\ accounts' = [accounts EXCEPT ![u].enabled = FALSE]
    /\ sessions' = RevokedFor(u)
    /\ UNCHANGED <<since, NotLogin>>

\* The rows that refer to the account go with it (ON DELETE CASCADE).
DeleteUser(t, u) ==
    /\ AdminServes(t)
    /\ u # threads[t].user
    /\ Live(accounts, u)
    /\ IsAdmin(u) => OtherAdmin(u)
    /\ accounts' = [accounts EXCEPT ![u] = Deleted]
    /\ sessions' = [i \in Sessions |-> IF Live(sessions, i) /\ sessions[i].user = u
                                       THEN Deleted ELSE sessions[i]]
    /\ tokens' = [k \in Tokens |-> IF Live(tokens, k) /\ tokens[k].owner = u
                                   THEN Deleted ELSE tokens[k]]
    /\ UNCHANGED <<since, setup, now, restartsLeft, setups>>

AccountStep(t) ==
    \/ \E i \in Sessions : Arrive(t, i)
    \/ Admit(t) \/ RefuseRequest(t) \/ Finish(t) \/ Logout(t)
    \/ \E u \in Users :
           \/ \E admin \in BOOLEAN : CreateUser(t, u, admin)
           \/ ResetPassword(t, u) \/ EnableUser(t, u) \/ DisableUser(t, u)
           \/ DeleteUser(t, u)

-----------------------------------------------------------------------------

\* Tokens of applications.

NotTokens == <<accounts, sessions, setup, now, restartsLeft, since, setups>>

CanWrite(t, owner) == threads[t].admin \/ threads[t].user = owner

\* A token is made for the account of the request.
CreateToken(t, k) ==
    /\ Serves(t)
    /\ tokens[k] = Unissued
    /\ Live(accounts, threads[t].user)
    /\ accounts[threads[t].user].enabled
    /\ tokens' = [tokens EXCEPT ![k] = [owner |-> threads[t].user, version |-> 1,
                                        revoked |-> FALSE, enabled |-> TRUE]]
    /\ UNCHANGED NotTokens

\* rotate() and set_enabled(TRUE) read the record, and refuse a revoked token.
ReadToken(t, k, edit) ==
    /\ At(t, "serving")
    /\ Live(tokens, k)
    /\ CanWrite(t, tokens[k].owner)
    /\ ~tokens[k].revoked
    /\ Becomes(t, [pc |-> edit, token |-> k])
    /\ UNCHANGED <<tokens, NotTokens>>

\* Mutant: the whole row is written, as it was when it was read.
RotateTokenRow(t) ==
    LET k == threads[t].token
    IN  /\ At(t, "rotating")
        /\ Live(tokens, k) => tokens[k].version < MaxVersion
        /\ tokens' = IF Live(tokens, k)
                     THEN [tokens EXCEPT ![k].version = @ + 1, ![k].revoked = FALSE]
                     ELSE tokens
        /\ Becomes(t, Idle)
        /\ UNCHANGED NotTokens

RotateToken(t) ==
    LET k == threads[t].token
    IN  /\ At(t, "rotating")
        /\ Live(tokens, k) => tokens[k].version < MaxVersion
        /\ tokens' = IF Live(tokens, k) THEN [tokens EXCEPT ![k].version = @ + 1]
                     ELSE tokens
        /\ Becomes(t, Idle)
        /\ UNCHANGED NotTokens

EnableToken(t) ==
    LET k == threads[t].token
    IN  /\ At(t, "enabling")
        /\ tokens' = IF Live(tokens, k) THEN [tokens EXCEPT ![k].enabled = TRUE]
                     ELSE tokens
        /\ Becomes(t, Idle)
        /\ UNCHANGED NotTokens

\* These read the record only for its owner, which never changes.
DisableToken(t, k) ==
    /\ Serves(t)
    /\ Live(tokens, k)
    /\ CanWrite(t, tokens[k].owner)
    /\ tokens' = [tokens EXCEPT ![k].enabled = FALSE]
    /\ UNCHANGED NotTokens

RevokeToken(t, k) ==
    /\ Serves(t)
    /\ Live(tokens, k)
    /\ CanWrite(t, tokens[k].owner)
    /\ tokens' = [tokens EXCEPT ![k].revoked = TRUE]
    /\ UNCHANGED NotTokens

DeleteToken(t, k) ==
    /\ Serves(t)
    /\ Live(tokens, k)
    /\ CanWrite(t, tokens[k].owner)
    /\ tokens' = [tokens EXCEPT ![k] = Deleted]
    /\ UNCHANGED NotTokens

TokenStep(t) ==
    \/ \E k \in Tokens :
           \/ CreateToken(t, k)
           \/ \E edit \in {"rotating", "enabling"} : ReadToken(t, k, edit)
           \/ DisableToken(t, k) \/ RevokeToken(t, k) \/ DeleteToken(t, k)
    \/ RotateToken(t) \/ EnableToken(t)

-----------------------------------------------------------------------------

Tick ==
    /\ now < MaxTime
    /\ now' = now + 1
    /\ UNCHANGED <<accounts, sessions, tokens, setup, threads, restartsLeft, since, setups>>

Next ==
    \/ \E t \in Threads : SetupStep(t) \/ PasswordStep(t) \/ AccountStep(t) \/ TokenStep(t)
    \/ Restart
    \/ Tick

Spec == Init /\ [][Next]_vars

-----------------------------------------------------------------------------

AccountsTypeOK ==
    /\ accounts \in [Users -> AccountRow \cup Absent]
    /\ sessions \in [Sessions -> SessionRow \cup Absent]
    /\ tokens \in [Tokens -> TokenRow \cup Absent]
    /\ setup \in [open : BOOLEAN, until : 0..(MaxTime + SetupFor)]
    /\ threads \in [Threads -> Thread \cup {Idle}]
    /\ now \in 0..MaxTime
    /\ restartsLeft \in 0..RestartLimit
    /\ since \in [Sessions -> 0..MaxPasswords]
    /\ setups \in Nat

\* "session revocation after password reset or account disable"
\* (docs/platform-state.md), whatever login is under way meanwhile: a session
\* that is not revoked belongs to an account that is enabled, and began after
\* the last change of its password.  (Its login may have verified the password
\* before: create() does not know which password that was.)
SessionsInForce ==
    \A i \in Sessions :
        Live(sessions, i) /\ ~sessions[i].revoked =>
            /\ Live(accounts, sessions[i].user)
            /\ accounts[sessions[i].user].enabled
            /\ since[i] = accounts[sessions[i].user].password

\* A request that read the clock while the session was accepted waits for the database.
Awaited(i) ==
    \E t \in Threads :
        At(t, "arriving") /\ threads[t].session = i /\ InForceAt(i, threads[t].at)

\* The session is not accepted, and what may still bring it back is at most a request
\* that arrived in time, which cannot once the session is past its absolute end.
Over(i) ==
    /\ sessions[i] # Unissued
    /\ ~InForce(i)
    /\ Awaited(i) => now >= sessions[i].expires

\* A session that is over (logged out, deleted, past its end, of an account that was
\* disabled or given a new password, or idle too long with no request that arrived
\* in time still waiting) is over for good, even when the account is enabled again
\* and whatever requests were under way.  Not so a session that is only idle too
\* long: authenticate() compares and writes with the clock it read before it waited
\* for the database, so that a request that arrived in time and waited past the end
\* of the idle time is admitted, and the session accepted again.
EndedStayEnded == [][ \A i \in Sessions : Over(i) => Over(i)' ]_vars

\* A value of a token that was replaced, and any value of a token that was
\* revoked or deleted, is never accepted again: a rotation or an enabling that
\* has read the token before does not undo it.
SpentTokensRefused ==
    [][ \A k \in Tokens, version \in 1..MaxVersion :
            \/ tokens[k] = Deleted
            \/ Live(tokens, k) /\ (tokens[k].revoked \/ version < tokens[k].version)
            => ~Accepts(k, version)' ]_vars

\* The setup token makes one administrator in the life of an installation, even
\* when the process stops before the token is consumed.
SetupOnce == setups <= 1

\* A failed login never takes a lock away, nor shortens one: an account is locked
\* until the time of its lock, unless somebody who knows the password opens it
\* (docs/platform-state.md: "lockout after repeated failed attempts").
LocksLast ==
    [][ \A u \in Users :
            /\ Live(accounts, u) /\ accounts[u].lockedUntil > now
            /\ Live(accounts', u) /\ accounts'[u].failed > 0
            => accounts'[u].lockedUntil >= accounts[u].lockedUntil ]_vars

=============================================================================
