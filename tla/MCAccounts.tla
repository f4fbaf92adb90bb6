----------------------------- MODULE MCAccounts -----------------------------
(* Two accounts, two requests at a time, one login or one request racing an  *)
(* administrator, a setup that is cut off by a restart.                      *)
EXTENDS Accounts, TLC

CONSTANTS u1, u2, i1, i2, k1, t1, t2

MCUsers == {u1, u2}
MCSessions == {i1, i2}
MCTokens == {k1}
MCThreads == {t1, t2}

AccountsSymmetry ==
    Permutations(MCUsers) \cup Permutations(MCSessions) \cup Permutations(MCThreads)

\* Bound: while a token exists time stands still, passwords stay as they are and
\* the process does not restart.  No rule about tokens reads any of these.
TokensApart ==
    (\E k \in MCTokens : tokens[k] # Unissued) =>
        /\ now = 0
        /\ restartsLeft = RestartLimit
        /\ \A u \in MCUsers : Live(accounts, u) => accounts[u].password = 1

\* Bound: time goes by for accounts as they were made, with their first passwords,
\* none of them locked, and without restarts (a setup may take its time); and past
\* the first step of the clock for one account.  What is over or in force does not
\* depend on any of these.
TimeApart ==
    /\ now > 0 /\ ~NoUsers =>
           /\ restartsLeft = RestartLimit
           /\ \A u \in MCUsers : Live(accounts, u) =>
                  accounts[u].password = 1 /\ accounts[u].lockedUntil = 0
    /\ now > 1 => \E u \in MCUsers : accounts[u] = Unissued

=============================================================================
