-------------------------- MODULE MigrationProofs --------------------------
(***************************************************************************)
(* What the import leaves is whole, wherever earlier runs of it were       *)
(* broken off, for every file, every number of rows and of stops.          *)
(***************************************************************************)
EXTENDS Migration, TLAPS

\* NULL is apart from rows, keys, identifiers and payloads.
LEMMA NoneApart ==
    /\ None \notin Ids /\ None \notin Payloads
    /\ None \notin OutputKeys /\ None \notin RouteKeys
    /\ None # OlderOutput /\ None # OlderRoute
    /\ None \notin DestinationRecord /\ None \notin RouteRecord
BY NoneAssumption

\* The loops are over the entries.
LEMMA Entries ==
    /\ Len(Outputs) \in Nat /\ DOMAIN Outputs = 1..Len(Outputs)
    /\ Len(Routing) \in Nat /\ DOMAIN Routing = 1..Len(Routing)
    /\ \A j \in DOMAIN Outputs : Outputs[j] \in OutputKeys
    /\ \A j \in DOMAIN Routing : Routing[j] \in RouteKeys
    /\ \A d \in OutputKeys : \E j \in DOMAIN Outputs : d = Outputs[j]
    /\ \A r \in RouteKeys : \E j \in DOMAIN Routing : r = Routing[j]
BY MigrationAssumption DEF OutputKeys, RouteKeys

\* A fresh identifier is free.
LEMMA FreshIsFree ==
    ASSUME NEW table, NEW i \in Fresh(table)
    PROVE  i \in Ids /\ table[i] = None
BY DEF Fresh, Live

\* What is there.
LEMMA LiveRows ==
    ASSUME MigrationTypeOK
    PROVE  /\ \A i \in Live(destinations) : i \in Ids /\ destinations[i] \in DestinationRecord
           /\ \A i \in Live(routes) : i \in Ids /\ routes[i] \in RouteRecord
           /\ \A i \in Ids : i \notin Live(destinations) => destinations[i] = None
           /\ \A i \in Ids : i \notin Live(routes) => routes[i] = None
BY NoneApart DEF MigrationTypeOK, Position, Live

\* Where neither table nor the secrets change, nothing about them does.
LEMMA SameTables ==
    ASSUME MigrationInv, UNCHANGED <<destinations, routes, secrets>>
    PROVE  /\ Apart(destinations)' /\ Apart(routes)' /\ KeysTell' /\ SecretsThere'
           /\ Whole => Whole'
           /\ \A d : OutputIn(d) => OutputIn(d)'
           /\ \A r : RouteIn(r) => RouteIn(r)'
           /\ \A s : Unreferenced(s) => Unreferenced(s)'
           /\ StaleRoutes' = StaleRoutes /\ StaleDestinations' = StaleDestinations
<1>1. Apart(destinations)' /\ Apart(routes)' /\ KeysTell' /\ SecretsThere'
    BY DEF MigrationInv, Apart, KeysTell, SecretsThere, Live
<1>2. Whole => Whole'
    BY DEF Whole, Imported, ImportedRoute, Right, Live
<1>3. \A d : OutputIn(d) => OutputIn(d)'
    BY DEF OutputIn, Right, Live
<1>4. \A r : RouteIn(r) => RouteIn(r)'
    BY DEF RouteIn, Live
<1>5. \A s : Unreferenced(s) => Unreferenced(s)'
    BY DEF Unreferenced, Live
<1>6. StaleRoutes' = StaleRoutes /\ StaleDestinations' = StaleDestinations
    BY DEF StaleRoutes, StaleDestinations, Live
<1> QED BY <1>1, <1>2, <1>3, <1>4, <1>5, <1>6

-----------------------------------------------------------------------------
(* The steps that change no table.                                         *)

\* The migration is over for now: broken off, given up, or done with the file.
LEMMA ToIdle ==
    ASSUME MigrationInv, UNCHANGED <<destinations, routes, secrets>>, step' = Idle,
           MigrationTypeOK', core' = TRUE => Whole
    PROVE  MigrationInv'
<1>1. ~Working'
    BY DEF Working, Idle
<1>2. Passed' /\ InHand'
    BY DEF Passed, InHand, Idle
<1>3. Ending'
    BY <1>1, SameTables DEF Ending, At, Idle, MigrationTypeOK, Position
<1> QED BY <1>2, <1>3, SameTables DEF MigrationInv

\* Type correctness of a step to another place.
LEMMA PlaceOK ==
    ASSUME MigrationTypeOK, NEW at \in Places, NEW i \in Nat \ {0},
           NEW row \in Ids \cup {None}, NEW secret \in Ids \cup {None},
           GoWith(at, i, row, secret)
    PROVE  step' \in Position
BY DEF GoWith, Position

LEMMA IdleOK == Idle \in Position
BY DEF Idle, Places, Position

LEMMA GoOK ==
    ASSUME NEW at \in Places, NEW i \in Nat \ {0}, Go(at, i)
    PROVE  step' \in Position
BY DEF Go, GoWith, Position

LEMMA StopInv == ASSUME MigrationInv, Stop PROVE MigrationInv'
<1>1. core => Whole
    BY DEF MigrationInv, Ending
<1>2. stops \in Nat /\ MaxStops \in Nat
    BY MigrationAssumption DEF MigrationInv, MigrationTypeOK, Position
<1>3. MigrationTypeOK'
    BY <1>2, IdleOK DEF MigrationInv, MigrationTypeOK, Position, Stop
<1> QED BY <1>1, <1>3, ToIdle DEF Stop

LEMMA ReplaceFailsInv == ASSUME MigrationInv, ReplaceFails PROVE MigrationInv'
<1>1. core => Whole
    BY DEF MigrationInv, Ending
<1>2. failures \in Nat /\ MaxFailures \in Nat
    BY MigrationAssumption DEF MigrationInv, MigrationTypeOK, Position
<1>3. MigrationTypeOK'
    BY <1>2, IdleOK DEF MigrationInv, MigrationTypeOK, Position, ReplaceFails, GiveUp
<1> QED BY <1>1, <1>3, ToIdle DEF ReplaceFails, GiveUp

\* The file becomes the core only after the keys are cleared.
LEMMA ReplaceFileInv == ASSUME MigrationInv, ReplaceFile PROVE MigrationInv'
<1>1. Whole
    BY DEF MigrationInv, Ending, ReplaceFile
<1>2. MigrationTypeOK'
    BY IdleOK DEF MigrationInv, MigrationTypeOK, Position, ReplaceFile, Bounds
<1> QED BY <1>1, <1>2, ToIdle DEF ReplaceFile

LEMMA BeginInv == ASSUME MigrationInv, Begin PROVE MigrationInv'
<1>1. /\ step'.at = "output" /\ step'.entry = 1
      /\ UNCHANGED <<core, destinations, routes, secrets, stops, failures>>
      /\ ~core
    BY DEF Begin, Go, GoWith, Bounds
<1>2. MigrationTypeOK'
    <2>1. step' \in Position
        BY GoOK DEF Begin, Places
    <2> QED BY <1>1, <2>1 DEF MigrationInv, MigrationTypeOK, Position
<1>3. Passed' /\ InHand' /\ Ending'
    BY <1>1, Entries DEF Passed, InHand, Ending, At, Working
<1> QED BY <1>1, <1>2, <1>3, SameTables DEF MigrationInv

LEMMA OutputsDoneInv == ASSUME MigrationInv, OutputsDone PROVE MigrationInv'
<1>1. /\ step.at = "output" /\ step.entry > Len(Outputs) /\ step.entry \in Nat \ {0}
      /\ step'.at = "route" /\ step'.entry = 1
      /\ UNCHANGED <<core, destinations, routes, secrets, stops, failures>>
    BY DEF OutputsDone, At, Go, GoWith, Bounds, MigrationInv, MigrationTypeOK, Position
<1>2. MigrationTypeOK'
    <2>1. step' \in Position
        BY GoOK DEF OutputsDone, Places
    <2> QED BY <1>1, <2>1 DEF MigrationInv, MigrationTypeOK, Position
<1>3. \A j \in DOMAIN Outputs : OutputIn(Outputs[j])
    <2> TAKE j \in DOMAIN Outputs
    <2>1. j < step.entry
        BY <1>1, Entries
    <2> QED BY <1>1, <2>1 DEF MigrationInv, Passed
<1>4. Passed'
    BY <1>1, <1>3, Entries, SameTables DEF Passed
<1>5. InHand' /\ Ending'
    BY <1>1 DEF InHand, Ending, At, Working, MigrationInv
<1> QED BY <1>1, <1>2, <1>4, <1>5, SameTables DEF MigrationInv

LEMMA RoutesDoneInv == ASSUME MigrationInv, RoutesDone PROVE MigrationInv'
<1>1. /\ step.at = "route" /\ step.entry > Len(Routing) /\ step.entry \in Nat \ {0}
      /\ step'.at = "stale" /\ step'.entry = 1
      /\ UNCHANGED <<core, destinations, routes, secrets, stops, failures>>
    BY DEF RoutesDone, At, Go, GoWith, Bounds, MigrationInv, MigrationTypeOK, Position
<1>2. MigrationTypeOK'
    <2>1. step' \in Position
        BY GoOK DEF RoutesDone, Places
    <2> QED BY <1>1, <2>1 DEF MigrationInv, MigrationTypeOK, Position
<1>3. \A j \in DOMAIN Routing : RouteIn(Routing[j])
    <2> TAKE j \in DOMAIN Routing
    <2>1. j < step.entry
        BY <1>1, Entries
    <2> QED BY <1>1, <2>1 DEF MigrationInv, Passed
<1>4. \A j \in DOMAIN Outputs : OutputIn(Outputs[j])
    BY <1>1 DEF MigrationInv, Passed
<1>5. Passed'
    BY <1>1, <1>3, <1>4, SameTables DEF Passed
<1>6. InHand' /\ Ending'
    BY <1>1 DEF InHand, Ending, At, Working, MigrationInv
<1> QED BY <1>1, <1>2, <1>5, <1>6, SameTables DEF MigrationInv

LEMMA StaleRemovedInv == ASSUME MigrationInv, StaleRemoved PROVE MigrationInv'
<1>1. /\ step.at = "stale" /\ step.entry = 2 /\ StaleDestinations = {}
      /\ step'.at = "clear" /\ step'.entry = 1
      /\ UNCHANGED <<core, destinations, routes, secrets, stops, failures>>
    BY DEF StaleRemoved, At, Go, GoWith, Bounds
<1>2. MigrationTypeOK'
    <2>1. step' \in Position
        BY GoOK DEF StaleRemoved, Places
    <2> QED BY <1>1, <2>1 DEF MigrationInv, MigrationTypeOK, Position
<1>3. Passed'
    BY <1>1, SameTables DEF MigrationInv, Passed
<1>4. InHand' /\ Ending'
    BY <1>1 DEF InHand, Ending, At, Working, MigrationInv
<1> QED BY <1>1, <1>2, <1>3, <1>4, SameTables DEF MigrationInv

-----------------------------------------------------------------------------
(* The steps that change a secret, or which secret a row has.              *)

\* What no row refers to may change.
LEMMA SecretChanged ==
    ASSUME MigrationInv, NEW s \in Ids, NEW v \in Payloads \cup {None},
           Unreferenced(s), secrets' = [secrets EXCEPT ![s] = v],
           UNCHANGED <<destinations, routes>>
    PROVE  /\ Apart(destinations)' /\ Apart(routes)' /\ KeysTell' /\ SecretsThere'
           /\ secrets' \in [Ids -> Payloads \cup {None}] /\ secrets'[s] = v
           /\ \A d : OutputIn(d) => OutputIn(d)'
           /\ \A r : RouteIn(r) => RouteIn(r)'
           /\ \A t : Unreferenced(t) => Unreferenced(t)'
           /\ StaleRoutes' = StaleRoutes /\ StaleDestinations' = StaleDestinations
<1>1. Apart(destinations)' /\ Apart(routes)' /\ KeysTell'
    BY DEF MigrationInv, Apart, KeysTell, Live
<1>2. /\ secrets' \in [Ids -> Payloads \cup {None}] /\ secrets'[s] = v
      /\ \A t \in Ids : t # s => secrets'[t] = secrets[t]
    BY DEF MigrationInv, MigrationTypeOK, Position
<1>3. ASSUME NEW i \in Live(destinations), destinations[i].secret # None
      PROVE  secrets'[destinations[i].secret] = secrets[destinations[i].secret]
    <2>1. destinations[i].secret \in Ids
        BY <1>3, LiveRows DEF MigrationInv, DestinationRecord
    <2> QED BY <1>2, <1>3, <2>1 DEF Unreferenced
<1>4. SecretsThere'
    BY <1>3 DEF MigrationInv, SecretsThere, Live
<1>5. ASSUME NEW d, OutputIn(d) PROVE OutputIn(d)'
    <2>1. PICK i \in Live(destinations) : destinations[i].key = d /\ Right(d, i)
        BY <1>5 DEF OutputIn
    <2>2. Right(d, i)'
        BY <1>3, <2>1 DEF Right
    <2> QED BY <2>1, <2>2 DEF OutputIn, Live
<1>6. \A r : RouteIn(r) => RouteIn(r)'
    BY DEF RouteIn, Live
<1>7. \A t : Unreferenced(t) => Unreferenced(t)'
    BY DEF Unreferenced, Live
<1>8. StaleRoutes' = StaleRoutes /\ StaleDestinations' = StaleDestinations
    BY DEF StaleRoutes, StaleDestinations, Live
<1> QED BY <1>1, <1>2, <1>4, <1>5, <1>6, <1>7, <1>8

\* The loop over the outputs goes on when the entry it is at is in.
LEMMA NextOutputInv ==
    ASSUME MigrationInv, NextOutput, UNCHANGED <<core, routes, stops, failures>>,
           step.at \in {"secret", "link", "unlinked"},
           destinations' \in [Ids -> DestinationRecord \cup {None}],
           secrets' \in [Ids -> Payloads \cup {None}],
           Apart(destinations)', Apart(routes)', KeysTell', SecretsThere',
           \A d : OutputIn(d) => OutputIn(d)',
           NEW e, e = Outputs[step.entry], OutputIn(e)'
    PROVE  MigrationInv'
<1>1. /\ step.entry \in Nat \ {0} /\ step.entry + 1 \in Nat \ {0}
      /\ step'.at = "output" /\ step'.entry = step.entry + 1
    BY DEF NextOutput, Go, GoWith, MigrationInv, MigrationTypeOK, Position
<1>2. MigrationTypeOK'
    <2>1. step' \in Position
        BY <1>1, GoOK DEF NextOutput, Places
    <2> QED BY <2>1 DEF MigrationInv, MigrationTypeOK, Position
<1>3. ASSUME NEW j \in DOMAIN Outputs, j < step.entry + 1 PROVE OutputIn(Outputs[j])'
    <2>1. j \in Nat /\ (j < step.entry \/ j = step.entry)
        BY <1>1, <1>3, Entries
    <2>2. CASE j = step.entry
        <3>1. Outputs[j] = e
            BY <2>2
        <3> QED BY <3>1
    <2>3. CASE j < step.entry
        <3>1. OutputIn(Outputs[j])
            BY <2>3 DEF MigrationInv, Passed
        <3> QED BY <3>1
    <2> QED BY <2>1, <2>2, <2>3
<1>4. Passed' /\ InHand' /\ Ending'
    BY <1>1, <1>3 DEF Passed, InHand, Ending, At, Working, MigrationInv
<1> QED BY <1>2, <1>4 DEF MigrationInv

LEMMA DeleteUnlinkedInv == ASSUME MigrationInv, DeleteUnlinked PROVE MigrationInv'
<1>1. /\ step.at = "unlinked" /\ step.secret \in Ids /\ Unreferenced(step.secret)
      /\ OutputIn(Outputs[step.entry])
      /\ secrets' = [secrets EXCEPT ![step.secret] = None] /\ NextOutput
      /\ UNCHANGED <<core, destinations, routes, stops, failures>>
    BY DEF DeleteUnlinked, At, Bounds, MigrationInv, InHand
<1>2. PICK s \in Ids : s = step.secret
    BY <1>1
<1>3. /\ Apart(destinations)' /\ Apart(routes)' /\ KeysTell' /\ SecretsThere'
      /\ secrets' \in [Ids -> Payloads \cup {None}]
      /\ \A d : OutputIn(d) => OutputIn(d)'
    BY <1>1, <1>2, SecretChanged
<1>4. PICK e : e = Outputs[step.entry]
    OBVIOUS
<1>5. OutputIn(e)'
    BY <1>1, <1>3, <1>4
<1> QED BY <1>1, <1>3, <1>4, <1>5, NextOutputInv DEF MigrationInv, MigrationTypeOK, Position

LEMMA RemoveSecretInv == ASSUME MigrationInv, RemoveSecret PROVE MigrationInv'
<1>1. /\ step.at = "orphan" /\ step.secret \in Ids /\ Unreferenced(step.secret)
      /\ secrets' = [secrets EXCEPT ![step.secret] = None]
      /\ step'.at = "stale" /\ step'.entry = 2
      /\ UNCHANGED <<core, destinations, routes, stops, failures>>
    BY DEF RemoveSecret, At, Go, GoWith, Bounds, MigrationInv, InHand
<1>2. PICK s \in Ids : s = step.secret
    BY <1>1
<1>3. /\ Apart(destinations)' /\ Apart(routes)' /\ KeysTell' /\ SecretsThere'
      /\ secrets' \in [Ids -> Payloads \cup {None}]
      /\ \A d : OutputIn(d) => OutputIn(d)'
      /\ \A r : RouteIn(r) => RouteIn(r)'
      /\ StaleRoutes' = StaleRoutes /\ StaleDestinations' = StaleDestinations
    BY <1>1, <1>2, SecretChanged
<1>4. MigrationTypeOK'
    <2>1. step' \in Position
        BY GoOK DEF RemoveSecret, Places
    <2> QED BY <1>1, <1>3, <2>1 DEF MigrationInv, MigrationTypeOK, Position
<1>5. Passed'
    BY <1>1, <1>3 DEF MigrationInv, Passed
<1>6. InHand' /\ Ending'
    BY <1>1 DEF InHand, Ending, At, Working, MigrationInv
<1> QED BY <1>3, <1>4, <1>5, <1>6 DEF MigrationInv

\* A row with another secret: none, or one that no row refers to.
LEMMA RowSecretChanged ==
    ASSUME MigrationInv, NEW i \in Live(destinations), NEW v \in Ids \cup {None},
           v # None => Unreferenced(v) /\ secrets[v] # None,
           destinations' = [destinations EXCEPT ![i].secret = v],
           UNCHANGED <<secrets, routes>>
    PROVE  /\ Apart(destinations)' /\ Apart(routes)' /\ KeysTell' /\ SecretsThere'
           /\ destinations' \in [Ids -> DestinationRecord \cup {None}]
           /\ Live(destinations)' = Live(destinations)
           /\ destinations'[i].secret = v
           /\ \A j \in Live(destinations) : destinations'[j].key = destinations[j].key
           /\ \A j \in Live(destinations) : j # i => destinations'[j] = destinations[j]
<1> DEFINE row == [destinations[i] EXCEPT !.secret = v]
<1>1. i \in Ids /\ destinations[i] \in DestinationRecord
    BY LiveRows DEF MigrationInv
<1>2. /\ row \in DestinationRecord /\ row.secret = v /\ row.key = destinations[i].key
      /\ row.owner = destinations[i].owner /\ row.name = destinations[i].name
    BY <1>1 DEF DestinationRecord
<1>3. /\ destinations' \in [Ids -> DestinationRecord \cup {None}]
      /\ destinations'[i] = row
      /\ \A j \in Ids : j # i => destinations'[j] = destinations[j]
    BY <1>1, <1>2 DEF MigrationInv, MigrationTypeOK, Position
<1> HIDE DEF row
<1>4. Live(destinations)' = Live(destinations)
    BY <1>1, <1>2, <1>3, NoneApart DEF Live
<1>5. /\ \A j \in Live(destinations) : j # i => destinations'[j] = destinations[j]
      /\ \A j \in Live(destinations) :
             /\ destinations'[j].key = destinations[j].key
             /\ destinations'[j].owner = destinations[j].owner
             /\ destinations'[j].name = destinations[j].name
    BY <1>2, <1>3 DEF Live
<1>6. Apart(destinations)'
    BY <1>4, <1>5 DEF MigrationInv, Apart
<1>7. Apart(routes)'
    BY DEF MigrationInv, Apart, Live
<1>8. KeysTell'
    <2>1. Live(routes)' = Live(routes)
        BY DEF Live
    <2> QED BY <1>4, <1>5, <2>1 DEF MigrationInv, KeysTell
<1>9. SecretsThere'
    <2>1. destinations'[i].secret = v
        BY <1>2, <1>3
    <2>2. ASSUME NEW j \in Live(destinations), destinations'[j].secret # None
          PROVE  /\ secrets[destinations'[j].secret] # None
                 /\ \A k \in Live(destinations) \ {j} :
                        destinations'[k].secret # destinations'[j].secret
        BY <1>5, <2>1, <2>2 DEF MigrationInv, SecretsThere, Unreferenced
    <2> QED BY <1>4, <2>2 DEF SecretsThere
<1> QED BY <1>2, <1>3, <1>4, <1>5, <1>6, <1>7, <1>8, <1>9

LEMMA LinkInv == ASSUME MigrationInv, Link PROVE MigrationInv'
<1> DEFINE d == Outputs[step.entry]
<1>1. /\ step.at = "link" /\ step.row \in Live(destinations)
      /\ destinations[step.row].key = d /\ destinations[step.row].secret = None
      /\ step.secret \in Ids /\ Unreferenced(step.secret)
      /\ OutputOf[d].secret # None /\ secrets[step.secret] = OutputOf[d].secret
      /\ destinations' = [destinations EXCEPT ![step.row].secret = step.secret]
      /\ NextOutput /\ UNCHANGED <<core, routes, secrets, stops, failures>>
    BY DEF Link, At, Bounds, MigrationInv, InHand
<1>2. PICK i \in Live(destinations), v \in Ids : i = step.row /\ v = step.secret
    BY <1>1
<1>3. /\ Apart(destinations)' /\ Apart(routes)' /\ KeysTell' /\ SecretsThere'
      /\ destinations' \in [Ids -> DestinationRecord \cup {None}]
      /\ Live(destinations)' = Live(destinations)
      /\ destinations'[i].secret = v
      /\ \A j \in Live(destinations) : destinations'[j].key = destinations[j].key
      /\ \A j \in Live(destinations) : j # i => destinations'[j] = destinations[j]
    BY <1>1, <1>2, RowSecretChanged
<1>4. PICK e : e = d
    OBVIOUS
<1>5. Right(e, i)' /\ destinations'[i].key = e
    BY <1>1, <1>2, <1>3, <1>4, NoneApart DEF Right
<1>6. OutputIn(e)'
    BY <1>3, <1>5 DEF OutputIn
<1>7. ASSUME NEW f, OutputIn(f) PROVE OutputIn(f)'
    <2>1. PICK j \in Live(destinations) : destinations[j].key = f /\ Right(f, j)
        BY <1>7 DEF OutputIn
    <2>2. CASE j = i
        BY <1>1, <1>2, <1>4, <1>6, <2>1, <2>2
    <2>3. CASE j # i
        <3>1. Right(f, j)' /\ destinations'[j].key = f
            BY <1>1, <1>3, <2>1, <2>3 DEF Right
        <3> QED BY <1>3, <3>1 DEF OutputIn
    <2> QED BY <2>2, <2>3
<1> QED BY <1>1, <1>3, <1>4, <1>6, <1>7, NextOutputInv DEF MigrationInv, MigrationTypeOK, Position

\* What SyncSecret finds: the row of the entry it is at.
LEMMA RowAtSecret ==
    ASSUME MigrationInv, SyncSecret
    PROVE  \E i \in Live(destinations), d \in OutputKeys :
               /\ i = step.row /\ d = Outputs[step.entry] /\ i \in Ids
               /\ destinations[i] \in DestinationRecord /\ destinations[i].key = d
               /\ destinations[i].secret \in Ids \cup {None}
               /\ OutputOf[d].secret \in Payloads \cup {None}
               /\ step.at = "secret" /\ step.entry \in Nat \ {0}
               /\ UNCHANGED <<core, routes, stops, failures>>
<1>1. /\ step.at = "secret" /\ UNCHANGED <<core, routes, stops, failures>>
      /\ step.entry \in DOMAIN Outputs /\ step.entry \in Nat \ {0}
      /\ step.row \in Live(destinations) /\ destinations[step.row].key = Outputs[step.entry]
    BY DEF SyncSecret, At, Bounds, MigrationInv, InHand, MigrationTypeOK, Position
<1>2. Outputs[step.entry] \in OutputKeys
    BY <1>1, Entries
<1>3. step.row \in Ids /\ destinations[step.row] \in DestinationRecord
    BY <1>1, LiveRows DEF MigrationInv
<1>4. destinations[step.row].secret \in Ids \cup {None}
    BY <1>3 DEF DestinationRecord
<1>5. OutputOf[Outputs[step.entry]].secret \in Payloads \cup {None}
    BY <1>2, MigrationAssumption
<1> QED BY <1>1, <1>2, <1>3, <1>4, <1>5

\* A secret is made that no row refers to yet.
LEMMA CreateInv ==
    ASSUME MigrationInv, SyncSecret, NEW i \in Live(destinations), NEW d \in OutputKeys,
           i = step.row, d = Outputs[step.entry],
           OutputOf[d].secret # None, destinations[i].secret = None,
           NEW s \in Fresh(secrets), secrets' = [secrets EXCEPT ![s] = OutputOf[d].secret],
           GoWith("link", step.entry, step.row, s), UNCHANGED destinations
    PROVE  MigrationInv'
<1>1. /\ i \in Ids /\ destinations[i].key = d
      /\ OutputOf[d].secret \in Payloads \cup {None}
      /\ step.at = "secret" /\ step.entry \in Nat \ {0} /\ step.entry \in DOMAIN Outputs
      /\ UNCHANGED <<core, routes, stops, failures>>
    BY RowAtSecret DEF MigrationInv, InHand
<1>2. s \in Ids /\ secrets[s] = None
    BY FreshIsFree
<1>3. Unreferenced(s)
    BY <1>2, NoneApart DEF Unreferenced, MigrationInv, SecretsThere
<1>4. PICK v \in Payloads \cup {None} : v = OutputOf[d].secret
    BY <1>1
<1>5. /\ Apart(destinations)' /\ Apart(routes)' /\ KeysTell' /\ SecretsThere'
      /\ secrets' \in [Ids -> Payloads \cup {None}] /\ secrets'[s] = v
      /\ \A e : OutputIn(e) => OutputIn(e)'
      /\ Unreferenced(s)'
    BY <1>1, <1>2, <1>3, <1>4, SecretChanged
<1>6. /\ step'.at = "link" /\ step'.entry = step.entry /\ step'.row = i /\ step'.secret = s
    BY DEF GoWith
<1>7. MigrationTypeOK'
    <2>1. step' \in Position
        BY <1>1, <1>2, PlaceOK DEF MigrationInv, Places
    <2> QED BY <1>1, <1>5, <2>1 DEF MigrationInv, MigrationTypeOK, Position
<1>8. Passed'
    BY <1>1, <1>5, <1>6 DEF MigrationInv, Passed
<1>9. InHand'
    BY <1>1, <1>2, <1>4, <1>5, <1>6 DEF InHand, Live
<1>10. Ending'
    BY <1>1, <1>6 DEF MigrationInv, Ending, At, Working
<1> QED BY <1>5, <1>7, <1>8, <1>9, <1>10 DEF MigrationInv

\* The secret of a row has the value of the entry from now on.
LEMMA RotateInv ==
    ASSUME MigrationInv, SyncSecret, NEW i \in Live(destinations), NEW d \in OutputKeys,
           i = step.row, d = Outputs[step.entry],
           OutputOf[d].secret # None, destinations[i].secret # None,
           secrets' = [secrets EXCEPT ![destinations[i].secret] = OutputOf[d].secret],
           NextOutput, UNCHANGED destinations
    PROVE  MigrationInv'
<1>1. /\ i \in Ids /\ destinations[i].key = d /\ destinations[i].secret \in Ids
      /\ OutputOf[d].secret \in Payloads \cup {None}
      /\ step.at = "secret" /\ step.entry \in Nat \ {0}
      /\ UNCHANGED <<core, routes, stops, failures>>
    BY RowAtSecret
<1>2. PICK s \in Ids : s = destinations[i].secret
    BY <1>1
<1>3. /\ secrets' \in [Ids -> Payloads \cup {None}] /\ secrets'[s] = OutputOf[d].secret
      /\ \A t \in Ids : t # s => secrets'[t] = secrets[t]
    BY <1>1, <1>2 DEF MigrationInv, MigrationTypeOK, Position
<1>4. ASSUME NEW j \in Live(destinations), j # i, destinations[j].secret # None
      PROVE  secrets'[destinations[j].secret] = secrets[destinations[j].secret]
    <2>1. destinations[j].secret \in Ids
        BY <1>4, LiveRows DEF MigrationInv, DestinationRecord
    <2>2. destinations[j].secret # s
        BY <1>2, <1>4, NoneApart DEF MigrationInv, SecretsThere
    <2> QED BY <1>3, <2>1, <2>2
<1>5. Apart(destinations)' /\ Apart(routes)' /\ KeysTell'
    BY <1>1 DEF MigrationInv, Apart, KeysTell, Live
<1>6. SecretsThere'
    BY <1>1, <1>2, <1>3, <1>4 DEF MigrationInv, SecretsThere, Live
<1>7. Right(d, i)'
    BY <1>1, <1>2, <1>3 DEF Right
<1>8. OutputIn(d)'
    BY <1>1, <1>7 DEF OutputIn, Live
<1>9. ASSUME NEW e, OutputIn(e) PROVE OutputIn(e)'
    <2>1. PICK j \in Live(destinations) : destinations[j].key = e /\ Right(e, j)
        BY <1>9 DEF OutputIn
    <2>2. CASE j = i
        BY <1>1, <1>8, <2>1, <2>2
    <2>3. CASE j # i
        <3>1. Right(e, j)'
            BY <1>4, <2>1, <2>3 DEF Right
        <3> QED BY <2>1, <3>1 DEF OutputIn, Live
    <2> QED BY <2>2, <2>3
<1> QED BY <1>1, <1>3, <1>5, <1>6, <1>8, <1>9, NextOutputInv DEF MigrationInv, MigrationTypeOK

\* The row lets go of a secret it is to have no more.
LEMMA UnlinkInv ==
    ASSUME MigrationInv, SyncSecret, NEW i \in Live(destinations), NEW d \in OutputKeys,
           i = step.row, d = Outputs[step.entry],
           OutputOf[d].secret = None, destinations[i].secret # None,
           destinations' = [destinations EXCEPT ![i].secret = None],
           GoWith("unlinked", step.entry, None, destinations[i].secret), UNCHANGED secrets
    PROVE  MigrationInv'
<1>1. /\ i \in Ids /\ destinations[i].key = d /\ destinations[i].secret \in Ids
      /\ step.at = "secret" /\ step.entry \in Nat \ {0} /\ step.entry \in DOMAIN Outputs
      /\ UNCHANGED <<core, routes, stops, failures>>
    BY RowAtSecret DEF MigrationInv, InHand
<1>2. /\ Apart(destinations)' /\ Apart(routes)' /\ KeysTell' /\ SecretsThere'
      /\ destinations' \in [Ids -> DestinationRecord \cup {None}]
      /\ Live(destinations)' = Live(destinations)
      /\ destinations'[i].secret = None
      /\ \A j \in Live(destinations) : destinations'[j].key = destinations[j].key
      /\ \A j \in Live(destinations) : j # i => destinations'[j] = destinations[j]
    BY <1>1, RowSecretChanged
<1>3. PICK s \in Ids : s = destinations[i].secret
    BY <1>1
<1>4. Unreferenced(s)'
    <2>1. ASSUME NEW j \in Live(destinations) PROVE destinations'[j].secret # s
        BY <1>2, <1>3, <2>1, NoneApart DEF MigrationInv, SecretsThere
    <2> QED BY <1>2, <2>1 DEF Unreferenced
<1>5. Right(d, i)' /\ destinations'[i].key = d
    BY <1>1, <1>2 DEF Right
<1>6. OutputIn(d)'
    BY <1>2, <1>5 DEF OutputIn
<1>7. ASSUME NEW e, OutputIn(e) PROVE OutputIn(e)'
    <2>1. PICK j \in Live(destinations) : destinations[j].key = e /\ Right(e, j)
        BY <1>7 DEF OutputIn
    <2>2. CASE j = i
        BY <1>1, <1>6, <2>1, <2>2
    <2>3. CASE j # i
        <3>1. Right(e, j)' /\ destinations'[j].key = e
            BY <1>2, <2>1, <2>3 DEF Right
        <3> QED BY <1>2, <3>1 DEF OutputIn
    <2> QED BY <2>2, <2>3
<1>8. /\ step'.at = "unlinked" /\ step'.entry = step.entry /\ step'.secret = s
    BY <1>3 DEF GoWith
<1>9. MigrationTypeOK'
    <2>1. step' \in Position
        BY <1>1, PlaceOK DEF MigrationInv, Places
    <2> QED BY <1>1, <1>2, <2>1 DEF MigrationInv, MigrationTypeOK, Position
<1>10. Passed'
    BY <1>1, <1>7, <1>8 DEF MigrationInv, Passed
<1>11. InHand'
    BY <1>1, <1>4, <1>6, <1>8 DEF InHand
<1>12. Ending'
    BY <1>1, <1>8 DEF MigrationInv, Ending, At, Working
<1> QED BY <1>2, <1>9, <1>10, <1>11, <1>12 DEF MigrationInv

LEMMA SyncSecretInv == ASSUME MigrationInv, SyncSecret PROVE MigrationInv'
<1>1. PICK i \in Live(destinations), d \in OutputKeys :
               /\ i = step.row /\ d = Outputs[step.entry] /\ destinations[i].key = d
               /\ step.at = "secret" /\ UNCHANGED <<core, routes, stops, failures>>
    BY RowAtSecret
<1>2. CASE /\ OutputOf[d].secret # None /\ destinations[i].secret = None
           /\ \E s \in Fresh(secrets) :
                  /\ secrets' = [secrets EXCEPT ![s] = OutputOf[d].secret]
                  /\ GoWith("link", step.entry, step.row, s)
           /\ UNCHANGED destinations
    BY <1>1, <1>2, CreateInv
<1>3. CASE /\ OutputOf[d].secret # None /\ destinations[i].secret # None
           /\ secrets' = [secrets EXCEPT ![destinations[i].secret] = OutputOf[d].secret]
           /\ NextOutput
           /\ UNCHANGED destinations
    BY <1>1, <1>3, RotateInv
<1>4. CASE /\ OutputOf[d].secret = None /\ destinations[i].secret # None
           /\ destinations' = [destinations EXCEPT ![i].secret = None]
           /\ GoWith("unlinked", step.entry, None, destinations[i].secret)
           /\ UNCHANGED secrets
    BY <1>1, <1>4, UnlinkInv
<1>5. CASE /\ OutputOf[d].secret = None /\ destinations[i].secret = None
           /\ NextOutput
           /\ UNCHANGED <<destinations, secrets>>
    <2>1. Right(d, i)
        BY <1>5 DEF Right
    <2>2. OutputIn(d)
        BY <1>1, <2>1 DEF OutputIn
    <2>3. /\ Apart(destinations)' /\ Apart(routes)' /\ KeysTell' /\ SecretsThere'
          /\ \A e : OutputIn(e) => OutputIn(e)'
        BY <1>1, <1>5, SameTables
    <2> QED BY <1>1, <1>5, <2>2, <2>3, NextOutputInv DEF MigrationInv, MigrationTypeOK, Position
<1> QED BY <1>1, <1>2, <1>3, <1>4, <1>5 DEF SyncSecret

-----------------------------------------------------------------------------
(* The steps that put a row.                                               *)

\* The row that is found or made for an entry: no other row has its key.
LEMMA ChosenDestination ==
    ASSUME MigrationInv, NEW d \in OutputKeys,
           NEW i \in (IF DestinationRow(d) # {} THEN DestinationRow(d) ELSE Fresh(destinations))
    PROVE  /\ i \in Ids
           /\ i \in Live(destinations) => destinations[i].key \in {d, None}
           /\ \A j \in Live(destinations) : j # i => destinations[j].key # d
<1> DEFINE keyed == {j \in Live(destinations) : destinations[j].key = d}
           alike == {j \in Live(destinations) :
                        /\ destinations[j].key = None
                        /\ destinations[j].owner = Administrator
                        /\ destinations[j].name \in OutputOf[d].aliases}
<1>1. DestinationRow(d) = IF keyed # {} THEN keyed ELSE alike
    BY DEF DestinationRow
<1>2. CASE keyed # {}
    <2>1. i \in keyed
        BY <1>1, <1>2
    <2>2. i \in Live(destinations) /\ destinations[i].key = d
        BY <2>1
    <2>3. \A j \in Live(destinations) : j # i => destinations[j].key # d
        BY <2>2, NoneApart DEF MigrationInv, Apart
    <2> QED BY <2>2, <2>3 DEF Live
<1>3. CASE keyed = {}
    <2>1. i \in alike \/ i \in Fresh(destinations)
        BY <1>1, <1>3
    <2>2. i \in Ids /\ (i \in Live(destinations) => destinations[i].key = None)
        <3>1. CASE i \in alike
            BY <3>1 DEF Live
        <3>2. CASE i \in Fresh(destinations)
            BY <3>2, FreshIsFree DEF Live
        <3> QED BY <2>1, <3>1, <3>2
    <2>3. \A j \in Live(destinations) : destinations[j].key # d
        BY <1>3
    <2> QED BY <2>2, <2>3
<1> QED BY <1>2, <1>3

\* A row that a step puts in the place of a free one or of one without another key,
\* when no other row has its name.
LEMMA PutDestination ==
    ASSUME MigrationInv, NEW d \in OutputKeys, NEW i \in Ids,
           i \in Live(destinations) => destinations[i].key \in {d, None},
           \A j \in Live(destinations) : j # i => destinations[j].key # d,
           ~NameTaken(destinations, i, OutputOf[d].name),
           NEW new \in DestinationRecord,
           new.key = d, new.name = OutputOf[d].name,
           new.secret = (IF destinations[i] = None THEN None ELSE destinations[i].secret),
           destinations' = [destinations EXCEPT ![i] = new],
           UNCHANGED <<secrets, routes>>
    PROVE  /\ Apart(destinations)' /\ Apart(routes)' /\ KeysTell' /\ SecretsThere'
           /\ destinations' \in [Ids -> DestinationRecord \cup {None}]
           /\ Live(destinations)' = Live(destinations) \cup {i}
           /\ destinations'[i] = new
           /\ \A e \in OutputKeys : OutputIn(e) => OutputIn(e)'
<1>1. /\ destinations' \in [Ids -> DestinationRecord \cup {None}]
      /\ destinations'[i] = new
      /\ \A j \in Ids : j # i => destinations'[j] = destinations[j]
    BY DEF MigrationInv, MigrationTypeOK, Position
<1>2. Live(destinations)' = Live(destinations) \cup {i}
    BY <1>1, NoneApart DEF Live
<1>3. \A j \in Live(destinations) : j # i => destinations'[j] = destinations[j]
    BY <1>1 DEF Live
<1>4. \A j \in Live(destinations) :
          j # i => destinations[j].key # d
                   /\ (destinations[j].owner = Administrator
                          => destinations[j].name # OutputOf[d].name)
    BY DEF NameTaken
<1>5. Apart(destinations)'
    <2> SUFFICES ASSUME NEW j \in Live(destinations)', NEW k \in Live(destinations)', j # k
                 PROVE  /\ destinations'[j].key # None
                              => destinations'[j].key # destinations'[k].key
                        /\ destinations'[j].owner = Administrator
                           /\ destinations'[k].owner = Administrator
                              => destinations'[j].name # destinations'[k].name
        BY DEF Apart
    <2>1. CASE j = i
        BY <1>1, <1>2, <1>3, <1>4, <2>1
    <2>2. CASE k = i
        BY <1>1, <1>2, <1>3, <1>4, <2>2
    <2>3. CASE j # i /\ k # i
        <3>1. j \in Live(destinations) /\ k \in Live(destinations)
            BY <1>2, <2>3
        <3>2. destinations'[j] = destinations[j] /\ destinations'[k] = destinations[k]
            BY <1>3, <2>3, <3>1
        <3> QED BY <3>1, <3>2 DEF MigrationInv, Apart
    <2> QED BY <2>1, <2>2, <2>3
<1>6. Apart(routes)'
    BY DEF MigrationInv, Apart, Live
<1>7. KeysTell'
    <2>1. OutputOf[d].name # OlderOutput
        BY MigrationAssumption DEF OutputNames
    <2>2. \A j \in Live(destinations)' :
              /\ destinations'[j].key \in OutputKeys =>
                     destinations'[j].name = OutputOf[destinations'[j].key].name
              /\ destinations'[j].key # OlderOutput => destinations'[j].name # OlderOutput
        BY <1>1, <1>2, <1>3, <2>1 DEF MigrationInv, KeysTell
    <2>3. Live(routes)' = Live(routes)
        BY DEF Live
    <2> QED BY <2>2, <2>3 DEF MigrationInv, KeysTell
<1>8. SecretsThere'
    <2>1. \A j \in Live(destinations) : destinations'[j].secret = destinations[j].secret
        BY <1>1, <1>3 DEF Live
    <2>2. i \notin Live(destinations) => destinations'[i].secret = None
        BY <1>1 DEF Live
    <2>3. \A j \in Live(destinations)' :
              destinations'[j].secret # None =>
                  j \in Live(destinations) /\ destinations'[j].secret = destinations[j].secret
        BY <1>2, <2>1, <2>2
    <2>4. ASSUME NEW j \in Live(destinations)', destinations'[j].secret # None
          PROVE  /\ secrets[destinations'[j].secret] # None
                 /\ \A k \in Live(destinations)' \ {j} :
                        destinations'[k].secret # destinations'[j].secret
        BY <2>3, <2>4 DEF MigrationInv, SecretsThere
    <2> QED BY <2>4 DEF SecretsThere
<1>9. ASSUME NEW e \in OutputKeys, OutputIn(e) PROVE OutputIn(e)'
    <2>1. PICK j \in Live(destinations) : destinations[j].key = e /\ Right(e, j)
        BY <1>9 DEF OutputIn
    <2>2. destinations'[j].key = e /\ destinations'[j].secret = destinations[j].secret
        <3>1. CASE j = i
            <4>1. destinations[i].key = d
                BY <2>1, <3>1, NoneApart
            <4>2. destinations[i] # None
                BY <3>1 DEF Live
            <4> QED BY <1>1, <2>1, <3>1, <4>1, <4>2
        <3>2. CASE j # i
            BY <1>3, <2>1, <3>2
        <3> QED BY <3>1, <3>2
    <2>3. Right(e, j)'
        BY <2>1, <2>2 DEF Right
    <2> QED BY <1>2, <2>2, <2>3 DEF OutputIn
<1> QED BY <1>1, <1>2, <1>5, <1>6, <1>7, <1>8, <1>9

LEMMA UpsertDestinationInv == ASSUME MigrationInv, UpsertDestination PROVE MigrationInv'
<1>1. /\ step.at = "output" /\ step.entry \in Nat \ {0} /\ step.entry <= Len(Outputs)
      /\ UNCHANGED <<core, routes, secrets, stops, failures>>
    BY DEF UpsertDestination, At, Bounds, MigrationInv, MigrationTypeOK, Position
<1>2. PICK d : d = Outputs[step.entry]
    OBVIOUS
<1>3. PICK i \in (IF DestinationRow(d) # {} THEN DestinationRow(d) ELSE Fresh(destinations)) :
          \/ /\ ~NameTaken(destinations, i, OutputOf[d].name)
             /\ destinations' = [destinations EXCEPT ![i] =
                    [key |-> d, owner |-> Administrator, name |-> OutputOf[d].name,
                     secret |-> IF @ = None THEN None ELSE @.secret]]
             /\ GoWith("secret", step.entry, i, None)
          \/ /\ NameTaken(destinations, i, OutputOf[d].name)
             /\ GiveUp
             /\ UNCHANGED destinations
    BY <1>2 DEF UpsertDestination
<1>4. CASE GiveUp /\ UNCHANGED destinations
    <2>1. MigrationTypeOK'
        BY <1>1, <1>4, IdleOK DEF MigrationInv, MigrationTypeOK, Position, GiveUp
    <2>2. core => Whole
        BY DEF MigrationInv, Ending
    <2> QED BY <1>1, <1>4, <2>1, <2>2, ToIdle DEF GiveUp
<1>5. CASE /\ ~NameTaken(destinations, i, OutputOf[d].name)
           /\ destinations' = [destinations EXCEPT ![i] =
                  [key |-> d, owner |-> Administrator, name |-> OutputOf[d].name,
                   secret |-> IF @ = None THEN None ELSE @.secret]]
           /\ GoWith("secret", step.entry, i, None)
    <2> DEFINE new == [key |-> d, owner |-> Administrator, name |-> OutputOf[d].name,
                       secret |-> IF destinations[i] = None THEN None
                                  ELSE destinations[i].secret]
    <2>1. step.entry \in DOMAIN Outputs /\ d \in OutputKeys
        <3>1. step.entry \in Nat \ {0}
            BY DEF MigrationInv, MigrationTypeOK, Position
        <3> QED BY <1>1, <1>2, <3>1, Entries
    <2>2. /\ i \in Ids
          /\ i \in Live(destinations) => destinations[i].key \in {d, None}
          /\ \A j \in Live(destinations) : j # i => destinations[j].key # d
        BY <2>1, ChosenDestination
    <2>3. (IF destinations[i] = None THEN None ELSE destinations[i].secret) \in Ids \cup {None}
        BY <2>2, LiveRows DEF MigrationInv, DestinationRecord, Live
    <2>4. OutputOf[d].name \in OutputNames
        BY <2>1 DEF OutputNames
    <2>5. /\ new \in DestinationRecord /\ new.key = d /\ new.name = OutputOf[d].name
          /\ new.secret = (IF destinations[i] = None THEN None ELSE destinations[i].secret)
        BY <2>1, <2>3, <2>4 DEF DestinationRecord
    <2>6. destinations' = [destinations EXCEPT ![i] = new]
        BY <1>5
    <2> HIDE DEF new
    <2>u. ~NameTaken(destinations, i, OutputOf[d].name) /\ UNCHANGED <<secrets, routes>>
        BY <1>1, <1>5
    <2>7. /\ Apart(destinations)' /\ Apart(routes)' /\ KeysTell' /\ SecretsThere'
          /\ destinations' \in [Ids -> DestinationRecord \cup {None}]
          /\ Live(destinations)' = Live(destinations) \cup {i}
          /\ destinations'[i] = new
          /\ \A e \in OutputKeys : OutputIn(e) => OutputIn(e)'
        BY <2>u, <2>1, <2>2, <2>5, <2>6, PutDestination
    <2>8. step'.at = "secret" /\ step'.entry = step.entry /\ step'.row = i
        BY <1>5 DEF GoWith
    <2>9. MigrationTypeOK'
        <3>1. step' \in Position
            BY <1>1, <1>5, <2>2, PlaceOK DEF MigrationInv, Places
        <3> QED BY <1>1, <2>7, <3>1 DEF MigrationInv, MigrationTypeOK, Position
    <2>10. Passed'
        BY <1>1, <2>7, <2>8, Entries DEF MigrationInv, Passed
    <2>11. InHand'
        BY <1>2, <2>1, <2>5, <2>7, <2>8 DEF InHand
    <2>12. Ending'
        BY <1>1, <2>8 DEF MigrationInv, Ending, At, Working
    <2> QED BY <2>7, <2>9, <2>10, <2>11, <2>12 DEF MigrationInv
<1> QED BY <1>3, <1>4, <1>5

\* The row that is found or made for a route: no other row has its key, and it is
\* the administrator's, or free.
LEMMA ChosenRoute ==
    ASSUME MigrationInv, NEW r \in RouteKeys,
           NEW i \in (IF RouteRow(r) # {} THEN RouteRow(r) ELSE Fresh(routes))
    PROVE  /\ i \in Ids
           /\ i \in Live(routes) =>
                  routes[i].key \in {r, None} /\ routes[i].owner = Administrator
           /\ \A j \in Live(routes) : j # i => routes[j].key # r
<1> DEFINE keyed == {j \in Live(routes) : routes[j].key = r}
           free == {j \in Live(routes) :
                       routes[j].key = None /\ routes[j].owner = Administrator}
           alike == {j \in free : /\ routes[j].source = RouteOf[r].source
                                  /\ routes[j].to = DestinationOf(r)}
           first == {j \in alike : \A k \in alike : routes[j].priority <= routes[k].priority}
           named == {j \in free : routes[j].name = RouteOf[r].name}
<1>1. RouteRow(r) = IF keyed # {} THEN keyed ELSE IF first # {} THEN first ELSE named
    BY DEF RouteRow
<1>2. CASE keyed # {}
    <2>1. i \in keyed
        BY <1>1, <1>2
    <2>2. i \in Live(routes) /\ routes[i].key = r
        BY <2>1
    <2>3. routes[i].owner = Administrator
        BY <2>2, NoneApart DEF MigrationInv, KeysTell
    <2>4. \A j \in Live(routes) : j # i => routes[j].key # r
        BY <2>2, NoneApart DEF MigrationInv, Apart
    <2> QED BY <2>2, <2>3, <2>4 DEF Live
<1>3. CASE keyed = {}
    <2>1. first \subseteq free /\ named \subseteq free
        OBVIOUS
    <2>2. i \in first \/ i \in named \/ i \in Fresh(routes)
        BY <1>1, <1>3
    <2> HIDE DEF first, named
    <2>3. i \in free \/ i \in Fresh(routes)
        BY <2>1, <2>2
    <2>4. /\ i \in Ids
          /\ i \in Live(routes) => routes[i].key = None /\ routes[i].owner = Administrator
        <3>1. CASE i \in free
            BY <3>1 DEF Live
        <3>2. CASE i \in Fresh(routes)
            BY <3>2, FreshIsFree DEF Live
        <3> QED BY <2>3, <3>1, <3>2
    <2>5. \A j \in Live(routes) : routes[j].key # r
        BY <1>3
    <2> QED BY <2>4, <2>5
<1> QED BY <1>2, <1>3

\* As PutDestination, for a route.
LEMMA PutRoute ==
    ASSUME MigrationInv, NEW r \in RouteKeys, NEW i \in Ids,
           i \in Live(routes) => routes[i].key \in {r, None},
           \A j \in Live(routes) : j # i => routes[j].key # r,
           ~NameTaken(routes, i, RouteOf[r].name),
           NEW new \in RouteRecord,
           new.key = r, new.name = RouteOf[r].name, new.owner = Administrator,
           new.source = RouteOf[r].source, new.to \in Live(destinations),
           destinations[new.to].key = RouteOf[r].output,
           routes' = [routes EXCEPT ![i] = new],
           UNCHANGED <<secrets, destinations>>
    PROVE  /\ Apart(destinations)' /\ Apart(routes)' /\ KeysTell' /\ SecretsThere'
           /\ routes' \in [Ids -> RouteRecord \cup {None}]
           /\ \A d : OutputIn(d) => OutputIn(d)'
           /\ \A q \in RouteKeys : RouteIn(q) => RouteIn(q)'
           /\ RouteIn(r)'
<1>1. /\ routes' \in [Ids -> RouteRecord \cup {None}]
      /\ routes'[i] = new
      /\ \A j \in Ids : j # i => routes'[j] = routes[j]
    BY DEF MigrationInv, MigrationTypeOK
<1>2. Live(routes)' = Live(routes) \cup {i}
    BY <1>1, NoneApart DEF Live
<1>3. \A j \in Live(routes) : j # i => routes'[j] = routes[j]
    BY <1>1 DEF Live
<1>4. \A j \in Live(routes) :
          j # i => routes[j].key # r
                   /\ (routes[j].owner = Administrator
                          => routes[j].name # RouteOf[r].name)
    BY DEF NameTaken
<1>5. Apart(routes)'
    <2> SUFFICES ASSUME NEW j \in Live(routes)', NEW k \in Live(routes)', j # k
                 PROVE  /\ routes'[j].key # None => routes'[j].key # routes'[k].key
                        /\ routes'[j].owner = Administrator
                           /\ routes'[k].owner = Administrator
                              => routes'[j].name # routes'[k].name
        BY DEF Apart
    <2>1. CASE j = i
        BY <1>1, <1>2, <1>3, <1>4, <2>1
    <2>2. CASE k = i
        BY <1>1, <1>2, <1>3, <1>4, <2>2
    <2>3. CASE j # i /\ k # i
        <3>1. j \in Live(routes) /\ k \in Live(routes)
            BY <1>2, <2>3
        <3>2. routes'[j] = routes[j] /\ routes'[k] = routes[k]
            BY <1>3, <2>3, <3>1
        <3> QED BY <3>1, <3>2 DEF MigrationInv, Apart
    <2> QED BY <2>1, <2>2, <2>3
<1>6. Apart(destinations)' /\ SecretsThere'
    BY DEF MigrationInv, Apart, SecretsThere, Live
<1>7. KeysTell'
    <2>1. RouteOf[r].name # OlderRoute
        BY MigrationAssumption DEF RouteNames
    <2>2. \A j \in Live(routes)' :
              /\ routes'[j].key # None => routes'[j].owner = Administrator
              /\ routes'[j].key \in RouteKeys => routes'[j].name = RouteOf[routes'[j].key].name
              /\ routes'[j].key # OlderRoute => routes'[j].name # OlderRoute
        BY <1>1, <1>2, <1>3, <2>1 DEF MigrationInv, KeysTell
    <2>3. Live(destinations)' = Live(destinations)
        BY DEF Live
    <2> QED BY <2>2, <2>3 DEF MigrationInv, KeysTell
<1>8. \A d : OutputIn(d) => OutputIn(d)'
    BY DEF OutputIn, Right, Live
<1>9. RouteIn(r)'
    BY <1>1, <1>2 DEF RouteIn, Live
<1>10. ASSUME NEW q \in RouteKeys, RouteIn(q) PROVE RouteIn(q)'
    <2>1. CASE q = r
        BY <1>9, <2>1
    <2>2. CASE q # r
        <3>1. PICK j \in Live(routes) :
                  /\ routes[j].key = q /\ routes[j].source = RouteOf[q].source
                  /\ routes[j].to \in Live(destinations)
                  /\ destinations[routes[j].to].key = RouteOf[q].output
            BY <1>10 DEF RouteIn
        <3>2. j # i
            BY <2>2, <3>1, NoneApart
        <3>3. routes'[j] = routes[j] /\ j \in Live(routes)'
            BY <1>2, <1>3, <3>2
        <3>4. Live(destinations)' = Live(destinations)
            BY DEF Live
        <3> QED BY <3>1, <3>3, <3>4 DEF RouteIn
    <2> QED BY <2>1, <2>2
<1> QED BY <1>1, <1>5, <1>6, <1>7, <1>8, <1>9, <1>10

LEMMA UpsertRouteInv == ASSUME MigrationInv, UpsertRoute PROVE MigrationInv'
<1>1. /\ step.at = "route" /\ step.entry \in Nat \ {0} /\ step.entry <= Len(Routing)
      /\ UNCHANGED <<core, destinations, secrets, stops, failures>>
    BY DEF UpsertRoute, At, Bounds, MigrationInv, MigrationTypeOK, Position
<1>2. PICK r : r = Routing[step.entry]
    OBVIOUS
<1>3. PICK i \in (IF RouteRow(r) # {} THEN RouteRow(r) ELSE Fresh(routes)) :
          \/ /\ ~NameTaken(routes, i, RouteOf[r].name)
             /\ routes' = [routes EXCEPT ![i] =
                    [key |-> r, owner |-> Administrator, name |-> RouteOf[r].name,
                     source |-> RouteOf[r].source, to |-> DestinationOf(r),
                     priority |-> RouteOf[r].priority]]
             /\ Go("route", step.entry + 1)
          \/ /\ NameTaken(routes, i, RouteOf[r].name)
             /\ GiveUp
             /\ UNCHANGED routes
    BY <1>2 DEF UpsertRoute
<1>4. CASE GiveUp /\ UNCHANGED routes
    <2>1. MigrationTypeOK'
        BY <1>1, <1>4, IdleOK DEF MigrationInv, MigrationTypeOK, GiveUp
    <2>2. core => Whole
        BY DEF MigrationInv, Ending
    <2> QED BY <1>1, <1>4, <2>1, <2>2, ToIdle DEF GiveUp
<1>5. CASE /\ ~NameTaken(routes, i, RouteOf[r].name)
           /\ routes' = [routes EXCEPT ![i] =
                  [key |-> r, owner |-> Administrator, name |-> RouteOf[r].name,
                   source |-> RouteOf[r].source, to |-> DestinationOf(r),
                   priority |-> RouteOf[r].priority]]
           /\ Go("route", step.entry + 1)
    <2> DEFINE new == [key |-> r, owner |-> Administrator, name |-> RouteOf[r].name,
                       source |-> RouteOf[r].source, to |-> DestinationOf(r),
                       priority |-> RouteOf[r].priority]
    <2>1. r \in RouteKeys /\ RouteOf[r].output \in OutputKeys
        <3>1. step.entry \in DOMAIN Routing
            BY <1>1, Entries
        <3>2. r \in RouteKeys
            BY <1>2, <3>1, Entries
        <3> QED BY <3>2, MigrationAssumption
    <2>2. /\ i \in Ids
          /\ i \in Live(routes) => routes[i].key \in {r, None}
          /\ \A j \in Live(routes) : j # i => routes[j].key # r
        BY <2>1, ChosenRoute
    <2>3. /\ DestinationOf(r) \in Live(destinations)
          /\ destinations[DestinationOf(r)].key = RouteOf[r].output
        <3>1. PICK j \in DOMAIN Outputs : RouteOf[r].output = Outputs[j]
            BY <2>1, Entries
        <3>2. OutputIn(RouteOf[r].output)
            BY <1>1, <3>1 DEF MigrationInv, Passed
        <3>3. \E k \in Live(destinations) : destinations[k].key = RouteOf[r].output
            BY <3>2 DEF OutputIn
        <3> QED BY <3>3 DEF DestinationOf
    <2>4. /\ DestinationOf(r) \in Ids /\ RouteOf[r].name \in RouteNames
          /\ RouteOf[r].source \in {RouteOf[q].source : q \in RouteKeys}
          /\ RouteOf[r].priority \in {RouteOf[q].priority : q \in RouteKeys}
        BY <2>1, <2>3 DEF RouteNames, Live
    <2>5. /\ new \in RouteRecord /\ new.key = r /\ new.name = RouteOf[r].name
          /\ new.owner = Administrator /\ new.source = RouteOf[r].source
          /\ new.to = DestinationOf(r)
        BY <2>1, <2>4 DEF RouteRecord
    <2>6. routes' = [routes EXCEPT ![i] = new]
        BY <1>5
    <2> HIDE DEF new
    <2>7. /\ Apart(destinations)' /\ Apart(routes)' /\ KeysTell' /\ SecretsThere'
          /\ routes' \in [Ids -> RouteRecord \cup {None}]
          /\ \A d : OutputIn(d) => OutputIn(d)'
          /\ \A q \in RouteKeys : RouteIn(q) => RouteIn(q)'
          /\ RouteIn(r)'
        <3>1. /\ new.to \in Live(destinations)
              /\ destinations[new.to].key = RouteOf[r].output
            BY <2>3, <2>5
        <3>2. ~NameTaken(routes, i, RouteOf[r].name) /\ UNCHANGED <<secrets, destinations>>
            BY <1>1, <1>5
        <3> QED BY <2>1, <2>2, <2>5, <2>6, <3>1, <3>2, PutRoute
    <2>8. /\ step'.at = "route" /\ step'.entry = step.entry + 1
          /\ step.entry + 1 \in Nat \ {0}
        BY <1>1, <1>5 DEF Go, GoWith
    <2>9. MigrationTypeOK'
        <3>1. PICK n \in Nat \ {0} : n = step.entry + 1
            BY <2>8
        <3>2. "route" \in Places
            BY DEF Places
        <3>3. step' \in Position
            BY <1>5, <3>1, <3>2, GoOK
        <3> QED BY <1>1, <2>7, <3>3 DEF MigrationInv, MigrationTypeOK
    <2>10. ASSUME NEW j \in DOMAIN Routing, j < step.entry + 1 PROVE RouteIn(Routing[j])'
        <3>1. j \in Nat /\ (j < step.entry \/ j = step.entry)
            BY <1>1, <2>10, Entries
        <3>2. CASE j = step.entry
            <4>1. Routing[j] = r
                BY <1>2, <3>2
            <4> QED BY <2>7, <4>1
        <3>3. CASE j < step.entry
            <4>1. RouteIn(Routing[j])
                BY <1>1, <3>3 DEF MigrationInv, Passed
            <4> QED BY <2>7, <4>1, Entries
        <3> QED BY <3>1, <3>2, <3>3
    <2>11. Passed'
        BY <1>1, <2>7, <2>8, <2>10 DEF MigrationInv, Passed
    <2>12. InHand' /\ Ending'
        BY <1>1, <2>8 DEF MigrationInv, InHand, Ending, At, Working
    <2> QED BY <2>7, <2>9, <2>11, <2>12 DEF MigrationInv
<1> QED BY <1>3, <1>4, <1>5

-----------------------------------------------------------------------------
(* What goes, and the keys at the end.                                     *)

LEMMA RemoveRoutesInv == ASSUME MigrationInv, RemoveRoutes PROVE MigrationInv'
<1>1. /\ step.at = "stale"
      /\ routes' = [i \in Ids |-> IF i \in StaleRoutes THEN None ELSE routes[i]]
      /\ step'.at = "stale" /\ step'.entry = 2
      /\ UNCHANGED <<core, destinations, secrets, stops, failures>>
    BY DEF RemoveRoutes, At, Go, GoWith, Bounds
<1>2. \A i \in Ids : routes'[i] = IF i \in StaleRoutes THEN None ELSE routes[i]
    BY <1>1
<1>3. Live(routes)' = Live(routes) \ StaleRoutes
    BY <1>2 DEF Live, StaleRoutes
<1>4. \A i \in Live(routes)' : i \in Live(routes) /\ i \notin StaleRoutes /\ routes'[i] = routes[i]
    BY <1>2, <1>3 DEF Live
<1>5. routes' \in [Ids -> RouteRecord \cup {None}]
    BY <1>1 DEF MigrationInv, MigrationTypeOK
<1>6. MigrationTypeOK'
    <2>1. step' \in Position
        BY GoOK DEF RemoveRoutes, Places
    <2> QED BY <1>1, <1>5, <2>1 DEF MigrationInv, MigrationTypeOK
<1>7. Apart(routes)'
    BY <1>4 DEF MigrationInv, Apart
<1>8. Apart(destinations)' /\ SecretsThere'
    BY <1>1 DEF MigrationInv, Apart, SecretsThere, Live
<1>9. KeysTell'
    <2>1. Live(destinations)' = Live(destinations)
        BY <1>1 DEF Live
    <2> QED BY <1>1, <1>4, <2>1 DEF MigrationInv, KeysTell
<1>10. StaleRoutes' = {}
    BY <1>4 DEF StaleRoutes
<1>11. \A d : OutputIn(d) => OutputIn(d)'
    BY <1>1 DEF OutputIn, Right, Live
<1>12. ASSUME NEW r \in RouteKeys, RouteIn(r) PROVE RouteIn(r)'
    <2>1. PICK i \in Live(routes) :
              /\ routes[i].key = r /\ routes[i].source = RouteOf[r].source
              /\ routes[i].to \in Live(destinations)
              /\ destinations[routes[i].to].key = RouteOf[r].output
        BY <1>12 DEF RouteIn
    <2>2. i \notin StaleRoutes
        BY <2>1 DEF StaleRoutes
    <2>3. i \in Live(routes)' /\ routes'[i] = routes[i]
        BY <1>3, <1>4, <2>2
    <2>4. Live(destinations)' = Live(destinations)
        BY <1>1 DEF Live
    <2> QED BY <1>1, <2>1, <2>3, <2>4 DEF RouteIn
<1>13. Passed'
    <2>1. /\ \A j \in DOMAIN Outputs : OutputIn(Outputs[j])
          /\ \A j \in DOMAIN Routing : RouteIn(Routing[j])
        BY <1>1 DEF MigrationInv, Passed
    <2>2. /\ \A j \in DOMAIN Outputs : OutputIn(Outputs[j])'
          /\ \A j \in DOMAIN Routing : RouteIn(Routing[j])'
        BY <1>11, <1>12, <2>1, Entries
    <2> QED BY <1>1, <1>10, <2>2 DEF Passed
<1>14. InHand' /\ Ending'
    BY <1>1 DEF MigrationInv, InHand, Ending, At, Working
<1> QED BY <1>6, <1>7, <1>8, <1>9, <1>13, <1>14 DEF MigrationInv

\* A row that no entry has any more goes; what the entries have stays.
LEMMA StaleGone ==
    ASSUME MigrationInv, NEW i \in StaleDestinations,
           destinations' = [destinations EXCEPT ![i] = None], UNCHANGED <<secrets, routes>>
    PROVE  /\ Apart(destinations)' /\ Apart(routes)' /\ KeysTell' /\ SecretsThere'
           /\ destinations' \in [Ids -> DestinationRecord \cup {None}]
           /\ \A d \in OutputKeys : OutputIn(d) => OutputIn(d)'
           /\ \A r \in RouteKeys : RouteIn(r) => RouteIn(r)'
           /\ StaleRoutes' = StaleRoutes
<1>1. i \in Live(destinations) /\ i \in Ids /\ destinations[i].key \notin OutputKeys
    BY DEF StaleDestinations, Live
<1>2. /\ destinations' \in [Ids -> DestinationRecord \cup {None}]
      /\ destinations'[i] = None
      /\ \A j \in Ids : j # i => destinations'[j] = destinations[j]
    BY <1>1 DEF MigrationInv, MigrationTypeOK
<1>3. /\ Live(destinations)' = Live(destinations) \ {i}
      /\ Live(routes)' = Live(routes)
    BY <1>2 DEF Live
<1>4. \A j \in Live(destinations)' :
          j \in Live(destinations) /\ j # i /\ destinations'[j] = destinations[j]
    BY <1>2, <1>3 DEF Live
<1>5. Apart(destinations)'
    BY <1>4 DEF MigrationInv, Apart
<1>6. Apart(routes)'
    BY <1>3 DEF MigrationInv, Apart
<1>7. KeysTell'
    BY <1>3, <1>4 DEF MigrationInv, KeysTell
<1>8. SecretsThere'
    <2>1. ASSUME NEW j \in Live(destinations)', destinations'[j].secret # None
          PROVE  /\ secrets[destinations'[j].secret] # None
                 /\ \A k \in Live(destinations)' \ {j} :
                        destinations'[k].secret # destinations'[j].secret
        BY <1>4, <2>1 DEF MigrationInv, SecretsThere
    <2> QED BY <2>1 DEF SecretsThere
<1>9. ASSUME NEW d \in OutputKeys, OutputIn(d) PROVE OutputIn(d)'
    <2>1. PICK j \in Live(destinations) : destinations[j].key = d /\ Right(d, j)
        BY <1>9 DEF OutputIn
    <2>2. j # i
        BY <1>1, <2>1
    <2>3. j \in Live(destinations)' /\ destinations'[j] = destinations[j]
        BY <1>3, <1>4, <2>2
    <2>4. Right(d, j)'
        BY <2>1, <2>3 DEF Right
    <2> QED BY <2>1, <2>3, <2>4 DEF OutputIn
<1>10. ASSUME NEW r \in RouteKeys, RouteIn(r) PROVE RouteIn(r)'
    <2>1. PICK k \in Live(routes) :
              /\ routes[k].key = r /\ routes[k].source = RouteOf[r].source
              /\ routes[k].to \in Live(destinations)
              /\ destinations[routes[k].to].key = RouteOf[r].output
        BY <1>10 DEF RouteIn
    <2>2. routes[k].to # i
        BY <1>1, <2>1, MigrationAssumption
    <2>3. /\ routes[k].to \in Live(destinations)'
          /\ destinations'[routes[k].to] = destinations[routes[k].to]
        BY <1>3, <1>4, <2>1, <2>2
    <2> QED BY <1>3, <2>1, <2>3 DEF RouteIn
<1>11. StaleRoutes' = StaleRoutes
    BY <1>3 DEF StaleRoutes
<1> QED BY <1>2, <1>5, <1>6, <1>7, <1>8, <1>9, <1>10, <1>11

LEMMA RemoveDestinationInv == ASSUME MigrationInv, RemoveDestination PROVE MigrationInv'
<1>1. /\ step.at = "stale" /\ step.entry = 2
      /\ UNCHANGED <<core, routes, secrets, stops, failures>>
    BY DEF RemoveDestination, At, Bounds
<1>2. PICK i \in StaleDestinations :
           \/ /\ destinations' = [destinations EXCEPT ![i] = None]
              /\ IF destinations[i].secret = None
                 THEN UNCHANGED step
                 ELSE GoWith("orphan", 2, None, destinations[i].secret)
           \/ GiveUp /\ UNCHANGED destinations
    BY DEF RemoveDestination
<1>3. CASE GiveUp /\ UNCHANGED destinations
    <2>1. MigrationTypeOK'
        BY <1>1, <1>3, IdleOK DEF MigrationInv, MigrationTypeOK, GiveUp
    <2>2. core => Whole
        BY DEF MigrationInv, Ending
    <2> QED BY <1>1, <1>3, <2>1, <2>2, ToIdle DEF GiveUp
<1>4. CASE /\ destinations' = [destinations EXCEPT ![i] = None]
           /\ IF destinations[i].secret = None
              THEN UNCHANGED step
              ELSE GoWith("orphan", 2, None, destinations[i].secret)
    <2>1. PICK s : s = destinations[i].secret
        OBVIOUS
    <2>2. /\ Apart(destinations)' /\ Apart(routes)' /\ KeysTell' /\ SecretsThere'
          /\ destinations' \in [Ids -> DestinationRecord \cup {None}]
          /\ \A d \in OutputKeys : OutputIn(d) => OutputIn(d)'
          /\ \A r \in RouteKeys : RouteIn(r) => RouteIn(r)'
          /\ StaleRoutes' = StaleRoutes
        BY <1>1, <1>4, StaleGone
    <2>3. s # None => Unreferenced(s)'
        <3>1. i \in Live(destinations)
            BY DEF StaleDestinations
        <3>2. s # None => \A j \in Live(destinations) \ {i} : destinations[j].secret # s
            BY <2>1, <3>1 DEF MigrationInv, SecretsThere
        <3>3. \A j \in Ids : j # i => destinations'[j] = destinations[j]
            BY <1>4 DEF MigrationInv, MigrationTypeOK
        <3>4. destinations'[i] = None
            BY <1>4, <3>1 DEF MigrationInv, MigrationTypeOK, Live
        <3> QED BY <3>2, <3>3, <3>4 DEF Unreferenced, Live
    <2>4. s \in Ids \cup {None}
        BY <2>1, LiveRows DEF MigrationInv, StaleDestinations, DestinationRecord
    <2>5. \/ s = None /\ step' = step
          \/ /\ s \in Ids /\ step'.at = "orphan" /\ step'.entry = 2 /\ step'.secret = s
             /\ step' \in Position
        <3>1. CASE s = None
            BY <1>4, <2>1, <3>1
        <3>2. CASE s # None
            <4>1. GoWith("orphan", 2, None, s)
                BY <1>4, <2>1, <3>2
            <4>2. s \in Ids
                BY <2>4, <3>2
            <4>3. step' \in Position
                BY <4>1, <4>2 DEF GoWith, Position, Places
            <4> QED BY <4>1, <4>2, <4>3 DEF GoWith
        <3> QED BY <3>1, <3>2
    <2>6. MigrationTypeOK'
        BY <1>1, <2>2, <2>5 DEF MigrationInv, MigrationTypeOK
    <2>7. Passed'
        <3>1. /\ \A j \in DOMAIN Outputs : OutputIn(Outputs[j])
              /\ \A j \in DOMAIN Routing : RouteIn(Routing[j])
              /\ StaleRoutes = {}
            BY <1>1 DEF MigrationInv, Passed
        <3>2. /\ \A j \in DOMAIN Outputs : OutputIn(Outputs[j])'
              /\ \A j \in DOMAIN Routing : RouteIn(Routing[j])'
              /\ StaleRoutes' = {}
            BY <2>2, <3>1, Entries
        <3>3. step'.at # "clear"
            BY <1>1, <2>5
        <3> QED BY <3>2, <3>3 DEF Passed
    <2>8. InHand'
        BY <1>1, <2>3, <2>5, NoneApart DEF InHand
    <2>9. Ending'
        BY <1>1, <2>5 DEF MigrationInv, Ending, At, Working
    <2> QED BY <2>2, <2>6, <2>7, <2>8, <2>9 DEF MigrationInv
<1> QED BY <1>2, <1>3, <1>4

\* A table without its keys has the same rows otherwise.
LEMMA UnkeyedRows ==
    ASSUME MigrationInv
    PROVE  /\ Unkeyed(destinations) \in [Ids -> DestinationRecord \cup {None}]
           /\ Unkeyed(routes) \in [Ids -> RouteRecord \cup {None}]
           /\ Live(Unkeyed(destinations)) = Live(destinations)
           /\ Live(Unkeyed(routes)) = Live(routes)
           /\ \A i \in Live(destinations) :
                  /\ Unkeyed(destinations)[i].key = None
                  /\ Unkeyed(destinations)[i].owner = Administrator
                  /\ destinations[i].owner = Administrator
                  /\ Unkeyed(destinations)[i].name = destinations[i].name
                  /\ Unkeyed(destinations)[i].secret = destinations[i].secret
           /\ \A i \in Live(routes) :
                  /\ Unkeyed(routes)[i].key = None
                  /\ Unkeyed(routes)[i].owner = routes[i].owner
                  /\ Unkeyed(routes)[i].name = routes[i].name
                  /\ Unkeyed(routes)[i].source = routes[i].source
                  /\ Unkeyed(routes)[i].to = routes[i].to
                  /\ routes[i].key = None => Unkeyed(routes)[i] = routes[i]
<1> DEFINE output(i) == [destinations[i] EXCEPT !.key = None]
           route(i) == [routes[i] EXCEPT !.key = None]
<1>1. ASSUME NEW i \in Live(destinations)
      PROVE  /\ output(i) \in DestinationRecord
             /\ output(i).key = None
             /\ output(i).owner = Administrator
             /\ destinations[i].owner = Administrator
             /\ output(i).name = destinations[i].name
             /\ output(i).secret = destinations[i].secret
    <2>1. destinations[i] \in DestinationRecord
        BY LiveRows DEF MigrationInv
    <2> QED BY <2>1 DEF DestinationRecord
<1>2. ASSUME NEW i \in Live(routes)
      PROVE  /\ route(i) \in RouteRecord
             /\ route(i).key = None
             /\ route(i).owner = routes[i].owner
             /\ route(i).name = routes[i].name
             /\ route(i).source = routes[i].source
             /\ route(i).to = routes[i].to
             /\ routes[i].key = None => route(i) = routes[i]
    <2>1. routes[i] \in RouteRecord
        BY LiveRows DEF MigrationInv
    <2> QED BY <2>1 DEF RouteRecord
<1>3. /\ \A i \in Live(destinations) :
             i \in Ids /\ Unkeyed(destinations)[i] = output(i)
      /\ \A i \in Live(routes) :
             i \in Ids /\ Unkeyed(routes)[i] = route(i)
    BY DEF Unkeyed, Live
<1> HIDE DEF output, route
<1>4. /\ \A i \in Ids : i \notin Live(destinations) => Unkeyed(destinations)[i] = None
      /\ \A i \in Ids : i \notin Live(routes) => Unkeyed(routes)[i] = None
    BY DEF Unkeyed, Live
<1>5. Unkeyed(destinations) \in [Ids -> DestinationRecord \cup {None}]
    <2>1. \A i \in Ids : Unkeyed(destinations)[i] \in DestinationRecord \cup {None}
        BY <1>1, <1>3, <1>4
    <2> QED BY <2>1 DEF Unkeyed
<1>6. Unkeyed(routes) \in [Ids -> RouteRecord \cup {None}]
    <2>1. \A i \in Ids : Unkeyed(routes)[i] \in RouteRecord \cup {None}
        BY <1>2, <1>3, <1>4
    <2> QED BY <2>1 DEF Unkeyed
<1>7. /\ Live(Unkeyed(destinations)) = Live(destinations)
      /\ Live(Unkeyed(routes)) = Live(routes)
    <2>1. ASSUME NEW i \in Live(destinations) PROVE Unkeyed(destinations)[i] # None
        BY <1>1, <1>3, NoneApart
    <2>2. ASSUME NEW i \in Live(routes) PROVE Unkeyed(routes)[i] # None
        BY <1>2, <1>3, NoneApart
    <2>3. \A i \in Ids : Unkeyed(destinations)[i] # None <=> i \in Live(destinations)
        BY <1>4, <2>1
    <2>4. \A i \in Ids : Unkeyed(routes)[i] # None <=> i \in Live(routes)
        BY <1>4, <2>2
    <2>5. Live(Unkeyed(destinations)) = Live(destinations)
        BY <2>3 DEF Live
    <2>6. Live(Unkeyed(routes)) = Live(routes)
        BY <2>4 DEF Live
    <2> QED BY <2>5, <2>6
<1>8. \A i \in Live(destinations) :
          /\ Unkeyed(destinations)[i].key = None
          /\ Unkeyed(destinations)[i].owner = Administrator
          /\ destinations[i].owner = Administrator
          /\ Unkeyed(destinations)[i].name = destinations[i].name
          /\ Unkeyed(destinations)[i].secret = destinations[i].secret
    BY <1>1, <1>3
<1>9. \A i \in Live(routes) :
          /\ Unkeyed(routes)[i].key = None
          /\ Unkeyed(routes)[i].owner = routes[i].owner
          /\ Unkeyed(routes)[i].name = routes[i].name
          /\ Unkeyed(routes)[i].source = routes[i].source
          /\ Unkeyed(routes)[i].to = routes[i].to
          /\ routes[i].key = None => Unkeyed(routes)[i] = routes[i]
    BY <1>2, <1>3
<1> QED BY <1>5, <1>6, <1>7, <1>8, <1>9

\* What all entries have become is known by their names from here on.
LEMMA ClearKeysInv == ASSUME MigrationInv, ClearKeys PROVE MigrationInv'
<1>1. /\ step.at = "clear" /\ step'.at = "replace" /\ step'.entry = 1
      /\ destinations' = Unkeyed(destinations) /\ routes' = Unkeyed(routes)
      /\ UNCHANGED <<core, secrets, stops, failures>>
    BY DEF ClearKeys, At, Go, GoWith, Bounds
<1>2. /\ destinations' \in [Ids -> DestinationRecord \cup {None}]
      /\ routes' \in [Ids -> RouteRecord \cup {None}]
      /\ Live(destinations)' = Live(destinations) /\ Live(routes)' = Live(routes)
    BY <1>1, UnkeyedRows
<1>3. /\ \A i \in Live(destinations) :
             /\ destinations'[i].key = None /\ destinations'[i].owner = Administrator
             /\ destinations[i].owner = Administrator
             /\ destinations'[i].name = destinations[i].name
             /\ destinations'[i].secret = destinations[i].secret
      /\ \A i \in Live(routes) :
             /\ routes'[i].key = None /\ routes'[i].owner = routes[i].owner
             /\ routes'[i].name = routes[i].name /\ routes'[i].source = routes[i].source
             /\ routes'[i].to = routes[i].to
    BY <1>1, UnkeyedRows
<1>4. MigrationTypeOK'
    <2>1. step' \in Position
        BY GoOK DEF ClearKeys, Places
    <2> QED BY <1>1, <1>2, <2>1 DEF MigrationInv, MigrationTypeOK
<1>5. Apart(destinations)' /\ Apart(routes)'
    BY <1>2, <1>3 DEF MigrationInv, Apart
<1>6. SecretsThere'
    BY <1>1, <1>2, <1>3 DEF MigrationInv, SecretsThere
<1>7. /\ \A j \in DOMAIN Outputs : OutputIn(Outputs[j])
      /\ \A j \in DOMAIN Routing : RouteIn(Routing[j])
      /\ StaleRoutes = {} /\ StaleDestinations = {}
    BY <1>1 DEF MigrationInv, Passed
<1>8. /\ \A d \in OutputKeys : OutputIn(d)
      /\ \A r \in RouteKeys : RouteIn(r)
    BY <1>7, Entries
<1>9. /\ \A i \in Live(destinations) : destinations[i].name # OlderOutput
      /\ \A i \in Live(routes) : routes[i].name # OlderRoute
    <2>1. /\ \A i \in Live(destinations) : destinations[i].key # OlderOutput
          /\ \A i \in Live(routes) : routes[i].key # OlderRoute
        BY <1>7, NoneApart, MigrationAssumption DEF StaleRoutes, StaleDestinations
    <2> QED BY <2>1 DEF MigrationInv, KeysTell
<1>10. KeysTell'
    BY <1>2, <1>3, <1>9, NoneApart DEF KeysTell
<1>11. ASSUME NEW d \in OutputKeys, NEW i \in Live(destinations), destinations[i].key = d
       PROVE  Imported(d)' = {i}
    <2>1. destinations[i].name = OutputOf[d].name
        BY <1>11 DEF MigrationInv, KeysTell
    <2>2. \A j \in Live(destinations) : j # i => destinations[j].name # OutputOf[d].name
        BY <1>3, <2>1 DEF MigrationInv, Apart
    <2> QED BY <1>2, <1>3, <2>1, <2>2 DEF Imported
<1>12. ASSUME NEW d \in OutputKeys
       PROVE  \E i \in Ids : Imported(d)' = {i} /\ Right(d, i)'
    <2>1. PICK i \in Live(destinations) : destinations[i].key = d /\ Right(d, i)
        BY <1>8 DEF OutputIn
    <2>2. Right(d, i)'
        BY <1>1, <1>3, <2>1 DEF Right
    <2> QED BY <1>11, <2>1, <2>2 DEF Live
<1>13. ASSUME NEW r \in RouteKeys
       PROVE  \E i \in Ids :
                  /\ ImportedRoute(r)' = {i}
                  /\ routes'[i].source = RouteOf[r].source
                  /\ Imported(RouteOf[r].output)' = {routes'[i].to}
    <2>1. PICK i \in Live(routes) :
              /\ routes[i].key = r /\ routes[i].source = RouteOf[r].source
              /\ routes[i].to \in Live(destinations)
              /\ destinations[routes[i].to].key = RouteOf[r].output
        BY <1>8 DEF RouteIn
    <2>2. routes[i].name = RouteOf[r].name /\ routes[i].owner = Administrator
        BY <2>1, NoneApart DEF MigrationInv, KeysTell
    <2>3. \A j \in Live(routes) :
              j # i /\ routes[j].owner = Administrator => routes[j].name # RouteOf[r].name
        BY <2>2 DEF MigrationInv, Apart
    <2>4. ImportedRoute(r)' = {i}
        BY <1>2, <1>3, <2>2, <2>3 DEF ImportedRoute
    <2>5. PICK k \in Live(destinations) : k = routes[i].to
        BY <2>1
    <2>6. PICK d \in OutputKeys : d = RouteOf[r].output
        BY MigrationAssumption
    <2>7. Imported(d)' = {k}
        BY <1>11, <2>1, <2>5, <2>6
    <2>8. routes'[i].to = k /\ routes'[i].source = RouteOf[r].source
        BY <1>3, <2>1, <2>5
    <2> QED BY <2>4, <2>6, <2>7, <2>8 DEF Live
<1>14. Whole'
    BY <1>2, <1>3, <1>9, <1>12, <1>13 DEF Whole
<1>15. Passed' /\ InHand' /\ Ending'
    BY <1>1, <1>14 DEF MigrationInv, Passed, InHand, Ending, At, Working
<1> QED BY <1>4, <1>5, <1>6, <1>10, <1>15 DEF MigrationInv

-----------------------------------------------------------------------------
(* The invariant, and what follows from it.                                *)

LEMMA NextInv == ASSUME MigrationInv, [Next]_vars PROVE MigrationInv'
<1>1. CASE UNCHANGED vars
    <2>1. UNCHANGED <<core, destinations, routes, secrets, step, stops, failures>>
        BY <1>1 DEF vars
    <2>2. MigrationTypeOK' /\ InHand'
        BY <2>1, SameTables
        DEF MigrationInv, MigrationTypeOK, InHand, Live, Unreferenced, OutputIn, Right
    <2>3. Passed'
        BY <2>1, SameTables DEF MigrationInv, Passed
    <2>4. Ending'
        BY <2>1, SameTables DEF MigrationInv, Ending, At, Working
    <2> QED BY <2>1, <2>2, <2>3, <2>4, SameTables DEF MigrationInv
<1>2. CASE Begin BY <1>2, BeginInv
<1>3. CASE UpsertDestination BY <1>3, UpsertDestinationInv
<1>4. CASE SyncSecret BY <1>4, SyncSecretInv
<1>5. CASE Link BY <1>5, LinkInv
<1>6. CASE DeleteUnlinked BY <1>6, DeleteUnlinkedInv
<1>7. CASE OutputsDone BY <1>7, OutputsDoneInv
<1>8. CASE UpsertRoute BY <1>8, UpsertRouteInv
<1>9. CASE RoutesDone BY <1>9, RoutesDoneInv
<1>10. CASE RemoveRoutes BY <1>10, RemoveRoutesInv
<1>11. CASE RemoveDestination BY <1>11, RemoveDestinationInv
<1>12. CASE RemoveSecret BY <1>12, RemoveSecretInv
<1>13. CASE StaleRemoved BY <1>13, StaleRemovedInv
<1>14. CASE ClearKeys BY <1>14, ClearKeysInv
<1>15. CASE ReplaceFile BY <1>15, ReplaceFileInv
<1>16. CASE ReplaceFails BY <1>16, ReplaceFailsInv
<1>17. CASE Stop BY <1>17, StopInv
<1> QED BY <1>1, <1>2, <1>3, <1>4, <1>5, <1>6, <1>7, <1>8, <1>9, <1>10, <1>11, <1>12,
           <1>13, <1>14, <1>15, <1>16, <1>17 DEF Next, Migrate

\* What an earlier version has left keeps the rules: a row of the entry whose key it
\* has and one of the older output, each with its secret.
LEMMA InitInv == ASSUME Init PROVE MigrationInv
<1>1. PICK left \in Earlier :
          /\ left.user = 1 \/ left.named => left.entry # 0
          /\ left.user = 2 => left.older
          /\ left.user # None \/ left.named => Routing # <<>>
          /\ destinations = DestinationRows(left) /\ routes = RouteRows(left)
          /\ secrets = [i \in Ids |-> IF i \in Live(DestinationRows(left))
                                      THEN left.secret ELSE None]
    BY DEF Init
<1>2. core = FALSE /\ step = Idle /\ stops = 0 /\ failures = 0
    BY DEF Init
<1>3. /\ left.entry \in 0..Len(Outputs) /\ left.older \in BOOLEAN
      /\ left.secret \in Payloads /\ left.user \in {None, 1, 2} /\ left.named \in BOOLEAN
    BY DEF Earlier
<1>4. 1 \in Ids /\ 2 \in Ids /\ 3 \in Ids /\ None \notin Ids
    BY MigrationAssumption, NoneApart
<1> DEFINE first == [key |-> Outputs[left.entry], owner |-> Administrator,
                     name |-> OutputOf[Outputs[left.entry]].name, secret |-> 1]
           second == [key |-> OlderOutput, owner |-> Administrator,
                      name |-> OlderOutput, secret |-> 2]
<1>5. left.entry # 0 =>
          /\ Outputs[left.entry] \in OutputKeys
          /\ OutputOf[Outputs[left.entry]].name \in OutputNames
    <2>1. left.entry # 0 => left.entry \in DOMAIN Outputs
        BY <1>3, Entries
    <2> QED BY <2>1, Entries DEF OutputNames
<1>6. /\ left.entry # 0 =>
             /\ first \in DestinationRecord /\ first.key = Outputs[left.entry]
             /\ first.name = OutputOf[first.key].name
      /\ first.secret = 1 /\ first.owner = Administrator
      /\ second \in DestinationRecord /\ second.key = OlderOutput
      /\ second.name = OlderOutput /\ second.secret = 2 /\ second.owner = Administrator
    BY <1>4, <1>5 DEF DestinationRecord
<1>7. /\ DOMAIN destinations = Ids
      /\ destinations = [i \in Ids |-> destinations[i]]
      /\ \A i \in Ids : destinations[i] =
             IF i = 1 /\ left.entry # 0 THEN first
             ELSE IF i = 2 /\ left.older THEN second ELSE None
    BY <1>1 DEF DestinationRows
<1> HIDE DEF first, second
<1>8. \A i \in Live(destinations) :
          \/ i = 1 /\ left.entry # 0 /\ destinations[i] = first
          \/ i = 2 /\ left.older /\ destinations[i] = second
    BY <1>7 DEF Live
<1>9. destinations \in [Ids -> DestinationRecord \cup {None}]
    <2>1. \A i \in Ids : destinations[i] \in DestinationRecord \cup {None}
        BY <1>6, <1>7
    <2> QED BY <1>7, <2>1
<1> DEFINE route == RouteOf[Routing[1]]
           older == [key |-> OlderRoute, owner |-> Administrator, name |-> OlderRoute,
                     source |-> OtherSource, to |-> 2, priority |-> 100]
           users == [key |-> None, owner |-> User, name |-> route.name,
                     source |-> route.source, to |-> left.user, priority |-> 1]
           named == [key |-> None, owner |-> Administrator, name |-> route.name,
                     source |-> OtherSource, to |-> 1, priority |-> 100]
<1>10. ASSUME Routing # <<>>
       PROVE  /\ Routing[1] \in RouteKeys /\ route.name \in RouteNames
              /\ route.source \in {RouteOf[r].source : r \in RouteKeys}
              /\ route.name # OlderRoute
    <2>1. 1 \in DOMAIN Routing
        BY <1>10, MigrationAssumption, Entries
    <2> QED BY <2>1, Entries, MigrationAssumption DEF RouteNames
<1> HIDE DEF route
<1>11. /\ older \in RouteRecord /\ older.key = OlderRoute /\ older.owner = Administrator
       /\ older.name = OlderRoute
       /\ left.user # None => users \in RouteRecord
       /\ users.key = None /\ users.owner = User /\ users.name = route.name
       /\ left.named => named \in RouteRecord
       /\ named.key = None /\ named.owner = Administrator
       /\ named.name = route.name
    BY <1>1, <1>3, <1>4, <1>10 DEF RouteRecord
<1>12. /\ DOMAIN routes = Ids
       /\ routes = [i \in Ids |-> routes[i]]
       /\ \A i \in Ids : routes[i] =
              IF i = 1 /\ left.older THEN older
              ELSE IF i = 2 /\ left.user # None THEN users
              ELSE IF i = 3 /\ left.named THEN named ELSE None
    BY <1>1 DEF RouteRows, route
<1> HIDE DEF older, users, named
<1>13. \A i \in Live(routes) :
           \/ i = 1 /\ routes[i] = older
           \/ i = 2 /\ left.user # None /\ routes[i] = users
           \/ i = 3 /\ left.named /\ routes[i] = named
    BY <1>12 DEF Live
<1>14. routes \in [Ids -> RouteRecord \cup {None}]
    <2>1. \A i \in Ids : routes[i] \in RouteRecord \cup {None}
        BY <1>11, <1>12
    <2> QED BY <1>12, <2>1
<1>15. /\ secrets \in [Ids -> Payloads \cup {None}]
       /\ \A i \in Live(destinations) : secrets[i] # None
    BY <1>1, <1>3, NoneApart DEF Live
<1>16. MigrationTypeOK
    <2>1. 0 \in 0..MaxStops /\ 0 \in 0..MaxFailures
        BY MigrationAssumption
    <2> QED BY <1>2, <1>9, <1>14, <1>15, <2>1, IdleOK DEF MigrationTypeOK
<1>17. Apart(destinations) /\ Apart(routes)
    <2>1. left.entry # 0 => first.key # second.key /\ first.name # second.name
        BY <1>5, <1>6, MigrationAssumption
    <2>2. Apart(destinations)
        BY <1>8, <2>1 DEF Apart
    <2>3. older.key # None /\ (left.named => older.name # named.name)
        BY <1>1, <1>10, <1>11, NoneApart
    <2>4. Apart(routes)
        BY <1>11, <1>13, <2>3, MigrationAssumption DEF Apart
    <2> QED BY <2>2, <2>4
<1>18. KeysTell
    <2>1. \A i \in Live(destinations) :
              /\ destinations[i].key \in OutputKeys =>
                     destinations[i].name = OutputOf[destinations[i].key].name
              /\ destinations[i].key # OlderOutput => destinations[i].name # OlderOutput
        BY <1>5, <1>6, <1>8, MigrationAssumption
    <2>2. \A i \in Live(routes) :
              /\ routes[i].key # None => routes[i].owner = Administrator
              /\ routes[i].key \in RouteKeys => routes[i].name = RouteOf[routes[i].key].name
              /\ routes[i].key # OlderRoute => routes[i].name # OlderRoute
        BY <1>1, <1>10, <1>11, <1>13, NoneApart, MigrationAssumption
    <2> QED BY <2>1, <2>2 DEF KeysTell
<1>19. SecretsThere
    <2>1. \A i \in Live(destinations) : destinations[i].secret = i
        BY <1>6, <1>8
    <2> QED BY <1>15, <2>1 DEF SecretsThere
<1>20. Passed /\ InHand /\ Ending
    BY <1>2 DEF Passed, InHand, Ending, Idle, At, Working
<1> QED BY <1>16, <1>17, <1>18, <1>19, <1>20 DEF MigrationInv

LEMMA InvAlways == Spec => []MigrationInv
<1>1. Init => MigrationInv
    BY InitInv
<1>2. MigrationInv /\ [Next]_vars => MigrationInv'
    BY NextInv
<1> QED BY <1>1, <1>2, PTL DEF Spec

\* The configuration, the tables and the place of the migration keep their types.
THEOREM MigrationTyped == Spec => []MigrationTypeOK
<1>1. MigrationInv => MigrationTypeOK
    BY DEF MigrationInv
<1> QED BY <1>1, InvAlways, PTL

\* When config.yaml stops being the authority, every entry of it is one row of the
\* administrator with its credential and its destination, and what the file had lost
\* is gone, however often earlier runs were broken off.
THEOREM ImportIsWhole == Spec => []ImportedWhole
<1>1. MigrationInv => ImportedWhole
    BY DEF MigrationInv, Ending, ImportedWhole
<1> QED BY <1>1, InvAlways, PTL

\* No row refers to a secret that is not there or that another row refers to,
\* between any two of the transactions.
THEOREM SecretsStayThere == Spec => []SecretsThere
<1>1. MigrationInv => SecretsThere
    BY DEF MigrationInv
<1> QED BY <1>1, InvAlways, PTL

\* A step leaves the routes of users as they are: what it adopts has a key, which
\* only rows of the administrator have, or is the administrator's.
LEMMA UserRowsStay ==
    ASSUME MigrationInv, [Next]_vars, NEW i \in Ids, routes[i] # None,
           routes[i].owner = User
    PROVE  routes'[i] = routes[i]
<1>1. /\ i \in Live(routes) /\ routes[i].owner # Administrator /\ routes[i].key = None
      /\ i \notin StaleRoutes
    <2>1. i \in Live(routes) /\ routes[i].owner # Administrator
        BY MigrationAssumption DEF Live
    <2>2. routes[i].key = None
        BY <2>1 DEF MigrationInv, KeysTell
    <2> QED BY <2>1, <2>2 DEF StaleRoutes
<1>2. CASE UpsertRoute
    <2>1. step.entry \in DOMAIN Routing
        BY <1>2, Entries DEF UpsertRoute, MigrationInv, MigrationTypeOK, Position
    <2>2. PICK r \in RouteKeys : r = Routing[step.entry]
        BY <2>1, Entries
    <2>3. PICK j \in (IF RouteRow(r) # {} THEN RouteRow(r) ELSE Fresh(routes)) :
              \/ \E row : routes' = [routes EXCEPT ![j] = row]
              \/ UNCHANGED routes
        BY <1>2, <2>2 DEF UpsertRoute
    <2>4. j # i
        BY <1>1, ChosenRoute
    <2>5. routes \in [Ids -> RouteRecord \cup {None}]
        BY DEF MigrationInv, MigrationTypeOK
    <2> QED BY <2>3, <2>4, <2>5
<1>3. CASE RemoveRoutes
    BY <1>1, <1>3 DEF RemoveRoutes
<1>4. CASE ClearKeys
    <2>1. Unkeyed(routes)[i] = routes[i]
        BY <1>1, UnkeyedRows
    <2> QED BY <1>4, <2>1 DEF ClearKeys
<1>5. CASE \/ Begin \/ UpsertDestination \/ SyncSecret \/ Link \/ DeleteUnlinked
           \/ OutputsDone \/ RoutesDone \/ RemoveDestination \/ RemoveSecret
           \/ StaleRemoved \/ ReplaceFile \/ ReplaceFails \/ Stop \/ UNCHANGED vars
    BY <1>5 DEF Begin, UpsertDestination, SyncSecret, Link, DeleteUnlinked, OutputsDone,
                RoutesDone, RemoveDestination, RemoveSecret, StaleRemoved, ReplaceFile,
                ReplaceFails, Stop, vars
<1> QED BY <1>2, <1>3, <1>4, <1>5 DEF Next, Migrate

\* The import never takes, changes or removes a route that a user has made.
THEOREM UsersStayUntouched == Spec => UsersUntouched
<1>1. MigrationInv /\ [Next]_vars =>
          [\A i \in Ids : (routes[i] # None /\ routes[i].owner = User)
                              => routes'[i] = routes[i]]_vars
    BY UserRowsStay
<1> QED BY <1>1, InvAlways, PTL DEF Spec, UsersUntouched

=============================================================================
