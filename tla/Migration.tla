----------------------------- MODULE Migration -----------------------------
(***************************************************************************)
(* synchronize() of storage/configuration_sync.py with a configuration of  *)
(* an older version: the outputs and routes of config.yaml become rows and *)
(* secrets, in many transactions, then the file loses them and the         *)
(* database is the authority.  Any step may be the last one before a stop, *)
(* and the replacement of the file may fail; the next event or request runs*)
(* the whole of it again.                                                  *)
(*                                                                         *)
(* The rows of one administrator, the owner of everything imported, may be *)
(* there from an earlier version (with keys) or from a run before.         *)
(***************************************************************************)
EXTENDS Naturals, Sequences, FiniteSets

CONSTANTS
    Outputs,      \* entries of outputs, in the order of the file
    Routing,      \* entries of routing, in the order of the file
    OutputOf,     \* OutputOf[d]: [name, aliases, secret] of an entry of outputs
    RouteOf,      \* RouteOf[r]: [name, source, output, priority] of an entry of routing
    OlderOutput,  \* an entry that has left the file since it was imported
    OlderRoute,
    OtherSource,
    Payloads,     \* contents of secrets
    Ids,          \* row and secret identifiers
    Administrator, User,
    None,
    MaxStops,     \* bound: stops of the process in the middle of a migration
    MaxFailures   \* bound: replacements of the file that fail

VARIABLES
    core,          \* config.yaml: is it down to what starts the process?
    destinations,  \* rows
    routes,        \* rows
    secrets,       \* the content of each secret, or None
    step,          \* where the migration is
    stops, failures

vars == <<core, destinations, routes, secrets, step, stops, failures>>

-----------------------------------------------------------------------------

OutputKeys == {Outputs[i] : i \in DOMAIN Outputs}
RouteKeys == {Routing[i] : i \in DOMAIN Routing}

OutputNames == {OutputOf[d].name : d \in OutputKeys}
RouteNames == {RouteOf[r].name : r \in RouteKeys}

\* Two entries may have one name, and the name of one may be an alias of another.
\* What has left the file has a key and a name that no entry has.
ASSUME MigrationAssumption ==
    /\ Outputs \in Seq(OutputKeys) /\ Routing \in Seq(RouteKeys)
    /\ OlderOutput \notin OutputKeys \cup OutputNames
    /\ OlderRoute \notin RouteKeys \cup RouteNames
    /\ \A d \in OutputKeys : OutputOf[d].secret \in Payloads \cup {None}
    /\ \A r \in RouteKeys : RouteOf[r].output \in OutputKeys
    /\ 1..3 \subseteq Ids
    /\ Administrator # User
    /\ {MaxStops, MaxFailures} \subseteq Nat

\* The rows of the two tables.
DestinationRecord ==
    [key : OutputKeys \cup {OlderOutput, None}, owner : {Administrator},
     name : OutputNames \cup {OlderOutput}, secret : Ids \cup {None}]
RouteRecord ==
    [key : RouteKeys \cup {OlderRoute, None}, owner : {Administrator, User},
     name : RouteNames \cup {OlderRoute},
     source : {RouteOf[r].source : r \in RouteKeys} \cup {OtherSource},
     to : Ids, priority : {RouteOf[r].priority : r \in RouteKeys} \cup {1, 100}]

\* NULL, and no row, is neither a row nor a value of one.
ASSUME NoneAssumption ==
    None \notin Ids \cup Payloads \cup OutputKeys \cup RouteKeys
                  \cup {OlderOutput, OlderRoute} \cup DestinationRecord \cup RouteRecord

Live(table) == {i \in Ids : table[i] # None}

\* An identifier that no row has: uuid4 makes one.
Fresh(table) ==
    IF Live(table) = Ids THEN {} ELSE {CHOOSE i \in Ids : table[i] = None}

\* UNIQUE(owner_user_id, name_normalized)
NameTaken(table, i, name) ==
    \E j \in Live(table) \ {i} :
        table[j].owner = Administrator /\ table[j].name = name

Working == step.at # "idle"

At(where) == step.at = where
\* The entry the loop is at, with the row and the secret in hand.
GoWith(where, i, row, secret) ==
    step' = [at |-> where, entry |-> i, row |-> row, secret |-> secret]
Go(where, i) == GoWith(where, i, None, None)
Idle == [at |-> "idle", entry |-> 1, row |-> None, secret |-> None]

\* The exception that synchronize reports: YAML stays in force.
GiveUp == step' = Idle

Bounds == <<stops, failures>>

-----------------------------------------------------------------------------

\* An event or a request finds the file of the older version; only one thread
\* at a time (_SYNC_LOCK).
Begin ==
    /\ ~Working /\ ~core
    /\ Go("output", 1)
    /\ UNCHANGED <<core, destinations, routes, secrets, Bounds>>

\* _upsert_destination: the row with the key, or one without a key that has a
\* name of the entry (the oldest, to the second: any of them).
DestinationRow(d) ==
    LET keyed == {i \in Live(destinations) : destinations[i].key = d}
        alike == {i \in Live(destinations) :
                     /\ destinations[i].key = None
                     /\ destinations[i].owner = Administrator
                     /\ destinations[i].name \in OutputOf[d].aliases}
    IN  IF keyed # {} THEN keyed ELSE alike

UpsertDestination ==
    /\ At("output") /\ step.entry <= Len(Outputs)
    /\ LET d == Outputs[step.entry]
           found == DestinationRow(d)
       IN  \E i \in (IF found # {} THEN found ELSE Fresh(destinations)) :
              \/ /\ ~NameTaken(destinations, i, OutputOf[d].name)
                 /\ destinations' = [destinations EXCEPT ![i] =
                        [key |-> d, owner |-> Administrator, name |-> OutputOf[d].name,
                         secret |-> IF @ = None THEN None ELSE @.secret]]
                 /\ GoWith("secret", step.entry, i, None)
              \/ /\ NameTaken(destinations, i, OutputOf[d].name)
                 /\ GiveUp
                 /\ UNCHANGED destinations
    /\ UNCHANGED <<core, routes, secrets, Bounds>>

NextOutput == Go("output", step.entry + 1)

\* Mutant: a row that has a secret keeps it.
KeepSecret ==
    /\ At("secret")
    /\ LET wanted == OutputOf[Outputs[step.entry]].secret
           current == destinations[step.row].secret
       IN  \/ /\ wanted # None /\ current = None
              /\ \E s \in Fresh(secrets) :
                     /\ secrets' = [secrets EXCEPT ![s] = wanted]
                     /\ GoWith("link", step.entry, step.row, s)
              /\ UNCHANGED destinations
           \/ /\ wanted = None \/ current # None
              /\ NextOutput
              /\ UNCHANGED <<destinations, secrets>>
    /\ UNCHANGED <<core, routes, Bounds>>

\* _sync_secret.  A secret is made, or changed, before the row refers to it ...
SyncSecret ==
    /\ At("secret")
    /\ LET wanted == OutputOf[Outputs[step.entry]].secret
           current == destinations[step.row].secret
       IN  \/ /\ wanted # None /\ current = None
              /\ \E s \in Fresh(secrets) :
                     /\ secrets' = [secrets EXCEPT ![s] = wanted]
                     /\ GoWith("link", step.entry, step.row, s)
              /\ UNCHANGED destinations
           \/ /\ wanted # None /\ current # None
              /\ secrets' = [secrets EXCEPT ![current] = wanted]
              /\ NextOutput
              /\ UNCHANGED destinations
           \/ /\ wanted = None /\ current # None
              /\ destinations' = [destinations EXCEPT ![step.row].secret = None]
              /\ GoWith("unlinked", step.entry, None, current)
              /\ UNCHANGED secrets
           \/ /\ wanted = None /\ current = None
              /\ NextOutput
              /\ UNCHANGED <<destinations, secrets>>
    /\ UNCHANGED <<core, routes, Bounds>>

Link ==
    /\ At("link")
    /\ destinations' = [destinations EXCEPT ![step.row].secret = step.secret]
    /\ NextOutput
    /\ UNCHANGED <<core, routes, secrets, Bounds>>

\* ... and deleted when no row does.
DeleteUnlinked ==
    /\ At("unlinked")
    /\ secrets' = [secrets EXCEPT ![step.secret] = None]
    /\ NextOutput
    /\ UNCHANGED <<core, destinations, routes, Bounds>>

OutputsDone ==
    /\ At("output") /\ step.entry > Len(Outputs)
    /\ Go("route", 1)
    /\ UNCHANGED <<core, destinations, routes, secrets, Bounds>>

-----------------------------------------------------------------------------

\* The destination of an entry was upserted in this run.
DestinationOf(r) ==
    CHOOSE i \in Live(destinations) : destinations[i].key = RouteOf[r].output

\* Mutant: the row to adopt may be anybody's.
AnyRouteRow(r) ==
    LET keyed == {i \in Live(routes) : routes[i].key = r}
        alike == {i \in Live(routes) :
                     /\ routes[i].key = None
                     /\ routes[i].source = RouteOf[r].source
                     /\ routes[i].to = DestinationOf(r)}
    IN  IF keyed # {} THEN keyed ELSE alike

\* _upsert_route: the row with the key; or the first by priority without a key
\* that takes the source to the destination; or one of the name.
RouteRow(r) ==
    LET keyed == {i \in Live(routes) : routes[i].key = r}
        free == {i \in Live(routes) :
                    routes[i].key = None /\ routes[i].owner = Administrator}
        alike == {i \in free : /\ routes[i].source = RouteOf[r].source
                               /\ routes[i].to = DestinationOf(r)}
        first == {i \in alike : \A j \in alike : routes[i].priority <= routes[j].priority}
        named == {i \in free : routes[i].name = RouteOf[r].name}
    IN  IF keyed # {} THEN keyed ELSE IF first # {} THEN first ELSE named

UpsertRoute ==
    /\ At("route") /\ step.entry <= Len(Routing)
    /\ LET r == Routing[step.entry]
           found == RouteRow(r)
       IN  \E i \in (IF found # {} THEN found ELSE Fresh(routes)) :
              \/ /\ ~NameTaken(routes, i, RouteOf[r].name)
                 /\ routes' = [routes EXCEPT ![i] =
                        [key |-> r, owner |-> Administrator, name |-> RouteOf[r].name,
                         source |-> RouteOf[r].source, to |-> DestinationOf(r),
                         priority |-> RouteOf[r].priority]]
                 /\ Go("route", step.entry + 1)
              \/ /\ NameTaken(routes, i, RouteOf[r].name)
                 /\ GiveUp
                 /\ UNCHANGED routes
    /\ UNCHANGED <<core, destinations, secrets, Bounds>>

RoutesDone ==
    /\ At("route") /\ step.entry > Len(Routing)
    /\ Go("stale", 1)
    /\ UNCHANGED <<core, destinations, routes, secrets, Bounds>>

-----------------------------------------------------------------------------
(* _remove_stale: what an earlier version imported and the file has lost.  *)

StaleRoutes == {i \in Live(routes) : routes[i].key \notin RouteKeys \cup {None}}
StaleDestinations ==
    {i \in Live(destinations) : destinations[i].key \notin OutputKeys \cup {None}}

RemoveRoutes ==
    /\ At("stale") /\ step.entry = 1
    /\ routes' = [i \in Ids |-> IF i \in StaleRoutes THEN None ELSE routes[i]]
    /\ Go("stale", 2)
    /\ UNCHANGED <<core, destinations, secrets, Bounds>>

\* Mutant: the secret goes before the row that refers to it.
RemoveSecretFirst ==
    /\ At("stale") /\ step.entry = 2
    /\ \E i \in StaleDestinations :
           /\ destinations[i].secret # None
           /\ secrets' = [secrets EXCEPT ![destinations[i].secret] = None]
    /\ UNCHANGED <<core, destinations, routes, Bounds, step>>

\* One destination a transaction: a route to it that is left, of any user,
\* forbids it (ON DELETE RESTRICT).
RemoveDestination ==
    /\ At("stale") /\ step.entry = 2
    /\ \E i \in StaleDestinations :
           \/ /\ \A j \in Live(routes) : routes[j].to # i
              /\ destinations' = [destinations EXCEPT ![i] = None]
              /\ IF destinations[i].secret = None
                 THEN UNCHANGED step
                 ELSE GoWith("orphan", 2, None, destinations[i].secret)
           \/ /\ \E j \in Live(routes) : routes[j].to = i
              /\ GiveUp
              /\ UNCHANGED destinations
    /\ UNCHANGED <<core, routes, secrets, Bounds>>

RemoveSecret ==
    /\ At("orphan")
    /\ secrets' = [secrets EXCEPT ![step.secret] = None]
    /\ Go("stale", 2)
    /\ UNCHANGED <<core, destinations, routes, Bounds>>

\* The tokens and settings that are imported next are known by hash and by key;
\* nothing here depends on them.
StaleRemoved ==
    /\ At("stale") /\ step.entry = 2 /\ StaleDestinations = {}
    /\ Go("clear", 1)
    /\ UNCHANGED <<core, destinations, routes, secrets, Bounds>>

-----------------------------------------------------------------------------
(* The end: the rows lose their keys, the file loses the resources.        *)

Unkeyed(table) ==
    [i \in Ids |-> IF table[i] = None THEN None ELSE [table[i] EXCEPT !.key = None]]

ClearKeys ==
    /\ At("clear")
    /\ destinations' = Unkeyed(destinations)
    /\ routes' = Unkeyed(routes)
    /\ Go("replace", 1)
    /\ UNCHANGED <<core, secrets, Bounds>>

ReplaceFile ==
    /\ At("replace")
    /\ core' = TRUE
    /\ step' = Idle
    /\ UNCHANGED <<destinations, routes, secrets, Bounds>>

ReplaceFails ==
    /\ At("replace") /\ failures < MaxFailures
    /\ failures' = failures + 1
    /\ GiveUp
    /\ UNCHANGED <<core, destinations, routes, secrets, stops>>

Stop ==
    /\ Working /\ stops < MaxStops
    /\ stops' = stops + 1
    /\ step' = Idle
    /\ UNCHANGED <<core, destinations, routes, secrets, failures>>

-----------------------------------------------------------------------------

\* What an earlier version has left: one entry of outputs, and one that is not in
\* the file any more, each with its key and a secret; a route of a user to one of
\* the two; and a route of the administrator with the name of an entry.
Earlier == [entry : 0..Len(Outputs), older : BOOLEAN, secret : Payloads,
            user : {None, 1, 2}, named : BOOLEAN]

DestinationRows(left) ==
    [i \in Ids |->
        CASE i = 1 /\ left.entry # 0 ->
                [key |-> Outputs[left.entry], owner |-> Administrator,
                 name |-> OutputOf[Outputs[left.entry]].name, secret |-> 1]
          [] i = 2 /\ left.older ->
                [key |-> OlderOutput, owner |-> Administrator, name |-> OlderOutput,
                 secret |-> 2]
          [] OTHER -> None]

RouteRows(left) ==
    LET first == RouteOf[Routing[1]]
    IN  [i \in Ids |->
            CASE i = 1 /\ left.older ->
                    [key |-> OlderRoute, owner |-> Administrator, name |-> OlderRoute,
                     source |-> OtherSource, to |-> 2, priority |-> 100]
              [] i = 2 /\ left.user # None ->
                    [key |-> None, owner |-> User, name |-> first.name,
                     source |-> first.source, to |-> left.user, priority |-> 1]
              [] i = 3 /\ left.named ->
                    [key |-> None, owner |-> Administrator, name |-> first.name,
                     source |-> OtherSource, to |-> 1, priority |-> 100]
              [] OTHER -> None]

Init ==
    /\ core = FALSE
    /\ \E left \in Earlier :
           /\ left.user = 1 \/ left.named => left.entry # 0
           /\ left.user = 2 => left.older
           /\ left.user # None \/ left.named => Routing # <<>>
           /\ destinations = DestinationRows(left)
           /\ routes = RouteRows(left)
           /\ secrets = [i \in Ids |-> IF i \in Live(DestinationRows(left))
                                      THEN left.secret ELSE None]
    /\ step = Idle
    /\ stops = 0 /\ failures = 0

Migrate ==
    \/ UpsertDestination \/ SyncSecret \/ Link \/ DeleteUnlinked \/ OutputsDone
    \/ UpsertRoute \/ RoutesDone
    \/ RemoveRoutes \/ RemoveDestination \/ RemoveSecret \/ StaleRemoved
    \/ ClearKeys \/ ReplaceFile

Next ==
    \/ Begin
    \/ Migrate
    \/ ReplaceFails
    \/ Stop

\* Events and requests keep coming, and a migration that runs runs on.
Spec == Init /\ [][Next]_vars /\ WF_vars(Begin \/ Migrate)

-----------------------------------------------------------------------------

\* Administrator's rows that an entry of the file has become.
Imported(d) == {i \in Live(destinations) : /\ destinations[i].owner = Administrator
                                           /\ destinations[i].name = OutputOf[d].name}

ImportedRoute(r) == {i \in Live(routes) : /\ routes[i].owner = Administrator
                                          /\ routes[i].name = RouteOf[r].name}

\* The row holds the credential of the entry, or none when the entry has none.
Right(d, i) ==
    IF OutputOf[d].secret = None
    THEN destinations[i].secret = None
    ELSE /\ destinations[i].secret # None
         /\ secrets[destinations[i].secret] = OutputOf[d].secret

Whole ==
    /\ \A d \in OutputKeys : \E i \in Ids : Imported(d) = {i} /\ Right(d, i)
    /\ \A r \in RouteKeys : \E i \in Ids :
           /\ ImportedRoute(r) = {i}
           /\ routes[i].source = RouteOf[r].source
           /\ Imported(RouteOf[r].output) = {routes[i].to}
    /\ \A i \in Live(destinations) : destinations[i].name # OlderOutput
    /\ \A i \in Live(routes) : routes[i].name # OlderRoute

\* When the file stops being the authority, the database says what the file said:
\* each entry is one row, with its credential and its destination, and nothing
\* is left of what the file had lost, wherever earlier runs were broken off.
ImportedWhole == core => Whole

\* No row ever refers to a secret that is not there, or to one of another row.
SecretsThere ==
    \A i \in Live(destinations) :
        destinations[i].secret # None =>
            /\ secrets[destinations[i].secret] # None
            /\ \A j \in Live(destinations) \ {i} :
                   destinations[j].secret # destinations[i].secret

\* The import never takes, changes or removes what a user has made.
UsersUntouched ==
    [][ \A i \in Ids :
            (routes[i] # None /\ routes[i].owner = User) => routes'[i] = routes[i] ]_vars

\* The parts of the invariant from which these two and UsersUntouched follow.
Places == {"idle", "output", "secret", "link", "unlinked", "route", "stale",
           "orphan", "clear", "replace"}

Position ==
    [at : Places, entry : Nat \ {0}, row : Ids \cup {None}, secret : Ids \cup {None}]

MigrationTypeOK ==
    /\ core \in BOOLEAN
    /\ destinations \in [Ids -> DestinationRecord \cup {None}]
    /\ routes \in [Ids -> RouteRecord \cup {None}]
    /\ secrets \in [Ids -> Payloads \cup {None}]
    /\ step \in Position
    /\ stops \in 0..MaxStops /\ failures \in 0..MaxFailures

\* No two rows of a table have a key, or an administrator's name, in common.
Apart(table) ==
    \A i, j \in Live(table) :
        i # j => /\ table[i].key # None => table[i].key # table[j].key
                 /\ table[i].owner = Administrator /\ table[j].owner = Administrator
                        => table[i].name # table[j].name

\* What a row has from the entry that its key names.
KeysTell ==
    /\ \A i \in Live(destinations) :
           /\ destinations[i].key \in OutputKeys =>
                  destinations[i].name = OutputOf[destinations[i].key].name
           /\ destinations[i].key # OlderOutput => destinations[i].name # OlderOutput
    /\ \A i \in Live(routes) :
           /\ routes[i].key # None => routes[i].owner = Administrator
           /\ routes[i].key \in RouteKeys => routes[i].name = RouteOf[routes[i].key].name
           /\ routes[i].key # OlderRoute => routes[i].name # OlderRoute

\* The entries behind the place of the migration are in the tables.
OutputIn(d) == \E i \in Live(destinations) : destinations[i].key = d /\ Right(d, i)
RouteIn(r) ==
    \E i \in Live(routes) :
        /\ routes[i].key = r /\ routes[i].source = RouteOf[r].source
        /\ routes[i].to \in Live(destinations)
        /\ destinations[routes[i].to].key = RouteOf[r].output

Passed ==
    /\ \A j \in DOMAIN Outputs :
           \/ step.at \in {"route", "stale", "orphan", "clear"}
           \/ step.at \in {"output", "secret", "link", "unlinked"} /\ j < step.entry
           => OutputIn(Outputs[j])
    /\ \A j \in DOMAIN Routing :
           \/ step.at \in {"stale", "orphan", "clear"}
           \/ step.at = "route" /\ j < step.entry
           => RouteIn(Routing[j])
    /\ step.at \in {"orphan", "clear"} \/ (step.at = "stale" /\ step.entry = 2)
           => StaleRoutes = {}
    /\ step.at = "clear" => StaleDestinations = {}

\* The row and the secret the migration has in hand between two transactions.
Unreferenced(s) == \A i \in Live(destinations) : destinations[i].secret # s

InHand ==
    /\ step.at \in {"secret", "link", "unlinked"} => step.entry \in DOMAIN Outputs
    /\ step.at \in {"secret", "link"} =>
           step.row \in Live(destinations) /\ destinations[step.row].key = Outputs[step.entry]
    /\ step.at \in {"link", "unlinked", "orphan"} =>
           step.secret \in Ids /\ Unreferenced(step.secret)
    /\ step.at = "link" =>
           /\ destinations[step.row].secret = None
           /\ OutputOf[Outputs[step.entry]].secret # None
           /\ secrets[step.secret] = OutputOf[Outputs[step.entry]].secret
    /\ step.at = "unlinked" => OutputIn(Outputs[step.entry])

Ending ==
    /\ core => ~Working
    /\ core \/ At("replace") => Whole

MigrationInv ==
    /\ MigrationTypeOK
    /\ Apart(destinations) /\ Apart(routes) /\ KeysTell
    /\ SecretsThere
    /\ Passed /\ InHand /\ Ending

\* "Migrate legacy YAML once, then only refresh the runtime overlay"
\* (synchronize): after the last stop and the last failure the migration comes to
\* its end.
MigratesOnce == <>core

=============================================================================
