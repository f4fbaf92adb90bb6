------------------------------ MODULE Registry ------------------------------
(***************************************************************************)
(* The routing tables of the platform database - users, destinations and   *)
(* routes - and the requests of the management API that change them.       *)
(*                                                                         *)
(* One request runs on one thread of the HTTP server (an Editor).  It is   *)
(* authenticated first, and the Actor made then is the one every later     *)
(* permission check uses.  A store call is one database transaction        *)
(* (storage/database.py keeps one lock for the life of a connection), so   *)
(* it is one step here; the two update calls read the row in one           *)
(* connection and write it back in a later transaction, so they are two    *)
(* steps, and anything may happen in between.                              *)
(*                                                                         *)
(* Row identifiers are uuid4 values: never issued twice, hence the two     *)
(* kinds of absent row.  Names and settings are not modelled; a route's    *)
(* source, filters and priority are one value of Criteria.                 *)
(***************************************************************************)
EXTENDS Naturals

CONSTANTS
    Users, Destinations, Routes,  \* the identifiers that can be issued
    Criteria,   \* what a route may ask of an event: [source, events, priority]
    Wildcard,   \* the source '*' of a fallback route
    Editors,    \* threads of the HTTP server running a management request
    Root,       \* the administrator made by the bootstrap
    Unissued, Deleted,  \* the two values of an absent row
    Idle        \* a thread without a request

VARIABLES
    users,         \* table users
    destinations,  \* table destinations
    routes,        \* table routes
    requests       \* what each thread of the API is doing

registryVars == <<users, destinations, routes, requests>>

-----------------------------------------------------------------------------

UserRow == [role : {"admin", "user"}, enabled : BOOLEAN]

DestinationRow == [owner : Users, shared : BOOLEAN, enabled : BOOLEAN]

RouteRow ==
    [owner : Users, destination : Destinations, criteria : Criteria,
     enabled : BOOLEAN]

Absent == {Unissued, Deleted}

\* An Actor: the user and the role the session carried when it was admitted.
Actor == [user : Users, admin : BOOLEAN]

\* A request is admitted, or is between the read and the write of an update.
Request ==
         [step : {"admitted"}, actor : Actor]
    \cup [step : {"route"}, actor : Actor, id : Routes, row : RouteRow]
    \cup [step : {"destination"}, actor : Actor, id : Destinations,
          row : DestinationRow]

ASSUME RootAssumption == Root \in Users

ASSUME CriteriaAssumption ==
    \A c \in Criteria : c.priority \in Nat

ASSUME AbsentAssumption ==
    /\ Unissued # Deleted
    /\ \A x \in Absent :
           x \notin UserRow \cup DestinationRow \cup RouteRow
    /\ Idle \notin Request

Live(table, id) == table[id] \notin Absent

IsAdmin(us, u) ==
    us[u] \notin Absent /\ us[u].role = "admin" /\ us[u].enabled

\* OwnershipPolicy.can_write and can_read, on the Actor of the request.
CanWrite(actor, owner) == actor.admin \/ actor.user = owner

CanRead(actor, owner, shared) == CanWrite(actor, owner) \/ shared

\* The check create and update make on the destination of a route.
Usable(ds, d, owner) ==
    /\ ds[d] \notin Absent
    /\ ds[d].owner = owner \/ ds[d].shared

\* Mutant: the count before a destination stops being shared is not made.
ExternalRoutesUncounted(d, owner) == {}

\* SELECT COUNT(*) FROM routes WHERE destination_id = ? AND owner_user_id != ?
ExternalRoutes(d, owner) ==
    {r \in Routes : /\ Live(routes, r)
                    /\ routes[r].destination = d
                    /\ routes[r].owner # owner}

\* Mutant: administrators that are disabled are counted too.
OtherAdminsCountingDisabled(u) ==
    {v \in Users \ {u} : Live(users, v) /\ users[v].role = "admin"}

\* The count users.set_enabled and users.delete make before an administrator
\* goes away.
OtherAdmins(u) == {v \in Users \ {u} : IsAdmin(users, v)}

-----------------------------------------------------------------------------

Init ==
    /\ users = [u \in Users |->
                    IF u = Root THEN [role |-> "admin", enabled |-> TRUE]
                                ELSE Unissued]
    /\ destinations = [d \in Destinations |-> Unissued]
    /\ routes = [r \in Routes |-> Unissued]
    /\ requests = [e \in Editors |-> Idle]

\* A request is authenticated: the session of an enabled user gives the Actor.
Admit(e, u) ==
    /\ requests[e] = Idle
    /\ Live(users, u)
    /\ users[u].enabled
    /\ requests' =
           [requests EXCEPT ![e] =
               [step |-> "admitted",
                actor |-> [user |-> u, admin |-> users[u].role = "admin"]]]
    /\ UNCHANGED <<users, destinations, routes>>

\* The request ends without a change: a refused permission, an invalid
\* payload, a name that is taken, a row that is no longer there.
Refuse(e) ==
    /\ requests[e] # Idle
    /\ requests' = [requests EXCEPT ![e] = Idle]
    /\ UNCHANGED <<users, destinations, routes>>

Admitted(e) == requests[e] # Idle /\ requests[e].step = "admitted"

Finish(e) == requests' = [requests EXCEPT ![e] = Idle]

CreateUser(e, u, role) ==
    /\ Admitted(e)
    /\ requests[e].actor.admin
    /\ users[u] = Unissued
    /\ users' = [users EXCEPT ![u] = [role |-> role, enabled |-> TRUE]]
    /\ Finish(e)
    /\ UNCHANGED <<destinations, routes>>

SetUserEnabled(e, u, enabled) ==
    /\ Admitted(e)
    /\ requests[e].actor.admin
    /\ Live(users, u)
    /\ ~enabled /\ IsAdmin(users, u) => OtherAdmins(u) # {}
    /\ users' = [users EXCEPT ![u].enabled = enabled]
    /\ Finish(e)
    /\ UNCHANGED <<destinations, routes>>

\* The rows a user must not own to be deleted (blockers); secret records and
\* backup destinations block in the same way and are not tables of this module.
OwnsDestinations(u) ==
    \E d \in Destinations : Live(destinations, d) /\ destinations[d].owner = u

\* The routes of the user go with the row (ON DELETE CASCADE).
DeleteUser(e, u) ==
    /\ Admitted(e)
    /\ requests[e].actor.admin
    /\ requests[e].actor.user # u
    /\ Live(users, u)
    /\ IsAdmin(users, u) => OtherAdmins(u) # {}
    /\ ~OwnsDestinations(u)
    /\ users' = [users EXCEPT ![u] = Deleted]
    /\ routes' = [r \in Routes |->
                     IF Live(routes, r) /\ routes[r].owner = u
                     THEN Deleted ELSE routes[r]]
    /\ Finish(e)
    /\ UNCHANGED destinations

CreateDestination(e, d, row) ==
    /\ Admitted(e)
    /\ CanWrite(requests[e].actor, row.owner)
    /\ row.shared => requests[e].actor.admin
    /\ destinations[d] = Unissued
    /\ Live(users, row.owner)
    /\ users[row.owner].enabled
    /\ destinations' = [destinations EXCEPT ![d] = row]
    /\ Finish(e)
    /\ UNCHANGED <<users, routes>>

SetDestinationEnabled(e, d, enabled) ==
    /\ Admitted(e)
    /\ Live(destinations, d)
    /\ CanWrite(requests[e].actor, destinations[d].owner)
    /\ destinations' = [destinations EXCEPT ![d].enabled = enabled]
    /\ Finish(e)
    /\ UNCHANGED <<users, routes>>

SetDestinationShared(e, d, shared) ==
    /\ Admitted(e)
    /\ requests[e].actor.admin
    /\ Live(destinations, d)
    /\ ~shared => ExternalRoutes(d, destinations[d].owner) = {}
    /\ destinations' = [destinations EXCEPT ![d].shared = shared]
    /\ Finish(e)
    /\ UNCHANGED <<users, routes>>

\* The first half of an update: the row is read, the permission is checked
\* and the whole new row is worked out, fields the payload does not name
\* included.  Only an administrator's row may differ in "shared" from the one
\* that was read.
ReadDestination(e, d, row) ==
    /\ Admitted(e)
    /\ Live(destinations, d)
    /\ CanWrite(requests[e].actor, destinations[d].owner)
    /\ row.owner = destinations[d].owner
    /\ row.shared # destinations[d].shared => requests[e].actor.admin
    /\ requests' =
           [requests EXCEPT ![e] =
               [step |-> "destination", actor |-> requests[e].actor,
                id |-> d, row |-> row]]
    /\ UNCHANGED <<users, destinations, routes>>

\* The second half: UPDATE ... WHERE id, which writes nothing when the row
\* has been deleted in the meantime.
UpdateDestination(e) ==
    /\ requests[e] # Idle
    /\ requests[e].step = "destination"
    /\ LET d == requests[e].id
           row == requests[e].row
       IN  /\ ~row.shared => ExternalRoutes(d, row.owner) = {}
           /\ destinations' =
                  IF Live(destinations, d)
                  THEN [destinations EXCEPT ![d] = row]
                  ELSE destinations
    /\ Finish(e)
    /\ UNCHANGED <<users, routes>>

\* routes.destination_id is ON DELETE RESTRICT.
DeleteDestination(e, d) ==
    /\ Admitted(e)
    /\ Live(destinations, d)
    /\ CanWrite(requests[e].actor, destinations[d].owner)
    /\ \A r \in Routes : Live(routes, r) => routes[r].destination # d
    /\ destinations' = [destinations EXCEPT ![d] = Deleted]
    /\ Finish(e)
    /\ UNCHANGED <<users, routes>>

CreateRoute(e, r, row) ==
    /\ Admitted(e)
    /\ CanWrite(requests[e].actor, row.owner)
    /\ row.criteria.source = Wildcard => requests[e].actor.admin
    /\ routes[r] = Unissued
    /\ Live(users, row.owner)
    /\ users[row.owner].enabled
    /\ Usable(destinations, row.destination, row.owner)
    /\ routes' = [routes EXCEPT ![r] = row]
    /\ Finish(e)
    /\ UNCHANGED <<users, destinations>>

SetRouteEnabled(e, r, enabled) ==
    /\ Admitted(e)
    /\ Live(routes, r)
    /\ CanWrite(requests[e].actor, routes[r].owner)
    /\ routes' = [routes EXCEPT ![r].enabled = enabled]
    /\ Finish(e)
    /\ UNCHANGED <<users, destinations>>

\* The first half of RouteStore.update, as ReadDestination.
ReadRoute(e, r, row) ==
    /\ Admitted(e)
    /\ Live(routes, r)
    /\ CanWrite(requests[e].actor, routes[r].owner)
    /\ row.owner = routes[r].owner
    /\ row.criteria.source = Wildcard => requests[e].actor.admin
    /\ requests' =
           [requests EXCEPT ![e] =
               [step |-> "route", actor |-> requests[e].actor,
                id |-> r, row |-> row]]
    /\ UNCHANGED <<users, destinations, routes>>

\* Mutant: the row is written whether or not it still exists.
UpsertRoute(e) ==
    /\ requests[e] # Idle
    /\ requests[e].step = "route"
    /\ Usable(destinations, requests[e].row.destination, requests[e].row.owner)
    /\ routes' = [routes EXCEPT ![requests[e].id] = requests[e].row]
    /\ Finish(e)
    /\ UNCHANGED <<users, destinations>>

\* The second half: the destination is checked again in the transaction.
UpdateRoute(e) ==
    /\ requests[e] # Idle
    /\ requests[e].step = "route"
    /\ LET r == requests[e].id
           row == requests[e].row
       IN  /\ Usable(destinations, row.destination, row.owner)
           /\ routes' = IF Live(routes, r)
                        THEN [routes EXCEPT ![r] = row]
                        ELSE routes
    /\ Finish(e)
    /\ UNCHANGED <<users, destinations>>

DeleteRoute(e, r) ==
    /\ Admitted(e)
    /\ Live(routes, r)
    /\ CanWrite(requests[e].actor, routes[r].owner)
    /\ routes' = [routes EXCEPT ![r] = Deleted]
    /\ Finish(e)
    /\ UNCHANGED <<users, destinations>>

UserStep(e) ==
    \E u \in Users :
        \/ Admit(e, u)
        \/ \E role \in {"admin", "user"} : CreateUser(e, u, role)
        \/ \E enabled \in BOOLEAN : SetUserEnabled(e, u, enabled)
        \/ DeleteUser(e, u)

DestinationStep(e) ==
    \/ UpdateDestination(e)
    \/ \E d \in Destinations :
           \/ \E row \in DestinationRow :
                  CreateDestination(e, d, row) \/ ReadDestination(e, d, row)
           \/ \E flag \in BOOLEAN :
                  SetDestinationEnabled(e, d, flag)
           \/ \E flag \in BOOLEAN :
                  SetDestinationShared(e, d, flag)
           \/ DeleteDestination(e, d)

RouteStep(e) ==
    \/ UpdateRoute(e)
    \/ \E r \in Routes :
           \/ \E row \in RouteRow : CreateRoute(e, r, row) \/ ReadRoute(e, r, row)
           \/ \E enabled \in BOOLEAN : SetRouteEnabled(e, r, enabled)
           \/ DeleteRoute(e, r)

Next ==
    \E e \in Editors :
        Refuse(e) \/ UserStep(e) \/ DestinationStep(e) \/ RouteStep(e)

Spec == Init /\ [][Next]_registryVars

-----------------------------------------------------------------------------

\* The columns hold what their CHECK clauses and the stores' validation allow,
\* and a thread holds an Actor or a half-done update.
TypeOK ==
    /\ users \in [Users -> UserRow \cup Absent]
    /\ destinations \in [Destinations -> DestinationRow \cup Absent]
    /\ routes \in [Routes -> RouteRow \cup Absent]
    /\ requests \in [Editors -> Request \cup {Idle}]

\* Every route points at a destination that exists and that its owner owns or
\* may use because it is shared (RouteStore.create and update against
\* DestinationStore.update, set_shared and delete, in any interleaving).
RoutesUsable(ds, rs) ==
    \A r \in Routes :
        Live(rs, r) => Usable(ds, rs[r].destination, rs[r].owner)

RoutesAuthorised == RoutesUsable(destinations, routes)

\* The owner of every live destination and route is a live user: the row of a
\* user goes only with its routes and after its destinations.
OwnersLive(us, ds, rs) ==
    /\ \A d \in Destinations : Live(ds, d) => Live(us, ds[d].owner)
    /\ \A r \in Routes : Live(rs, r) => Live(us, rs[r].owner)

OwnersExist == OwnersLive(users, destinations, routes)

\* However requests of administrators admitted earlier race, the platform keeps
\* an enabled administrator.
AdminRemains == \E u \in Users : IsAdmin(users, u)

\* What makes the invariants above inductive: the row a half-done update is
\* about to write was read from a row of that identifier, and still has the
\* owner of it.
UpdatesKeepOwner ==
    \A e \in Editors :
        requests[e] # Idle =>
            LET q == requests[e]
            IN  /\ q.step = "destination" =>
                       /\ destinations[q.id] # Unissued
                       /\ Live(destinations, q.id) =>
                              q.row.owner = destinations[q.id].owner
                /\ q.step = "route" =>
                       /\ routes[q.id] # Unissued
                       /\ Live(routes, q.id) => q.row.owner = routes[q.id].owner

RegistryInv ==
    TypeOK /\ UpdatesKeepOwner /\ RoutesAuthorised /\ OwnersExist /\ AdminRemains

\* An identifier that was deleted never names a row again: an update that was
\* read before the deletion and written after it brings nothing back.
DeletedStaysDeleted ==
    [][ /\ \A u \in Users : users[u] = Deleted => users'[u] = Deleted
        /\ \A d \in Destinations :
               destinations[d] = Deleted => destinations'[d] = Deleted
        /\ \A r \in Routes : routes[r] = Deleted => routes'[r] = Deleted
      ]_registryVars

\* A destination that is not shared becomes shared only by the request of an
\* administrator (docs/platform-routing.md: "Only an administrator can share a
\* destination").
SharedByAdministrators ==
    [][ \A d \in Destinations, e \in Editors :
            /\ Live(destinations, d) /\ ~destinations[d].shared
            /\ Live(destinations', d) /\ destinations'[d].shared
            /\ requests'[e] # requests[e]
            => requests[e].actor.admin ]_registryVars

=============================================================================
