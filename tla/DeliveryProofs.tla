--------------------------- MODULE DeliveryProofs ---------------------------
(* The invariants of the routing tables hold for every number of users,       *)
(* destinations, routes and concurrent requests; the safety properties of     *)
(* Delivery, which runs on those tables, for every number of events, owners,  *)
(* routes and attempts, and any sequence of management requests and restarts. *)
EXTENDS Delivery, FiniteSetTheorems, TLAPS

-----------------------------------------------------------------------------
(* The routing tables: Registry.                                              *)


\* A row is never mistaken for an absent one.
LEMMA RowsAreLive ==
    /\ \A x \in UserRow \cup DestinationRow \cup RouteRow : x \notin Absent
    /\ Unissued \in Absent
    /\ Deleted \in Absent
    /\ Unissued # Deleted
BY AbsentAssumption DEF Absent

\* What a thread with a request holds.
LEMMA RequestOf ==
    ASSUME TypeOK, NEW e \in Editors, requests[e] # Idle
    PROVE  /\ requests[e] \in Request
           /\ requests[e].actor \in Actor
           /\ requests[e].step = "destination" =>
                  requests[e].id \in Destinations /\ requests[e].row \in DestinationRow
           /\ requests[e].step = "route" =>
                  requests[e].id \in Routes /\ requests[e].row \in RouteRow
BY DEF TypeOK, Request

\* The invariant holds before the first request.
LEMMA InitInv == Init => RegistryInv
<1> SUFFICES ASSUME Init PROVE RegistryInv
    OBVIOUS
<1>1. TypeOK
    BY RootAssumption, RowsAreLive DEF Init, TypeOK, UserRow
<1>2. UpdatesKeepOwner /\ RoutesAuthorised /\ OwnersExist
    BY RowsAreLive
    DEF Init, UpdatesKeepOwner, RoutesAuthorised, RoutesUsable, OwnersExist,
        OwnersLive, Live
<1>3. AdminRemains
    <2>1. users[Root] = [role |-> "admin", enabled |-> TRUE]
        BY RootAssumption DEF Init
    <2>2. users[Root] \in UserRow
        BY <2>1 DEF UserRow
    <2>3. IsAdmin(users, Root)
        BY <2>1, <2>2, RowsAreLive DEF IsAdmin
    <2> QED BY <2>3, RootAssumption DEF AdminRemains
<1> QED BY <1>1, <1>2, <1>3 DEF RegistryInv

\* Every step of every request keeps the columns and the requests well formed.
LEMMA TypeStep == TypeOK /\ [Next]_registryVars => TypeOK'
<1> SUFFICES ASSUME TypeOK, [Next]_registryVars PROVE TypeOK'
    OBVIOUS
<1> USE DEF TypeOK
<1>1. CASE UNCHANGED registryVars
    BY <1>1 DEF registryVars
<1>2. ASSUME NEW e \in Editors, Refuse(e) PROVE TypeOK'
    BY <1>2 DEF Refuse
<1>3. ASSUME NEW e \in Editors, UserStep(e) PROVE TypeOK'
    <2>1. ASSUME NEW u \in Users, Admit(e, u) PROVE TypeOK'
        <3>1. [user |-> u, admin |-> users[u].role = "admin"] \in Actor
            BY DEF Actor
        <3>2. [step |-> "admitted",
               actor |-> [user |-> u, admin |-> users[u].role = "admin"]]
                  \in Request
            BY <3>1 DEF Request
        <3> QED BY <2>1, <3>2 DEF Admit
    <2>2. ASSUME NEW u \in Users, NEW role \in {"admin", "user"},
                 CreateUser(e, u, role)
          PROVE  TypeOK'
        BY <2>2 DEF CreateUser, Finish, UserRow
    <2>3. ASSUME NEW u \in Users, NEW enabled \in BOOLEAN,
                 SetUserEnabled(e, u, enabled)
          PROVE  TypeOK'
        <3>1. users[u] \in UserRow
            BY <2>3 DEF SetUserEnabled, Live
        <3>2. [users[u] EXCEPT !.enabled = enabled] \in UserRow
            BY <3>1 DEF UserRow
        <3> QED BY <2>3, <3>2 DEF SetUserEnabled, Finish
    <2>4. ASSUME NEW u \in Users, DeleteUser(e, u) PROVE TypeOK'
        BY <2>4 DEF DeleteUser, Finish, Absent
    <2> QED BY <1>3, <2>1, <2>2, <2>3, <2>4 DEF UserStep
<1>4. ASSUME NEW e \in Editors, DestinationStep(e) PROVE TypeOK'
    <2>1. CASE UpdateDestination(e)
        BY <2>1, RequestOf DEF UpdateDestination, Finish
    <2>2. ASSUME NEW d \in Destinations, NEW row \in DestinationRow,
                 CreateDestination(e, d, row)
          PROVE  TypeOK'
        BY <2>2 DEF CreateDestination, Finish
    <2>3. ASSUME NEW d \in Destinations, NEW row \in DestinationRow,
                 ReadDestination(e, d, row)
          PROVE  TypeOK'
        <3>1. requests[e].actor \in Actor
            BY <2>3, RequestOf DEF ReadDestination, Admitted
        <3>2. [step |-> "destination", actor |-> requests[e].actor,
               id |-> d, row |-> row] \in Request
            BY <3>1 DEF Request
        <3> QED BY <2>3, <3>2 DEF ReadDestination
    <2>4. ASSUME NEW d \in Destinations, NEW flag \in BOOLEAN,
                 \/ SetDestinationEnabled(e, d, flag)
                 \/ SetDestinationShared(e, d, flag)
          PROVE  TypeOK'
        <3>1. destinations[d] \in DestinationRow
            BY <2>4 DEF SetDestinationEnabled, SetDestinationShared, Live
        <3>2. /\ [destinations[d] EXCEPT !.enabled = flag] \in DestinationRow
              /\ [destinations[d] EXCEPT !.shared = flag] \in DestinationRow
            BY <3>1 DEF DestinationRow
        <3> QED
            BY <2>4, <3>2 DEF SetDestinationEnabled, SetDestinationShared, Finish
    <2>5. ASSUME NEW d \in Destinations, DeleteDestination(e, d) PROVE TypeOK'
        BY <2>5 DEF DeleteDestination, Finish, Absent
    <2> QED BY <1>4, <2>1, <2>2, <2>3, <2>4, <2>5 DEF DestinationStep
<1>5. ASSUME NEW e \in Editors, RouteStep(e) PROVE TypeOK'
    <2>1. CASE UpdateRoute(e)
        BY <2>1, RequestOf DEF UpdateRoute, Finish
    <2>2. ASSUME NEW r \in Routes, NEW row \in RouteRow, CreateRoute(e, r, row)
          PROVE  TypeOK'
        BY <2>2 DEF CreateRoute, Finish
    <2>3. ASSUME NEW r \in Routes, NEW row \in RouteRow, ReadRoute(e, r, row)
          PROVE  TypeOK'
        <3>1. requests[e].actor \in Actor
            BY <2>3, RequestOf DEF ReadRoute, Admitted
        <3>2. [step |-> "route", actor |-> requests[e].actor,
               id |-> r, row |-> row] \in Request
            BY <3>1 DEF Request
        <3> QED BY <2>3, <3>2 DEF ReadRoute
    <2>4. ASSUME NEW r \in Routes, NEW enabled \in BOOLEAN,
                 SetRouteEnabled(e, r, enabled)
          PROVE  TypeOK'
        <3>1. routes[r] \in RouteRow
            BY <2>4 DEF SetRouteEnabled, Live
        <3>2. [routes[r] EXCEPT !.enabled = enabled] \in RouteRow
            BY <3>1 DEF RouteRow
        <3> QED BY <2>4, <3>2 DEF SetRouteEnabled, Finish
    <2>5. ASSUME NEW r \in Routes, DeleteRoute(e, r) PROVE TypeOK'
        BY <2>5 DEF DeleteRoute, Finish, Absent
    <2> QED BY <1>5, <2>1, <2>2, <2>3, <2>4, <2>5 DEF RouteStep
<1> QED BY <1>1, <1>2, <1>3, <1>4, <1>5 DEF Next

\* Registry rows always have the columns and values their tables allow.
THEOREM RegistryTypeCorrect == Spec => []TypeOK
<1>1. Init => TypeOK
    BY InitInv DEF RegistryInv
<1> QED BY <1>1, TypeStep, PTL DEF Spec

-----------------------------------------------------------------------------

\* A half-done update keeps the owner of its row: identifiers are not issued
\* twice, and no action changes the owner of a row.
LEMMA KeepOwnerStep ==
    TypeOK /\ UpdatesKeepOwner /\ [Next]_registryVars => UpdatesKeepOwner'
<1> SUFFICES ASSUME TypeOK, UpdatesKeepOwner, [Next]_registryVars
             PROVE  UpdatesKeepOwner'
    OBVIOUS
<1> USE RowsAreLive DEF UpdatesKeepOwner, Live
<1>1. CASE UNCHANGED registryVars
    BY <1>1 DEF registryVars
<1>2. ASSUME NEW e \in Editors, Refuse(e) PROVE UpdatesKeepOwner'
    BY <1>2 DEF Refuse, TypeOK
<1>3. ASSUME NEW e \in Editors, UserStep(e) PROVE UpdatesKeepOwner'
    <2>1. ASSUME NEW u \in Users, Admit(e, u) PROVE UpdatesKeepOwner'
        BY <2>1 DEF Admit, TypeOK
    <2>2. ASSUME NEW u \in Users, NEW role \in {"admin", "user"},
                 CreateUser(e, u, role)
          PROVE  UpdatesKeepOwner'
        BY <2>2 DEF CreateUser, Finish, TypeOK
    <2>3. ASSUME NEW u \in Users, NEW enabled \in BOOLEAN,
                 SetUserEnabled(e, u, enabled)
          PROVE  UpdatesKeepOwner'
        BY <2>3 DEF SetUserEnabled, Finish, TypeOK
    <2>4. ASSUME NEW u \in Users, DeleteUser(e, u) PROVE UpdatesKeepOwner'
        <3>1. \A r \in Routes :
                  /\ routes[r] # Unissued => routes'[r] # Unissued
                  /\ routes'[r] \notin Absent => routes'[r] = routes[r]
            BY <2>4 DEF DeleteUser
        <3> QED BY <2>4, <3>1, RequestOf DEF DeleteUser, Finish, TypeOK
    <2> QED BY <1>3, <2>1, <2>2, <2>3, <2>4 DEF UserStep
<1>4. ASSUME NEW e \in Editors, DestinationStep(e) PROVE UpdatesKeepOwner'
    <2>1. CASE UpdateDestination(e)
        BY <2>1, RequestOf DEF UpdateDestination, Finish, TypeOK, DestinationRow
    <2>2. ASSUME NEW d \in Destinations, NEW row \in DestinationRow,
                 CreateDestination(e, d, row)
          PROVE  UpdatesKeepOwner'
        BY <2>2, RequestOf DEF CreateDestination, Finish, TypeOK
    <2>3. ASSUME NEW d \in Destinations, NEW row \in DestinationRow,
                 ReadDestination(e, d, row)
          PROVE  UpdatesKeepOwner'
        BY <2>3 DEF ReadDestination, TypeOK
    <2>4. ASSUME NEW d \in Destinations, NEW flag \in BOOLEAN,
                 \/ SetDestinationEnabled(e, d, flag)
                 \/ SetDestinationShared(e, d, flag)
          PROVE  UpdatesKeepOwner'
        <3>1. destinations[d] \in DestinationRow
            BY <2>4 DEF SetDestinationEnabled, SetDestinationShared, TypeOK
        <3>2. \A c \in Destinations :
                  /\ destinations[c] # Unissued => destinations'[c] # Unissued
                  /\ destinations'[c] \notin Absent =>
                         /\ destinations[c] \notin Absent
                         /\ destinations'[c].owner = destinations[c].owner
            BY <2>4, <3>1
            DEF SetDestinationEnabled, SetDestinationShared, TypeOK, DestinationRow
        <3> QED
            BY <2>4, <3>2, RequestOf
            DEF SetDestinationEnabled, SetDestinationShared, Finish, TypeOK
    <2>5. ASSUME NEW d \in Destinations, DeleteDestination(e, d)
          PROVE  UpdatesKeepOwner'
        BY <2>5, RequestOf DEF DeleteDestination, Finish, TypeOK
    <2> QED BY <1>4, <2>1, <2>2, <2>3, <2>4, <2>5 DEF DestinationStep
<1>5. ASSUME NEW e \in Editors, RouteStep(e) PROVE UpdatesKeepOwner'
    <2>1. CASE UpdateRoute(e)
        BY <2>1, RequestOf DEF UpdateRoute, Finish, TypeOK, RouteRow
    <2>2. ASSUME NEW r \in Routes, NEW row \in RouteRow, CreateRoute(e, r, row)
          PROVE  UpdatesKeepOwner'
        BY <2>2, RequestOf DEF CreateRoute, Finish, TypeOK
    <2>3. ASSUME NEW r \in Routes, NEW row \in RouteRow, ReadRoute(e, r, row)
          PROVE  UpdatesKeepOwner'
        BY <2>3 DEF ReadRoute, TypeOK
    <2>4. ASSUME NEW r \in Routes, NEW enabled \in BOOLEAN,
                 SetRouteEnabled(e, r, enabled)
          PROVE  UpdatesKeepOwner'
        <3>1. routes[r] \in RouteRow
            BY <2>4 DEF SetRouteEnabled, TypeOK
        <3>2. \A q \in Routes :
                  /\ routes[q] # Unissued => routes'[q] # Unissued
                  /\ routes'[q] \notin Absent =>
                         /\ routes[q] \notin Absent
                         /\ routes'[q].owner = routes[q].owner
            BY <2>4, <3>1 DEF SetRouteEnabled, TypeOK, RouteRow
        <3> QED BY <2>4, <3>2, RequestOf DEF SetRouteEnabled, Finish, TypeOK
    <2>5. ASSUME NEW r \in Routes, DeleteRoute(e, r) PROVE UpdatesKeepOwner'
        BY <2>5, RequestOf DEF DeleteRoute, Finish, TypeOK
    <2> QED BY <1>5, <2>1, <2>2, <2>3, <2>4, <2>5 DEF RouteStep
<1> QED BY <1>1, <1>2, <1>3, <1>4, <1>5 DEF Next

\* Only two kinds of step put a route in force, and both look at the
\* destination in the same transaction; the steps that could take the
\* destination away from it count the routes first.
LEMMA AuthorisedStep ==
    TypeOK /\ UpdatesKeepOwner /\ RoutesAuthorised /\ [Next]_registryVars
        => RoutesAuthorised'
<1> SUFFICES ASSUME TypeOK, UpdatesKeepOwner, RoutesAuthorised,
                    [Next]_registryVars
             PROVE  RoutesAuthorised'
    OBVIOUS
<1> USE RowsAreLive DEF RoutesAuthorised, RoutesUsable, Usable, Live
<1>1. CASE UNCHANGED <<destinations, routes>>
    BY <1>1
<1>2. ASSUME NEW e \in Editors, NEW u \in Users, DeleteUser(e, u)
      PROVE  RoutesAuthorised'
    BY <1>2 DEF DeleteUser, TypeOK
<1>3. ASSUME NEW e \in Editors, DestinationStep(e) PROVE RoutesAuthorised'
    <2>1. CASE UpdateDestination(e)
        BY <2>1, <1>3, RequestOf
        DEF UpdateDestination, ExternalRoutes, UpdatesKeepOwner, TypeOK, DestinationRow
    <2>2. ASSUME NEW d \in Destinations, NEW row \in DestinationRow,
                 CreateDestination(e, d, row)
          PROVE  RoutesAuthorised'
        BY <2>2 DEF CreateDestination, TypeOK, RouteRow
    <2>3. ASSUME NEW d \in Destinations, NEW row \in DestinationRow,
                 ReadDestination(e, d, row)
          PROVE  RoutesAuthorised'
        BY <2>3 DEF ReadDestination
    <2>4. ASSUME NEW d \in Destinations, NEW flag \in BOOLEAN,
                 SetDestinationEnabled(e, d, flag)
          PROVE  RoutesAuthorised'
        <3>1. /\ destinations[d] \in DestinationRow
              /\ [destinations[d] EXCEPT !.enabled = flag] \in DestinationRow
            BY <2>4 DEF SetDestinationEnabled, TypeOK, DestinationRow
        <3> QED BY <2>4, <3>1 DEF SetDestinationEnabled, TypeOK, DestinationRow
    <2>5. ASSUME NEW d \in Destinations, NEW flag \in BOOLEAN,
                 SetDestinationShared(e, d, flag)
          PROVE  RoutesAuthorised'
        <3>1. /\ destinations[d] \in DestinationRow
              /\ [destinations[d] EXCEPT !.shared = flag] \in DestinationRow
            BY <2>5 DEF SetDestinationShared, TypeOK, DestinationRow
        <3> QED
            BY <2>5, <3>1
            DEF SetDestinationShared, ExternalRoutes, TypeOK, DestinationRow
    <2>6. ASSUME NEW d \in Destinations, DeleteDestination(e, d)
          PROVE  RoutesAuthorised'
        BY <2>6 DEF DeleteDestination, TypeOK, RouteRow
    <2> QED BY <1>3, <2>1, <2>2, <2>3, <2>4, <2>5, <2>6 DEF DestinationStep
<1>4. ASSUME NEW e \in Editors, RouteStep(e) PROVE RoutesAuthorised'
    <2>1. CASE UpdateRoute(e)
        BY <2>1, RequestOf DEF UpdateRoute, TypeOK
    <2>2. ASSUME NEW r \in Routes, NEW row \in RouteRow, CreateRoute(e, r, row)
          PROVE  RoutesAuthorised'
        BY <2>2 DEF CreateRoute, TypeOK
    <2>3. ASSUME NEW r \in Routes, NEW row \in RouteRow, ReadRoute(e, r, row)
          PROVE  RoutesAuthorised'
        BY <2>3 DEF ReadRoute
    <2>4. ASSUME NEW r \in Routes, NEW enabled \in BOOLEAN,
                 SetRouteEnabled(e, r, enabled)
          PROVE  RoutesAuthorised'
        BY <2>4 DEF SetRouteEnabled, TypeOK, RouteRow
    <2>5. ASSUME NEW r \in Routes, DeleteRoute(e, r) PROVE RoutesAuthorised'
        BY <2>5 DEF DeleteRoute, TypeOK
    <2> QED BY <1>4, <2>1, <2>2, <2>3, <2>4, <2>5 DEF RouteStep
<1>5. ASSUME NEW e \in Editors, UserStep(e) PROVE RoutesAuthorised'
    BY <1>1, <1>2, <1>5 DEF UserStep, Admit, CreateUser, SetUserEnabled
<1> QED BY <1>1, <1>3, <1>4, <1>5 DEF Next, registryVars, Refuse

\* A user row goes only when no destination is owned by it, and its routes go
\* with it; rows are created for live users and keep their owner.
LEMMA OwnersStep ==
    TypeOK /\ UpdatesKeepOwner /\ OwnersExist /\ [Next]_registryVars
        => OwnersExist'
<1> SUFFICES ASSUME TypeOK, UpdatesKeepOwner, OwnersExist, [Next]_registryVars
             PROVE  OwnersExist'
    OBVIOUS
<1> USE RowsAreLive DEF OwnersExist, OwnersLive, Live
<1>1. CASE UNCHANGED <<users, destinations, routes>>
    BY <1>1
<1>2. ASSUME NEW e \in Editors, UserStep(e) PROVE OwnersExist'
    <2>1. ASSUME NEW u \in Users, Admit(e, u) PROVE OwnersExist'
        BY <2>1, <1>1 DEF Admit
    <2>2. ASSUME NEW u \in Users, NEW role \in {"admin", "user"},
                 CreateUser(e, u, role)
          PROVE  OwnersExist'
        BY <2>2 DEF CreateUser, TypeOK, DestinationRow, RouteRow, UserRow
    <2>3. ASSUME NEW u \in Users, NEW enabled \in BOOLEAN,
                 SetUserEnabled(e, u, enabled)
          PROVE  OwnersExist'
        <3>1. [users[u] EXCEPT !.enabled = enabled] \in UserRow
            BY <2>3 DEF SetUserEnabled, TypeOK, UserRow
        <3> QED
            BY <2>3, <3>1 DEF SetUserEnabled, TypeOK, DestinationRow, RouteRow
    <2>4. ASSUME NEW u \in Users, DeleteUser(e, u) PROVE OwnersExist'
        BY <2>4
        DEF DeleteUser, OwnsDestinations, TypeOK, DestinationRow, RouteRow
    <2> QED BY <1>2, <2>1, <2>2, <2>3, <2>4 DEF UserStep
<1>3. ASSUME NEW e \in Editors, DestinationStep(e) PROVE OwnersExist'
    <2>1. CASE UpdateDestination(e)
        BY <2>1, RequestOf DEF UpdateDestination, UpdatesKeepOwner, TypeOK
    <2>2. ASSUME NEW d \in Destinations, NEW row \in DestinationRow,
                 CreateDestination(e, d, row)
          PROVE  OwnersExist'
        BY <2>2 DEF CreateDestination, TypeOK
    <2>3. ASSUME NEW d \in Destinations, NEW row \in DestinationRow,
                 ReadDestination(e, d, row)
          PROVE  OwnersExist'
        BY <2>3, <1>1 DEF ReadDestination
    <2>4. ASSUME NEW d \in Destinations, NEW flag \in BOOLEAN,
                 \/ SetDestinationEnabled(e, d, flag)
                 \/ SetDestinationShared(e, d, flag)
          PROVE  OwnersExist'
        BY <2>4
        DEF SetDestinationEnabled, SetDestinationShared, TypeOK, DestinationRow
    <2>5. ASSUME NEW d \in Destinations, DeleteDestination(e, d)
          PROVE  OwnersExist'
        BY <2>5 DEF DeleteDestination, TypeOK
    <2> QED BY <1>3, <2>1, <2>2, <2>3, <2>4, <2>5 DEF DestinationStep
<1>4. ASSUME NEW e \in Editors, RouteStep(e) PROVE OwnersExist'
    <2>1. CASE UpdateRoute(e)
        BY <2>1, RequestOf DEF UpdateRoute, UpdatesKeepOwner, TypeOK
    <2>2. ASSUME NEW r \in Routes, NEW row \in RouteRow, CreateRoute(e, r, row)
          PROVE  OwnersExist'
        BY <2>2 DEF CreateRoute, TypeOK
    <2>3. ASSUME NEW r \in Routes, NEW row \in RouteRow, ReadRoute(e, r, row)
          PROVE  OwnersExist'
        BY <2>3, <1>1 DEF ReadRoute
    <2>4. ASSUME NEW r \in Routes, NEW enabled \in BOOLEAN,
                 SetRouteEnabled(e, r, enabled)
          PROVE  OwnersExist'
        BY <2>4 DEF SetRouteEnabled, TypeOK, RouteRow
    <2>5. ASSUME NEW r \in Routes, DeleteRoute(e, r) PROVE OwnersExist'
        BY <2>5 DEF DeleteRoute, TypeOK
    <2> QED BY <1>4, <2>1, <2>2, <2>3, <2>4, <2>5 DEF RouteStep
<1> QED BY <1>1, <1>2, <1>3, <1>4 DEF Next, registryVars, Refuse

\* Only disabling and deleting can take an administrator away, and both leave
\* another one.
LEMMA AdminStep ==
    TypeOK /\ AdminRemains /\ [Next]_registryVars => AdminRemains'
<1> SUFFICES ASSUME TypeOK, AdminRemains, [Next]_registryVars
             PROVE  AdminRemains'
    OBVIOUS
<1> USE RowsAreLive DEF AdminRemains, IsAdmin, Live
<1>1. CASE UNCHANGED users
    BY <1>1
<1>2. ASSUME NEW e \in Editors, NEW u \in Users, NEW role \in {"admin", "user"},
             CreateUser(e, u, role)
      PROVE  AdminRemains'
    BY <1>2 DEF CreateUser, TypeOK
<1>3. ASSUME NEW e \in Editors, NEW u \in Users, NEW enabled \in BOOLEAN,
             SetUserEnabled(e, u, enabled)
      PROVE  AdminRemains'
    <2>1. /\ users[u] \in UserRow
          /\ [users[u] EXCEPT !.enabled = enabled] \in UserRow
        BY <1>3 DEF SetUserEnabled, TypeOK, UserRow
    <2>2. PICK a \in Users : IsAdmin(users, a)
        OBVIOUS
    <2>3. CASE enabled
        BY <2>1, <2>2, <2>3, <1>3 DEF SetUserEnabled, TypeOK, UserRow
    <2>4. CASE ~enabled /\ IsAdmin(users, u)
        BY <2>4, <1>3 DEF SetUserEnabled, OtherAdmins, TypeOK
    <2>5. CASE ~enabled /\ ~IsAdmin(users, u)
        BY <2>2, <2>5, <1>3 DEF SetUserEnabled, TypeOK
    <2> QED BY <2>3, <2>4, <2>5
<1>4. ASSUME NEW e \in Editors, NEW u \in Users, DeleteUser(e, u)
      PROVE  AdminRemains'
    <2>1. PICK a \in Users : IsAdmin(users, a)
        OBVIOUS
    <2>2. \E b \in Users \ {u} : IsAdmin(users, b)
        BY <2>1, <1>4 DEF DeleteUser, OtherAdmins
    <2> QED BY <2>2, <1>4 DEF DeleteUser, TypeOK
<1>5. ASSUME NEW e \in Editors, UserStep(e) PROVE AdminRemains'
    BY <1>1, <1>2, <1>3, <1>4, <1>5 DEF UserStep, Admit
<1>6. ASSUME NEW e \in Editors, DestinationStep(e) \/ RouteStep(e)
      PROVE  UNCHANGED users
    BY <1>6
    DEF DestinationStep, UpdateDestination, CreateDestination, ReadDestination,
        SetDestinationEnabled, SetDestinationShared, DeleteDestination,
        RouteStep, UpdateRoute, CreateRoute, ReadRoute, SetRouteEnabled,
        DeleteRoute
<1> QED BY <1>1, <1>5, <1>6 DEF Next, registryVars, Refuse

\* The four parts together are inductive.
LEMMA RegistryInvStep == RegistryInv /\ [Next]_registryVars => RegistryInv'
BY TypeStep, KeepOwnerStep, AuthorisedStep, OwnersStep, AdminStep DEF RegistryInv

THEOREM RegistryInvariant == Spec => []RegistryInv
BY InitInv, RegistryInvStep, PTL DEF Spec

\* No interleaving of requests leaves a route whose owner may not use its
\* destination (RouteStore.create and update, DestinationStore.update,
\* set_shared and delete).
THEOREM RegistryRoutesAuthorised == Spec => []RoutesAuthorised
<1>1. RegistryInv => RoutesAuthorised
    BY DEF RegistryInv
<1> QED BY <1>1, RegistryInvariant, PTL

\* The platform always has an enabled administrator (UserStore.set_enabled and
\* delete, whatever administrators were admitted at the same time).
THEOREM RegistryKeepsAdministrator == Spec => []AdminRemains
<1>1. RegistryInv => AdminRemains
    BY DEF RegistryInv
<1> QED BY <1>1, RegistryInvariant, PTL

\* Rows never outlive their owner.
THEOREM RegistryOwnersExist == Spec => []OwnersExist
<1>1. RegistryInv => OwnersExist
    BY DEF RegistryInv
<1> QED BY <1>1, RegistryInvariant, PTL

\* An identifier that was deleted names no row again: updates write nothing
\* when their row is gone, and only unissued identifiers are inserted.
THEOREM RegistryDeletedStaysDeleted == Spec => DeletedStaysDeleted
<1> DEFINE Stays ==
        /\ \A u \in Users : users[u] = Deleted => users'[u] = Deleted
        /\ \A d \in Destinations :
               destinations[d] = Deleted => destinations'[d] = Deleted
        /\ \A r \in Routes : routes[r] = Deleted => routes'[r] = Deleted
<1>1. TypeOK /\ [Next]_registryVars => [Stays]_registryVars
    <2> SUFFICES ASSUME TypeOK, Next PROVE Stays
        OBVIOUS
    <2> USE RowsAreLive DEF TypeOK, Live
    <2>1. ASSUME NEW e \in Editors, UserStep(e) PROVE Stays
        BY <2>1 DEF UserStep, Admit, CreateUser, SetUserEnabled, DeleteUser
    <2>2. ASSUME NEW e \in Editors, DestinationStep(e) PROVE Stays
        BY <2>2
        DEF DestinationStep, UpdateDestination, CreateDestination,
            ReadDestination, SetDestinationEnabled, SetDestinationShared,
            DeleteDestination
    <2>3. ASSUME NEW e \in Editors, RouteStep(e) PROVE Stays
        BY <2>3
        DEF RouteStep, UpdateRoute, CreateRoute, ReadRoute, SetRouteEnabled,
            DeleteRoute
    <2> QED BY <2>1, <2>2, <2>3 DEF Next, Refuse
<1> QED BY <1>1, RegistryTypeCorrect, PTL DEF Spec, DeletedStaysDeleted

-----------------------------------------------------------------------------
(* Deliveries: Delivery.                                                      *)


\* What the conditions on the pc of a job compare.
LEMMA PcValues ==
    /\ Running = {"probing", "matching", "delivering", "calling", "recording",
                  "reading"}
    /\ Attempting \subseteq Running
BY DEF Running, Attempting

\* The fields of a job.
LEMMA JobFields ==
    ASSUME DeliveryTypeOK, NEW n \in Events
    PROVE  /\ jobs[n] \in Job
           /\ jobs[n].actor # Nothing => jobs[n].actor \in Actor
           /\ jobs[n].current # Nothing => jobs[n].current \in PlannedRoute
           /\ jobs[n].plan \subseteq PlannedRoute
           /\ jobs[n].owners \cup jobs[n].candidates \subseteq Users
BY DEF DeliveryTypeOK, Job

\* A user that was created exists or was deleted for good.
LEMMA UsersStep ==
    ASSUME TypeOK, Next
    PROVE  \A u \in Users :
               /\ users[u] # Unissued => users'[u] # Unissued
               /\ users[u] = Deleted => users'[u] = Deleted
<1> USE RowsAreLive DEF Live, TypeOK
<1>1. PICK e \in Editors :
          Refuse(e) \/ UserStep(e) \/ DestinationStep(e) \/ RouteStep(e)
    BY DEF Next
<1>2. CASE UNCHANGED users
    BY <1>2
<1>3. CASE UserStep(e)
    <2> DEFINE Kept == \A u \in Users : /\ users[u] # Unissued => users'[u] # Unissued
                                        /\ users[u] = Deleted => users'[u] = Deleted
    <2>1. ASSUME NEW u \in Users, NEW role \in {"admin", "user"}, CreateUser(e, u, role)
          PROVE  Kept
        <3>1. users' = [users EXCEPT ![u] = [role |-> role, enabled |-> TRUE]]
                 /\ [role |-> role, enabled |-> TRUE] \in UserRow /\ users[u] = Unissued
            BY <2>1 DEF CreateUser, UserRow
        <3> QED BY <3>1
    <2>2. ASSUME NEW u \in Users, NEW enabled \in BOOLEAN, SetUserEnabled(e, u, enabled)
          PROVE  Kept
        <3>1. /\ users' = [users EXCEPT ![u] = [users[u] EXCEPT !.enabled = enabled]]
              /\ [users[u] EXCEPT !.enabled = enabled] \in UserRow
              /\ users[u] # Deleted
            BY <2>2 DEF SetUserEnabled, UserRow
        <3> QED BY <3>1
    <2>3. ASSUME NEW u \in Users, DeleteUser(e, u)
          PROVE  Kept
        <3>1. users' = [users EXCEPT ![u] = Deleted]
            BY <2>3 DEF DeleteUser
        <3> QED BY <3>1
    <2>4. ASSUME NEW u \in Users, Admit(e, u) PROVE Kept
        BY <2>4, <1>2 DEF Admit
    <2> HIDE DEF Kept
    <2>5. Kept
        BY <1>3, <2>1, <2>2, <2>3, <2>4 DEF UserStep
    <2> QED BY <2>5 DEF Kept
<1>4. CASE Refuse(e) \/ DestinationStep(e) \/ RouteStep(e)
    BY <1>4, <1>2 DEF Refuse, DestinationStep, RouteStep, UpdateDestination,
       CreateDestination, ReadDestination, SetDestinationEnabled,
       SetDestinationShared, DeleteDestination, UpdateRoute, CreateRoute,
       ReadRoute, SetRouteEnabled, DeleteRoute
<1> QED BY <1>1, <1>3, <1>4

-----------------------------------------------------------------------------

\* Deliveries leave the tables of the registry alone, and a restart only
\* forgets the requests.
LEMMA RegistryStep ==
    RegistryInv /\ [DeliveryNext]_deliveryVars => RegistryInv'
<1> SUFFICES ASSUME RegistryInv, [DeliveryNext]_deliveryVars PROVE RegistryInv'
    OBVIOUS
<1>1. CASE UNCHANGED registryVars
    BY <1>1, RegistryInvStep
<1>2. CASE Crash
    <2>1. TypeOK'
        BY <1>2 DEF Crash, RegistryInv, TypeOK
    <2>2. UpdatesKeepOwner'
        BY <1>2 DEF Crash, UpdatesKeepOwner
    <2>3. RoutesAuthorised' /\ OwnersExist' /\ AdminRemains'
        BY <1>2 DEF Crash, RegistryInv, RoutesAuthorised, OwnersExist, AdminRemains
    <2> QED BY <2>1, <2>2, <2>3 DEF RegistryInv
<1>3. CASE Administer
    BY <1>3, RegistryInvStep DEF Administer
<1>4. ASSUME NEW n \in Events, Arrival(n) \/ JobStep(n) PROVE UNCHANGED registryVars
    BY <1>4 DEF Arrival, ReceiveEvent, SubmitEvent, JobStep, ProbeOwner, MatchOwner,
       FetchTarget, TargetUnavailable, SecretUnreadable, CallAdapter, RecordAttempt,
       RecordFails, ReadBack, ReadBackFails, EndOwner, Return, Rest, registryVars
<1>5. CASE UNCHANGED deliveryVars
    BY <1>1, <1>5 DEF deliveryVars, registryVars
<1> QED BY <1>1, <1>2, <1>3, <1>4, <1>5 DEF DeliveryNext

LEMMA DeliveryInitInv == DeliveryInit => DeliveryInv
<1> SUFFICES ASSUME DeliveryInit PROVE DeliveryInv
    OBVIOUS
<1> USE DEF DeliveryInit
<1>1. RegistryInv
    <2>1. PICK s \in Seeds :
              users = s.users /\ destinations = s.destinations /\ routes = s.routes
        OBVIOUS
    <2>2. TypeOK
        BY <2>1, SeedsAssumption DEF TypeOK
    <2>3. UpdatesKeepOwner
        BY DEF UpdatesKeepOwner
    <2>4. RoutesAuthorised /\ OwnersExist /\ AdminRemains
        BY <2>1, SeedsAssumption DEF RoutesAuthorised, OwnersExist, AdminRemains
    <2> QED BY <2>2, <2>3, <2>4 DEF RegistryInv
<1>2. DeliveryTypeOK
    <2>1. NoJob \in Job
        BY DeliveryAssumption DEF NoJob, Job
    <2> QED BY <1>1, <2>1, DeliveryAssumption DEF DeliveryTypeOK, RegistryInv
<1>3. JobsShaped /\ PlansFresh /\ AttemptsInOrder /\ PlansServed /\ CallsMade
    BY DEF JobsShaped, PlansFresh, AttemptsInOrder, PlansServed, CallsMade, NoJob,
       Attempting, Running
<1>4. WorkPlanned /\ AttemptsChained /\ SettledIsFinal /\ RecordedWasCalled
    BY DEF WorkPlanned, AttemptsChained, SettledIsFinal, RecordedWasCalled
<1>5. OnlyLastCallUnrecorded /\ DedicatedOrFallback
    BY DEF OnlyLastCallUnrecorded, Unrecorded, DedicatedOrFallback
<1> QED BY <1>1, <1>2, <1>3, <1>4, <1>5 DEF DeliveryInv

-----------------------------------------------------------------------------

\* A selected route is a row, read from the table.
LEMMA SelectedRows ==
    ASSUME TypeOK, NEW u \in Users, NEW n \in Events, NEW r \in Selected(u, n)
    PROVE  /\ r \in Routes
           /\ routes[r] \in RouteRow
           /\ routes[r].owner = u
           /\ routes[r].destination \in Destinations
           /\ routes[r].criteria \in Criteria
BY RowsAreLive DEF Selected, Matching, Dedicated, Live, TypeOK, RouteRow

\* The thread of event n goes on with a well-formed job.
LEMMA JobTyped ==
    ASSUME DeliveryInv, NEW n \in Events, Arrival(n) \/ JobStep(n)
    PROVE  /\ jobs'[n] \in Job
           /\ jobs' = [jobs EXCEPT ![n] = jobs'[n]]
           /\ \A m \in Events \ {n} : jobs'[m] = jobs[m]
<1> USE DEF Proceed
<1>1. /\ jobs \in [Events -> Job]
      /\ jobs[n] \in Job
    BY DEF DeliveryInv, DeliveryTypeOK
<1>2. JobsShaped
    BY DEF DeliveryInv
<1> DEFINE J == jobs[n]
           Goal == \E K \in Job : Proceed(n, K)
<1>3. SUFFICES Goal
    BY <1>1
<1>4. ASSUME ReceiveEvent(n) PROVE Goal
    <2> DEFINE pc == IF Candidates(n) = {} THEN "matching" ELSE "probing"
    <2>1. pc \in Running /\ Candidates(n) \in SUBSET Users
        BY PcValues DEF Candidates
    <2> HIDE DEF pc
    <2>2. [J EXCEPT !.pc = pc, !.candidates = Candidates(n)] \in Job
        BY <1>1, <2>1 DEF Job
    <2>3. Proceed(n, [J EXCEPT !.pc = pc, !.candidates = Candidates(n)])
        BY <1>4 DEF ReceiveEvent, pc
    <2> QED BY <2>2, <2>3
<1>5. ASSUME NEW u \in Users, SubmitEvent(n, u) PROVE Goal
    <2> DEFINE actor == [user |-> u, admin |-> users[u].role = "admin"]
    <2>1. actor \in Actor
        BY DEF Actor
    <2> HIDE DEF actor
    <2>2. [J EXCEPT !.pc = "matching", !.owners = {u}, !.actor = actor] \in Job
        BY <1>1, <2>1, PcValues DEF Job
    <2> QED BY <1>5, <2>2 DEF SubmitEvent, actor
<1>6. ASSUME NEW u \in Users, ProbeOwner(n, u) PROVE Goal
    <2> DEFINE pc == IF J.candidates = {u} THEN "matching" ELSE J.pc
               owners == IF Selected(u, n) # {} THEN J.owners \cup {u} ELSE J.owners
    <2>1. /\ pc \in Running
          /\ owners \in SUBSET Users
          /\ J.candidates \ {u} \in SUBSET Users
        BY <1>1, <1>6, PcValues DEF ProbeOwner, Job
    <2> HIDE DEF pc, owners
    <2>2. [J EXCEPT !.candidates = J.candidates \ {u}, !.owners = owners, !.pc = pc]
              \in Job
        BY <1>1, <2>1 DEF Job
    <2>3. Proceed(n, [J EXCEPT !.candidates = J.candidates \ {u},
                               !.owners = owners, !.pc = pc])
        BY <1>6 DEF ProbeOwner, pc, owners
    <2> QED BY <2>2, <2>3
<1>7. ASSUME NEW u \in Users, MatchOwner(n, u) PROVE Goal
    <2>1. PICK sel \in Selections(u, n) : Proceed(n, WithPlan(J, u, sel))
        BY <1>7 DEF MatchOwner
    <2>2. J.matched + Cardinality(sel) \in Nat
        <3>1. sel \subseteq Routes
            BY DEF Selections, Selected, Matching, Dedicated
        <3>2. Cardinality(sel) \in Nat
            BY <3>1, DeliveryAssumption, FS_Subset, FS_CardinalityType
        <3> QED BY <1>1, <3>2 DEF Job
    <2>0. TypeOK /\ sel \subseteq Selected(u, n)
        BY DEF Selections, DeliveryInv, DeliveryTypeOK
    <2>3. LoopOver(sel) \in SUBSET PlannedRoute
        BY <2>0, SelectedRows DEF LoopOver, AsPlanned, PlannedRoute
    <2>4. ActorFor(J.actor, u) \in Actor
        BY <1>1 DEF ActorFor, Actor, Job
    <2>5. J.owners \ {u} \in SUBSET Users
        BY <1>1 DEF Job
    <2>6. ASSUME NEW matched \in Nat, NEW actor \in Actor,
                 NEW owners \in SUBSET Users, NEW rest \in SUBSET PlannedRoute
          PROVE  [J EXCEPT !.pc = "delivering", !.owners = owners, !.actor = actor,
                           !.matched = matched, !.plan = rest] \in Job
        BY <1>1, PcValues DEF Job
    <2>7. WithPlan(J, u, sel) \in Job
        BY <2>2, <2>3, <2>4, <2>5, <2>6 DEF WithPlan
    <2> QED BY <2>1, <2>7
<1>8. ASSUME NEW p \in J.plan, FetchTarget(n, p) \/ TargetUnavailable(n, p)
      PROVE  Goal
    <2>1. J.plan \ {p} \in SUBSET PlannedRoute /\ p \in PlannedRoute
        BY <1>1, <1>8 DEF Job
    <2>2. /\ [J EXCEPT !.pc = "calling", !.plan = J.plan \ {p}, !.current = p] \in Job
          /\ [J EXCEPT !.pc = "recording", !.plan = J.plan \ {p}, !.current = p,
                       !.result = "unavailable"] \in Job
        <3>1. /\ "calling" \in Running /\ "recording" \in Running
              /\ "unavailable" \in Results \cup {Nothing}
            BY PcValues DEF Results
        <3>2. ASSUME NEW pc \in Running, NEW rest \in SUBSET PlannedRoute
              PROVE  [J EXCEPT !.pc = pc, !.plan = rest, !.current = p] \in Job
            BY <1>1, <2>1, <3>2 DEF Job
        <3>3. ASSUME NEW pc \in Running, NEW rest \in SUBSET PlannedRoute,
                     NEW result \in Results \cup {Nothing}
              PROVE  [J EXCEPT !.pc = pc, !.plan = rest, !.current = p,
                               !.result = result] \in Job
            BY <1>1, <2>1, <3>3 DEF Job
        <3> QED BY <2>1, <3>1, <3>2, <3>3
    <2> QED BY <1>8, <2>2 DEF FetchTarget, TargetUnavailable
<1>9. ASSUME NEW result \in {"success", "retryable", "permanent"},
             CallAdapter(n, result)
      PROVE  Goal
    <2>0. "recording" \in Running /\ result \in Results \cup {Nothing}
        BY <1>9, PcValues DEF Results
    <2>1. ASSUME NEW pc \in Running, NEW outcome \in Results \cup {Nothing}
          PROVE  [J EXCEPT !.pc = pc, !.result = outcome] \in Job
        BY <1>1, <2>1 DEF Job
    <2> QED BY <1>9, <2>0, <2>1 DEF CallAdapter
<1>10. ASSUME NEW pc \in {"aborted", "reading", "matching", "done"}
       PROVE  [J EXCEPT !.pc = pc] \in Job
    BY <1>1, PcValues DEF Job
<1>11. ASSUME ReadBack(n) PROVE Goal
    <2>0. 1 \in 1..MaxAttempts /\ J.attempt \in 1..MaxAttempts
        BY <1>1, DeliveryAssumption DEF Job
    <2>1. NextRoute(J) \in Job
        BY <1>1, <2>0, PcValues DEF NextRoute, Job
    <2>2. /\ [NextRoute(J) EXCEPT !.delivered = NextRoute(J).delivered + 1] \in Job
          /\ [NextRoute(J) EXCEPT !.failed = NextRoute(J).failed + 1] \in Job
        BY <2>1 DEF Job
    <2>3. ASSUME J.attempt < MaxAttempts
          PROVE  [J EXCEPT !.pc = "calling", !.attempt = J.attempt + 1,
                           !.result = Nothing] \in Job
        <3>1. J.attempt + 1 \in 1..MaxAttempts
            BY <2>0, <2>3, DeliveryAssumption
        <3> QED BY <1>1, <3>1, PcValues DEF Job
    <2>4. AfterRecord(J) \in Job
        BY <2>2, <2>3 DEF AfterRecord, Outcome
    <2> QED BY <1>11, <2>4 DEF ReadBack
<1>12. ASSUME NEW p \in J.plan, SecretUnreadable(n, p) PROVE Goal
    BY <1>10, <1>12 DEF SecretUnreadable
<1>13. ASSUME \/ RecordAttempt(n) \/ RecordFails(n) \/ ReadBackFails(n)
              \/ EndOwner(n) \/ Return(n)
       PROVE  Goal
    BY <1>10, <1>13 DEF RecordAttempt, RecordFails, ReadBackFails, EndOwner, Return
<1> HIDE DEF Goal
<1> QED BY <1>4, <1>5, <1>6, <1>7, <1>8, <1>9, <1>11, <1>12, <1>13
       DEF Arrival, JobStep, Goal

\* A thread changes the tables only by recording an attempt; plans are made and
\* adapters are called by one action each.
LEMMA Effects ==
    ASSUME NEW n \in Events, Arrival(n) \/ JobStep(n)
    PROVE  /\ UNCHANGED Rest
           /\ \/ UNCHANGED <<history, planned, calls>>
              \/ \E u \in Users : MatchOwner(n, u)
              \/ RecordAttempt(n)
              \/ \E result \in {"success", "retryable", "permanent"} :
                     CallAdapter(n, result)
BY DEF Arrival, ReceiveEvent, SubmitEvent, JobStep, ProbeOwner, MatchOwner,
   FetchTarget, TargetUnavailable, SecretUnreadable, CallAdapter, RecordAttempt,
   RecordFails, ReadBack, ReadBackFails, EndOwner, Return, Rest

\* Types: jobs stay jobs, and rows, plans and calls name things that exist.
LEMMA DeliveryTypeStep ==
    DeliveryInv /\ [DeliveryNext]_deliveryVars => DeliveryTypeOK'
<1> SUFFICES ASSUME DeliveryInv, [DeliveryNext]_deliveryVars
             PROVE  DeliveryTypeOK'
    OBVIOUS
<1>1. TypeOK'
    BY RegistryStep DEF DeliveryInv, RegistryInv
<1>2. DeliveryTypeOK /\ JobsShaped
    BY DEF DeliveryInv
<1>3. ASSUME NEW n \in Events, Arrival(n) \/ JobStep(n) PROVE DeliveryTypeOK'
    <2>1. jobs' \in [Events -> Job]
        BY <1>2, <1>3, JobTyped DEF DeliveryTypeOK
    <2>2. requestsLeft' = requestsLeft /\ crashesLeft' = crashesLeft
        BY <1>3, Effects DEF Rest
    <2>3. ASSUME NEW u \in Users, MatchOwner(n, u)
          PROVE  planned' \subseteq Plan /\ UNCHANGED <<history, calls>>
        <3>1. PICK sel \in Selections(u, n) :
                  planned' = planned \cup {Planned(n, u, r) : r \in sel}
            BY <2>3 DEF MatchOwner
        <3>2. \A r \in sel : Planned(n, u, r) \in Plan
            BY <1>2, SelectedRows DEF Selections, Planned, Plan, DeliveryTypeOK
        <3> QED BY <1>2, <2>3, <3>1, <3>2 DEF MatchOwner, DeliveryTypeOK
    <2>4. ASSUME NEW result \in {"success", "retryable", "permanent"},
                 CallAdapter(n, result)
          PROVE  calls' \subseteq Call /\ UNCHANGED <<history, planned>>
        <3>1. jobs[n].actor \in Actor /\ jobs[n].current \in PlannedRoute
            BY <1>2, <2>4, JobFields DEF CallAdapter, JobsShaped, Attempting
        <3>2. jobs[n].attempt \in 1..MaxAttempts
            BY <1>2, JobFields DEF Job
        <3> QED BY <1>2, <2>4, <3>1, <3>2
                DEF CallAdapter, CallOf, DeliveryTypeOK, Call, Actor, PlannedRoute
    <2>5. ASSUME RecordAttempt(n)
          PROVE  history' \subseteq Attempt /\ UNCHANGED <<calls, planned>>
        <3>1. jobs[n].actor \in Actor /\ jobs[n].current \in PlannedRoute
            BY <1>2, <2>5, JobFields DEF RecordAttempt, JobsShaped, Attempting
        <3>2. jobs[n].attempt \in 1..MaxAttempts
            BY <1>2, JobFields DEF Job
        <3>3. AttemptOf(n, jobs[n]) \in Attempt
            BY <3>1, <3>2 DEF AttemptOf, Attempt, Outcome, Actor, PlannedRoute
        <3> QED BY <1>2, <2>5, <3>3 DEF RecordAttempt, DeliveryTypeOK
    <2> QED BY <1>1, <1>2, <1>3, <2>1, <2>2, <2>3, <2>4, <2>5, Effects
            DEF DeliveryTypeOK
<1>4. CASE Crash
    <2>1. \A m \in Events : [jobs[m] EXCEPT !.pc = "aborted"] \in Job
        BY <1>2 DEF DeliveryTypeOK, Job
    <2>2. jobs' \in [Events -> Job]
        BY <1>2, <1>4, <2>1 DEF Crash, DeliveryTypeOK
    <2>3. crashesLeft' \in 0..CrashLimit
        BY <1>2, <1>4, DeliveryAssumption DEF Crash, DeliveryTypeOK
    <2> QED BY <1>1, <1>2, <1>4, <2>2, <2>3 DEF Crash, DeliveryTypeOK
<1>5. CASE Administer
    <2>1. requestsLeft' \in 0..RequestLimit
        BY <1>2, <1>5, DeliveryAssumption DEF Administer, DeliveryTypeOK
    <2>2. history' \subseteq history
        BY <1>5 DEF Administer
    <2> QED BY <1>1, <1>2, <1>5, <2>1, <2>2 DEF Administer, DeliveryTypeOK
<1>6. CASE UNCHANGED deliveryVars
    BY <1>1, <1>2, <1>6 DEF deliveryVars, DeliveryTypeOK
<1> QED BY <1>3, <1>4, <1>5, <1>6 DEF DeliveryNext

\* deliver() begins its loop for an owner.
LEMMA MatchEffect ==
    ASSUME DeliveryInv, NEW n \in Events, NEW u \in Users, MatchOwner(n, u)
    PROVE  \E sel \in Selections(u, n) :
               /\ sel \subseteq Selected(u, n)
               /\ planned' = planned \cup {Planned(n, u, r) : r \in sel}
               /\ jobs'[n].pc = "delivering"
               /\ jobs'[n].owners = jobs[n].owners \ {u}
               /\ jobs'[n].plan = LoopOver(sel)
               /\ jobs'[n].actor \in Actor
               /\ jobs'[n].actor.user = u
               /\ jobs'[n].candidates = jobs[n].candidates
               /\ jobs'[n].current = jobs[n].current
               /\ jobs'[n].attempt = jobs[n].attempt
<1>1. jobs \in [Events -> Job] /\ jobs[n] \in Job
    BY DEF DeliveryInv, DeliveryTypeOK
<1>2. PICK sel \in Selections(u, n) :
          /\ Proceed(n, WithPlan(jobs[n], u, sel))
          /\ planned' = planned \cup {Planned(n, u, r) : r \in sel}
    BY DEF MatchOwner
<1>3. sel \subseteq Selected(u, n)
    BY DEF Selections
<1>4. ActorFor(jobs[n].actor, u) \in Actor /\ ActorFor(jobs[n].actor, u).user = u
    BY <1>1 DEF ActorFor, Actor, Job
<1>5. jobs'[n] = WithPlan(jobs[n], u, sel)
    BY <1>1, <1>2 DEF Proceed
<1>6. /\ jobs'[n].pc = "delivering"
      /\ jobs'[n].owners = jobs[n].owners \ {u}
      /\ jobs'[n].plan = LoopOver(sel)
      /\ jobs'[n].actor = ActorFor(jobs[n].actor, u)
      /\ jobs'[n].candidates = jobs[n].candidates
      /\ jobs'[n].current = jobs[n].current
      /\ jobs'[n].attempt = jobs[n].attempt
    BY <1>1, <1>5 DEF WithPlan, Job
<1> QED BY <1>2, <1>3, <1>4, <1>6

\* The shape of each job at each point of the code.
LEMMA ShapeStep ==
    DeliveryInv /\ [DeliveryNext]_deliveryVars => JobsShaped'
<1> SUFFICES ASSUME DeliveryInv, [DeliveryNext]_deliveryVars
             PROVE  JobsShaped'
    OBVIOUS
<1>1. DeliveryTypeOK /\ JobsShaped /\ TypeOK /\ OwnersExist
    BY DEF DeliveryInv, DeliveryTypeOK, RegistryInv
<1>2. ASSUME NEW n \in Events, Arrival(n) \/ JobStep(n) PROVE JobsShaped'
    <2> DEFINE Shaped(J) ==
            /\ J.pc \in {"waiting", "probing", "matching"} => J.plan = {}
            /\ J.pc \in Running \ {"probing"} => J.candidates = {}
            /\ J.pc = "waiting" => J.owners = {} /\ J.candidates = {}
            /\ J.pc \in {"delivering"} \cup Attempting => J.actor # Nothing
            /\ J.pc \in Attempting => J.current # Nothing
            /\ J.pc \in {"waiting", "probing", "matching", "delivering"} =>
                   J.current = Nothing /\ J.attempt = 1
            /\ J.pc \in {"recording", "reading"} => J.result # Nothing
            /\ J.actor # Nothing => users[J.actor.user] # Unissued
            /\ \A u \in J.owners \cup J.candidates : users[u] # Unissued
    <2> USE PcValues DEF Proceed
    <2>1. /\ jobs' = [jobs EXCEPT ![n] = jobs'[n]]
          /\ \A m \in Events \ {n} : jobs'[m] = jobs[m]
          /\ UNCHANGED users
        BY <1>2, JobTyped, Effects DEF Rest
    <2>2. jobs[n] \in Job /\ Shaped(jobs[n])
        BY <1>1 DEF JobsShaped, DeliveryTypeOK
    <2>3. SUFFICES Shaped(jobs'[n])
        BY <1>1, <2>1 DEF JobsShaped
    <2>4. ASSUME ReceiveEvent(n) PROVE Shaped(jobs'[n])
        <3>1. \A u \in Candidates(n) : users[u] # Unissued
            BY RowsAreLive DEF Candidates, Live
        <3>2. /\ jobs[n] \in Job /\ jobs[n].pc = "waiting"
              /\ jobs'[n] = [jobs[n] EXCEPT
                      !.pc = IF Candidates(n) = {} THEN "matching" ELSE "probing",
                      !.candidates = Candidates(n)]
            BY <1>1, <2>2, <2>4 DEF ReceiveEvent, DeliveryTypeOK
        <3> DEFINE next == IF Candidates(n) = {} THEN "matching" ELSE "probing"
        <3>3. /\ jobs'[n].pc = next
              /\ jobs'[n].candidates = Candidates(n)
              /\ jobs'[n].owners = jobs[n].owners /\ jobs'[n].actor = jobs[n].actor
              /\ jobs'[n].plan = jobs[n].plan /\ jobs'[n].current = jobs[n].current
              /\ jobs'[n].attempt = jobs[n].attempt /\ jobs'[n].result = jobs[n].result
            BY <3>2 DEF Job
        <3>4. next \in {"matching", "probing"} /\ (next = "matching" => Candidates(n) = {})
            OBVIOUS
        <3> HIDE DEF next
        <3> QED BY <2>2, <2>1, <3>1, <3>2, <3>3, <3>4 DEF Attempting
    <2>5. ASSUME NEW u \in Users, SubmitEvent(n, u) PROVE Shaped(jobs'[n])
        BY <1>1, <2>2, <2>5, RowsAreLive DEF SubmitEvent, DeliveryTypeOK, Job, Attempting, Live
    <2>6. ASSUME NEW u \in Users, ProbeOwner(n, u) PROVE Shaped(jobs'[n])
        BY <1>1, <2>2, <2>6 DEF ProbeOwner, DeliveryTypeOK, Job, Attempting
    <2>7. ASSUME NEW u \in Users, MatchOwner(n, u) PROVE Shaped(jobs'[n])
        <3>1. /\ jobs'[n].pc = "delivering"
              /\ jobs'[n].owners = jobs[n].owners \ {u}
              /\ jobs'[n].actor \in Actor /\ jobs'[n].actor.user = u
              /\ jobs'[n].candidates = jobs[n].candidates
              /\ jobs'[n].current = jobs[n].current
              /\ jobs'[n].attempt = jobs[n].attempt
            BY <2>7, MatchEffect
        <3>2. jobs[n].pc = "matching" /\ u \in jobs[n].owners
            BY <2>7 DEF MatchOwner
        <3> QED BY <2>2, <3>1, <3>2, DeliveryAssumption DEF Attempting
    <2>8. ASSUME NEW p \in jobs[n].plan,
                 FetchTarget(n, p) \/ TargetUnavailable(n, p) \/ SecretUnreadable(n, p)
          PROVE  Shaped(jobs'[n])
        <3>1. p # Nothing /\ "unavailable" # Nothing
            BY <1>1, DeliveryAssumption, JobFields DEF Results
        <3>2. CASE FetchTarget(n, p)
            BY <1>1, <2>2, <3>1, <3>2
            DEF FetchTarget, IsNext, DeliveryTypeOK, Job, Attempting
        <3>3. CASE TargetUnavailable(n, p)
            BY <1>1, <2>2, <3>1, <3>3
            DEF TargetUnavailable, IsNext, DeliveryTypeOK, Job, Attempting
        <3>4. CASE SecretUnreadable(n, p)
            BY <1>1, <2>2, <3>4
            DEF SecretUnreadable, IsNext, DeliveryTypeOK, Job, Attempting
        <3> QED BY <2>8, <3>2, <3>3, <3>4
    <2>9. ASSUME NEW result \in {"success", "retryable", "permanent"},
                 CallAdapter(n, result)
          PROVE  Shaped(jobs'[n])
        BY <1>1, <2>2, <2>9, DeliveryAssumption DEF Results, CallAdapter, DeliveryTypeOK, Job, Attempting
    <2>10. ASSUME ReadBack(n) PROVE Shaped(jobs'[n])
        BY <1>1, <2>2, <2>10 DEF ReadBack, AfterRecord, NextRoute, Outcome, DeliveryTypeOK, Job, Attempting
    <2>11. ASSUME \/ RecordAttempt(n) \/ RecordFails(n) \/ ReadBackFails(n)
                  \/ EndOwner(n) \/ Return(n)
           PROVE  Shaped(jobs'[n])
        BY <1>1, <2>2, <2>11 DEF RecordAttempt, RecordFails, ReadBackFails, EndOwner,
           Return, DeliveryTypeOK, Job, Attempting
    <2> QED BY <1>2, <2>4, <2>5, <2>6, <2>7, <2>8, <2>9, <2>10, <2>11
            DEF Arrival, JobStep
<1>3. CASE Crash
    BY <1>1, <1>3, PcValues DEF Crash, DeliveryTypeOK, Job, JobsShaped, Attempting
<1>4. CASE Administer
    <2>1. \A u \in Users : users[u] # Unissued => users'[u] # Unissued
        BY <1>1, <1>4, UsersStep DEF Administer
    <2> QED BY <1>1, <1>4, <2>1, JobFields DEF Administer, JobsShaped, Actor
<1>5. CASE UNCHANGED deliveryVars
    BY <1>1, <1>5 DEF deliveryVars, JobsShaped
<1> QED BY <1>2, <1>3, <1>4, <1>5 DEF DeliveryNext

-----------------------------------------------------------------------------

\* The steps of a thread, by what they do to its job.

\* Arrivals, probes, the ends of loops and of jobs: no attempt is under way
\* afterwards, and no owner is added to those of an event that has arrived.
Quiet(n) ==
    \/ Arrival(n)
    \/ \E u \in Users : ProbeOwner(n, u)
    \/ \E p \in jobs[n].plan : SecretUnreadable(n, p)
    \/ RecordFails(n) \/ ReadBackFails(n) \/ EndOwner(n) \/ Return(n)

LEMMA QuietEffect ==
    ASSUME DeliveryInv, NEW n \in Events, Quiet(n)
    PROVE  /\ UNCHANGED <<history, planned, calls>>
           /\ jobs'[n].pc \in {"probing", "matching", "done", "aborted"}
           /\ jobs'[n].plan \subseteq jobs[n].plan
           /\ \/ jobs[n].pc = "waiting"
              \/ jobs'[n].owners \cup jobs'[n].candidates
                     \subseteq jobs[n].owners \cup jobs[n].candidates
           /\ \/ jobs[n].pc \notin {"recording", "aborted"}
              \/ /\ jobs[n].pc = "recording" /\ jobs'[n].pc = "aborted"
                 /\ jobs'[n].actor = jobs[n].actor
                 /\ jobs'[n].current = jobs[n].current
                 /\ jobs'[n].attempt = jobs[n].attempt
<1> USE DEF Proceed
<1>1. jobs \in [Events -> Job] /\ jobs[n] \in Job
    BY DEF DeliveryInv, DeliveryTypeOK
<1>2. CASE Arrival(n)
    <2>1. CASE ReceiveEvent(n)
        BY <1>1, <2>1 DEF ReceiveEvent, Job
    <2>2. ASSUME NEW u \in Users, SubmitEvent(n, u)
          PROVE  /\ UNCHANGED <<history, planned, calls>>
                 /\ jobs[n].pc = "waiting"
                 /\ jobs'[n].pc = "matching"
                 /\ jobs'[n].plan = jobs[n].plan
        BY <1>1, <2>2 DEF SubmitEvent, Job
    <2> QED BY <1>2, <2>1, <2>2 DEF Arrival
<1>3. ASSUME NEW u \in Users, ProbeOwner(n, u)
      PROVE  /\ UNCHANGED <<history, planned, calls>>
             /\ jobs[n].pc = "probing"
             /\ jobs'[n].pc \in {"probing", "matching"}
             /\ jobs'[n].plan = jobs[n].plan
             /\ jobs'[n].owners \subseteq jobs[n].owners \cup {u}
             /\ jobs'[n].candidates = jobs[n].candidates \ {u}
             /\ u \in jobs[n].candidates
    BY <1>1, <1>3 DEF ProbeOwner, Job
<1>4. ASSUME NEW p \in jobs[n].plan, SecretUnreadable(n, p)
      PROVE  /\ UNCHANGED <<history, planned, calls>>
             /\ jobs[n].pc = "delivering"
             /\ jobs'[n] = [jobs[n] EXCEPT !.pc = "aborted"]
    BY <1>1, <1>4 DEF SecretUnreadable, IsNext
<1>5. CASE RecordFails(n) \/ ReadBackFails(n) \/ EndOwner(n) \/ Return(n)
    BY <1>1, <1>5 DEF RecordFails, ReadBackFails, EndOwner, Return, Job
<1>6. CASE \E p \in jobs[n].plan : SecretUnreadable(n, p)
    BY <1>1, <1>4, <1>6 DEF Job
<1> QED BY <1>2, <1>3, <1>5, <1>6 DEF Quiet

\* A loop ends, or a thread, when it has nothing in hand; a thread that is
\* aborted loses what it had.
LEMMA QuietLeavesNothing ==
    ASSUME DeliveryInv, NEW n \in Events, Quiet(n)
    PROVE  \/ jobs[n].pc = "waiting"
           \/ jobs'[n].pc = "aborted"
           \/ jobs[n].pc \in Running /\ \A p : ~InHand(n, p)
<1> USE DEF Proceed
<1>1. jobs \in [Events -> Job] /\ jobs[n] \in Job
    BY DEF DeliveryInv, DeliveryTypeOK
<1>2. CASE Arrival(n)
    BY <1>2 DEF Arrival, ReceiveEvent, SubmitEvent
<1>3. ASSUME NEW u \in Users, ProbeOwner(n, u)
      PROVE  jobs[n].pc \in Running /\ \A p : ~InHand(n, p)
    BY <1>3 DEF ProbeOwner, Running, InHand, Attempting
<1>4. ASSUME NEW p \in jobs[n].plan, SecretUnreadable(n, p)
      PROVE  jobs'[n].pc = "aborted"
    BY <1>1, <1>4 DEF SecretUnreadable, Job
<1>5. CASE RecordFails(n) \/ ReadBackFails(n)
    BY <1>1, <1>5 DEF RecordFails, ReadBackFails, Job
<1>6. CASE EndOwner(n) \/ Return(n)
    BY <1>6 DEF EndOwner, Return, Running, InHand, Attempting
<1> QED BY <1>2, <1>3, <1>4, <1>5, <1>6 DEF Quiet

\* The next route of the plan becomes the current one.
LEMMA FetchEffect ==
    ASSUME DeliveryInv, NEW n \in Events, NEW p \in jobs[n].plan,
           FetchTarget(n, p) \/ TargetUnavailable(n, p)
    PROVE  /\ UNCHANGED <<history, planned, calls>>
           /\ jobs[n].pc = "delivering"
           /\ jobs'[n].plan = jobs[n].plan \ {p}
           /\ jobs'[n].current = p
           /\ jobs'[n].attempt = 1
           /\ jobs'[n].actor = jobs[n].actor
           /\ jobs'[n].owners = jobs[n].owners
           /\ jobs'[n].candidates = jobs[n].candidates
           /\ \/ jobs'[n].pc = "calling"
              \/ jobs'[n].pc = "recording" /\ jobs'[n].result = "unavailable"
<1> USE DEF Proceed
<1>1. jobs \in [Events -> Job] /\ jobs[n] \in Job
    BY DEF DeliveryInv, DeliveryTypeOK
<1>2. jobs[n].pc = "delivering" /\ jobs[n].attempt = 1
    BY DEF FetchTarget, TargetUnavailable, IsNext, DeliveryInv, JobsShaped
<1>3. CASE FetchTarget(n, p)
    BY <1>1, <1>2, <1>3 DEF FetchTarget, Job
<1>4. CASE TargetUnavailable(n, p)
    BY <1>1, <1>2, <1>4 DEF TargetUnavailable, Job
<1> QED BY <1>3, <1>4

\* What stays when an attempt goes on.
SameAttempt(J, K) ==
    /\ K.plan = J.plan
    /\ K.current = J.current
    /\ K.actor = J.actor
    /\ K.owners = J.owners
    /\ K.candidates = J.candidates

LEMMA CallEffect ==
    ASSUME DeliveryInv, NEW n \in Events,
           NEW result \in {"success", "retryable", "permanent"},
           CallAdapter(n, result)
    PROVE  /\ UNCHANGED <<history, planned>>
           /\ calls' = calls \cup {CallOf(n, jobs[n])}
           /\ CallOf(n, jobs[n]).event = n
           /\ CallOf(n, jobs[n]).owner = jobs[n].actor.user
           /\ CallOf(n, jobs[n]).route = jobs[n].current.route
           /\ CallOf(n, jobs[n]).attempt = jobs[n].attempt
           /\ jobs[n].pc = "calling"
           /\ jobs'[n].pc = "recording"
           /\ jobs'[n].attempt = jobs[n].attempt
           /\ jobs'[n].result = result
           /\ SameAttempt(jobs[n], jobs'[n])
<1>1. jobs \in [Events -> Job] /\ jobs[n] \in Job
    BY DEF DeliveryInv, DeliveryTypeOK
<1> QED BY <1>1 DEF CallAdapter, CallOf, Proceed, Job, SameAttempt

LEMMA AttemptFields ==
    ASSUME NEW n \in Events, NEW J
    PROVE  /\ AttemptOf(n, J).event = n
           /\ AttemptOf(n, J).owner = J.actor.user
           /\ AttemptOf(n, J).route = J.current.route
           /\ AttemptOf(n, J).attempt = J.attempt
           /\ AttemptOf(n, J).outcome = Outcome(J)
BY DEF AttemptOf

LEMMA RecordEffect ==
    ASSUME DeliveryInv, NEW n \in Events, RecordAttempt(n)
    PROVE  /\ UNCHANGED <<planned, calls>>
           /\ history' = history \cup {AttemptOf(n, jobs[n])}
           /\ ReferencesExist(jobs[n])
           /\ jobs[n].pc = "recording"
           /\ jobs'[n].pc = "reading"
           /\ jobs'[n].attempt = jobs[n].attempt
           /\ jobs'[n].result = jobs[n].result
           /\ AttemptOf(n, jobs'[n]) = AttemptOf(n, jobs[n])
           /\ SameAttempt(jobs[n], jobs'[n])
<1>1. jobs \in [Events -> Job] /\ jobs[n] \in Job
    BY DEF DeliveryInv, DeliveryTypeOK
<1> QED BY <1>1 DEF RecordAttempt, Proceed, Job, SameAttempt, AttemptOf, Outcome

\* The loop goes on with the next route, or with the next attempt when the one
\* that was recorded is to be retried.
LEMMA ReadBackEffect ==
    ASSUME DeliveryInv, NEW n \in Events, ReadBack(n)
    PROVE  /\ UNCHANGED <<history, planned, calls>>
           /\ jobs[n].pc = "reading"
           /\ AttemptOf(n, jobs[n]) \in history
           /\ jobs'[n].plan = jobs[n].plan
           /\ jobs'[n].actor = jobs[n].actor
           /\ jobs'[n].owners = jobs[n].owners
           /\ jobs'[n].candidates = jobs[n].candidates
           /\ \/ /\ jobs'[n].pc = "delivering"
                 /\ Outcome(jobs[n]) \in {"delivered", "failed"}
              \/ /\ jobs'[n].pc = "calling"
                 /\ Outcome(jobs[n]) = "retry_scheduled"
                 /\ jobs'[n].attempt = jobs[n].attempt + 1
                 /\ jobs'[n].current = jobs[n].current
<1>1. jobs \in [Events -> Job] /\ jobs[n] \in Job
    BY DEF DeliveryInv, DeliveryTypeOK
<1>2. jobs'[n] = AfterRecord(jobs[n])
    BY <1>1 DEF ReadBack, Proceed
<1> QED BY <1>1, <1>2 DEF ReadBack, AfterRecord, NextRoute, Outcome, Job

\* A step of the system is a step of one thread, which is one of these, a
\* restart, a management request or nothing.
LEMMA StepCases ==
    ASSUME DeliveryInv, [DeliveryNext]_deliveryVars
    PROVE  \/ \E n \in Events :
                  /\ Arrival(n) \/ JobStep(n)
                  /\ UNCHANGED users
                  /\ \A m \in Events \ {n} : jobs'[m] = jobs[m]
                  /\ \/ Quiet(n)
                     \/ \E u \in Users : MatchOwner(n, u)
                     \/ \E p \in jobs[n].plan :
                            FetchTarget(n, p) \/ TargetUnavailable(n, p)
                     \/ \E result \in {"success", "retryable", "permanent"} :
                            CallAdapter(n, result)
                     \/ RecordAttempt(n)
                     \/ ReadBack(n)
           \/ Crash
           \/ Administer
           \/ UNCHANGED deliveryVars
<1>1. ASSUME NEW n \in Events, Arrival(n) \/ JobStep(n)
      PROVE  /\ UNCHANGED users
             /\ \A m \in Events \ {n} : jobs'[m] = jobs[m]
    BY <1>1, JobTyped, Effects DEF Rest
<1>2. ASSUME NEW n \in Events, Arrival(n) \/ JobStep(n)
      PROVE  \/ Quiet(n)
             \/ \E u \in Users : MatchOwner(n, u)
             \/ \E p \in jobs[n].plan : FetchTarget(n, p) \/ TargetUnavailable(n, p)
             \/ \E result \in {"success", "retryable", "permanent"} :
                    CallAdapter(n, result)
             \/ RecordAttempt(n)
             \/ ReadBack(n)
    BY <1>2 DEF Quiet, JobStep
<1> QED BY <1>1, <1>2 DEF DeliveryNext

\* Nothing is called or recorded that was not planned.
LEMMA WorkStep == DeliveryInv /\ [DeliveryNext]_deliveryVars => WorkPlanned'
<1> SUFFICES ASSUME DeliveryInv, [DeliveryNext]_deliveryVars PROVE WorkPlanned'
    OBVIOUS
<1>1. WorkPlanned /\ PlansFresh /\ JobsShaped /\ DeliveryTypeOK /\ TypeOK
    BY DEF DeliveryInv, DeliveryTypeOK
<1> USE DEF WorkPlanned, SameDelivery
<1>2. CASE UNCHANGED <<users, history, planned, calls>>
    BY <1>1, <1>2 DEF Live
<1>3. ASSUME NEW n \in Events, Quiet(n), UNCHANGED users PROVE WorkPlanned'
    BY <1>2, <1>3, QuietEffect
<1>4. ASSUME NEW n \in Events, NEW u \in Users, MatchOwner(n, u), UNCHANGED users
      PROVE  WorkPlanned'
    <2>1. PICK sel \in Selections(u, n) :
              planned' = planned \cup {Planned(n, u, r) : r \in sel}
        BY <1>4, MatchEffect
    <2>2. users[u] # Unissued
        BY <1>1, <1>4 DEF MatchOwner, JobsShaped
    <2>3. \A r \in sel : Planned(n, u, r).owner = u
        BY DEF Planned
    <2> QED BY <1>1, <1>4, <2>1, <2>2, <2>3 DEF MatchOwner, Live
<1>5. ASSUME NEW n \in Events, NEW p \in jobs[n].plan, UNCHANGED users,
             FetchTarget(n, p) \/ TargetUnavailable(n, p)
      PROVE  WorkPlanned'
    BY <1>2, <1>5, FetchEffect
<1>6. ASSUME NEW n \in Events, NEW result \in {"success", "retryable", "permanent"},
             CallAdapter(n, result), UNCHANGED users
      PROVE  WorkPlanned'
    <2>1. IsPlanned(n, jobs[n].actor.user, jobs[n].current)
        BY <1>1, <1>6, CallEffect DEF PlansFresh, Attempting
    <2> QED BY <1>1, <1>6, <2>1, CallEffect DEF IsPlanned, Live
<1>7. ASSUME NEW n \in Events, RecordAttempt(n), UNCHANGED users PROVE WorkPlanned'
    <2>1. IsPlanned(n, jobs[n].actor.user, jobs[n].current)
        BY <1>1, <1>7, RecordEffect DEF PlansFresh, Attempting
    <2>2. Live(users, jobs[n].actor.user)
        BY <1>7, RecordEffect DEF ReferencesExist
    <2>3. \E p \in planned : SameDelivery(p, AttemptOf(n, jobs[n]))
        BY <2>1, AttemptFields DEF IsPlanned
    <2>4. Live(users, AttemptOf(n, jobs[n]).owner)
        BY <2>2, AttemptFields
    <2>5. /\ UNCHANGED <<planned, calls>>
          /\ history' = history \cup {AttemptOf(n, jobs[n])}
        BY <1>7, RecordEffect
    <2> QED BY <1>1, <1>7, <2>3, <2>4, <2>5 DEF Live
<1>8. ASSUME NEW n \in Events, ReadBack(n), UNCHANGED users PROVE WorkPlanned'
    BY <1>2, <1>8, ReadBackEffect
<1>9. CASE Crash
    BY <1>2, <1>9 DEF Crash
<1>10. CASE Administer
    <2>1. \A p \in planned : users'[p.owner] # Unissued
        BY <1>1, <1>10, UsersStep DEF Administer, DeliveryTypeOK, Plan
    <2> QED BY <1>1, <1>10, <2>1 DEF Administer, Live
<1>11. CASE UNCHANGED deliveryVars
    BY <1>2, <1>11 DEF deliveryVars
<1> QED BY <1>3, <1>4, <1>5, <1>6, <1>7, <1>8, <1>9, <1>10, <1>11, StepCases

\* What an owner or a route has still to be served with was not touched yet.
LEMMA FreshStep == DeliveryInv /\ [DeliveryNext]_deliveryVars => PlansFresh'
<1> SUFFICES ASSUME DeliveryInv, [DeliveryNext]_deliveryVars PROVE PlansFresh'
    OBVIOUS
<1>1. WorkPlanned /\ PlansFresh /\ JobsShaped /\ DeliveryTypeOK /\ TypeOK
    BY DEF DeliveryInv, DeliveryTypeOK
<1> DEFINE Fresh(n) ==
        LET J == jobs[n]
        IN  /\ \A p \in planned :
                   p.event = n =>
                       J.pc # "waiting" /\ p.owner \notin J.owners \cup J.candidates
            /\ \A p, q \in J.plan : p.route = q.route => p = q
            /\ J.pc \in {"delivering"} \cup Attempting =>
                   \A p \in J.plan :
                       /\ IsPlanned(n, J.actor.user, p)
                       /\ Untouched(n, J.actor.user, p.route)
            /\ J.pc \in Attempting =>
                   /\ IsPlanned(n, J.actor.user, J.current)
                   /\ \A p \in J.plan : p.route # J.current.route
<1>2. \A n \in Events : Fresh(n)
    BY <1>1 DEF PlansFresh
<1>3. SUFFICES ASSUME NEW m \in Events PROVE Fresh(m)'
    BY DEF PlansFresh
<1>4. ASSUME NEW n \in Events, Quiet(n), n # m => jobs'[m] = jobs[m] PROVE Fresh(m)'
    <2>1. CASE n # m
        BY <1>2, <1>4, <2>1, QuietEffect DEF IsPlanned, Untouched
    <2>2. CASE n = m
        BY <1>2, <1>4, <2>2, QuietEffect DEF Attempting
    <2> QED BY <2>1, <2>2
<1>5. ASSUME NEW n \in Events, NEW u \in Users, MatchOwner(n, u),
             n # m => jobs'[m] = jobs[m]
      PROVE  Fresh(m)'
    <2>1. PICK sel \in Selections(u, n) :
               /\ planned' = planned \cup {Planned(n, u, r) : r \in sel}
               /\ jobs'[n].pc = "delivering"
               /\ jobs'[n].owners = jobs[n].owners \ {u}
               /\ jobs'[n].plan = LoopOver(sel)
               /\ jobs'[n].actor.user = u
               /\ jobs'[n].candidates = jobs[n].candidates
        BY <1>5, MatchEffect
    <2>2. \A r \in sel : Planned(n, u, r).event = n /\ Planned(n, u, r).owner = u
                         /\ Planned(n, u, r).route = r
        BY DEF Planned
    <2>3. UNCHANGED <<history, calls>>
        BY <1>5 DEF MatchOwner
    <2>4. CASE n # m
        BY <1>2, <1>5, <2>1, <2>2, <2>3, <2>4 DEF IsPlanned, Untouched
    <2>5. CASE n = m
        <3>1. u \in jobs[n].owners /\ jobs[n].candidates = {}
            BY <1>1, <1>5 DEF MatchOwner, JobsShaped, Running
        <3>2. \A p \in planned : p.event = n => p.owner # u
            BY <1>2, <3>1
        <3>3. \A p \in planned' :
                  p.event = n => p.owner \notin jobs'[n].owners \cup jobs'[n].candidates
            BY <1>2, <2>1, <2>2, <3>1
        <3>4. \A p \in LoopOver(sel) : \E r \in sel : p = AsPlanned(r) /\ p.route = r
            BY DEF LoopOver, AsPlanned
        <3>5. \A p \in LoopOver(sel) : IsPlanned(n, u, p)'
            BY <2>1, <2>2, <3>4 DEF IsPlanned
        <3>6. \A x \in calls \cup history : ~(x.event = n /\ x.owner = u)
            BY <1>1, <3>2 DEF WorkPlanned, SameDelivery
        <3>7. \A p \in LoopOver(sel) : Untouched(n, u, p.route)'
            BY <2>3, <3>6 DEF Untouched
        <3> QED BY <2>1, <2>5, <3>3, <3>4, <3>5, <3>7 DEF Attempting
    <2> QED BY <2>4, <2>5
<1>6. ASSUME NEW n \in Events, NEW p \in jobs[n].plan, n # m => jobs'[m] = jobs[m],
             FetchTarget(n, p) \/ TargetUnavailable(n, p)
      PROVE  Fresh(m)'
    <2>1. CASE n # m
        BY <1>2, <1>6, <2>1, FetchEffect DEF IsPlanned, Untouched
    <2>2. CASE n = m
        BY <1>2, <1>6, <2>2, FetchEffect DEF IsPlanned, Untouched, Attempting
    <2> QED BY <2>1, <2>2
<1>7. ASSUME NEW n \in Events, NEW result \in {"success", "retryable", "permanent"},
             CallAdapter(n, result), n # m => jobs'[m] = jobs[m]
      PROVE  Fresh(m)'
    <2>1. CASE n # m
        BY <1>2, <1>7, <2>1, CallEffect DEF IsPlanned, Untouched
    <2>2. CASE n = m
        BY <1>2, <1>7, <2>2, CallEffect DEF SameAttempt, IsPlanned, Untouched, Attempting
    <2> QED BY <2>1, <2>2
<1>8. ASSUME NEW n \in Events, RecordAttempt(n), n # m => jobs'[m] = jobs[m]
      PROVE  Fresh(m)'
    <2> DEFINE row == AttemptOf(n, jobs[n])
    <2>0. /\ UNCHANGED <<planned, calls>>
          /\ history' = history \cup {row}
          /\ jobs[n].pc = "recording"
          /\ jobs'[n].pc = "reading"
          /\ SameAttempt(jobs[n], jobs'[n])
          /\ row.event = n
          /\ row.owner = jobs[n].actor.user
          /\ row.route = jobs[n].current.route
        BY <1>8, RecordEffect, AttemptFields
    <2> HIDE DEF row
    <2>1. CASE n # m
        BY <1>2, <1>8, <2>0, <2>1 DEF IsPlanned, Untouched
    <2>2. CASE n = m
        BY <1>2, <1>8, <2>0, <2>2
        DEF SameAttempt, IsPlanned, Untouched, Attempting
    <2> QED BY <2>1, <2>2
<1>9. ASSUME NEW n \in Events, ReadBack(n), n # m => jobs'[m] = jobs[m]
      PROVE  Fresh(m)'
    <2>1. CASE n # m
        BY <1>2, <1>9, <2>1, ReadBackEffect DEF IsPlanned, Untouched
    <2>2. CASE n = m
        BY <1>2, <1>9, <2>2, ReadBackEffect DEF IsPlanned, Untouched, Attempting
    <2> QED BY <2>1, <2>2
<1>10. CASE Crash
    <2>1. \/ jobs'[m] = jobs[m]
          \/ jobs'[m] = [jobs[m] EXCEPT !.pc = "aborted"]
        BY <1>10 DEF Crash
    <2>2. jobs[m] \in Job
        BY <1>1, JobFields
    <2>3. UNCHANGED <<history, planned, calls>>
        BY <1>10 DEF Crash
    <2> QED BY <1>2, <2>1, <2>2, <2>3 DEF Job, IsPlanned, Untouched, Attempting
<1>11. CASE Administer
    <2>1. history' \subseteq history /\ UNCHANGED <<jobs, planned, calls>>
        BY <1>11 DEF Administer
    <2> QED BY <1>2, <2>1 DEF IsPlanned, Untouched
<1>12. CASE UNCHANGED deliveryVars
    BY <1>2, <1>12 DEF deliveryVars, IsPlanned, Untouched
<1> QED BY <1>4, <1>5, <1>6, <1>7, <1>8, <1>9, <1>10, <1>11, <1>12, StepCases

\* How far the calls and the history of the current delivery are.
LEMMA OrderStep == DeliveryInv /\ [DeliveryNext]_deliveryVars => AttemptsInOrder'
<1> SUFFICES ASSUME DeliveryInv, [DeliveryNext]_deliveryVars PROVE AttemptsInOrder'
    OBVIOUS
<1>1. /\ AttemptsInOrder /\ WorkPlanned /\ PlansFresh /\ JobsShaped
      /\ DeliveryTypeOK /\ TypeOK
    BY DEF DeliveryInv, DeliveryTypeOK
<1> DEFINE InOrder(n) ==
        LET J == jobs[n]
        IN  J.pc \in Attempting =>
            /\ \A c \in calls :
                   IsCurrent(n, c) =>
                       c.attempt <= J.attempt /\ (J.pc = "calling" => c.attempt # J.attempt)
            /\ \A h \in history :
                   IsCurrent(n, h) =>
                       \/ h.attempt < J.attempt /\ h.outcome = "retry_scheduled"
                       \/ J.pc = "reading" /\ h = AttemptOf(n, J)
            /\ J.pc # "reading" /\ J.attempt > 1 /\ Live(users, J.actor.user) =>
                   \E h \in history : /\ IsCurrent(n, h)
                                      /\ h.attempt = J.attempt - 1
                                      /\ h.outcome = "retry_scheduled"
            /\ J.pc = "recording" /\ J.result # "unavailable" =>
                   \E c \in calls : IsCurrent(n, c) /\ c.attempt = J.attempt
<1>2. \A n \in Events : InOrder(n)
    BY <1>1 DEF AttemptsInOrder
<1>3. SUFFICES ASSUME NEW m \in Events PROVE InOrder(m)'
    BY DEF AttemptsInOrder
<1>4. \A n \in Events : jobs[n] \in Job /\ jobs[n].attempt \in 1..5
    BY <1>1, JobFields, DeliveryAssumption DEF Job
<1>5. /\ \A c \in calls : c.attempt \in 1..5
      /\ \A h \in history : h.attempt \in 1..5
    BY <1>1, DeliveryAssumption DEF DeliveryTypeOK, Call, Attempt
<1>6. ASSUME jobs'[m] = jobs[m], UNCHANGED users,
             \A x \in calls' \ calls : x.event # m,
             \A x \in history' \ history : x.event # m,
             calls \subseteq calls', history \subseteq history'
      PROVE  InOrder(m)'
    BY <1>2, <1>6 DEF IsCurrent
<1>7. ASSUME NEW n \in Events, Quiet(n), n # m => jobs'[m] = jobs[m], UNCHANGED users
      PROVE  InOrder(m)'
    <2>1. CASE n # m
        BY <1>6, <1>7, <2>1, QuietEffect
    <2>2. CASE n = m
        BY <1>7, <2>2, QuietEffect DEF Attempting
    <2> QED BY <2>1, <2>2
<1>8. ASSUME NEW n \in Events, NEW u \in Users, MatchOwner(n, u),
             n # m => jobs'[m] = jobs[m], UNCHANGED users
      PROVE  InOrder(m)'
    <2>1. CASE n # m
        BY <1>6, <1>8, <2>1 DEF MatchOwner
    <2>2. CASE n = m
        BY <1>8, <2>2, MatchEffect DEF Attempting
    <2> QED BY <2>1, <2>2
<1>9. ASSUME NEW n \in Events, NEW p \in jobs[n].plan, n # m => jobs'[m] = jobs[m],
             FetchTarget(n, p) \/ TargetUnavailable(n, p), UNCHANGED users
      PROVE  InOrder(m)'
    <2>1. CASE n # m
        BY <1>6, <1>9, <2>1, FetchEffect
    <2>2. CASE n = m
        <3>1. Untouched(n, jobs[n].actor.user, p.route)
            BY <1>1, <1>9, FetchEffect DEF PlansFresh
        <3> QED BY <1>9, <2>2, <3>1, FetchEffect DEF Untouched, IsCurrent
    <2> QED BY <2>1, <2>2
<1>10. ASSUME NEW n \in Events, NEW result \in {"success", "retryable", "permanent"},
              CallAdapter(n, result), n # m => jobs'[m] = jobs[m], UNCHANGED users
       PROVE  InOrder(m)'
    <2>1. CASE n # m
        BY <1>6, <1>10, <2>1, CallEffect
    <2>2. CASE n = m
        <3> DEFINE call == CallOf(n, jobs[n])
        <3>1. /\ UNCHANGED history
              /\ calls' = calls \cup {call}
              /\ call.event = n
              /\ call.owner = jobs[n].actor.user
              /\ call.route = jobs[n].current.route
              /\ call.attempt = jobs[n].attempt
              /\ jobs[n].pc = "calling"
              /\ jobs'[n].pc = "recording"
              /\ jobs'[n].attempt = jobs[n].attempt
              /\ SameAttempt(jobs[n], jobs'[n])
            BY <1>10, CallEffect
        <3> HIDE DEF call
        <3> QED BY <1>2, <1>4, <1>5, <1>10, <2>2, <3>1
                DEF IsCurrent, SameAttempt, Attempting
    <2> QED BY <2>1, <2>2
<1>11. ASSUME NEW n \in Events, RecordAttempt(n), n # m => jobs'[m] = jobs[m],
              UNCHANGED users
       PROVE  InOrder(m)'
    <2> DEFINE row == AttemptOf(n, jobs[n])
    <2>1. /\ UNCHANGED <<planned, calls>>
          /\ history' = history \cup {row}
          /\ jobs[n].pc = "recording"
          /\ jobs'[n].pc = "reading"
          /\ jobs'[n].attempt = jobs[n].attempt
          /\ SameAttempt(jobs[n], jobs'[n])
          /\ row.event = n
          /\ AttemptOf(n, jobs'[n]) = row
        BY <1>11, RecordEffect, AttemptFields
    <2> HIDE DEF row
    <2>2. CASE n # m
        BY <1>6, <1>11, <2>1, <2>2
    <2>3. CASE n = m
        BY <1>2, <1>4, <1>5, <2>1, <2>3 DEF IsCurrent, SameAttempt, Attempting
    <2> QED BY <2>2, <2>3
<1>12. ASSUME NEW n \in Events, ReadBack(n), n # m => jobs'[m] = jobs[m],
              UNCHANGED users
       PROVE  InOrder(m)'
    <2> DEFINE row == AttemptOf(n, jobs[n])
    <2>1. CASE n # m
        BY <1>6, <1>12, <2>1, ReadBackEffect
    <2>2. CASE n = m /\ jobs'[n].pc = "calling"
        <3>1. /\ UNCHANGED <<history, calls>>
              /\ jobs[n].pc = "reading"
              /\ jobs'[n].actor = jobs[n].actor
              /\ jobs'[n].current = jobs[n].current
              /\ jobs'[n].attempt = jobs[n].attempt + 1
              /\ row \in history
              /\ row.event = n
              /\ row.owner = jobs[n].actor.user
              /\ row.route = jobs[n].current.route
              /\ row.attempt = jobs[n].attempt
              /\ row.outcome = "retry_scheduled"
            BY <1>12, <2>2, ReadBackEffect, AttemptFields
        <3> HIDE DEF row
        <3>2. \A h \in history :
                  IsCurrent(n, h) =>
                      \/ h.attempt < jobs[n].attempt /\ h.outcome = "retry_scheduled"
                      \/ h = row
            BY <1>2, <3>1 DEF Attempting, row
        <3> QED BY <1>2, <1>4, <1>5, <2>2, <3>1, <3>2 DEF IsCurrent, Attempting
    <2>3. CASE n = m /\ jobs'[n].pc # "calling"
        BY <1>12, <2>3, ReadBackEffect DEF Attempting
    <2> QED BY <2>1, <2>2, <2>3
<1>13. CASE Crash
    <2>1. \/ jobs'[m] = jobs[m]
          \/ jobs'[m] = [jobs[m] EXCEPT !.pc = "aborted"]
        BY <1>13 DEF Crash
    <2>2. CASE jobs'[m] = jobs[m]
        BY <1>6, <1>13, <2>2 DEF Crash
    <2>3. CASE jobs'[m] = [jobs[m] EXCEPT !.pc = "aborted"]
        BY <1>4, <2>3 DEF Attempting, Job
    <2> QED BY <2>1, <2>2, <2>3
<1>14. CASE Administer
    <2>1. /\ history' = {h \in history : users'[h.owner] \notin Absent}
          /\ UNCHANGED <<jobs, calls>>
        BY <1>14 DEF Administer
    <2>2. jobs[m].pc \in Attempting =>
              jobs[m].actor \in Actor /\ users[jobs[m].actor.user] # Unissued
        BY <1>1, JobFields DEF JobsShaped
    <2>3. jobs[m].pc \in Attempting /\ Live(users', jobs[m].actor.user) =>
              Live(users, jobs[m].actor.user)
        BY <1>1, <1>14, <2>2, UsersStep, RowsAreLive
        DEF Administer, Live, Actor, Absent
    <2> QED BY <1>2, <2>1, <2>3 DEF IsCurrent, Live
<1>15. CASE UNCHANGED deliveryVars
    BY <1>6, <1>15 DEF deliveryVars
<1> QED BY <1>7, <1>8, <1>9, <1>10, <1>11, <1>12, <1>13, <1>14, <1>15, StepCases

\* A thread has settled what it planned, or has it in hand.
LEMMA ServedStep == DeliveryInv /\ [DeliveryNext]_deliveryVars => PlansServed'
<1> SUFFICES ASSUME DeliveryInv, [DeliveryNext]_deliveryVars PROVE PlansServed'
    OBVIOUS
<1>1. /\ PlansServed /\ PlansFresh /\ JobsShaped /\ WorkPlanned
      /\ DeliveryTypeOK /\ TypeOK
    BY DEF DeliveryInv, DeliveryTypeOK
<1> DEFINE Ended(p) == Settled(p, "delivered") \/ Settled(p, "failed")
           Served(n, p) == users[p.owner] = Deleted \/ Ended(p) \/ InHand(n, p)
           Serves(n) ==
               jobs[n].pc \in Running \cup {"done"} =>
                   \A p \in planned : p.event = n => Served(n, p)
<1>2. \A n \in Events : Serves(n)
    BY <1>1 DEF PlansServed
<1>3. SUFFICES ASSUME NEW m \in Events PROVE Serves(m)'
    BY DEF PlansServed
<1>4. ASSUME jobs'[m] = jobs[m], UNCHANGED users, history \subseteq history',
             \A p \in planned' \ planned : p.event # m
      PROVE  Serves(m)'
    <2>1. \A p : Ended(p) => Ended(p)'
        BY <1>4 DEF Settled
    <2>2. \A p : InHand(m, p) => InHand(m, p)'
        BY <1>4 DEF InHand
    <2> QED BY <1>2, <1>4, <2>1, <2>2
<1>5. ASSUME NEW n \in Events, Quiet(n), n # m => jobs'[m] = jobs[m], UNCHANGED users
      PROVE  Serves(m)'
    <2>1. CASE n # m
        BY <1>4, <1>5, <2>1, QuietEffect
    <2>2. CASE n = m
        <3>1. /\ UNCHANGED <<history, planned>>
              /\ jobs[n].pc = "waiting" \/ \A p : ~InHand(n, p) \/ jobs'[n].pc = "aborted"
              /\ jobs[n].pc \in Running \cup {"waiting", "done"} \/ jobs'[n].pc = "aborted"
            BY <1>1, <1>5, QuietEffect, QuietLeavesNothing
        <3>2. jobs[n].pc = "waiting" => \A p \in planned : p.event # n
            BY <1>1 DEF PlansFresh
        <3>3. \A p : Ended(p) => Ended(p)'
            BY <3>1 DEF Settled
        <3>4. CASE jobs[n].pc = "waiting"
            BY <2>2, <3>1, <3>2, <3>4
        <3>5. CASE jobs'[n].pc = "aborted"
            BY <2>2, <3>5 DEF Running
        <3>6. CASE jobs[n].pc # "waiting" /\ jobs'[n].pc # "aborted"
            BY <1>2, <1>5, <2>2, <3>1, <3>3, <3>6
        <3> QED BY <3>4, <3>5, <3>6
    <2> QED BY <2>1, <2>2
<1>6. ASSUME NEW n \in Events, NEW u \in Users, MatchOwner(n, u),
             n # m => jobs'[m] = jobs[m], UNCHANGED users
      PROVE  Serves(m)'
    <2>1. PICK sel \in Selections(u, n) :
               /\ planned' = planned \cup {Planned(n, u, r) : r \in sel}
               /\ jobs'[n].pc = "delivering"
               /\ jobs'[n].plan = LoopOver(sel)
               /\ jobs'[n].actor.user = u
        BY <1>6, MatchEffect
    <2>2. \A r \in sel : /\ Planned(n, u, r).event = n
                         /\ Planned(n, u, r).owner = u
                         /\ Planned(n, u, r).route = r
        BY DEF Planned
    <2>3. UNCHANGED history /\ jobs[n].pc = "matching"
        BY <1>6 DEF MatchOwner
    <2>4. CASE n # m
        BY <1>4, <1>6, <2>1, <2>2, <2>3, <2>4
    <2>5. CASE n = m
        <3>1. \A p \in planned : p.event = n => users[p.owner] = Deleted \/ Ended(p)
            BY <1>2, <2>3 DEF InHand, Attempting, Running
        <3>2. \A p : Ended(p) => Ended(p)'
            BY <2>3 DEF Settled
        <3>3. ASSUME NEW p \in planned', p \notin planned PROVE InHand(n, p)'
            <4>1. PICK r \in sel : p.owner = u /\ p.route = r
                BY <2>1, <2>2, <3>3
            <4>2. AsPlanned(r) \in jobs'[n].plan /\ AsPlanned(r).route = r
                BY <2>1 DEF LoopOver, AsPlanned
            <4> QED BY <2>1, <4>1, <4>2 DEF InHand
        <3> QED BY <1>6, <2>1, <2>5, <3>1, <3>2, <3>3
    <2> QED BY <2>4, <2>5
<1>7. ASSUME NEW n \in Events, UNCHANGED <<users, planned>>,
             history \subseteq history', n # m => jobs'[m] = jobs[m],
             jobs[n].pc \in Running,
             \A p \in planned : InHand(n, p) => InHand(n, p)' \/ Ended(p)'
      PROVE  Serves(m)'
    <2>1. CASE n # m
        BY <1>4, <1>7, <2>1
    <2>2. CASE n = m
        <3>1. \A p : Ended(p) => Ended(p)'
            BY <1>7 DEF Settled
        <3> QED BY <1>2, <1>7, <2>2, <3>1
    <2> QED BY <2>1, <2>2
<1>8. ASSUME NEW n \in Events, NEW p \in jobs[n].plan, n # m => jobs'[m] = jobs[m],
             FetchTarget(n, p) \/ TargetUnavailable(n, p), UNCHANGED users
      PROVE  Serves(m)'
    <2>1. \A q \in planned : InHand(n, q) => InHand(n, q)'
        BY <1>8, FetchEffect DEF InHand, Attempting
    <2> QED BY <1>7, <1>8, <2>1, FetchEffect DEF Running
<1>9. ASSUME NEW n \in Events, NEW result \in {"success", "retryable", "permanent"},
             CallAdapter(n, result), n # m => jobs'[m] = jobs[m], UNCHANGED users
      PROVE  Serves(m)'
    <2>1. \A q \in planned : InHand(n, q) => InHand(n, q)'
        BY <1>9, CallEffect DEF InHand, Attempting, SameAttempt
    <2> QED BY <1>7, <1>9, <2>1, CallEffect DEF Running
<1>10. ASSUME NEW n \in Events, RecordAttempt(n), n # m => jobs'[m] = jobs[m],
              UNCHANGED users
       PROVE  Serves(m)'
    <2>1. \A q \in planned : InHand(n, q) => InHand(n, q)'
        BY <1>10, RecordEffect DEF InHand, Attempting, SameAttempt
    <2> QED BY <1>7, <1>10, <2>1, RecordEffect DEF Running
<1>11. ASSUME NEW n \in Events, ReadBack(n), n # m => jobs'[m] = jobs[m],
              UNCHANGED users
       PROVE  Serves(m)'
    <2> DEFINE row == AttemptOf(n, jobs[n])
    <2>1. /\ UNCHANGED <<history, planned>>
          /\ jobs[n].pc = "reading"
          /\ row \in history
          /\ jobs'[n].plan = jobs[n].plan
          /\ jobs'[n].actor = jobs[n].actor
          /\ \/ /\ jobs'[n].pc = "delivering"
                /\ Outcome(jobs[n]) \in {"delivered", "failed"}
             \/ jobs'[n].pc = "calling" /\ jobs'[n].current = jobs[n].current
        BY <1>11, ReadBackEffect
    <2>2. /\ row.event = n
          /\ row.owner = jobs[n].actor.user
          /\ row.route = jobs[n].current.route
          /\ row.outcome = Outcome(jobs[n])
        BY DEF AttemptOf
    <2> HIDE DEF row
    <2>3. ASSUME NEW q \in planned, q.event = n, InHand(n, q)
          PROVE  InHand(n, q)' \/ Ended(q)'
        <3>1. CASE \E p \in jobs[n].plan : p.route = q.route
            BY <2>1, <2>3, <3>1 DEF InHand, Attempting
        <3>2. CASE jobs[n].current.route = q.route
            <4>1. CASE jobs'[n].pc = "calling"
                BY <2>1, <2>3, <3>2, <4>1 DEF InHand, Attempting
            <4>2. CASE jobs'[n].pc = "delivering"
                <5>1. row.outcome \in {"delivered", "failed"} /\ SameDelivery(row, q)
                    BY <2>1, <2>2, <2>3, <3>2, <4>2 DEF SameDelivery, InHand
                <5> QED BY <2>1, <5>1 DEF Settled
            <4> QED BY <2>1, <4>1, <4>2
        <3> QED BY <2>3, <3>1, <3>2 DEF InHand
    <2>4. CASE n # m
        BY <1>4, <1>11, <2>1, <2>4
    <2>5. CASE n = m
        <3>1. \A p : Ended(p) => Ended(p)'
            BY <2>1 DEF Settled
        <3>2. jobs[n].pc \in Running
            BY <2>1 DEF Running
        <3> QED BY <1>2, <1>11, <2>1, <2>3, <2>5, <3>1, <3>2
    <2> QED BY <2>4, <2>5
<1>12. CASE Crash
    <2>1. \/ jobs'[m] = jobs[m]
          \/ jobs'[m] = [jobs[m] EXCEPT !.pc = "aborted"]
        BY <1>12 DEF Crash
    <2>2. CASE jobs'[m] = jobs[m]
        BY <1>4, <1>12, <2>2 DEF Crash
    <2>3. CASE jobs'[m] = [jobs[m] EXCEPT !.pc = "aborted"]
        BY <1>1, <2>3, JobFields DEF Running, Job
    <2> QED BY <2>1, <2>2, <2>3
<1>13. CASE Administer
    <2>1. /\ history' = {h \in history : users'[h.owner] \notin Absent}
          /\ UNCHANGED <<jobs, planned>>
        BY <1>13 DEF Administer
    <2>2. \A p \in planned : /\ p.owner \in Users
                             /\ users[p.owner] = Deleted => users'[p.owner] = Deleted
                             /\ users'[p.owner] # Unissued
        BY <1>1, <1>13, UsersStep DEF Administer, WorkPlanned, DeliveryTypeOK, Plan
    <2>3. \A p \in planned :
              Ended(p) => Ended(p)' \/ users'[p.owner] = Deleted
        BY <2>1, <2>2 DEF Settled, SameDelivery, Absent
    <2>4. \A p : InHand(m, p) => InHand(m, p)'
        BY <2>1 DEF InHand
    <2> QED BY <1>2, <2>1, <2>2, <2>3, <2>4
<1>14. CASE UNCHANGED deliveryVars
    BY <1>4, <1>14 DEF deliveryVars
<1> QED BY <1>5, <1>6, <1>8, <1>9, <1>10, <1>11, <1>12, <1>13, <1>14, StepCases

\* Every attempt before the current one has called the adapter.
LEMMA MadeStep == DeliveryInv /\ [DeliveryNext]_deliveryVars => CallsMade'
<1> SUFFICES ASSUME DeliveryInv, [DeliveryNext]_deliveryVars PROVE CallsMade'
    OBVIOUS
<1>1. CallsMade /\ JobsShaped /\ DeliveryTypeOK /\ TypeOK
    BY DEF DeliveryInv, DeliveryTypeOK
<1> DEFINE Made(n) ==
        LET J == jobs[n]
        IN  J.pc \in Attempting =>
                \A k \in 1..J.attempt :
                    k < J.attempt \/ (J.pc # "calling" /\ J.result # "unavailable") =>
                        \E c \in calls : IsCurrent(n, c) /\ c.attempt = k
<1>2. \A n \in Events : Made(n)
    BY <1>1 DEF CallsMade
<1>3. SUFFICES ASSUME NEW m \in Events PROVE Made(m)'
    BY DEF CallsMade
<1>4. \A n \in Events : jobs[n] \in Job /\ jobs[n].attempt \in 1..5
    BY <1>1, JobFields, DeliveryAssumption DEF Job
<1>5. ASSUME jobs'[m] = jobs[m], calls \subseteq calls' PROVE Made(m)'
    BY <1>2, <1>5 DEF IsCurrent
<1>6. ASSUME NEW n \in Events, Quiet(n), n # m => jobs'[m] = jobs[m] PROVE Made(m)'
    <2>1. CASE n # m
        BY <1>5, <1>6, <2>1, QuietEffect
    <2>2. CASE n = m
        BY <1>6, <2>2, QuietEffect DEF Attempting
    <2> QED BY <2>1, <2>2
<1>7. ASSUME NEW n \in Events, NEW u \in Users, MatchOwner(n, u),
             n # m => jobs'[m] = jobs[m]
      PROVE  Made(m)'
    <2>1. CASE n # m
        BY <1>5, <1>7, <2>1 DEF MatchOwner
    <2>2. CASE n = m
        BY <1>7, <2>2, MatchEffect DEF Attempting
    <2> QED BY <2>1, <2>2
<1>8. ASSUME NEW n \in Events, NEW p \in jobs[n].plan, n # m => jobs'[m] = jobs[m],
             FetchTarget(n, p) \/ TargetUnavailable(n, p)
      PROVE  Made(m)'
    <2>1. CASE n # m
        BY <1>5, <1>8, <2>1, FetchEffect
    <2>2. CASE n = m
        BY <1>8, <2>2, FetchEffect
    <2> QED BY <2>1, <2>2
<1>9. ASSUME NEW n \in Events, NEW result \in {"success", "retryable", "permanent"},
             CallAdapter(n, result), n # m => jobs'[m] = jobs[m]
      PROVE  Made(m)'
    <2> DEFINE call == CallOf(n, jobs[n])
    <2>1. /\ calls' = calls \cup {call}
          /\ call.event = n
          /\ call.owner = jobs[n].actor.user
          /\ call.route = jobs[n].current.route
          /\ call.attempt = jobs[n].attempt
          /\ jobs[n].pc = "calling"
          /\ jobs'[n].pc = "recording"
          /\ jobs'[n].attempt = jobs[n].attempt
          /\ jobs'[n].actor = jobs[n].actor
          /\ jobs'[n].current = jobs[n].current
        BY <1>9, CallEffect DEF SameAttempt
    <2> HIDE DEF call
    <2>2. CASE n # m
        BY <1>5, <1>9, <2>1, <2>2
    <2>3. CASE n = m
        <3>1. \A k \in 1..jobs[n].attempt :
                  k < jobs[n].attempt \/ k = jobs[n].attempt
            BY <1>4
        <3>2. \A k \in 1..jobs[n].attempt :
                  k < jobs[n].attempt =>
                      \E c \in calls : IsCurrent(n, c) /\ c.attempt = k
            BY <1>2, <2>1 DEF Attempting
        <3> QED BY <2>1, <2>3, <3>1, <3>2 DEF IsCurrent
    <2> QED BY <2>2, <2>3
<1>10. ASSUME NEW n \in Events, RecordAttempt(n), n # m => jobs'[m] = jobs[m]
       PROVE  Made(m)'
    <2>1. CASE n # m
        BY <1>5, <1>10, <2>1, RecordEffect
    <2>2. CASE n = m
        BY <1>2, <1>10, <2>2, RecordEffect DEF SameAttempt, IsCurrent, Attempting
    <2> QED BY <2>1, <2>2
<1>11. ASSUME NEW n \in Events, ReadBack(n), n # m => jobs'[m] = jobs[m]
       PROVE  Made(m)'
    <2>1. CASE n # m
        BY <1>5, <1>11, <2>1, ReadBackEffect
    <2>2. CASE n = m /\ jobs'[n].pc = "calling"
        <3>1. /\ UNCHANGED calls
              /\ jobs[n].pc = "reading"
              /\ jobs'[n].actor = jobs[n].actor
              /\ jobs'[n].current = jobs[n].current
              /\ jobs'[n].attempt = jobs[n].attempt + 1
              /\ jobs[n].result # "unavailable"
            BY <1>11, <2>2, ReadBackEffect DEF Outcome
        <3>2. \A k \in 1..jobs'[n].attempt :
                  k < jobs'[n].attempt => k \in 1..jobs[n].attempt
            BY <1>4, <3>1
        <3>3. \A k \in 1..jobs[n].attempt :
                  \E c \in calls : IsCurrent(n, c) /\ c.attempt = k
            BY <1>2, <3>1 DEF Attempting
        <3> QED BY <2>2, <3>1, <3>2, <3>3 DEF IsCurrent
    <2>3. CASE n = m /\ jobs'[n].pc # "calling"
        BY <1>11, <2>3, ReadBackEffect DEF Attempting
    <2> QED BY <2>1, <2>2, <2>3
<1>12. CASE Crash
    <2>1. \/ jobs'[m] = jobs[m]
          \/ jobs'[m] = [jobs[m] EXCEPT !.pc = "aborted"]
        BY <1>12 DEF Crash
    <2>2. CASE jobs'[m] = jobs[m]
        BY <1>5, <1>12, <2>2 DEF Crash
    <2>3. CASE jobs'[m] = [jobs[m] EXCEPT !.pc = "aborted"]
        BY <1>4, <2>3 DEF Attempting, Job
    <2> QED BY <2>1, <2>2, <2>3
<1>13. CASE Administer
    BY <1>5, <1>13 DEF Administer
<1>14. CASE UNCHANGED deliveryVars
    BY <1>5, <1>14 DEF deliveryVars
<1> QED BY <1>6, <1>7, <1>8, <1>9, <1>10, <1>11, <1>12, <1>13, <1>14, StepCases

-----------------------------------------------------------------------------

\* The history is appended to by RecordAttempt and cut by deletions of users.
LEMMA HistoryStep ==
    ASSUME DeliveryInv, [DeliveryNext]_deliveryVars
    PROVE  \/ UNCHANGED history
           \/ \E n \in Events : RecordAttempt(n)
           \/ Administer
BY StepCases, QuietEffect, FetchEffect, CallEffect, ReadBackEffect
   DEF MatchOwner, Crash, deliveryVars

\* Attempts are chained: numbered from one, each after a retry was scheduled.
LEMMA ChainStep == DeliveryInv /\ [DeliveryNext]_deliveryVars => AttemptsChained'
<1> SUFFICES ASSUME DeliveryInv, [DeliveryNext]_deliveryVars PROVE AttemptsChained'
    OBVIOUS
<1>1. /\ AttemptsChained /\ AttemptsInOrder /\ JobsShaped
      /\ DeliveryTypeOK /\ TypeOK
    BY DEF DeliveryInv, DeliveryTypeOK
<1> USE DEF AttemptsChained, SameDelivery
<1>2. CASE UNCHANGED history
    BY <1>1, <1>2
<1>3. ASSUME NEW n \in Events, RecordAttempt(n) PROVE AttemptsChained'
    <2> DEFINE row == AttemptOf(n, jobs[n])
    <2>1. /\ history' = history \cup {row}
          /\ jobs[n].pc = "recording"
          /\ Live(users, jobs[n].actor.user)
          /\ row.event = n
          /\ row.owner = jobs[n].actor.user
          /\ row.route = jobs[n].current.route
          /\ row.attempt = jobs[n].attempt
          /\ row.outcome = Outcome(jobs[n])
        BY <1>3, RecordEffect, AttemptFields DEF ReferencesExist
    <2> HIDE DEF row
    <2>2. jobs[n].attempt \in 1..5 /\ \A h \in history : h.attempt \in 1..5
        BY <1>1, JobFields, DeliveryAssumption DEF DeliveryTypeOK, Job, Attempt
    <2>3. \A h \in history :
              SameDelivery(h, row) =>
                  h.attempt < row.attempt /\ h.outcome = "retry_scheduled"
        BY <1>1, <2>1 DEF AttemptsInOrder, IsCurrent, Attempting
    <2>4. row.attempt > 1 =>
              \E g \in history : /\ SameDelivery(g, row)
                                 /\ g.attempt = row.attempt - 1
                                 /\ g.outcome = "retry_scheduled"
        BY <1>1, <2>1 DEF AttemptsInOrder, IsCurrent, Attempting
    <2>5. row.attempt = MaxAttempts => row.outcome # "retry_scheduled"
        BY <2>1, <2>2, DeliveryAssumption DEF Outcome
    <2> QED BY <1>1, <2>1, <2>2, <2>3, <2>4, <2>5
<1>4. CASE Administer
    <2>1. history' = {h \in history : users'[h.owner] \notin Absent}
        BY <1>4 DEF Administer
    <2> QED BY <1>1, <2>1
<1> QED BY <1>2, <1>3, <1>4, HistoryStep

\* Nothing follows a delivery that was recorded as delivered or failed.
LEMMA SettledStep == DeliveryInv /\ [DeliveryNext]_deliveryVars => SettledIsFinal'
<1> SUFFICES ASSUME DeliveryInv, [DeliveryNext]_deliveryVars PROVE SettledIsFinal'
    OBVIOUS
<1>1. /\ SettledIsFinal /\ AttemptsInOrder /\ JobsShaped
      /\ DeliveryTypeOK /\ TypeOK
    BY DEF DeliveryInv, DeliveryTypeOK
<1> USE DEF SettledIsFinal, SameDelivery
<1>2. /\ \A h \in history : h.attempt \in 1..5
      /\ \A c \in calls : c.attempt \in 1..5
    BY <1>1, DeliveryAssumption DEF DeliveryTypeOK, Attempt, Call
<1>3. CASE history' \subseteq history /\ UNCHANGED calls
    BY <1>1, <1>3
<1>4. ASSUME NEW n \in Events, RecordAttempt(n) PROVE SettledIsFinal'
    <2> DEFINE row == AttemptOf(n, jobs[n])
    <2>1. /\ history' = history \cup {row}
          /\ UNCHANGED calls
          /\ jobs[n].pc = "recording"
          /\ row.event = n
          /\ row.owner = jobs[n].actor.user
          /\ row.route = jobs[n].current.route
          /\ row.attempt = jobs[n].attempt
        BY <1>4, RecordEffect, AttemptFields
    <2> HIDE DEF row
    <2>2. \A h \in history :
              SameDelivery(h, row) =>
                  h.attempt < row.attempt /\ h.outcome = "retry_scheduled"
        BY <1>1, <2>1 DEF AttemptsInOrder, IsCurrent, Attempting
    <2>3. \A c \in calls : SameDelivery(c, row) => c.attempt <= row.attempt
        BY <1>1, <2>1 DEF AttemptsInOrder, IsCurrent, Attempting
    <2>4. row.attempt \in 1..5
        BY <1>1, <2>1, JobFields, DeliveryAssumption DEF Job
    <2> QED BY <1>1, <1>2, <2>1, <2>2, <2>3, <2>4
<1>5. ASSUME NEW n \in Events, NEW result \in {"success", "retryable", "permanent"},
             CallAdapter(n, result)
      PROVE  SettledIsFinal'
    <2>1. \A h \in history : IsCurrent(n, h) => h.outcome = "retry_scheduled"
        BY <1>1, <1>5, CallEffect DEF AttemptsInOrder, Attempting
    <2> QED BY <1>1, <1>5, <2>1, CallEffect DEF IsCurrent
<1>6. CASE Administer
    BY <1>3, <1>6 DEF Administer
<1> QED BY <1>3, <1>4, <1>5, <1>6, StepCases, QuietEffect, FetchEffect,
           ReadBackEffect DEF MatchOwner, Crash, deliveryVars

\* What is recorded as delivered, or to be retried, was called.
LEMMA CalledStep == DeliveryInv /\ [DeliveryNext]_deliveryVars => RecordedWasCalled'
<1> SUFFICES ASSUME DeliveryInv, [DeliveryNext]_deliveryVars
             PROVE  RecordedWasCalled'
    OBVIOUS
<1>1. RecordedWasCalled /\ AttemptsInOrder
    BY DEF DeliveryInv
<1> USE DEF RecordedWasCalled, SameDelivery
<1>2. CASE history' \subseteq history /\ calls \subseteq calls'
    BY <1>1, <1>2
<1>3. ASSUME NEW n \in Events, RecordAttempt(n) PROVE RecordedWasCalled'
    <2> DEFINE row == AttemptOf(n, jobs[n])
    <2>1. /\ history' = history \cup {row}
          /\ UNCHANGED calls
          /\ jobs[n].pc = "recording"
          /\ row.event = n
          /\ row.owner = jobs[n].actor.user
          /\ row.route = jobs[n].current.route
          /\ row.attempt = jobs[n].attempt
          /\ row.outcome = Outcome(jobs[n])
        BY <1>3, RecordEffect, AttemptFields
    <2> HIDE DEF row
    <2>2. row.outcome # "failed" => jobs[n].result # "unavailable"
        BY <2>1 DEF Outcome
    <2>3. row.outcome # "failed" =>
              \E c \in calls : SameDelivery(c, row) /\ c.attempt = row.attempt
        BY <1>1, <2>1, <2>2 DEF AttemptsInOrder, IsCurrent, Attempting
    <2> QED BY <1>1, <2>1, <2>3
<1>4. ASSUME NEW n \in Events, NEW result \in {"success", "retryable", "permanent"},
             CallAdapter(n, result)
      PROVE  RecordedWasCalled'
    BY <1>2, <1>4, CallEffect
<1>5. CASE Administer
    BY <1>2, <1>5 DEF Administer
<1> QED BY <1>2, <1>3, <1>4, <1>5, StepCases, QuietEffect, FetchEffect,
           ReadBackEffect DEF MatchOwner, Crash, deliveryVars

\* At most the last call of an event is not in the history.
LEMMA LastCallStep ==
    DeliveryInv /\ [DeliveryNext]_deliveryVars => OnlyLastCallUnrecorded'
<1> SUFFICES ASSUME DeliveryInv, [DeliveryNext]_deliveryVars
             PROVE  OnlyLastCallUnrecorded'
    OBVIOUS
<1>1. /\ OnlyLastCallUnrecorded /\ WorkPlanned /\ JobsShaped
      /\ DeliveryTypeOK /\ TypeOK
    BY DEF DeliveryInv, DeliveryTypeOK
<1> DEFINE Last(n) ==
        \A c \in Unrecorded(n) :
            /\ jobs[n].pc \in {"recording", "aborted"}
            /\ jobs[n].actor.user = c.owner
            /\ jobs[n].current # Nothing
            /\ jobs[n].current.route = c.route
            /\ jobs[n].attempt = c.attempt
<1>2. \A n \in Events : Last(n)
    BY <1>1 DEF OnlyLastCallUnrecorded
<1>3. SUFFICES ASSUME NEW m \in Events PROVE Last(m)'
    BY DEF OnlyLastCallUnrecorded
<1> USE DEF Unrecorded, SameDelivery
<1>4. ASSUME \A c \in calls' \ calls : c.event # m, history \subseteq history',
             UNCHANGED users
      PROVE  Unrecorded(m)' \subseteq Unrecorded(m)
    BY <1>4 DEF Live
<1>5. ASSUME NEW n \in Events, Quiet(n), n # m => jobs'[m] = jobs[m], UNCHANGED users
      PROVE  Last(m)'
    <2>1. Unrecorded(m)' \subseteq Unrecorded(m)
        BY <1>4, <1>5, QuietEffect
    <2> HIDE DEF Unrecorded
    <2>2. CASE n # m
        BY <1>2, <1>5, <2>1, <2>2
    <2>3. CASE n = m
        BY <1>2, <1>5, <2>1, <2>3, QuietEffect
    <2> QED BY <2>2, <2>3
<1>6. ASSUME NEW n \in Events, n # m => jobs'[m] = jobs[m], UNCHANGED users,
             Unrecorded(m)' \subseteq Unrecorded(m),
             jobs[n].pc \notin {"recording", "aborted"}
      PROVE  Last(m)'
    <2> HIDE DEF Unrecorded
    <2> QED BY <1>2, <1>6
<1>7. ASSUME NEW n \in Events, NEW u \in Users, MatchOwner(n, u),
             n # m => jobs'[m] = jobs[m], UNCHANGED users
      PROVE  Last(m)'
    BY <1>4, <1>6, <1>7 DEF MatchOwner
<1>8. ASSUME NEW n \in Events, NEW p \in jobs[n].plan, n # m => jobs'[m] = jobs[m],
             FetchTarget(n, p) \/ TargetUnavailable(n, p), UNCHANGED users
      PROVE  Last(m)'
    BY <1>4, <1>6, <1>8, FetchEffect
<1>9. ASSUME NEW n \in Events, ReadBack(n), n # m => jobs'[m] = jobs[m],
             UNCHANGED users
      PROVE  Last(m)'
    BY <1>4, <1>6, <1>9, ReadBackEffect
<1>10. ASSUME NEW n \in Events, NEW result \in {"success", "retryable", "permanent"},
              CallAdapter(n, result), n # m => jobs'[m] = jobs[m], UNCHANGED users
       PROVE  Last(m)'
    <2> DEFINE call == CallOf(n, jobs[n])
    <2>1. /\ UNCHANGED history
          /\ calls' = calls \cup {call}
          /\ call.event = n
          /\ call.owner = jobs[n].actor.user
          /\ call.route = jobs[n].current.route
          /\ call.attempt = jobs[n].attempt
          /\ jobs[n].pc = "calling"
          /\ jobs'[n].pc = "recording"
          /\ jobs'[n].attempt = jobs[n].attempt
          /\ jobs'[n].actor = jobs[n].actor
          /\ jobs'[n].current = jobs[n].current
          /\ jobs[n].current # Nothing
        BY <1>1, <1>10, CallEffect DEF SameAttempt, JobsShaped, Attempting
    <2> HIDE DEF call
    <2>2. CASE n # m
        <3>1. Unrecorded(m)' \subseteq Unrecorded(m)
            BY <1>4, <1>10, <2>1, <2>2
        <3> QED BY <1>2, <1>10, <2>2, <3>1
    <2>3. CASE n = m
        <3>1. Unrecorded(n)' \subseteq Unrecorded(n) \cup {call}
            BY <1>10, <2>1 DEF Live
        <3>2. Unrecorded(n) = {}
            BY <1>2, <2>1
        <3> QED BY <2>1, <2>3, <3>1, <3>2
    <2> QED BY <2>2, <2>3
<1>11. ASSUME NEW n \in Events, RecordAttempt(n), n # m => jobs'[m] = jobs[m],
              UNCHANGED users
       PROVE  Last(m)'
    <2> DEFINE row == AttemptOf(n, jobs[n])
    <2>1. /\ history' = history \cup {row}
          /\ UNCHANGED calls
          /\ row.event = n
          /\ row.owner = jobs[n].actor.user
          /\ row.route = jobs[n].current.route
          /\ row.attempt = jobs[n].attempt
        BY <1>11, RecordEffect, AttemptFields
    <2> HIDE DEF row
    <2>2. Unrecorded(m)' \subseteq Unrecorded(m)
        BY <1>4, <1>11, <2>1
    <2>3. CASE n # m
        BY <1>2, <1>11, <2>2, <2>3
    <2>4. CASE n = m
        <3>1. Unrecorded(n)' = {}
            BY <1>2, <1>11, <2>1, <2>2, <2>4
        <3> QED BY <2>4, <3>1
    <2> QED BY <2>3, <2>4
<1>12. CASE Crash
    <2>1. Unrecorded(m)' \subseteq Unrecorded(m)
        BY <1>4, <1>12 DEF Crash
    <2>2. \/ jobs'[m] = jobs[m]
          \/ jobs'[m] = [jobs[m] EXCEPT !.pc = "aborted"]
        BY <1>12 DEF Crash
    <2>3. jobs[m] \in Job
        BY <1>1, JobFields
    <2> HIDE DEF Unrecorded
    <2> QED BY <1>2, <2>1, <2>2, <2>3 DEF Job
<1>13. CASE Administer
    <2>1. /\ history' = {h \in history : users'[h.owner] \notin Absent}
          /\ UNCHANGED <<jobs, calls>>
        BY <1>13 DEF Administer
    <2>2. \A c \in calls : c.owner \in Users /\ users[c.owner] # Unissued
        BY <1>1 DEF DeliveryTypeOK, Call, WorkPlanned
    <2>3. \A c \in calls : Live(users', c.owner) => Live(users, c.owner)
        BY <1>1, <1>13, <2>2, UsersStep DEF Administer, Live, Absent
    <2>4. Unrecorded(m)' \subseteq Unrecorded(m)
        BY <2>1, <2>3 DEF Live
    <2> HIDE DEF Unrecorded
    <2> QED BY <1>2, <2>1, <2>4
<1>14. CASE UNCHANGED deliveryVars
    BY <1>2, <1>14 DEF deliveryVars, Live
<1> QED BY <1>5, <1>7, <1>8, <1>9, <1>10, <1>11, <1>12, <1>13, <1>14, StepCases

\* For one owner an event takes dedicated routes or fallback routes, and no two
\* routes to one destination.
LEMMA DedicatedStep ==
    DeliveryInv /\ [DeliveryNext]_deliveryVars => DedicatedOrFallback'
<1> SUFFICES ASSUME DeliveryInv, [DeliveryNext]_deliveryVars
             PROVE  DedicatedOrFallback'
    OBVIOUS
<1>1. DedicatedOrFallback /\ PlansFresh
    BY DEF DeliveryInv
<1> USE DEF DedicatedOrFallback
<1>2. CASE UNCHANGED planned
    BY <1>1, <1>2
<1>3. ASSUME NEW n \in Events, NEW u \in Users, MatchOwner(n, u)
      PROVE  DedicatedOrFallback'
    <2>1. PICK sel \in Selections(u, n) :
              /\ sel \subseteq Selected(u, n)
              /\ planned' = planned \cup {Planned(n, u, r) : r \in sel}
        BY <1>3, MatchEffect
    <2>2. \A p \in planned : ~(p.event = n /\ p.owner = u)
        BY <1>1, <1>3 DEF MatchOwner, PlansFresh
    <2>3. \A r \in sel :
              /\ Planned(n, u, r).event = n
              /\ Planned(n, u, r).owner = u
              /\ Planned(n, u, r).route = r
              /\ Planned(n, u, r).destination = routes[r].destination
              /\ Planned(n, u, r).fallback = (routes[r].criteria.source = Wildcard)
        BY DEF Planned
    <2>4. \A r, s \in sel : routes[r].destination = routes[s].destination => r = s
        BY DEF Selections
    <2>5. \A r, s \in sel :
              (routes[r].criteria.source = Wildcard)
                  = (routes[s].criteria.source = Wildcard)
        BY <2>1 DEF Selected, Dedicated
    <2>6. \A p \in planned' :
              \/ p \in planned /\ ~(p.event = n /\ p.owner = u)
              \/ \E r \in sel : p = Planned(n, u, r)
        BY <2>1, <2>2
    <2> QED BY <1>1, <2>2, <2>3, <2>4, <2>5, <2>6
<1> QED BY <1>2, <1>3, StepCases, QuietEffect, FetchEffect, CallEffect, RecordEffect,
           ReadBackEffect DEF Crash, Administer, deliveryVars

-----------------------------------------------------------------------------

LEMMA DeliveryInvStep ==
    DeliveryInv /\ [DeliveryNext]_deliveryVars => DeliveryInv'
<1> SUFFICES ASSUME DeliveryInv, [DeliveryNext]_deliveryVars PROVE DeliveryInv'
    OBVIOUS
<1>1. RegistryInv'
    BY RegistryStep DEF DeliveryInv
<1>2. DeliveryTypeOK' /\ JobsShaped' /\ WorkPlanned' /\ PlansFresh'
    BY DeliveryTypeStep, ShapeStep, WorkStep, FreshStep
<1>3. AttemptsInOrder' /\ AttemptsChained' /\ SettledIsFinal' /\ PlansServed'
    BY OrderStep, ChainStep, SettledStep, ServedStep
<1>4. /\ RecordedWasCalled' /\ OnlyLastCallUnrecorded' /\ DedicatedOrFallback'
      /\ CallsMade'
    BY CalledStep, LastCallStep, DedicatedStep, MadeStep
<1> QED BY <1>1, <1>2, <1>3, <1>4 DEF DeliveryInv

\* The inductive invariant of deliveries.
THEOREM DeliveryInvariant == DeliverySpec => []DeliveryInv
BY DeliveryInitInv, DeliveryInvStep, PTL DEF DeliverySpec

\* Every job, row, plan and call names what exists in the model's types.
THEOREM DeliveryTypeCorrect == DeliverySpec => []DeliveryTypeOK
<1>1. DeliveryInv => DeliveryTypeOK
    BY DEF DeliveryInv
<1> QED BY <1>1, DeliveryInvariant, PTL

\* The routes of the registry stay authorised, and an administrator remains,
\* while events are delivered and the process restarts.
THEOREM DeliveryKeepsRegistry ==
    DeliverySpec => [](RoutesAuthorised /\ OwnersExist /\ AdminRemains)
<1>1. DeliveryInv => RoutesAuthorised /\ OwnersExist /\ AdminRemains
    BY DEF DeliveryInv, RegistryInv
<1> QED BY <1>1, DeliveryInvariant, PTL

\* The history numbers the attempts of a delivery without gap or repetition,
\* within the limit (the loop of _deliver_route).
THEOREM HistoryIsChained == DeliverySpec => []AttemptsChained
<1>1. DeliveryInv => AttemptsChained
    BY DEF DeliveryInv
<1> QED BY <1>1, DeliveryInvariant, PTL

\* A delivery recorded as delivered or failed is not tried again.
THEOREM DeliverySettledOnce == DeliverySpec => []SettledIsFinal
<1>1. DeliveryInv => SettledIsFinal
    BY DEF DeliveryInv
<1> QED BY <1>1, DeliveryInvariant, PTL

\* The history claims no success, and no retry, of a call that was not made.
THEOREM HistoryIsTrue == DeliverySpec => []RecordedWasCalled
<1>1. DeliveryInv => RecordedWasCalled
    BY DEF DeliveryInv
<1> QED BY <1>1, DeliveryInvariant, PTL

\* At most one call of an event is missing from the history of a living owner:
\* the last one (a deleted route or destination, a crash).
THEOREM HistoryMissesOneCall == DeliverySpec => []OnlyLastCallUnrecorded
<1>1. DeliveryInv => OnlyLastCallUnrecorded
    BY DEF DeliveryInv
<1> QED BY <1>1, DeliveryInvariant, PTL

\* RouteStore.matching: dedicated routes or fallback routes, never both, and one
\* route for each destination of an owner.
THEOREM RoutesChosenOnce == DeliverySpec => []DedicatedOrFallback
<1>1. DeliveryInv => DedicatedOrFallback
    BY DEF DeliveryInv
<1> QED BY <1>1, DeliveryInvariant, PTL

-----------------------------------------------------------------------------

\* The refinement: each step of the delivery service is a step of the contract
\* or leaves what the contract speaks of alone.

\* A delivery is one event, one owner and one route.
LEMMA OneDelivery ==
    ASSUME NEW x \in Deliveries, NEW y \in Deliveries
    PROVE  SameDelivery(x, y) <=> x = y
BY DEF Deliveries, SameDelivery

LEMMA DeliveryFields ==
    ASSUME NEW x \in Deliveries
    PROVE  x.event \in Events /\ x.owner \in Users /\ x.route \in Routes
BY DEF Deliveries

IsIntended(x) == \E p \in planned : SameDelivery(p, x)

Over(n) == jobs[n].pc \in {"done", "aborted"}

Pending(x) ==
    /\ users[x.owner] # Deleted
    /\ IsIntended(x)
    /\ ~Settled(x, "delivered")
    /\ ~Settled(x, "failed")
    /\ ~Over(x.event)

LEMMA PendingPhase ==
    ASSUME NEW x
    PROVE  Phase(x) = "pending" <=> Pending(x)
BY DEF Phase, Pending, IsIntended, Over

\* The phase of a delivery depends on these five facts.
LEMMA PhaseKept ==
    ASSUME NEW x,
           users'[x.owner] = Deleted <=> users[x.owner] = Deleted,
           users[x.owner] # Deleted =>
               /\ IsIntended(x)' <=> IsIntended(x)
               /\ Settled(x, "delivered")' <=> Settled(x, "delivered")
               /\ Settled(x, "failed")' <=> Settled(x, "failed")
               /\ Over(x.event)' <=> Over(x.event)
    PROVE  Phase(x)' = Phase(x)
BY DEF Phase, IsIntended, Over

LEMMA TriesKept == ASSUME UNCHANGED calls PROVE AllTries' = AllTries
<1>1. \A x : Tries(x)' = Tries(x)
    BY DEF Tries
<1> QED BY <1>1 DEF AllTries

LEMMA ThreadsMove ==
    ASSUME NEW n \in Events, \A m \in Events \ {n} : jobs'[m] = jobs[m]
    PROVE  Threads' = [Threads EXCEPT ![n] = Thread(n)']
<1>1. \A m \in Events \ {n} : Thread(m)' = Thread(m)
    BY DEF Thread
<1> QED BY <1>1 DEF Threads

LEMMA ThreadsStay ==
    ASSUME NEW n \in Events, \A m \in Events \ {n} : jobs'[m] = jobs[m],
           Thread(n)' = Thread(n)
    PROVE  Threads' = Threads
BY ThreadsMove DEF Threads

\* A thread that goes on, with the same plans and rows, changes no phase ...
LEMMA PhasesStay ==
    ASSUME NEW n \in Events, \A m \in Events \ {n} : jobs'[m] = jobs[m],
           UNCHANGED <<users, planned, history>>,
           Over(n)' <=> Over(n)
    PROVE  Phases' = Phases
<1>1. ASSUME NEW x \in Deliveries PROVE Phase(x)' = Phase(x)
    <2>1. Over(x.event)' <=> Over(x.event)
        BY DeliveryFields DEF Over
    <2>2. IsIntended(x)' <=> IsIntended(x)
        BY DEF IsIntended
    <2>3. /\ Settled(x, "delivered")' <=> Settled(x, "delivered")
          /\ Settled(x, "failed")' <=> Settled(x, "failed")
        BY DEF Settled
    <2> QED BY <2>1, <2>2, <2>3, PhaseKept
<1> QED BY <1>1 DEF Phases

\* ... and one that ends loses what is pending.
LEMMA PhasesEnd ==
    ASSUME NEW ns \in SUBSET Events, UNCHANGED <<users, planned, history>>,
           \A n \in Events : IF n \in ns THEN Over(n)' /\ ~Over(n)
                             ELSE jobs'[n] = jobs[n]
    PROVE  Phases' = [x \in Deliveries |->
                         IF x.event \in ns /\ Phases[x] = "pending" THEN "lost"
                         ELSE Phases[x]]
<1>1. ASSUME NEW x \in Deliveries
      PROVE  Phase(x)' = IF x.event \in ns /\ Phase(x) = "pending" THEN "lost"
                         ELSE Phase(x)
    <2>1. IsIntended(x)' <=> IsIntended(x)
        BY DEF IsIntended
    <2>2. /\ Settled(x, "delivered")' <=> Settled(x, "delivered")
          /\ Settled(x, "failed")' <=> Settled(x, "failed")
        BY DEF Settled
    <2>3. CASE x.event \in ns
        <3>1. Over(x.event)' /\ ~Over(x.event)
            BY <2>3
        <3> QED BY <2>1, <2>2, <2>3, <3>1 DEF Phase, IsIntended, Over
    <2>4. CASE x.event \notin ns
        <3>1. Over(x.event)' <=> Over(x.event)
            BY <2>4, DeliveryFields DEF Over
        <3> QED BY <2>1, <2>2, <2>4, <3>1, PhaseKept
    <2> QED BY <2>3, <2>4
<1> QED BY <1>1 DEF Phases

\* What a thread has not in hand is not pending.
LEMMA PendingInHand ==
    ASSUME DeliveryInv, NEW x \in Deliveries, Pending(x), jobs[x.event].pc \in Running
    PROVE  /\ jobs[x.event].pc \in {"delivering"} \cup Attempting
           /\ x.owner = jobs[x.event].actor.user
           /\ \/ \E q \in jobs[x.event].plan : q.route = x.route
              \/ /\ jobs[x.event].pc \in Attempting
                 /\ jobs[x.event].current.route = x.route
<1>1. PICK p \in planned : SameDelivery(p, x)
    BY DEF Pending, IsIntended
<1>2. /\ x.event \in Events
      /\ p.event = x.event
      /\ p.owner = x.owner
      /\ p.route = x.route
    BY <1>1, DeliveryFields DEF SameDelivery
<1>3. ~Settled(p, "delivered") /\ ~Settled(p, "failed") /\ users[p.owner] # Deleted
    BY <1>2 DEF Pending, Settled, SameDelivery
<1>4. InHand(x.event, p)
    BY <1>2, <1>3 DEF DeliveryInv, PlansServed
<1> QED BY <1>2, <1>4 DEF InHand

ContractStep == [Contract!ContractNext]_(Contract!contractVars)

\* Arrivals, ends of loops and of threads.
LEMMA QuietRefines ==
    ASSUME DeliveryInv, NEW n \in Events, Quiet(n), UNCHANGED users,
           \A m \in Events \ {n} : jobs'[m] = jobs[m]
    PROVE  ContractStep
<1> USE DEF Proceed
<1>1. jobs \in [Events -> Job] /\ jobs[n] \in Job
    BY DEF DeliveryInv, DeliveryTypeOK
<1>2. UNCHANGED <<history, planned, calls>>
    BY QuietEffect
<1>3. AllTries' = AllTries
    BY <1>2, TriesKept
<1>4. ASSUME jobs[n].pc = "waiting", jobs'[n].pc \in {"probing", "matching"}
      PROVE  ContractStep
    <2>1. Phases' = Phases
        BY <1>2, <1>4, PhasesStay DEF Over
    <2>2. Thread(n) = "waiting" /\ Thread(n)' = "running"
        BY <1>4 DEF Thread, Running
    <2>3. Contract!Take(n)
        BY <1>3, <2>1, <2>2, ThreadsMove DEF Contract!Take, Threads
    <2> QED BY <2>3 DEF ContractStep, Contract!ContractNext
<1>5. ASSUME jobs[n].pc \in {"probing", "delivering"},
             jobs'[n].pc \in {"probing", "matching"}
      PROVE  ContractStep
    <2>1. Phases' = Phases
        BY <1>2, <1>5, PhasesStay DEF Over
    <2>2. Thread(n)' = Thread(n)
        BY <1>5 DEF Thread, Running
    <2> QED BY <1>3, <2>1, <2>2, ThreadsStay DEF ContractStep, Contract!contractVars
<1>6. ASSUME jobs[n].pc \in {"delivering"} \cup Attempting, jobs'[n].pc = "aborted"
      PROVE  ContractStep
    <2>1. Thread(n) = "running" /\ Thread(n)' = "aborted"
        BY <1>6 DEF Thread, Running, Attempting
    <2>2. ~Over(n) /\ Over(n)'
        BY <1>6 DEF Over, Attempting
    <2>3. {n} \in SUBSET Events
        OBVIOUS
    <2>4. Phases' = [x \in Deliveries |->
                        IF x.event \in {n} /\ Phases[x] = "pending" THEN "lost"
                        ELSE Phases[x]]
        BY <1>2, <2>2, <2>3, PhasesEnd
    <2>5. Threads' = [m \in Events |-> IF m \in {n} THEN "aborted" ELSE Threads[m]]
        BY <2>1, ThreadsMove DEF Threads
    <2>6. Contract!CutOff({n})
        BY <1>3, <2>1, <2>4, <2>5 DEF Contract!CutOff, Contract!Delivery, Deliveries, Threads
    <2> QED BY <2>3, <2>6 DEF ContractStep, Contract!ContractNext
<1>7. ASSUME Return(n) PROVE ContractStep
    <2>1. jobs[n].pc = "matching" /\ jobs'[n].pc = "done"
        BY <1>1, <1>7 DEF Return, Job
    <2>2. Thread(n) = "running" /\ Thread(n)' = "done"
        BY <2>1 DEF Thread, Running
    <2>3. \A x \in Deliveries : x.event = n => Phases[x] # "pending"
        BY <2>1, PendingInHand, PendingPhase DEF Phases, Attempting, Running
    <2>4. ~Over(n) /\ Over(n)'
        BY <2>1 DEF Over
    <2>5. {n} \in SUBSET Events
        OBVIOUS
    <2>6. Phases' = [x \in Deliveries |->
                        IF x.event \in {n} /\ Phases[x] = "pending" THEN "lost"
                        ELSE Phases[x]]
        BY <1>2, <2>4, <2>5, PhasesEnd
    <2>7. Phases' = Phases
        BY <2>3, <2>6 DEF Phases
    <2>8. Contract!Return(n)
        BY <1>3, <2>2, <2>3, <2>7, ThreadsMove
        DEF Contract!Return, Contract!Of, Contract!Delivery, Deliveries, Threads
    <2> QED BY <2>8 DEF ContractStep, Contract!ContractNext
<1>8. CASE Arrival(n)
    <2>1. jobs[n].pc = "waiting" /\ jobs'[n].pc \in {"probing", "matching"}
        <3>1. CASE ReceiveEvent(n)
            BY <1>1, <3>1 DEF ReceiveEvent, Job
        <3>2. CASE \E u \in Users : SubmitEvent(n, u)
            BY <1>1, <3>2 DEF SubmitEvent, Job
        <3> QED BY <1>8, <3>1, <3>2 DEF Arrival
    <2> QED BY <1>4, <2>1
<1>9. CASE \E u \in Users : ProbeOwner(n, u)
    BY <1>1, <1>5, <1>9 DEF ProbeOwner, Job
<1>10. CASE EndOwner(n)
    BY <1>1, <1>5, <1>10 DEF EndOwner, Job
<1>11. CASE \E p \in jobs[n].plan : SecretUnreadable(n, p)
    BY <1>1, <1>6, <1>11 DEF SecretUnreadable, IsNext, Job
<1>12. CASE RecordFails(n) \/ ReadBackFails(n)
    BY <1>1, <1>6, <1>12 DEF RecordFails, ReadBackFails, Job, Attempting
<1> QED BY <1>7, <1>8, <1>9, <1>10, <1>11, <1>12 DEF Quiet

\* The loop goes on: the contract sees nothing.
LEMMA LoopRefines ==
    ASSUME DeliveryInv, NEW n \in Events, UNCHANGED users,
           \A m \in Events \ {n} : jobs'[m] = jobs[m],
           \/ \E p \in jobs[n].plan : FetchTarget(n, p) \/ TargetUnavailable(n, p)
           \/ ReadBack(n)
    PROVE  ContractStep
<1>1. /\ UNCHANGED <<history, planned, calls>>
      /\ jobs[n].pc \in {"delivering", "reading"}
      /\ jobs'[n].pc \in {"delivering", "calling", "recording"}
    BY FetchEffect, ReadBackEffect
<1>2. AllTries' = AllTries
    BY <1>1, TriesKept
<1>3. Phases' = Phases
    BY <1>1, PhasesStay DEF Over
<1>4. Thread(n)' = Thread(n)
    BY <1>1 DEF Thread, Running
<1> QED BY <1>2, <1>3, <1>4, ThreadsStay DEF ContractStep, Contract!contractVars

\* deliver() plans what one owner is to be sent.  The routes of an owner who
\* was deleted are gone, and nothing is planned.
LEMMA MatchRefines ==
    ASSUME DeliveryInv, NEW n \in Events, NEW u \in Users, MatchOwner(n, u),
           UNCHANGED users, \A m \in Events \ {n} : jobs'[m] = jobs[m]
    PROVE  ContractStep
<1>1. /\ PlansFresh /\ WorkPlanned /\ JobsShaped /\ TypeOK /\ OwnersExist
      /\ DeliveryTypeOK
    BY DEF DeliveryInv, RegistryInv, DeliveryTypeOK
<1>2. PICK sel \in Selections(u, n) :
           /\ sel \subseteq Selected(u, n)
           /\ planned' = planned \cup {Planned(n, u, r) : r \in sel}
           /\ jobs'[n].pc = "delivering"
    BY MatchEffect
<1>3. UNCHANGED <<history, calls>> /\ jobs[n].pc = "matching" /\ u \in jobs[n].owners
    BY DEF MatchOwner
<1>4. AllTries' = AllTries
    BY <1>3, TriesKept
<1>5. Thread(n) = "running" /\ Thread(n)' = "running"
    BY <1>2, <1>3 DEF Thread, Running
<1>6. Threads' = Threads
    BY <1>5, ThreadsStay
<1>7. ~Over(n) /\ ~Over(n)'
    BY <1>2, <1>3 DEF Over
<1>8. CASE users[u] = Deleted
    <2>1. ASSUME NEW r \in sel PROVE FALSE
        <3>1. Live(routes, r) /\ routes[r].owner = u /\ r \in Routes
            BY <1>2, <2>1 DEF Selected, Matching, Dedicated
        <3> QED BY <1>1, <1>8, <3>1 DEF OwnersExist, OwnersLive, Live, Absent
    <2>2. UNCHANGED planned
        BY <1>2, <2>1
    <2>3. Phases' = Phases
        BY <1>3, <1>7, <2>2, PhasesStay
    <2> QED BY <1>4, <1>6, <2>3 DEF ContractStep, Contract!contractVars
<1>9. CASE users[u] # Deleted
    <2> DEFINE theirs == {x \in Deliveries : x.event = n /\ x.owner = u}
               chosen == {x \in theirs : x.route \in sel}
    <2>1. \A r \in sel : /\ Planned(n, u, r).event = n
                         /\ Planned(n, u, r).owner = u
                         /\ Planned(n, u, r).route = r
        BY DEF Planned
    <2>2. \A p \in planned : ~(p.event = n /\ p.owner = u)
        BY <1>1, <1>3 DEF PlansFresh
    <2>3. \A x \in theirs : ~IsIntended(x)
        BY <2>2 DEF IsIntended, SameDelivery
    <2>4. \A x \in theirs : Phases[x] = "none"
        BY <1>9, <2>3 DEF Phase, Phases, IsIntended
    <2>5. \A x \in Deliveries : x.event = n => Phases[x] # "pending"
        BY <1>3, PendingInHand, PendingPhase DEF Phases, Attempting, Running
    <2>6. ASSUME NEW x \in chosen PROVE Phase(x)' = "pending"
        <3>1. x.event = n /\ x.owner = u /\ x.route \in sel
            OBVIOUS
        <3>2. IsIntended(x)'
            BY <1>2, <2>1, <3>1 DEF IsIntended, SameDelivery
        <3>3. ~Settled(x, "delivered")' /\ ~Settled(x, "failed")'
            BY <1>1, <1>3, <2>3, <3>1 DEF Settled, WorkPlanned, IsIntended, SameDelivery
        <3>4. Pending(x)'
            BY <1>7, <1>9, <3>1, <3>2, <3>3 DEF Pending
        <3> QED BY <3>4 DEF Phase, Pending, IsIntended, Over
    <2>7. ASSUME NEW x \in Deliveries, x \notin chosen PROVE Phase(x)' = Phase(x)
        <3>1. x.event \in Events /\ x.owner \in Users
            BY DeliveryFields
        <3>2. IsIntended(x)' <=> IsIntended(x)
            BY <1>2, <2>1, <2>7 DEF IsIntended, SameDelivery
        <3>3. /\ Settled(x, "delivered")' <=> Settled(x, "delivered")
              /\ Settled(x, "failed")' <=> Settled(x, "failed")
            BY <1>3 DEF Settled
        <3>4. Over(x.event)' <=> Over(x.event)
            BY <1>7, <3>1 DEF Over
        <3> QED BY <3>2, <3>3, <3>4, PhaseKept
    <2>8. Phases' = [x \in Deliveries |->
                        IF x \in chosen THEN "pending" ELSE Phases[x]]
        BY <2>6, <2>7 DEF Phases
    <2>9. chosen \in SUBSET theirs
        OBVIOUS
    <2> HIDE DEF chosen
    <2>10. Contract!Plan(n, u)
        BY <1>4, <1>5, <1>6, <2>4, <2>5, <2>8, <2>9
        DEF Contract!Plan, Contract!Of, Contract!Delivery, Deliveries, Threads
    <2> QED BY <2>10 DEF ContractStep, Contract!ContractNext
<1> QED BY <1>8, <1>9

\* The delivery a thread is attempting, as the contract names it.
DeliveryOf(n) ==
    [event |-> n, owner |-> jobs[n].actor.user, route |-> jobs[n].current.route]

LEMMA CurrentDelivery ==
    ASSUME DeliveryInv, NEW n \in Events, jobs[n].pc \in Attempting
    PROVE  /\ DeliveryOf(n) \in Deliveries
           /\ DeliveryOf(n).event = n
           /\ DeliveryOf(n).owner = jobs[n].actor.user
           /\ DeliveryOf(n).route = jobs[n].current.route
           /\ users[DeliveryOf(n).owner] # Unissued
           /\ jobs[n].attempt \in 1..MaxAttempts
           /\ MaxAttempts \in Nat
           /\ \A x : SameDelivery(x, DeliveryOf(n)) <=> IsCurrent(n, x)
           /\ Thread(n) = "running" /\ ~Over(n)
<1>1. DeliveryTypeOK /\ JobsShaped
    BY DEF DeliveryInv
<1>2. /\ jobs[n].actor \in Actor
      /\ jobs[n].current \in PlannedRoute
      /\ jobs[n].attempt \in 1..MaxAttempts
      /\ users[jobs[n].actor.user] # Unissued
    BY <1>1, JobFields DEF JobsShaped, Job
<1>3. jobs[n].actor.user \in Users /\ jobs[n].current.route \in Routes
    BY <1>2 DEF Actor, PlannedRoute
<1>4. Thread(n) = "running" /\ ~Over(n)
    BY DEF Thread, Over, Attempting, Running
<1>5. MaxAttempts \in Nat
    BY DeliveryAssumption
<1> QED BY <1>2, <1>3, <1>4, <1>5 DEF DeliveryOf, Deliveries, SameDelivery, IsCurrent

\* What is planned and attempted is pending, while its owner is there, until a
\* row of the history settles it.
LEMMA CurrentPending ==
    ASSUME DeliveryInv, NEW n \in Events, jobs[n].pc \in {"calling", "recording"}
    PROVE  users[DeliveryOf(n).owner] # Deleted => Pending(DeliveryOf(n))
<1>1. jobs[n].pc \in Attempting
    BY DEF Attempting
<1>2. /\ DeliveryOf(n).event = n
      /\ \A x : SameDelivery(x, DeliveryOf(n)) <=> IsCurrent(n, x)
      /\ ~Over(n)
    BY <1>1, CurrentDelivery
<1>3. IsIntended(DeliveryOf(n))
    <2>1. IsPlanned(n, jobs[n].actor.user, jobs[n].current)
        BY <1>1 DEF DeliveryInv, PlansFresh
    <2> QED BY <1>2, <2>1 DEF IsPlanned, IsIntended, IsCurrent
<1>4. \A h \in history : IsCurrent(n, h) => h.outcome = "retry_scheduled"
    BY <1>1 DEF DeliveryInv, AttemptsInOrder
<1>5. ~Settled(DeliveryOf(n), "delivered") /\ ~Settled(DeliveryOf(n), "failed")
    BY <1>2, <1>4 DEF Settled
<1> QED BY <1>2, <1>3, <1>5 DEF Pending

\* An adapter call is the next try of a delivery that is pending, or of one
\* whose owner was deleted meanwhile.
LEMMA CallRefines ==
    ASSUME DeliveryInv, NEW n \in Events,
           NEW result \in {"success", "retryable", "permanent"},
           CallAdapter(n, result), UNCHANGED users,
           \A m \in Events \ {n} : jobs'[m] = jobs[m]
    PROVE  ContractStep
<1> DEFINE call == CallOf(n, jobs[n])
           k == jobs[n].attempt
<1>1. /\ UNCHANGED <<history, planned>>
      /\ calls' = calls \cup {call}
      /\ call.event = n
      /\ call.owner = jobs[n].actor.user
      /\ call.route = jobs[n].current.route
      /\ call.attempt = k
      /\ jobs[n].pc = "calling"
      /\ jobs'[n].pc = "recording"
    BY CallEffect
<1>2. jobs[n].pc \in Attempting
    BY <1>1 DEF Attempting
<1>3. PICK x \in Deliveries : x = DeliveryOf(n)
    BY <1>2, CurrentDelivery
<1>4. /\ x.event = n
      /\ x.owner = jobs[n].actor.user
      /\ x.route = jobs[n].current.route
      /\ k \in 1..MaxAttempts /\ MaxAttempts \in Nat
      /\ \A c : SameDelivery(c, x) <=> IsCurrent(n, c)
      /\ Thread(n) = "running"
    BY <1>2, <1>3, CurrentDelivery
<1>5. users[x.owner] # Deleted => Pending(x)
    BY <1>1, <1>3, CurrentPending
<1> HIDE DEF call
<1>6. Phases' = Phases
    BY <1>1, PhasesStay DEF Over
<1>7. Threads' = Threads
    BY <1>1, <1>4, ThreadsStay DEF Thread, Running
<1>8. Tries(x) = 1..(k - 1)
    <2>1. \A c \in calls : IsCurrent(n, c) => c.attempt <= k /\ c.attempt # k
        BY <1>1, <1>2 DEF DeliveryInv, AttemptsInOrder
    <2>2. \A c \in calls : c.attempt \in 1..MaxAttempts
        BY DEF DeliveryInv, DeliveryTypeOK, Call
    <2>3. \A c \in calls : IsCurrent(n, c) => c.attempt \in 1..(k - 1)
        BY <1>4, <2>1, <2>2
    <2>4. ASSUME NEW i \in 1..(k - 1)
          PROVE  \E c \in calls : IsCurrent(n, c) /\ c.attempt = i
        <3>1. i \in 1..k /\ i < k
            BY <1>4
        <3> QED BY <1>2, <3>1 DEF DeliveryInv, CallsMade
    <2> QED BY <1>4, <2>3, <2>4 DEF Tries
<1>9. Tries(x)' = 1..k
    <2>1. IsCurrent(n, call)
        BY <1>1 DEF IsCurrent
    <2>2. {c \in calls' : SameDelivery(c, x)}
              = {c \in calls : SameDelivery(c, x)} \cup {call}
        BY <1>1, <1>4, <2>1
    <2>3. Tries(x)' = Tries(x) \cup {k}
        BY <1>1, <2>2 DEF Tries
    <2> QED BY <1>4, <1>8, <2>3
<1>10. \A y \in Deliveries \ {x} : Tries(y)' = Tries(y)
    <2>1. ASSUME NEW y \in Deliveries \ {x} PROVE ~SameDelivery(call, y)
        <3>1. ~SameDelivery(x, y)
            BY OneDelivery
        <3> QED BY <1>1, <1>4, <3>1 DEF SameDelivery
    <2>2. \A y \in Deliveries \ {x} :
              {c \in calls' : SameDelivery(c, y)} = {c \in calls : SameDelivery(c, y)}
        BY <1>1, <2>1
    <2> QED BY <2>2 DEF Tries
<1>11. AllTries' = [AllTries EXCEPT ![x] = 1..k]
    BY <1>9, <1>10 DEF AllTries
<1>12. Contract!NextTry(x)
    BY <1>4, <1>8, <1>11 DEF Contract!NextTry, AllTries
<1>13. CASE users[x.owner] = Deleted
    <2>1. Phases[x] = "erased"
        BY <1>13 DEF Phases, Phase
    <2>2. Contract!LateTry(x)
        BY <1>4, <1>6, <1>7, <1>12, <2>1 DEF Contract!LateTry, Threads
    <2> QED BY <2>2 DEF ContractStep, Contract!ContractNext, Contract!Delivery, Deliveries
<1>14. CASE users[x.owner] # Deleted
    <2>1. Phases[x] = "pending"
        BY <1>5, <1>14, PendingPhase DEF Phases
    <2>2. ASSUME NEW y \in Deliveries \ {x}, y.event = n, Phases[y] = "pending"
          PROVE  AllTries[y] = {}
        <3>1. Pending(y)
            BY <2>2, PendingPhase DEF Phases
        <3>i. /\ y.owner = jobs[n].actor.user
              /\ \/ \E q \in jobs[n].plan : q.route = y.route
                 \/ jobs[n].current.route = y.route
            BY <1>2, <2>2, <3>1, PendingInHand, PcValues
        <3>2. y.owner = x.owner /\ y.route # x.route
                  => \E q \in jobs[n].plan : q.route = y.route
            BY <1>4, <3>i
        <3>3. y.owner = x.owner
            BY <1>4, <3>i
        <3>4. y.route # x.route
            BY <1>4, <2>2, <3>3, OneDelivery DEF SameDelivery
        <3>5. Untouched(n, y.owner, y.route)
            BY <1>2, <1>4, <3>2, <3>3, <3>4 DEF DeliveryInv, PlansFresh
        <3>6. {c \in calls : SameDelivery(c, y)} = {}
            BY <2>2, <3>5 DEF Untouched, SameDelivery
        <3> QED BY <3>6 DEF AllTries, Tries
    <2>3. Contract!Try(x)
        BY <1>4, <1>6, <1>7, <1>12, <2>1, <2>2
        DEF Contract!Try, Contract!Of, Contract!Delivery, Deliveries, Threads
    <2> QED BY <2>3 DEF ContractStep, Contract!ContractNext, Contract!Delivery, Deliveries
<1> QED BY <1>13, <1>14

\* The row of a last attempt settles the delivery; that of an attempt to be
\* retried says nothing yet.
LEMMA RecordRefines ==
    ASSUME DeliveryInv, NEW n \in Events, RecordAttempt(n), UNCHANGED users,
           \A m \in Events \ {n} : jobs'[m] = jobs[m]
    PROVE  ContractStep
<1> DEFINE row == AttemptOf(n, jobs[n])
           outcome == Outcome(jobs[n])
<1>1. /\ UNCHANGED <<planned, calls>>
      /\ history' = history \cup {row}
      /\ Live(users, jobs[n].actor.user)
      /\ jobs[n].pc = "recording"
      /\ jobs'[n].pc = "reading"
      /\ row.event = n
      /\ row.owner = jobs[n].actor.user
      /\ row.route = jobs[n].current.route
      /\ row.outcome = outcome
    BY RecordEffect, AttemptFields DEF ReferencesExist
<1>2. jobs[n].pc \in Attempting
    BY <1>1 DEF Attempting
<1>3. PICK x \in Deliveries : x = DeliveryOf(n)
    BY <1>2, CurrentDelivery
<1>4. /\ x.event = n
      /\ x.owner = jobs[n].actor.user
      /\ x.route = jobs[n].current.route
      /\ \A c : SameDelivery(c, x) <=> IsCurrent(n, c)
      /\ Thread(n) = "running" /\ ~Over(n)
    BY <1>2, <1>3, CurrentDelivery
<1>5. users[x.owner] # Deleted
    BY <1>1, <1>4 DEF Live, Absent
<1>6. Pending(x)
    BY <1>1, <1>3, <1>5, CurrentPending
<1>7. outcome = "delivered" =>
          \E c \in calls : IsCurrent(n, c) /\ c.attempt = jobs[n].attempt
    BY <1>1, <1>2 DEF DeliveryInv, AttemptsInOrder, Outcome
<1>8. outcome \in {"delivered", "failed", "retry_scheduled"}
    BY DEF Outcome
<1>9. PICK o \in {"delivered", "failed", "retry_scheduled"} : o = outcome
    BY <1>8
<1> HIDE DEF row, outcome
<1>10. AllTries' = AllTries
    BY <1>1, TriesKept
<1>11. Threads' = Threads
    BY <1>1, <1>4, ThreadsStay DEF Thread, Running
<1>12. /\ \A m \in Events : Over(m)' <=> Over(m)
       /\ \A y : IsIntended(y)' <=> IsIntended(y)
    BY <1>1, <1>4 DEF Over, IsIntended
<1>13. \A y \in Deliveries \ {x} :
           /\ Settled(y, "delivered")' <=> Settled(y, "delivered")
           /\ Settled(y, "failed")' <=> Settled(y, "failed")
    <2>1. ASSUME NEW y \in Deliveries \ {x} PROVE ~SameDelivery(row, y)
        <3>1. ~SameDelivery(x, y)
            BY OneDelivery
        <3> QED BY <1>1, <1>4, <3>1 DEF SameDelivery
    <2> QED BY <1>1, <2>1 DEF Settled
<1>14. SameDelivery(row, x)
    BY <1>1, <1>4 DEF SameDelivery
<1>15. \A y \in Deliveries \ {x} : Phase(y)' = Phase(y)
    BY <1>12, <1>13, DeliveryFields, PhaseKept
<1>16. CASE o = "retry_scheduled"
    <2>1. /\ Settled(x, "delivered")' <=> Settled(x, "delivered")
          /\ Settled(x, "failed")' <=> Settled(x, "failed")
        BY <1>1, <1>9, <1>16 DEF Settled
    <2>2. Phase(x)' = Phase(x)
        BY <1>12, <2>1, DeliveryFields, PhaseKept
    <2>3. Phases' = Phases
        BY <1>15, <2>2 DEF Phases
    <2> QED BY <1>10, <1>11, <2>3 DEF ContractStep, Contract!contractVars
<1>17. CASE o \in {"delivered", "failed"}
    <2>1. Settled(x, o)'
        BY <1>1, <1>9, <1>14 DEF Settled
    <2>2. o = "failed" => ~Settled(x, "delivered")'
        BY <1>1, <1>6, <1>9 DEF Settled, Pending
    <2>3. IsIntended(x)' /\ users'[x.owner] # Deleted
        BY <1>5, <1>6, <1>12 DEF Pending
    <2>4. Phase(x)' = o
        BY <1>17, <2>1, <2>2, <2>3 DEF Phase, IsIntended
    <2>5. Phases' = [Phases EXCEPT ![x] = o]
        BY <1>15, <2>4 DEF Phases
    <2>6. Phases[x] = "pending"
        BY <1>6, PendingPhase DEF Phases
    <2>7. o = "delivered" => AllTries[x] # {}
        BY <1>4, <1>7, <1>9 DEF AllTries, Tries
    <2>8. Contract!Settle(x, o)
        BY <1>4, <1>10, <1>11, <2>5, <2>6, <2>7 DEF Contract!Settle, Threads
    <2> QED BY <1>17, <2>8 DEF ContractStep, Contract!ContractNext, Contract!Delivery, Deliveries
<1> QED BY <1>16, <1>17

\* A restart cuts off the threads that run.
LEMMA CrashRefines == ASSUME DeliveryInv, Crash PROVE ContractStep
<1> DEFINE ns == {n \in Events : jobs[n].pc \in Running}
<1>1. /\ UNCHANGED <<users, planned, history, calls>>
      /\ \A n \in Events :
             jobs'[n] = IF n \in ns THEN [jobs[n] EXCEPT !.pc = "aborted"] ELSE jobs[n]
    BY DEF Crash
<1>2. \A n \in Events : jobs[n] \in Job
    BY JobFields DEF DeliveryInv
<1>3. \A n \in ns : jobs'[n].pc = "aborted"
    BY <1>1, <1>2 DEF Job
<1>4. ns \in SUBSET Events
    OBVIOUS
<1>5. \A n \in ns : Thread(n) = "running" /\ Thread(n)' = "aborted" /\ ~Over(n) /\ Over(n)'
    BY <1>3 DEF Thread, Over, Running
<1>6. \A n \in Events \ ns : jobs'[n] = jobs[n] /\ Thread(n)' = Thread(n)
    BY <1>1 DEF Thread
<1>7. PICK cut \in SUBSET Events : cut = ns
    BY <1>4
<1>8. /\ \A n \in cut : /\ Thread(n) = "running" /\ Thread(n)' = "aborted"
                        /\ ~Over(n) /\ Over(n)'
      /\ \A n \in Events \ cut : jobs'[n] = jobs[n] /\ Thread(n)' = Thread(n)
    BY <1>5, <1>6, <1>7
<1> HIDE DEF ns
<1>9. Phases' = [x \in Deliveries |->
                    IF x.event \in cut /\ Phases[x] = "pending" THEN "lost"
                    ELSE Phases[x]]
    BY <1>1, <1>8, PhasesEnd
<1>10. Threads' = [n \in Events |-> IF n \in cut THEN "aborted" ELSE Threads[n]]
    BY <1>8 DEF Threads
<1>11. AllTries' = AllTries
    BY <1>1, TriesKept
<1>12. Contract!CutOff(cut)
    BY <1>8, <1>9, <1>10, <1>11
    DEF Contract!CutOff, Contract!Delivery, Deliveries, Threads
<1> QED BY <1>12 DEF ContractStep, Contract!ContractNext

\* A management request deletes one user at most.
LEMMA OneDeletion ==
    ASSUME TypeOK, Next
    PROVE  \/ \A u \in Users : users'[u] = Deleted <=> users[u] = Deleted
           \/ \E o \in Users :
                  /\ users'[o] = Deleted
                  /\ \A u \in Users \ {o} : users'[u] = users[u]
<1> USE RowsAreLive DEF Live, TypeOK
<1>1. PICK e \in Editors :
          Refuse(e) \/ UserStep(e) \/ DestinationStep(e) \/ RouteStep(e)
    BY DEF Next
<1> DEFINE Same == \A u \in Users : users'[u] = Deleted <=> users[u] = Deleted
<1>2. CASE UNCHANGED users
    BY <1>2
<1>3. CASE UserStep(e)
    <2>1. ASSUME NEW u \in Users, NEW role \in {"admin", "user"}, CreateUser(e, u, role)
          PROVE  Same
        <3>1. /\ users' = [users EXCEPT ![u] = [role |-> role, enabled |-> TRUE]]
              /\ [role |-> role, enabled |-> TRUE] \in UserRow /\ users[u] = Unissued
            BY <2>1 DEF CreateUser, UserRow
        <3>2. [role |-> role, enabled |-> TRUE] # Deleted /\ Unissued # Deleted
            BY <3>1, AbsentAssumption DEF Absent
        <3> QED BY <3>1, <3>2
    <2>2. ASSUME NEW u \in Users, NEW enabled \in BOOLEAN, SetUserEnabled(e, u, enabled)
          PROVE  Same
        <3>1. /\ users' = [users EXCEPT ![u] = [users[u] EXCEPT !.enabled = enabled]]
              /\ [users[u] EXCEPT !.enabled = enabled] \in UserRow
              /\ users[u] # Deleted
            BY <2>2 DEF SetUserEnabled, UserRow
        <3>2. [users[u] EXCEPT !.enabled = enabled] # Deleted
            BY <3>1, AbsentAssumption DEF Absent
        <3> QED BY <3>1, <3>2
    <2>3. ASSUME NEW u \in Users, DeleteUser(e, u)
          PROVE  users'[u] = Deleted /\ \A v \in Users \ {u} : users'[v] = users[v]
        BY <2>3 DEF DeleteUser
    <2>4. ASSUME NEW u \in Users, Admit(e, u) PROVE Same
        BY <2>4 DEF Admit
    <2> QED BY <1>3, <2>1, <2>2, <2>3, <2>4 DEF UserStep
<1>4. CASE Refuse(e) \/ DestinationStep(e) \/ RouteStep(e)
    BY <1>4, <1>2 DEF Refuse, DestinationStep, RouteStep, UpdateDestination,
       CreateDestination, ReadDestination, SetDestinationEnabled,
       SetDestinationShared, DeleteDestination, UpdateRoute, CreateRoute,
       ReadRoute, SetRouteEnabled, DeleteRoute
<1> QED BY <1>1, <1>3, <1>4

\* The rows of the deleted user go, and what the contract says of the others
\* stays.
LEMMA AdministerRefines == ASSUME DeliveryInv, Administer PROVE ContractStep
<1>1. /\ Next /\ UNCHANGED <<jobs, planned, calls>>
      /\ history' = {h \in history : users'[h.owner] \notin Absent}
    BY DEF Administer
<1>2. TypeOK /\ WorkPlanned /\ DeliveryTypeOK
    BY DEF DeliveryInv, DeliveryTypeOK
<1>3. AllTries' = AllTries
    BY <1>1, TriesKept
<1>4. Threads' = Threads
    BY <1>1 DEF Threads, Thread
<1>5. ASSUME NEW x \in Deliveries, users'[x.owner] = Deleted <=> users[x.owner] = Deleted
      PROVE  Phase(x)' = Phase(x)
    <2>1. IsIntended(x)' <=> IsIntended(x)
        BY <1>1 DEF IsIntended
    <2>2. Over(x.event)' <=> Over(x.event)
        BY <1>1 DEF Over
    <2>3. \A h \in history : SameDelivery(h, x) => users[x.owner] # Unissued
        BY <1>2 DEF WorkPlanned, Live, Absent, SameDelivery
    <2>4. users[x.owner] # Deleted =>
              \A h \in history : SameDelivery(h, x) => h \in history'
        BY <1>1, <1>2, <1>5, <2>3, UsersStep, DeliveryFields DEF SameDelivery, Absent
    <2>5. history' \subseteq history
        BY <1>1
    <2>6. users[x.owner] # Deleted =>
              /\ Settled(x, "delivered")' <=> Settled(x, "delivered")
              /\ Settled(x, "failed")' <=> Settled(x, "failed")
        BY <2>4, <2>5 DEF Settled
    <2> QED BY <1>5, <2>1, <2>2, <2>6, PhaseKept
<1>6. CASE \A u \in Users : users'[u] = Deleted <=> users[u] = Deleted
    <2>1. Phases' = Phases
        BY <1>5, <1>6, DeliveryFields DEF Phases
    <2> QED BY <1>3, <1>4, <2>1 DEF ContractStep, Contract!contractVars
<1>7. ASSUME NEW o \in Users, users'[o] = Deleted,
             \A u \in Users \ {o} : users'[u] = users[u]
      PROVE  ContractStep
    <2>1. \A x \in Deliveries : x.owner = o => Phase(x)' = "erased"
        BY <1>7 DEF Phase
    <2>2. \A x \in Deliveries : x.owner # o => Phase(x)' = Phase(x)
        BY <1>5, <1>7, DeliveryFields
    <2>3. Phases' = [x \in Deliveries |->
                        IF x.owner = o THEN "erased" ELSE Phases[x]]
        BY <2>1, <2>2 DEF Phases
    <2>4. Contract!Erase(o)
        BY <1>3, <1>4, <2>3 DEF Contract!Erase, Contract!Delivery, Deliveries
    <2> QED BY <2>4 DEF ContractStep, Contract!ContractNext
<1> QED BY <1>1, <1>2, <1>6, <1>7, OneDeletion

\* Nothing has been received yet.
LEMMA InitRefines == DeliveryInit => Contract!ContractInit
<1> SUFFICES ASSUME DeliveryInit PROVE Contract!ContractInit
    OBVIOUS
<1>1. \A n \in Events : Thread(n) = "waiting"
    BY DEF DeliveryInit, NoJob, Thread, Running
<1>2. \A x \in Deliveries : Phase(x) \in {"none", "erased"}
    BY DEF DeliveryInit, Phase
<1>3. \A x \in Deliveries : Tries(x) = {}
    BY DEF DeliveryInit, Tries
<1> QED BY <1>1, <1>2, <1>3
        DEF Contract!ContractInit, Contract!Delivery, Deliveries, Threads, Phases, AllTries

LEMMA StepRefines ==
    DeliveryInv /\ [DeliveryNext]_deliveryVars => ContractStep
<1> SUFFICES ASSUME DeliveryInv, [DeliveryNext]_deliveryVars PROVE ContractStep
    OBVIOUS
<1>1. ASSUME NEW n \in Events, UNCHANGED users,
             \A m \in Events \ {n} : jobs'[m] = jobs[m],
             \/ Quiet(n)
             \/ \E u \in Users : MatchOwner(n, u)
             \/ \E p \in jobs[n].plan : FetchTarget(n, p) \/ TargetUnavailable(n, p)
             \/ \E result \in {"success", "retryable", "permanent"} :
                    CallAdapter(n, result)
             \/ RecordAttempt(n)
             \/ ReadBack(n)
      PROVE  ContractStep
    BY <1>1, QuietRefines, MatchRefines, LoopRefines, CallRefines, RecordRefines
<1>2. CASE UNCHANGED deliveryVars
    <2>1. AllTries' = AllTries
        BY <1>2, TriesKept DEF deliveryVars
    <2>2. Threads' = Threads /\ Phases' = Phases
        BY <1>2 DEF deliveryVars, Threads, Thread, Phases, Phase, Settled
    <2> QED BY <2>1, <2>2 DEF ContractStep, Contract!contractVars
<1> QED BY <1>1, <1>2, CrashRefines, AdministerRefines, StepCases

\* The delivery service keeps its contract, for any number of events, owners,
\* routes and attempts, whatever requests and restarts come in between: each
\* owner's deliveries are planned together and once, each is tried with the next
\* number, one after the other, settled once as what was recorded, and none is
\* pending when deliver() returns.
THEOREM DeliveryKeepsContract == DeliverySpec => ImplementsContract
<1>1. DeliveryInv /\ [DeliveryNext]_deliveryVars
          => [Contract!ContractNext]_(Contract!contractVars)
    BY StepRefines DEF ContractStep
<1> QED BY <1>1, InitRefines, DeliveryInvariant, PTL
        DEF DeliverySpec, ImplementsContract, Contract!ContractSpec

=============================================================================
