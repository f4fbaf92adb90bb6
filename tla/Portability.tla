---------------------------- MODULE Portability ----------------------------
(***************************************************************************)
(* The export of one instance and its import into another                  *)
(* (storage/portability.py): a preview decides whether every item can be    *)
(* created, then secrets, destinations and routes are created one after the *)
(* other, each in a transaction of its own, and removed again when one      *)
(* fails; what a failing step has committed is not known to the roll back.  *)
(* The import of an older YAML file creates secrets as well.                *)
(***************************************************************************)
EXTENDS Naturals

CONSTANTS
    Owners,        \* user names, known to both instances
    DestinationNames, RouteNames,
    Exports,       \* what the other instance may hold: its tables
    Yaml           \* destinations and routes of an older YAML file

\* A row is known by owner and name, which are unique together.
Key(names) == Owners \X names

DestinationRow ==
    [key : Key(DestinationNames), shared : BOOLEAN, enabled : BOOLEAN, secret : BOOLEAN]
RouteRow ==
    [key : Key(RouteNames), to : Key(DestinationNames), input : {"", "smtp", "http"},
     enabled : BOOLEAN]
Tables == [destinations : SUBSET DestinationRow, routes : SUBSET RouteRow]

\* In the tables of an instance names are unique (storage/migrations.py).
ASSUME PortabilityAssumption ==
    /\ Exports \subseteq Tables
    /\ Yaml \in Tables
    /\ \A tables \in Exports : \A d, e \in tables.destinations : d.key = e.key => d = e

VARIABLES
    origin,        \* the tables of the instance that was exported
    destinations, routes,
    secrets,       \* the names of the secret records: owner and destination
    active,        \* the users that are enabled
    import,        \* what the import is about to do
    restarts

vars == <<origin, destinations, routes, secrets, active, import, restarts>>

-----------------------------------------------------------------------------
(* The document.                                                           *)

\* An item needs a credential, and brings it if it comes from YAML.
Item == [row : DestinationRow, needs : BOOLEAN, brings : BOOLEAN]

\* Mutant: a destination keeps its state although its credential stays behind.
PortableEnabled(d) ==
    [row |-> d, needs |-> FALSE, brings |-> FALSE]

\* export_document says that there is a secret, not which.
Portable(d) == [row |-> d, needs |-> d.secret, brings |-> FALSE]

\* Of a route it does not say which input it is for.
PortableRoute(t) == [t EXCEPT !.input = ""]

ExportDocument ==
    [items |-> {Portable(d) : d \in origin.destinations},
     routes |-> {PortableRoute(t) : t \in origin.routes}]

\* preview_v1_yaml: outputs with a placeholder are skipped, and so are the routes to
\* them; what is left is shared, and a route is enabled with its destination.
YamlDocument ==
    LET kept == {d \in Yaml.destinations : d.secret}
    IN  [items |-> {[row |-> [d EXCEPT !.shared = TRUE], needs |-> TRUE, brings |-> TRUE]
                       : d \in kept},
         routes |-> {[t EXCEPT !.enabled = \E d \in kept : d.key = t.to /\ d.enabled]
                       : t \in {u \in Yaml.routes : \E d \in kept : d.key = u.to}}]

Document(kind) == IF kind = "portable" THEN ExportDocument ELSE YamlDocument

\* What the items of a document must be like for a route to be one of it.
MayUse(t, items) ==
    \E i \in items : i.row.key = t.to /\ (i.row.key[1] = t.key[1] \/ i.row.shared)

\* preview_document: names that are free, destinations a route may use.  It does not
\* ask whether an owner is enabled, nor for the names of secrets.
Valid(document) ==
    /\ \A i \in document.items : \A d \in destinations : d.key # i.row.key
    /\ \A t \in document.routes :
           /\ \A u \in routes : u.key # t.key
           /\ MayUse(t, document.items)

-----------------------------------------------------------------------------

\* What is still to be created, what was, and for the properties the tables before and
\* the rows lost: created by a step that failed, or kept by a deletion that did.
None == [step |-> "idle", kind |-> "", items |-> {}, routes |-> {}, needed |-> {},
         secrets |-> {}, destinations |-> {}, made |-> {}, lost |-> {},
         before |-> [destinations |-> {}, routes |-> {}, secrets |-> {}]]

Init ==
    /\ origin \in Exports
    /\ destinations = {} /\ routes = {} /\ secrets = {}
    /\ active = Owners
    /\ import = None
    /\ restarts = 0

Idle == import.step \in {"idle", "done", "undone"}

\* apply_document: under the maintenance lock from here to the end, the preview is
\* made once more and must have the fingerprint of the one that was confirmed.
Apply(kind) ==
    LET document == Document(kind) IN
    /\ Idle
    /\ Valid(document)
    /\ import' = [None EXCEPT
           !.step = "create", !.kind = kind, !.items = document.items, !.routes = document.routes,
           !.needed = {i.row.key : i \in {j \in document.items : j.needs /\ ~j.brings}},
           !.before = [destinations |-> destinations, routes |-> routes,
                       secrets |-> secrets]]
    /\ UNCHANGED <<origin, destinations, routes, secrets, active, restarts>>

Fail == import' = [import EXCEPT !.step = "undo"]

\* A row is committed, then cannot be read back, or its audit row not be inserted: the
\* roll back will not know of it.
FailAfter(kind, key) ==
    import' = [import EXCEPT !.step = "undo", !.lost = @ \cup {<<kind, key>>}]

\* The next destination of the document: its secret first.
CreateSecret(item) ==
    /\ import.step = "create" /\ item \in import.items
    /\ item.brings /\ item.row.key \notin import.secrets
    /\ IF item.row.key \in secrets
       THEN Fail /\ UNCHANGED secrets
       ELSE /\ secrets' = secrets \cup {item.row.key}
            /\ \/ import' = [import EXCEPT !.secrets = @ \cup {item.row.key}]
               \/ FailAfter("secret", item.row.key)
    /\ UNCHANGED <<origin, destinations, routes, active, restarts>>

CreateDestination(item) ==
    /\ import.step = "create" /\ item \in import.items
    /\ item.brings => item.row.key \in import.secrets
    /\ IF item.row.key[1] \notin active
       THEN Fail /\ UNCHANGED destinations
       ELSE /\ destinations' = destinations \cup
                   {[item.row EXCEPT !.secret = item.brings,
                        !.enabled = @ /\ ~(item.needs /\ ~item.brings)]}
            /\ \/ import' = [import EXCEPT !.items = @ \ {item},
                                           !.destinations = @ \cup {item.row.key}]
               \/ FailAfter("destination", item.row.key)
    /\ UNCHANGED <<origin, routes, secrets, active, restarts>>

CreateRoute(t) ==
    /\ import.step = "create" /\ import.items = {} /\ t \in import.routes
    /\ IF t.key[1] \notin active
       THEN Fail /\ UNCHANGED routes
       ELSE /\ routes' = routes \cup {[t EXCEPT !.enabled = @ /\ t.to \notin import.needed]}
            /\ \/ import' = [import EXCEPT !.routes = @ \ {t}, !.made = @ \cup {t.key}]
               \/ FailAfter("route", t.key)
    /\ UNCHANGED <<origin, destinations, secrets, active, restarts>>

\* An error before the transaction of a step, or in it.
CreateFails ==
    /\ import.step = "create"
    /\ import.items # {} \/ import.routes # {}
    /\ Fail
    /\ UNCHANGED <<origin, destinations, routes, secrets, active, restarts>>

\* With the import complete its own audit row may fail, and the request with it.
Succeed ==
    /\ import.step = "create" /\ import.items = {} /\ import.routes = {}
    /\ import' = [import EXCEPT !.step = "done"]
    /\ UNCHANGED <<origin, destinations, routes, secrets, active, restarts>>

-----------------------------------------------------------------------------
(* The roll back: routes, destinations, secrets.  What it is refused, and what *)
(* fails, stays.                                                            *)

UndoRoute(key) ==
    /\ import.step = "undo" /\ key \in import.made
    /\ \/ /\ routes' = {t \in routes : t.key # key}
          /\ import' = [import EXCEPT !.made = @ \ {key}]
       \/ /\ UNCHANGED routes
          /\ import' = [import EXCEPT !.made = @ \ {key}, !.lost = @ \cup {<<"route", key>>}]
    /\ UNCHANGED <<origin, destinations, secrets, active, restarts>>

\* A destination that a route refers to is not deleted.
DeleteUnrouted(key) ==
    destinations' = {d \in destinations : d.key = key => \E t \in routes : t.to = key}

\* The destination is deleted, unless it is refused or fails.
RemoveDestination(key) ==
    /\ import.step = "undo" /\ key \in import.destinations
    /\ \/ /\ DeleteUnrouted(key)
          /\ import' = [import EXCEPT !.destinations = @ \ {key}]
       \/ /\ UNCHANGED destinations
          /\ import' = [import EXCEPT !.destinations = @ \ {key},
                                      !.lost = @ \cup {<<"destination", key>>}]
    /\ UNCHANGED <<origin, routes, secrets, active, restarts>>

\* Mutant: destinations are removed as they were made, before their routes.
UndoDestinationFirst(key) == RemoveDestination(key)

UndoDestination(key) == import.made = {} /\ RemoveDestination(key)

\* A secret that a destination refers to is not deleted.
UndoSecret(key) ==
    /\ import.step = "undo" /\ import.made = {} /\ import.destinations = {}
    /\ key \in import.secrets
    /\ \/ /\ secrets' = {k \in secrets :
                  k = key => \E d \in destinations : d.key = key /\ d.secret}
          /\ import' = [import EXCEPT !.secrets = @ \ {key}]
       \/ /\ UNCHANGED secrets
          /\ import' = [import EXCEPT !.secrets = @ \ {key}, !.lost = @ \cup {<<"secret", key>>}]
    /\ UNCHANGED <<origin, destinations, routes, active, restarts>>

Undone ==
    /\ import.step = "undo"
    /\ import.made = {} /\ import.destinations = {} /\ import.secrets = {}
    /\ import' = [import EXCEPT !.step = "undone"]
    /\ UNCHANGED <<origin, destinations, routes, secrets, active, restarts>>

-----------------------------------------------------------------------------
(* Others, while the lock is free.                                         *)

\* After it, an import starts from other tables.
Other == Idle /\ import' = None

Disable(owner) ==
    /\ Other
    /\ active' = active \ {owner}
    /\ UNCHANGED <<origin, destinations, routes, secrets, restarts>>

DeleteRoute(t) ==
    /\ Other
    /\ routes' = routes \ {t}
    /\ UNCHANGED <<origin, destinations, secrets, active, restarts>>

\* The secret stays behind.
DeleteDestination(key) ==
    /\ Other
    /\ DeleteUnrouted(key)
    /\ UNCHANGED <<origin, routes, secrets, active, restarts>>

\* An edit supplies the credential, under a name no import uses, or only the state.
Edit(d, secret, enabled) ==
    /\ Other
    /\ destinations' = (destinations \ {d}) \cup
           {[d EXCEPT !.secret = @ \/ secret, !.enabled = enabled]}
    /\ UNCHANGED <<origin, routes, secrets, active, restarts>>

Crash ==
    /\ restarts = 0 /\ ~Idle
    /\ restarts' = 1
    /\ import' = None
    /\ UNCHANGED <<origin, destinations, routes, secrets, active>>

Next ==
    \/ \E kind \in {"portable", "yaml"} : Apply(kind)
    \/ \E item \in import.items : CreateSecret(item) \/ CreateDestination(item)
    \/ \E t \in import.routes : CreateRoute(t)
    \/ CreateFails \/ Succeed
    \/ \E key \in import.made : UndoRoute(key)
    \/ \E key \in import.destinations : UndoDestination(key)
    \/ \E key \in import.secrets : UndoSecret(key)
    \/ Undone
    \/ \E owner \in active : Disable(owner)
    \/ \E t \in routes : DeleteRoute(t)
    \/ \E d \in destinations : DeleteDestination(d.key)
    \/ \E d \in destinations, secret, enabled \in BOOLEAN : Edit(d, secret, enabled)
    \/ Crash

Spec == Init /\ [][Next]_vars

-----------------------------------------------------------------------------
(* Properties.                                                             *)

Lost(kind, key) == <<kind, key>> \in import.lost

\* Of an import that failed at any of its steps nothing is left but the row that the
\* failing step had committed, the rows whose own deletion failed, and what these refer
\* to: the roll back of _apply_plan goes through the rest in an order in which nothing
\* is still referred to, and it removes and changes nothing that was there before, also
\* when a secret's name was taken (lines 446-522).
OnlyLostRemain ==
    import.step = "undone" =>
        /\ import.before.routes \subseteq routes
        /\ import.before.destinations \subseteq destinations
        /\ import.before.secrets \subseteq secrets
        /\ \A t \in routes \ import.before.routes : Lost("route", t.key)
        /\ \A d \in destinations \ import.before.destinations :
               \/ Lost("destination", d.key)
               \/ \E t \in routes \ import.before.routes : t.to = d.key
        /\ \A key \in secrets \ import.before.secrets :
               \/ Lost("secret", key)
               \/ \E d \in destinations \ import.before.destinations : d.key = key /\ d.secret

\* docs/data-portability.md: "Unexpected partial creation is rolled back", whole.  Not
\* so when a step fails after its commit.
ImportAllOrNothing ==
    import.step = "undone" =>
        /\ destinations = import.before.destinations
        /\ routes = import.before.routes
        /\ secrets = import.before.secrets

\* The exported instance had a credential for this destination.
Secured(key) == \E d \in origin.destinations : d.key = key /\ d.secret

\* What a portable import made sends nothing without its credential: neither a
\* destination whose credential stayed behind nor a route to it is enabled, while the
\* others work as they did (export_document and _apply_plan together).
HeldBack ==
    import.kind = "portable" /\ import.step = "done" =>
        /\ \A d \in origin.destinations : \E e \in destinations :
               e.key = d.key /\ (e.enabled <=> d.enabled /\ ~Secured(d.key))
        /\ \A t \in origin.routes : \E u \in routes :
               u.key = t.key /\ (u.enabled <=> t.enabled /\ ~Secured(t.to))

\* docs/data-portability.md: the export has the input types of the routes.  An imported
\* route takes the events of the inputs the exported one took.
RoundTrip ==
    import.kind = "portable" /\ import.step = "done" =>
        \A t \in origin.routes : \E u \in routes :
            u.key = t.key /\ u.to = t.to /\ u.input = t.input

=============================================================================
