------------------------- MODULE PortabilityProofs -------------------------
(***************************************************************************)
(* Imports of any number of destinations and routes, of any number of      *)
(* owners, failing at any item.                                            *)
(***************************************************************************)
EXTENDS Portability, TLAPS

ImportRow ==
    [step : {"idle", "create", "undo", "undone", "done"},
     kind : {"", "portable", "yaml"},
     items : SUBSET Item, routes : SUBSET RouteRow,
     needed : SUBSET Key(DestinationNames),
     secrets : SUBSET Key(DestinationNames),
     destinations : SUBSET Key(DestinationNames),
     made : SUBSET Key(RouteNames),
     lost : SUBSET ({"secret", "destination", "route"} \X
                        (Key(DestinationNames) \cup Key(RouteNames))),
     before : [destinations : SUBSET DestinationRow, routes : SUBSET RouteRow,
               secrets : SUBSET Key(DestinationNames)]]

PortabilityTypeOK ==
    /\ origin \in Exports
    /\ destinations \subseteq DestinationRow
    /\ routes \subseteq RouteRow
    /\ secrets \subseteq Key(DestinationNames)
    /\ import \in ImportRow

\* A route has a destination, and one that is still to come has it already or among
\* the items that come first.
LinksSound ==
    /\ \A t \in routes : \E d \in destinations : d.key = t.to
    /\ import.step = "create" =>
           \A t \in import.routes :
               \/ \E d \in destinations : d.key = t.to
               \/ \E i \in import.items : i.row.key = t.to

\* Rows that the import has made, and knows, or that are lost.
OurRoutes ==
    /\ import.before.routes \subseteq routes
    /\ \A t \in routes \ import.before.routes : t.key \in import.made \/ Lost("route", t.key)
    /\ \A t \in import.before.routes : t.key \notin import.made

\* ... or that a route refers to which the roll back has left.
OurDestinations ==
    /\ import.before.destinations \subseteq destinations
    /\ \A d \in destinations \ import.before.destinations :
           \/ d.key \in import.destinations
           \/ Lost("destination", d.key)
           \/ \E t \in routes \ import.before.routes :
                  t.to = d.key /\ t.key \notin import.made
    /\ \A d \in import.before.destinations :
           d.key \notin import.destinations /\ d.key \notin import.secrets

\* ... or a destination which the roll back has left.
OurSecrets ==
    /\ import.before.secrets \subseteq secrets
    /\ import.before.secrets \cap import.secrets = {}
    /\ \A key \in secrets \ import.before.secrets :
           \/ key \in import.secrets
           \/ Lost("secret", key)
           \/ \E d \in destinations \ import.before.destinations :
                  d.key = key /\ d.secret /\ key \notin import.destinations

Undoable ==
    import.step \in {"create", "undo", "undone"} =>
        /\ OurRoutes
        /\ OurDestinations
        /\ OurSecrets
        /\ \A t \in import.before.routes :
               \E d \in import.before.destinations : d.key = t.to

\* What is still to be created is not there, the first row that is lost ends the
\* creation, and destinations are removed after the routes, secrets after them.
InOrder ==
    /\ import.step = "create" =>
           /\ import.lost = {}
           /\ \A i \in import.items : \A d \in import.before.destinations :
                  d.key # i.row.key
           /\ \A t \in import.routes : \A u \in import.before.routes : u.key # t.key
    /\ import.step = "undone" =>
           import.made = {} /\ import.destinations = {} /\ import.secrets = {}

\* A portable document, item by item: still to come, or there and held back.
HeldSoFar ==
    import.kind = "portable" /\ import.step \in {"create", "done"} =>
        /\ import.needed = {d.key : d \in {e \in origin.destinations : e.secret}}
        /\ import.items \subseteq {Portable(d) : d \in origin.destinations}
        /\ import.routes \subseteq {PortableRoute(t) : t \in origin.routes}
        /\ \A d \in origin.destinations :
               \/ Portable(d) \in import.items
               \/ \E e \in destinations :
                      e.key = d.key /\ (e.enabled <=> d.enabled /\ ~d.secret)
        /\ \A t \in origin.routes :
               \/ PortableRoute(t) \in import.routes
               \/ \E u \in routes :
                      u.key = t.key /\ (u.enabled <=> t.enabled /\ t.to \notin import.needed)
        /\ import.step = "done" => import.items = {} /\ import.routes = {}

ImportInv == PortabilityTypeOK /\ LinksSound /\ Undoable /\ InOrder /\ HeldSoFar

-----------------------------------------------------------------------------

LEMMA OriginTyped ==
    ASSUME PortabilityTypeOK
    PROVE  /\ origin.destinations \subseteq DestinationRow
           /\ origin.routes \subseteq RouteRow
           /\ \A d, e \in origin.destinations : d.key = e.key => d = e
BY PortabilityAssumption DEF PortabilityTypeOK, Tables

\* A document has items of the shape of an import.
LEMMA DocumentTyped ==
    ASSUME PortabilityTypeOK, NEW kind \in {"portable", "yaml"}
    PROVE  /\ Document(kind).items \subseteq Item
           /\ Document(kind).routes \subseteq RouteRow
<1>1. CASE kind = "portable"
  <2>1. \A d \in DestinationRow : Portable(d) \in Item
    BY DEF Portable, Item, DestinationRow
  <2>2. \A t \in RouteRow : PortableRoute(t) \in RouteRow
    BY DEF PortableRoute, RouteRow
  <2> QED
    BY <1>1, <2>1, <2>2, OriginTyped DEF Document, ExportDocument
<1>2. CASE kind = "yaml"
  <2>1. Yaml.destinations \subseteq DestinationRow /\ Yaml.routes \subseteq RouteRow
    BY PortabilityAssumption DEF Tables
  <2>2. \A d \in DestinationRow :
           [row |-> [d EXCEPT !.shared = TRUE], needs |-> TRUE, brings |-> TRUE] \in Item
    BY DEF Item, DestinationRow
  <2>3. \A t \in RouteRow, b \in BOOLEAN : [t EXCEPT !.enabled = b] \in RouteRow
    BY DEF RouteRow
  <2> QED
    BY <1>2, <2>1, <2>2, <2>3 DEF Document, YamlDocument
<1> QED
  BY <1>1, <1>2

LEMMA InitInv == Init => ImportInv
<1> SUFFICES ASSUME Init PROVE ImportInv
  OBVIOUS
<1>1. PortabilityTypeOK
  BY DEF Init, PortabilityTypeOK, None, ImportRow
<1> QED
  BY <1>1 DEF Init, ImportInv, None, LinksSound, Undoable, InOrder, HeldSoFar

-----------------------------------------------------------------------------
(* The steps of an import.                                                 *)

LEMMA ApplyKeeps ==
    ASSUME ImportInv, NEW kind \in {"portable", "yaml"}, Apply(kind)
    PROVE  ImportInv'
<1> DEFINE document == Document(kind)
<1>1. document.items \subseteq Item /\ document.routes \subseteq RouteRow
  BY DocumentTyped DEF ImportInv
<1>2. /\ import'.step = "create" /\ import'.kind = kind
      /\ import'.items = document.items /\ import'.routes = document.routes
      /\ import'.needed = {i.row.key : i \in {j \in document.items : j.needs /\ ~j.brings}}
      /\ import'.secrets = {} /\ import'.destinations = {} /\ import'.made = {}
      /\ import'.lost = {}
      /\ import'.before = [destinations |-> destinations, routes |-> routes,
                           secrets |-> secrets]
  BY DEF Apply, None
<1>3. PortabilityTypeOK'
  <2>1. import'.needed \subseteq Key(DestinationNames)
    BY <1>1, <1>2 DEF Item, DestinationRow
  <2>2. import' \in ImportRow
    BY <1>1, <2>1 DEF Apply, None, ImportRow, ImportInv, PortabilityTypeOK
  <2> QED
    BY <2>2 DEF Apply, ImportInv, PortabilityTypeOK
<1>4. LinksSound'
  <2>1. \A t \in document.routes : \E i \in document.items : i.row.key = t.to
    BY DEF Apply, Valid, MayUse
  <2> QED
    BY <1>2, <2>1 DEF Apply, ImportInv, LinksSound
<1>5. Undoable'
  BY <1>2 DEF Apply, ImportInv, LinksSound, Undoable, OurRoutes, OurDestinations, OurSecrets
<1>6. InOrder'
  BY <1>2 DEF Apply, InOrder, Valid
<1>7. HeldSoFar'
  <2> SUFFICES ASSUME kind = "portable"
               PROVE  HeldSoFar'
    BY <1>2 DEF HeldSoFar
  <2>1. /\ document.items = {Portable(d) : d \in origin.destinations}
        /\ document.routes = {PortableRoute(t) : t \in origin.routes}
    BY DEF Document, ExportDocument
  <2>2. {i.row.key : i \in {j \in document.items : j.needs /\ ~j.brings}}
            = {d.key : d \in {e \in origin.destinations : e.secret}}
    <3>1. \A d \in origin.destinations :
             /\ Portable(d).row = d
             /\ Portable(d).needs = d.secret
             /\ Portable(d).brings = FALSE
      BY DEF Portable
    <3>2. \A k : k \in {i.row.key : i \in {j \in document.items : j.needs /\ ~j.brings}}
                 <=> \E d \in origin.destinations : d.secret /\ k = d.key
      BY <2>1, <3>1
    <3> DEFINE held == {i.row.key : i \in {j \in document.items : j.needs /\ ~j.brings}}
               theirs == {d.key : d \in {e \in origin.destinations : e.secret}}
    <3>3. \A k : k \in theirs <=> \E d \in origin.destinations : d.secret /\ k = d.key
      OBVIOUS
    <3>4. \A k : k \in held <=> k \in theirs
      BY <3>2, <3>3
    <3> HIDE DEF held, theirs
    <3>5. held = theirs
      BY <3>4
    <3> QED
      BY <3>5 DEF held, theirs
  <2>3. /\ import'.items = {Portable(d) : d \in origin.destinations}
        /\ import'.routes = {PortableRoute(t) : t \in origin.routes}
        /\ import'.needed = {d.key : d \in {e \in origin.destinations : e.secret}}
        /\ import'.step = "create"
    BY <1>2, <2>1, <2>2
  <2>4. UNCHANGED origin
    BY DEF Apply
  <2> QED
    BY <2>3, <2>4 DEF HeldSoFar
<1> QED
  BY <1>3, <1>4, <1>5, <1>6, <1>7 DEF ImportInv

\* The record of the import after a step of it.
Becomes(step, items, toCreate, ourSecrets, ourDestinations, ourRoutes, lost) ==
    /\ import'.step = step
    /\ import'.items = items /\ import'.routes = toCreate
    /\ import'.secrets = ourSecrets
    /\ import'.destinations = ourDestinations /\ import'.made = ourRoutes
    /\ import'.lost = lost
    /\ import'.kind = import.kind /\ import'.needed = import.needed
    /\ import'.before = import.before

\* What the invariant says of the rows, step by step.
LEMMA Ours ==
    ASSUME ImportInv, import.step \in {"create", "undo"}
    PROVE  /\ OurRoutes /\ OurDestinations /\ OurSecrets
           /\ \A t \in import.before.routes :
                  \E d \in import.before.destinations : d.key = t.to
           /\ \A t \in routes : \E d \in destinations : d.key = t.to
           /\ import \in ImportRow
           /\ import.step = "create" =>
                  /\ import.lost = {}
                  /\ \A i \in import.items : \A d \in import.before.destinations :
                         d.key # i.row.key
                  /\ \A t \in import.routes : \A u \in import.before.routes :
                         u.key # t.key
BY DEF ImportInv, Undoable, LinksSound, InOrder, PortabilityTypeOK

\* A step that fails changes nothing but the way the import goes.
LEMMA FailKeeps ==
    ASSUME ImportInv, import.step = "create", Fail,
           UNCHANGED <<origin, destinations, routes, secrets>>
    PROVE  ImportInv'
<1>1. PortabilityTypeOK'
  BY DEF Fail, ImportInv, PortabilityTypeOK, ImportRow
<1>2. Becomes("undo", import.items, import.routes, import.secrets, import.destinations,
              import.made, import.lost)
  BY DEF Fail, ImportInv, PortabilityTypeOK, ImportRow, Becomes
<1>3. LinksSound' /\ InOrder' /\ HeldSoFar'
  BY <1>2 DEF Becomes, ImportInv, LinksSound, InOrder, HeldSoFar
<1>4. Undoable'
  BY <1>2, Ours DEF Becomes, Undoable, OurRoutes, OurDestinations, OurSecrets, Lost
<1> QED
  BY <1>1, <1>3, <1>4 DEF ImportInv

Kinds == {"secret", "destination", "route"}

\* A row that is left by a step, because it failed, is lost.
LEMMA LoseMore ==
    ASSUME NEW keys, NEW kind \in Kinds, NEW key \in keys,
           NEW lost, lost \subseteq Kinds \X keys
    PROVE  lost \cup {<<kind, key>>} \subseteq Kinds \X keys
OBVIOUS

LEMMA LoseFacts ==
    ASSUME ImportInv, NEW kind \in Kinds,
           NEW key \in Key(DestinationNames) \cup Key(RouteNames)
    PROVE  import.lost \cup {<<kind, key>>} \subseteq
               Kinds \X (Key(DestinationNames) \cup Key(RouteNames))
<1>1. import.lost \subseteq Kinds \X (Key(DestinationNames) \cup Key(RouteNames))
  BY DEF ImportInv, PortabilityTypeOK, ImportRow, Kinds
<1> QED
  BY <1>1, LoseMore

\* A step that fails after its commit: the tables have the row, the lists do not.
LEMMA FailAfterKeeps ==
    ASSUME ImportInv, import.step = "create", NEW kind \in Kinds,
           NEW key \in Key(DestinationNames) \cup Key(RouteNames),
           FailAfter(kind, key), UNCHANGED origin,
           \/ /\ kind = "secret" /\ key \in Key(DestinationNames)
              /\ secrets' = secrets \cup {key} /\ UNCHANGED <<destinations, routes>>
           \/ /\ kind = "destination"
              /\ \E d \in DestinationRow :
                     d.key = key /\ destinations' = destinations \cup {d}
              /\ UNCHANGED <<secrets, routes>>
           \/ /\ kind = "route"
              /\ \E t \in RouteRow :
                     /\ t.key = key /\ routes' = routes \cup {t}
                     /\ \E d \in destinations : d.key = t.to
              /\ UNCHANGED <<secrets, destinations>>
    PROVE  ImportInv'
<1>1. PortabilityTypeOK'
  <2>1. import' = [import EXCEPT !.step = "undo", !.lost = @ \cup {<<kind, key>>}]
    BY DEF FailAfter
  <2>2. import.lost \cup {<<kind, key>>} \subseteq
            Kinds \X (Key(DestinationNames) \cup Key(RouteNames))
    BY LoseFacts
  <2>3. import' \in ImportRow
    BY <2>1, <2>2, Ours DEF ImportRow, Kinds
  <2> QED
    BY <2>3 DEF ImportInv, PortabilityTypeOK, Kinds
<1>2. Becomes("undo", import.items, import.routes, import.secrets, import.destinations,
              import.made, import.lost \cup {<<kind, key>>})
  BY Ours DEF FailAfter, ImportRow, Becomes
<1>3. /\ \A k : Lost(kind, key)' /\ (Lost("route", k) => Lost("route", k)')
      /\ \A k : Lost("destination", k) => Lost("destination", k)'
      /\ \A k : Lost("secret", k) => Lost("secret", k)'
  BY <1>2 DEF Becomes, Lost
<1>4. LinksSound' /\ InOrder' /\ HeldSoFar'
  BY <1>2, Ours DEF Becomes, LinksSound, InOrder, HeldSoFar
<1>5. Undoable'
  <2>1. OurRoutes'
    BY <1>2, <1>3, Ours DEF Becomes, OurRoutes
  <2>2. OurDestinations'
    BY <1>2, <1>3, Ours DEF Becomes, OurDestinations
  <2>3. OurSecrets'
    BY <1>2, <1>3, Ours DEF Becomes, OurSecrets
  <2> QED
    BY <1>2, <2>1, <2>2, <2>3, Ours DEF Becomes, Undoable
<1> QED
  BY <1>1, <1>4, <1>5 DEF ImportInv

LEMMA CreateSecretKeeps ==
    ASSUME ImportInv, NEW item \in import.items, CreateSecret(item)
    PROVE  ImportInv'
<1>1. item.row.key \in Key(DestinationNames)
  BY DEF ImportInv, PortabilityTypeOK, ImportRow, Item, DestinationRow
<1>2. CASE item.row.key \in secrets
  BY <1>2, FailKeeps DEF CreateSecret
<1>3. CASE item.row.key \notin secrets /\ FailAfter("secret", item.row.key)
  BY <1>1, <1>3, FailAfterKeeps DEF CreateSecret, Kinds
<1>4. CASE /\ item.row.key \notin secrets
           /\ import' = [import EXCEPT !.secrets = @ \cup {item.row.key}]
  <2>1. PortabilityTypeOK'
    <3>1. import \in ImportRow
      BY DEF ImportInv, PortabilityTypeOK
    <3>2. import' \in ImportRow
      BY <1>1, <1>4, <3>1 DEF ImportRow
    <3> QED
      BY <1>1, <1>4, <3>2 DEF CreateSecret, ImportInv, PortabilityTypeOK
  <2>2. Becomes("create", import.items, import.routes, import.secrets \cup {item.row.key},
                import.destinations, import.made, import.lost)
    BY <1>4 DEF CreateSecret, Becomes, ImportInv, PortabilityTypeOK, ImportRow
  <2>3. LinksSound' /\ InOrder' /\ HeldSoFar'
    BY <2>2 DEF CreateSecret, Becomes, ImportInv, LinksSound, InOrder, HeldSoFar
  <2>4. Undoable'
    <3>1. secrets' = secrets \cup {item.row.key} /\ UNCHANGED <<destinations, routes>>
      BY <1>4 DEF CreateSecret
    <3>2. import.step = "create"
      BY DEF CreateSecret
    <3>3. OurSecrets'
      BY <1>4, <2>2, <3>1, <3>2, Ours DEF Becomes, OurSecrets, Lost
    <3>4. OurRoutes' /\ OurDestinations'
      BY <2>2, <3>1, <3>2, Ours DEF Becomes, OurRoutes, OurDestinations, Lost
    <3> QED
      BY <2>2, <3>2, <3>3, <3>4, Ours DEF Becomes, Undoable
  <2> QED
    BY <2>1, <2>3, <2>4 DEF ImportInv
<1> QED
  BY <1>2, <1>3, <1>4 DEF CreateSecret

LEMMA CreateDestinationKeeps ==
    ASSUME ImportInv, NEW item \in import.items, CreateDestination(item)
    PROVE  ImportInv'
<1> DEFINE new == [item.row EXCEPT !.secret = item.brings,
                       !.enabled = @ /\ ~(item.needs /\ ~item.brings)]
<1>1. item \in Item /\ item.row \in DestinationRow /\ item.row.key \in Key(DestinationNames)
  BY DEF ImportInv, PortabilityTypeOK, ImportRow, Item, DestinationRow
<1>2. CASE item.row.key[1] \notin active
  BY <1>2, FailKeeps DEF CreateDestination
<1>4. /\ new \in DestinationRow
      /\ new.key = item.row.key
      /\ new.enabled <=> item.row.enabled /\ ~(item.needs /\ ~item.brings)
  BY <1>1 DEF DestinationRow, Item
<1>5. CASE item.row.key[1] \in active /\ FailAfter("destination", item.row.key)
  <2>1. destinations' = destinations \cup {new}
    BY <1>5 DEF CreateDestination
  <2> QED
    BY <1>1, <1>4, <1>5, <2>1, FailAfterKeeps DEF CreateDestination, Kinds
<1>3. CASE /\ item.row.key[1] \in active
           /\ import' = [import EXCEPT !.items = @ \ {item},
                                       !.destinations = @ \cup {item.row.key}]
  <2>1. /\ new \in DestinationRow
        /\ new.key = item.row.key
        /\ new.enabled <=> item.row.enabled /\ ~(item.needs /\ ~item.brings)
    BY <1>4
  <2>2. destinations' = destinations \cup {new}
    BY <1>3 DEF CreateDestination
  <2>3. Becomes("create", import.items \ {item}, import.routes, import.secrets,
                import.destinations \cup {item.row.key}, import.made, import.lost)
    BY <1>3 DEF CreateDestination, Becomes, ImportInv, PortabilityTypeOK, ImportRow
  <2>4. PortabilityTypeOK'
    <3>1. import' = [import EXCEPT !.items = @ \ {item},
                                   !.destinations = @ \cup {item.row.key}]
      BY <1>3 DEF CreateDestination
    <3>2. import \in ImportRow
      BY DEF ImportInv, PortabilityTypeOK
    <3>3. import' \in ImportRow
      BY <1>1, <3>1, <3>2 DEF ImportRow
    <3> QED
      BY <2>1, <2>2, <3>3 DEF CreateDestination, ImportInv, PortabilityTypeOK
  <2>5. LinksSound'
    <3>1. /\ \A t \in routes : \E d \in destinations : d.key = t.to
          /\ \A t \in import.routes :
               \/ \E d \in destinations : d.key = t.to
               \/ \E i \in import.items : i.row.key = t.to
      BY DEF CreateDestination, ImportInv, LinksSound
    <3>2. \A t \in import.routes :
               \/ \E d \in destinations' : d.key = t.to
               \/ \E i \in import.items \ {item} : i.row.key = t.to
      BY <2>1, <2>2, <3>1
    <3> QED
      BY <2>2, <2>3, <3>1, <3>2 DEF CreateDestination, Becomes, LinksSound
  <2>6. Undoable'
    <3>1. import.step = "create" /\ UNCHANGED <<routes, secrets>>
      BY DEF CreateDestination
    <3>2. \A d \in import.before.destinations : d.key # item.row.key
      BY <3>1, Ours
    <3>3. OurDestinations'
      BY <2>1, <2>2, <2>3, <3>1, <3>2, Ours DEF Becomes, OurDestinations, Lost
    <3>4. OurSecrets'
      <4>1. \A d \in destinations \ import.before.destinations :
                d.key \in import.destinations
        BY <3>1, Ours DEF OurDestinations, OurRoutes, Lost
      <4>2. \A key \in secrets \ import.before.secrets : key \in import.secrets
        BY <3>1, <4>1, Ours DEF OurSecrets, Lost
      <4> QED
        BY <2>3, <3>1, <4>2, Ours DEF Becomes, OurSecrets
    <3>5. OurRoutes'
      BY <2>3, <3>1, Ours DEF Becomes, OurRoutes, Lost
    <3> QED
      BY <2>3, <3>1, <3>3, <3>4, <3>5, Ours DEF Becomes, Undoable
  <2>7. InOrder'
    BY <2>3 DEF CreateDestination, Becomes, ImportInv, InOrder
  <2>8. HeldSoFar'
    <3> SUFFICES ASSUME import.kind = "portable" PROVE HeldSoFar'
      BY <2>3 DEF Becomes, HeldSoFar
    <3>1. \A d \in origin.destinations : Portable(d) = item =>
             new.key = d.key /\ (new.enabled <=> d.enabled /\ ~d.secret)
      BY <2>1 DEF Portable
    <3>2. /\ import.needed = {d.key : d \in {e \in origin.destinations : e.secret}}
          /\ import.items \subseteq {Portable(d) : d \in origin.destinations}
          /\ import.routes \subseteq {PortableRoute(t) : t \in origin.routes}
          /\ \A d \in origin.destinations :
               \/ Portable(d) \in import.items
               \/ \E e \in destinations :
                      e.key = d.key /\ (e.enabled <=> d.enabled /\ ~d.secret)
          /\ \A t \in origin.routes :
               \/ PortableRoute(t) \in import.routes
               \/ \E u \in routes :
                      u.key = t.key /\ (u.enabled <=> t.enabled /\ t.to \notin import.needed)
      BY DEF CreateDestination, ImportInv, HeldSoFar
    <3>3. \A d \in origin.destinations :
               \/ Portable(d) \in import.items \ {item}
               \/ \E e \in destinations' :
                      e.key = d.key /\ (e.enabled <=> d.enabled /\ ~d.secret)
      <4> SUFFICES ASSUME NEW d \in origin.destinations
                   PROVE  \/ Portable(d) \in import.items \ {item}
                          \/ \E e \in destinations' :
                                 e.key = d.key /\ (e.enabled <=> d.enabled /\ ~d.secret)
        OBVIOUS
      <4>1. CASE Portable(d) = item
        BY <2>2, <3>1, <4>1
      <4>2. CASE Portable(d) # item
        BY <2>2, <3>2, <4>2
      <4> QED BY <4>1, <4>2
    <3>4. UNCHANGED <<origin, routes>>
      BY DEF CreateDestination
    <3> QED
      BY <2>3, <3>2, <3>3, <3>4 DEF Becomes, HeldSoFar
  <2> QED
    BY <2>4, <2>5, <2>6, <2>7, <2>8 DEF ImportInv
<1> QED
  BY <1>2, <1>3, <1>5 DEF CreateDestination

LEMMA CreateRouteKeeps ==
    ASSUME ImportInv, NEW t \in import.routes, CreateRoute(t)
    PROVE  ImportInv'
<1> DEFINE new == [t EXCEPT !.enabled = @ /\ t.to \notin import.needed]
<1>1. t \in RouteRow /\ t.key \in Key(RouteNames)
  BY DEF ImportInv, PortabilityTypeOK, ImportRow, RouteRow
<1>2. CASE t.key[1] \notin active
  BY <1>2, FailKeeps DEF CreateRoute
<1>4. /\ new \in RouteRow
      /\ new.key = t.key /\ new.to = t.to
      /\ new.enabled <=> t.enabled /\ t.to \notin import.needed
  BY <1>1 DEF RouteRow
<1>5. \A u \in import.routes : \E d \in destinations : d.key = u.to
  BY DEF CreateRoute, ImportInv, LinksSound
<1>6. CASE t.key[1] \in active /\ FailAfter("route", t.key)
  <2>1. routes' = routes \cup {new} /\ \E d \in destinations : d.key = new.to
    BY <1>4, <1>5, <1>6 DEF CreateRoute
  <2> QED
    BY <1>1, <1>4, <1>6, <2>1, FailAfterKeeps DEF CreateRoute, Kinds
<1>3. CASE /\ t.key[1] \in active
           /\ import' = [import EXCEPT !.routes = @ \ {t}, !.made = @ \cup {t.key}]
  <2>1. /\ new \in RouteRow
        /\ new.key = t.key /\ new.to = t.to
        /\ new.enabled <=> t.enabled /\ t.to \notin import.needed
    BY <1>4
  <2>2. routes' = routes \cup {new}
    BY <1>3 DEF CreateRoute
  <2>3. Becomes("create", import.items, import.routes \ {t}, import.secrets,
                import.destinations, import.made \cup {t.key}, import.lost)
    BY <1>3 DEF CreateRoute, Becomes, ImportInv, PortabilityTypeOK, ImportRow
  <2>4. PortabilityTypeOK'
    <3>1. import' = [import EXCEPT !.routes = @ \ {t}, !.made = @ \cup {t.key}]
      BY <1>3 DEF CreateRoute
    <3>2. import \in ImportRow
      BY DEF ImportInv, PortabilityTypeOK
    <3>3. import' \in ImportRow
      BY <1>1, <3>1, <3>2 DEF ImportRow
    <3> QED
      BY <2>1, <2>2, <3>3 DEF CreateRoute, ImportInv, PortabilityTypeOK
  <2>5. LinksSound'
    <3>1. /\ \A u \in routes : \E d \in destinations : d.key = u.to
          /\ \A u \in import.routes : \E d \in destinations : d.key = u.to
      BY DEF CreateRoute, ImportInv, LinksSound
    <3>2. \A u \in routes' : \E d \in destinations : d.key = u.to
      BY <2>1, <2>2, <3>1
    <3> QED
      BY <2>3, <3>1, <3>2 DEF CreateRoute, Becomes, LinksSound
  <2>6. Undoable'
    <3>1. import.step = "create" /\ UNCHANGED <<destinations, secrets>>
      BY DEF CreateRoute
    <3>2. \A u \in import.before.routes : u.key # t.key
      BY <3>1, Ours
    <3>3. OurRoutes'
      BY <2>1, <2>2, <2>3, <3>1, <3>2, Ours DEF Becomes, OurRoutes, Lost
    <3>4. OurDestinations'
      <4>1. \A d \in destinations \ import.before.destinations :
                d.key \in import.destinations
        BY <3>1, Ours DEF OurDestinations, OurRoutes, Lost
      <4> QED
        BY <2>3, <3>1, <4>1, Ours DEF Becomes, OurDestinations
    <3>5. OurSecrets'
      BY <2>3, <3>1, Ours DEF Becomes, OurSecrets, Lost
    <3> QED
      BY <2>3, <3>1, <3>3, <3>4, <3>5, Ours DEF Becomes, Undoable
  <2>7. InOrder'
    BY <2>3 DEF CreateRoute, Becomes, ImportInv, InOrder
  <2>8. HeldSoFar'
    <3> SUFFICES ASSUME import.kind = "portable" PROVE HeldSoFar'
      BY <2>3 DEF Becomes, HeldSoFar
    <3>1. \A u \in origin.routes : PortableRoute(u) = t =>
             u.key = t.key /\ u.to = t.to /\ u.enabled = t.enabled
      BY OriginTyped DEF PortableRoute, RouteRow, ImportInv
    <3>2. /\ import.needed = {d.key : d \in {e \in origin.destinations : e.secret}}
          /\ import.items \subseteq {Portable(d) : d \in origin.destinations}
          /\ import.routes \subseteq {PortableRoute(u) : u \in origin.routes}
          /\ \A d \in origin.destinations :
               \/ Portable(d) \in import.items
               \/ \E e \in destinations :
                      e.key = d.key /\ (e.enabled <=> d.enabled /\ ~d.secret)
          /\ \A r \in origin.routes :
               \/ PortableRoute(r) \in import.routes
               \/ \E u \in routes :
                      u.key = r.key /\ (u.enabled <=> r.enabled /\ r.to \notin import.needed)
      BY DEF CreateRoute, ImportInv, HeldSoFar
    <3>3. \A r \in origin.routes :
               \/ PortableRoute(r) \in import.routes \ {t}
               \/ \E u \in routes' :
                      u.key = r.key /\ (u.enabled <=> r.enabled /\ r.to \notin import.needed)
      BY <2>1, <2>2, <3>1, <3>2
    <3>4. UNCHANGED <<origin, destinations>>
      BY DEF CreateRoute
    <3> QED
      BY <2>3, <3>2, <3>3, <3>4 DEF Becomes, HeldSoFar
  <2> QED
    BY <2>4, <2>5, <2>6, <2>7, <2>8 DEF ImportInv
<1> QED
  BY <1>2, <1>3, <1>6 DEF CreateRoute

LEMMA CreateFailsKeeps == ASSUME ImportInv, CreateFails PROVE ImportInv'
BY FailKeeps DEF CreateFails

LEMMA SucceedKeeps == ASSUME ImportInv, Succeed PROVE ImportInv'
<1>1. PortabilityTypeOK'
  BY DEF Succeed, ImportInv, PortabilityTypeOK, ImportRow
<1>2. Becomes("done", import.items, import.routes, import.secrets, import.destinations,
              import.made, import.lost)
  BY DEF Succeed, ImportInv, PortabilityTypeOK, ImportRow, Becomes
<1> QED
  BY <1>1, <1>2 DEF Succeed, Becomes, ImportInv, LinksSound, Undoable, InOrder, HeldSoFar

-----------------------------------------------------------------------------
(* The roll back.                                                          *)

LEMMA UndoRouteKeeps ==
    ASSUME ImportInv, NEW key \in import.made, UndoRoute(key)
    PROVE  ImportInv'
<1>1. /\ import.step = "undo" /\ key \in Key(RouteNames) /\ import \in ImportRow
      /\ UNCHANGED <<origin, destinations, secrets>>
  BY DEF UndoRoute, ImportInv, PortabilityTypeOK, ImportRow
<1>2. PICK lost : /\ Becomes("undo", import.items, import.routes, import.secrets,
                              import.destinations, import.made \ {key}, lost)
                  /\ import.lost \subseteq lost
                  /\ \/ routes' = {t \in routes : t.key # key}
                     \/ routes' = routes /\ <<"route", key>> \in lost
                  /\ PortabilityTypeOK'
  <2>1. CASE /\ routes' = {t \in routes : t.key # key}
             /\ import' = [import EXCEPT !.made = @ \ {key}]
    <3>1. import' \in ImportRow
      BY <1>1, <2>1 DEF ImportRow
    <3>2. Becomes("undo", import.items, import.routes, import.secrets,
                  import.destinations, import.made \ {key}, import.lost)
      BY <1>1, <2>1 DEF Becomes, ImportRow
    <3> QED BY <1>1, <2>1, <3>1, <3>2 DEF ImportInv, PortabilityTypeOK
  <2>2. CASE /\ routes' = routes
             /\ import' = [import EXCEPT !.made = @ \ {key},
                                         !.lost = @ \cup {<<"route", key>>}]
    <3>1. import' \in ImportRow
      BY <1>1, <2>2, LoseFacts DEF ImportRow, Kinds
    <3>2. Becomes("undo", import.items, import.routes, import.secrets, import.destinations,
                  import.made \ {key}, import.lost \cup {<<"route", key>>})
      BY <1>1, <2>2 DEF Becomes, ImportRow
    <3> QED BY <1>1, <2>2, <3>1, <3>2 DEF ImportInv, PortabilityTypeOK
  <2> QED BY <2>1, <2>2 DEF UndoRoute
<1>3. OurRoutes'
  BY <1>1, <1>2, Ours DEF Becomes, OurRoutes, Lost
<1>4. OurDestinations'
  BY <1>1, <1>2, Ours DEF Becomes, OurDestinations, Lost
<1>5. OurSecrets'
  BY <1>1, <1>2, Ours DEF Becomes, OurSecrets, Lost
<1>6. Undoable'
  BY <1>1, <1>2, <1>3, <1>4, <1>5, Ours DEF Becomes, Undoable
<1>7. LinksSound' /\ InOrder' /\ HeldSoFar'
  BY <1>1, <1>2, Ours DEF Becomes, LinksSound, InOrder, HeldSoFar
<1> QED
  BY <1>2, <1>6, <1>7 DEF ImportInv

\* With the routes of the import gone, only one that is lost refers to a destination of
\* it.
LEMMA UndoDestinationKeeps ==
    ASSUME ImportInv, NEW key \in import.destinations, UndoDestination(key)
    PROVE  ImportInv'
<1>1. /\ import.step = "undo" /\ import.made = {} /\ import \in ImportRow
      /\ key \in Key(DestinationNames)
      /\ UNCHANGED <<origin, routes, secrets>>
  BY DEF UndoDestination, RemoveDestination, ImportInv, PortabilityTypeOK, ImportRow
<1> DEFINE kept == {d \in destinations : d.key = key => \E t \in routes : t.to = key}
<1>2. PICK lost : /\ Becomes("undo", import.items, import.routes, import.secrets,
                              import.destinations \ {key}, import.made, lost)
                  /\ import.lost \subseteq lost
                  /\ \/ destinations' = kept
                     \/ destinations' = destinations /\ <<"destination", key>> \in lost
                  /\ PortabilityTypeOK'
  <2>1. CASE /\ destinations' = kept
             /\ import' = [import EXCEPT !.destinations = @ \ {key}]
    <3>1. import' \in ImportRow
      BY <1>1, <2>1 DEF ImportRow
    <3>2. Becomes("undo", import.items, import.routes, import.secrets,
                  import.destinations \ {key}, import.made, import.lost)
      BY <1>1, <2>1 DEF Becomes, ImportRow
    <3> QED BY <1>1, <2>1, <3>1, <3>2 DEF ImportInv, PortabilityTypeOK
  <2>2. CASE /\ destinations' = destinations
             /\ import' = [import EXCEPT !.destinations = @ \ {key},
                                         !.lost = @ \cup {<<"destination", key>>}]
    <3>1. import' \in ImportRow
      BY <1>1, <2>2, LoseFacts DEF ImportRow, Kinds
    <3>2. Becomes("undo", import.items, import.routes, import.secrets,
                  import.destinations \ {key}, import.made,
                  import.lost \cup {<<"destination", key>>})
      BY <1>1, <2>2 DEF Becomes, ImportRow
    <3> QED BY <1>1, <2>2, <3>1, <3>2 DEF ImportInv, PortabilityTypeOK
  <2> QED BY <2>1, <2>2 DEF UndoDestination, RemoveDestination, DeleteUnrouted
<1>3. \A t \in import.before.routes : t.to # key
  BY <1>1, Ours DEF OurDestinations
<1>4. /\ destinations' \subseteq destinations
      /\ \A d \in destinations : d.key # key => d \in destinations'
      /\ \A d \in destinations' : d.key = key =>
             \/ <<"destination", key>> \in lost
             \/ \E t \in routes \ import.before.routes : t.to = key
  BY <1>2, <1>3
<1>5. OurDestinations'
  <2>1. import.before.destinations \subseteq destinations'
    BY <1>1, <1>4, Ours DEF OurDestinations
  <2>2. \A d \in destinations' \ import.before.destinations :
            \/ d.key \in import.destinations \ {key}
            \/ <<"destination", d.key>> \in lost
            \/ \E t \in routes \ import.before.routes : t.to = d.key
    BY <1>1, <1>2, <1>4, Ours DEF OurDestinations, Lost
  <2> QED
    BY <1>1, <1>2, <2>1, <2>2, Ours DEF Becomes, OurDestinations, Lost
<1>6. OurRoutes'
  BY <1>1, <1>2, Ours DEF Becomes, OurRoutes, Lost
<1>7. OurSecrets'
  <2>1. \A k \in secrets \ import.before.secrets :
            \/ k \in import.secrets
            \/ <<"secret", k>> \in lost
            \/ \E d \in destinations' \ import.before.destinations :
                   d.key = k /\ d.secret /\ k \notin import.destinations \ {key}
    <3> SUFFICES ASSUME NEW k \in secrets, k \notin import.before.secrets,
                        k \notin import.secrets, <<"secret", k>> \notin lost
                 PROVE  \E d \in destinations' \ import.before.destinations :
                            d.key = k /\ d.secret /\ k \notin import.destinations \ {key}
      OBVIOUS
    <3>1. ~Lost("secret", k)
      BY <1>2 DEF Lost
    <3>2. PICK d \in destinations \ import.before.destinations :
              d.key = k /\ d.secret /\ k \notin import.destinations
      BY <1>1, <3>1, Ours DEF OurSecrets
    <3>3. d \in destinations'
      BY <1>4, <3>2
    <3> QED BY <3>2, <3>3
  <2> HIDE DEF kept
  <2> QED
    BY <1>1, <1>2, <2>1, Ours DEF Becomes, OurSecrets, Lost
<1>8. Undoable'
  BY <1>1, <1>2, <1>5, <1>6, <1>7, Ours DEF Becomes, Undoable
<1>9. LinksSound'
  <2>1. \A t \in routes : \E d \in destinations' : d.key = t.to
    BY <1>1, <1>2, Ours
  <2> QED
    BY <1>1, <1>2, <2>1 DEF Becomes, LinksSound
<1>10. InOrder' /\ HeldSoFar'
  BY <1>2 DEF Becomes, InOrder, HeldSoFar
<1> QED
  BY <1>2, <1>8, <1>9, <1>10 DEF ImportInv

\* ... and only a destination that is left to a secret of it.
LEMMA UndoSecretKeeps ==
    ASSUME ImportInv, NEW key \in import.secrets, UndoSecret(key)
    PROVE  ImportInv'
<1>1. /\ import.step = "undo" /\ import.made = {} /\ import.destinations = {}
      /\ import \in ImportRow /\ key \in Key(DestinationNames)
      /\ UNCHANGED <<origin, destinations, routes>>
  BY DEF UndoSecret, ImportInv, PortabilityTypeOK, ImportRow
<1> DEFINE kept == {k \in secrets : k = key => \E d \in destinations : d.key = key /\ d.secret}
<1>2. PICK lost : /\ Becomes("undo", import.items, import.routes, import.secrets \ {key},
                              import.destinations, import.made, lost)
                  /\ import.lost \subseteq lost
                  /\ \/ secrets' = kept
                     \/ secrets' = secrets /\ <<"secret", key>> \in lost
                  /\ PortabilityTypeOK'
  <2>1. CASE /\ secrets' = kept
             /\ import' = [import EXCEPT !.secrets = @ \ {key}]
    <3>1. import' \in ImportRow
      BY <1>1, <2>1 DEF ImportRow
    <3>2. Becomes("undo", import.items, import.routes, import.secrets \ {key},
                  import.destinations, import.made, import.lost)
      BY <1>1, <2>1 DEF Becomes, ImportRow
    <3> QED BY <1>1, <2>1, <3>1, <3>2 DEF ImportInv, PortabilityTypeOK
  <2>2. CASE /\ secrets' = secrets
             /\ import' = [import EXCEPT !.secrets = @ \ {key},
                                         !.lost = @ \cup {<<"secret", key>>}]
    <3>1. import' \in ImportRow
      BY <1>1, <2>2, LoseFacts DEF ImportRow, Kinds
    <3>2. Becomes("undo", import.items, import.routes, import.secrets \ {key},
                  import.destinations, import.made, import.lost \cup {<<"secret", key>>})
      BY <1>1, <2>2 DEF Becomes, ImportRow
    <3> QED BY <1>1, <2>2, <3>1, <3>2 DEF ImportInv, PortabilityTypeOK
  <2> QED BY <2>1, <2>2 DEF UndoSecret
<1>3. \A d \in import.before.destinations : d.key # key
  BY <1>1, Ours DEF OurDestinations
<1>4. OurSecrets'
  <2>1. \A k \in secrets' : k \in secrets /\ (k = key =>
             \/ <<"secret", key>> \in lost
             \/ \E d \in destinations \ import.before.destinations : d.key = key /\ d.secret)
    BY <1>2, <1>3
  <2>2. import.before.secrets \subseteq secrets'
    BY <1>1, <1>2, Ours DEF OurSecrets
  <2>3. \A k \in secrets' \ import.before.secrets :
            \/ k \in import.secrets \ {key}
            \/ <<"secret", k>> \in lost
            \/ \E d \in destinations \ import.before.destinations : d.key = k /\ d.secret
    BY <1>1, <1>2, <2>1, Ours DEF OurSecrets, Lost
  <2> QED
    BY <1>1, <1>2, <2>2, <2>3, Ours DEF Becomes, OurSecrets, Lost
<1>5. OurRoutes' /\ OurDestinations'
  BY <1>1, <1>2, Ours DEF Becomes, OurRoutes, OurDestinations, Lost
<1>6. Undoable'
  BY <1>1, <1>2, <1>4, <1>5, Ours DEF Becomes, Undoable
<1>7. LinksSound' /\ InOrder' /\ HeldSoFar'
  BY <1>1, <1>2, Ours DEF Becomes, LinksSound, InOrder, HeldSoFar
<1> QED
  BY <1>2, <1>6, <1>7 DEF ImportInv

LEMMA UndoneKeeps == ASSUME ImportInv, Undone PROVE ImportInv'
<1>1. PortabilityTypeOK'
  BY DEF Undone, ImportInv, PortabilityTypeOK, ImportRow
<1>2. Becomes("undone", import.items, import.routes, import.secrets, import.destinations,
              import.made, import.lost)
  BY DEF Undone, Becomes, ImportInv, PortabilityTypeOK, ImportRow
<1>3. Undoable'
  BY <1>2, Ours DEF Undone, Becomes, Undoable, OurRoutes, OurDestinations, OurSecrets, Lost
<1>4. LinksSound' /\ InOrder' /\ HeldSoFar'
  BY <1>2, Ours DEF Undone, Becomes, LinksSound, InOrder, HeldSoFar
<1> QED
  BY <1>1, <1>3, <1>4 DEF ImportInv

-----------------------------------------------------------------------------
(* Between imports.                                                        *)

\* With no import under way the types and the links of routes are all there is.
LEMMA NoImport ==
    ASSUME ImportInv, import' = None, PortabilityTypeOK',
           \A t \in routes' : \E d \in destinations' : d.key = t.to
    PROVE  ImportInv'
<1>1. import'.step = "idle" /\ import'.kind = ""
  BY DEF None
<1> QED
  BY <1>1 DEF ImportInv, LinksSound, Undoable, InOrder, HeldSoFar

LEMMA NoneTyped == None \in ImportRow
BY DEF None, ImportRow

LEMMA OthersKeep ==
    ASSUME ImportInv,
           \/ \E owner \in active : Disable(owner)
           \/ \E t \in routes : DeleteRoute(t)
           \/ \E d \in destinations : DeleteDestination(d.key)
           \/ \E d \in destinations, secret, enabled \in BOOLEAN : Edit(d, secret, enabled)
           \/ Crash
    PROVE  ImportInv'
<1>1. ASSUME NEW owner \in active, Disable(owner) PROVE ImportInv'
  BY <1>1, NoneTyped, NoImport DEF Disable, Other, ImportInv, PortabilityTypeOK, LinksSound
<1>2. ASSUME NEW t \in routes, DeleteRoute(t) PROVE ImportInv'
  BY <1>2, NoneTyped, NoImport DEF DeleteRoute, Other, ImportInv, PortabilityTypeOK, LinksSound
<1>3. ASSUME NEW d \in destinations, DeleteDestination(d.key) PROVE ImportInv'
  BY <1>3, NoneTyped, NoImport
     DEF DeleteDestination, DeleteUnrouted, Other, ImportInv, PortabilityTypeOK, LinksSound
<1>4. ASSUME NEW d \in destinations, NEW secret \in BOOLEAN, NEW enabled \in BOOLEAN,
             Edit(d, secret, enabled)
      PROVE  ImportInv'
  <2> DEFINE new == [d EXCEPT !.secret = @ \/ secret, !.enabled = enabled]
  <2>1. new \in DestinationRow /\ new.key = d.key
    BY DEF ImportInv, PortabilityTypeOK, DestinationRow
  <2>2. /\ import' = None /\ UNCHANGED <<origin, routes, secrets>>
        /\ destinations' = (destinations \ {d}) \cup {new}
    BY <1>4 DEF Edit, Other
  <2>3. PortabilityTypeOK'
    BY <2>1, <2>2, NoneTyped DEF ImportInv, PortabilityTypeOK
  <2>4. \A t \in routes' : \E e \in destinations' : e.key = t.to
    BY <2>1, <2>2 DEF ImportInv, LinksSound
  <2> QED
    BY <2>2, <2>3, <2>4, NoImport
<1>5. ASSUME Crash PROVE ImportInv'
  BY <1>5, NoneTyped, NoImport DEF Crash, ImportInv, PortabilityTypeOK, LinksSound
<1> QED
  BY <1>1, <1>2, <1>3, <1>4, <1>5

-----------------------------------------------------------------------------

LEMMA NextInv == ASSUME ImportInv, [Next]_vars PROVE ImportInv'
<1>1. ASSUME NEW kind \in {"portable", "yaml"}, Apply(kind) PROVE ImportInv'
  BY <1>1, ApplyKeeps
<1>2. ASSUME NEW item \in import.items, CreateSecret(item) \/ CreateDestination(item)
      PROVE  ImportInv'
  BY <1>2, CreateSecretKeeps, CreateDestinationKeeps
<1>3. ASSUME NEW t \in import.routes, CreateRoute(t) PROVE ImportInv'
  BY <1>3, CreateRouteKeeps
<1>4. ASSUME CreateFails \/ Succeed \/ Undone PROVE ImportInv'
  BY <1>4, CreateFailsKeeps, SucceedKeeps, UndoneKeeps
<1>5. ASSUME NEW key \in import.made, UndoRoute(key) PROVE ImportInv'
  BY <1>5, UndoRouteKeeps
<1>6. ASSUME NEW key \in import.destinations, UndoDestination(key) PROVE ImportInv'
  BY <1>6, UndoDestinationKeeps
<1>7. ASSUME NEW key \in import.secrets, UndoSecret(key) PROVE ImportInv'
  BY <1>7, UndoSecretKeeps
<1>8. ASSUME UNCHANGED vars PROVE ImportInv'
  BY <1>8 DEF vars, ImportInv, PortabilityTypeOK, LinksSound, Undoable, InOrder, HeldSoFar,
              OurRoutes, OurDestinations, OurSecrets, Lost
<1> QED
  BY <1>1, <1>2, <1>3, <1>4, <1>5, <1>6, <1>7, <1>8, OthersKeep DEF Next

\* The invariant of imports: every row that an import has made is in its lists, or lost,
\* or referred to by one that is (storage/portability.py, _apply_plan).
THEOREM PortabilityInvariant == Spec => []ImportInv
BY InitInv, NextInv, PTL DEF Spec

\* Of a failed import only the row its failing step had committed, rows whose deletion
\* failed and what they refer to are left, beside all that was there before, wherever it
\* failed, however many items it has and whatever others did before it.
THEOREM ImportsAreUndone == Spec => []OnlyLostRemain
<1>1. ASSUME ImportInv PROVE OnlyLostRemain
  <2> SUFFICES ASSUME import.step = "undone" PROVE OnlyLostRemain
    BY DEF OnlyLostRemain
  <2>1. /\ import.made = {} /\ import.destinations = {} /\ import.secrets = {}
        /\ OurRoutes /\ OurDestinations /\ OurSecrets
    BY <1>1 DEF ImportInv, Undoable, InOrder
  <2> QED
    BY <2>1 DEF OnlyLostRemain, OurRoutes, OurDestinations, OurSecrets
<1> QED
  BY <1>1, PortabilityInvariant, PTL

\* What a portable import made and what depends on a credential that stayed behind
\* is switched off, and only that.
THEOREM ImportsAreHeldBack == Spec => []HeldBack
<1>1. ASSUME ImportInv PROVE HeldBack
  <2> SUFFICES ASSUME import.kind = "portable", import.step = "done"
               PROVE  HeldBack
    BY DEF HeldBack
  <2>1. \A d \in origin.destinations : Secured(d.key) <=> d.secret
    BY <1>1, OriginTyped DEF ImportInv, Secured
  <2>2. \A k : Secured(k) <=> k \in import.needed
    BY <1>1 DEF ImportInv, HeldSoFar, Secured
  <2>3. /\ \A d \in origin.destinations : \E e \in destinations :
               e.key = d.key /\ (e.enabled <=> d.enabled /\ ~d.secret)
        /\ \A t \in origin.routes : \E u \in routes :
               u.key = t.key /\ (u.enabled <=> t.enabled /\ t.to \notin import.needed)
    BY <1>1 DEF ImportInv, HeldSoFar
  <2> QED
    BY <2>1, <2>2, <2>3 DEF HeldBack
<1> QED
  BY <1>1, PortabilityInvariant, PTL

=============================================================================
