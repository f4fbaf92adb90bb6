----------------------------- MODULE MCDelivery -----------------------------
(* One event, an administrator and a user, two destinations and three routes, *)
(* one management request while the event is delivered and one restart.       *)
EXTENDS Delivery, TLC

CONSTANTS root, alice, d1, d2, r1, r2, r3, e1, n1

MCUsers == {root, alice}
MCDestinations == {d1, d2}
MCRoutes == {r1, r2, r3}
MCEditors == {e1}
MCEvents == {n1}
MCSource == [n \in MCEvents |-> "zabbix"]

Route1 == [source |-> "zabbix", events |-> {n1}, priority |-> 1]
Route2 == [source |-> "zabbix", events |-> {n1}, priority |-> 2]
Filtered == [source |-> "zabbix", events |-> {}, priority |-> 1]
Fallback == [source |-> Wildcard, events |-> {n1}, priority |-> 1]

MCCriteria == {Route1, Route2, Filtered, Fallback}

SeedUsers == root :> [role |-> "admin", enabled |-> TRUE]
          @@ alice :> [role |-> "user", enabled |-> TRUE]

SharedByRoot == [owner |-> root, shared |-> TRUE, enabled |-> TRUE]
OwnedByAlice == [owner |-> alice, shared |-> FALSE, enabled |-> TRUE]

To(owner, d, criteria) ==
    [owner |-> owner, destination |-> d, criteria |-> criteria, enabled |-> TRUE]

\* root shares d1; alice has d2 for herself, or root shares it as well, and then
\* alice owns nothing that keeps her from being deleted.
Seed(second, rows) ==
    [users |-> SeedUsers, destinations |-> d1 :> SharedByRoot @@ d2 :> second,
     routes |-> rows]

MCSeeds ==
    { \* two routes of alice to one destination, and one to another
      Seed(OwnedByAlice,
           r1 :> To(alice, d1, Route1) @@ r2 :> To(alice, d1, Route2)
        @@ r3 :> To(alice, d2, Route2)),
      \* a dedicated route beside fallback routes, of both owners
      Seed(OwnedByAlice,
           r1 :> To(alice, d2, Route1) @@ r2 :> To(alice, d1, Fallback)
        @@ r3 :> To(root, d1, Fallback)),
      \* both owners use the shared destination; one filter refuses the event
      Seed(SharedByRoot,
           r1 :> To(alice, d1, Route1) @@ r2 :> To(root, d1, Route2)
        @@ r3 :> To(alice, d2, Filtered)) }

=============================================================================
