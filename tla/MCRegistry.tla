----------------------------- MODULE MCRegistry -----------------------------
(* Two users who may both be administrators, two destinations a route can be *)
(* moved between, and two requests at a time: enough for a row to be read,   *)
(* changed or deleted by another request, and written back.                  *)
EXTENDS Registry, TLC

CONSTANTS root, alice, d1, d2, r1, e1, e2

MCUsers == {root, alice}
MCDestinations == {d1, d2}
MCRoutes == {r1}
MCEditors == {e1, e2}

\* Nothing here depends on what a route asks of an event.
MCCriteria == {[source |-> "zabbix", events |-> {}, priority |-> 1]}

EditorSymmetry == Permutations(MCEditors)

=============================================================================
