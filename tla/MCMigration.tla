---------------------------- MODULE MCMigration ----------------------------
(* Two outputs, one without a credential and with the target of the other as *)
(* its name, and two routes of one source to the first of them, the second   *)
(* with the higher priority.                                                 *)
EXTENDS Migration, TLC

CONSTANTS ops, lab, night, day, xo, url1, url2

MCPayloads == {url1, url2}

MCOutputs == <<ops, lab>>
MCRouting == <<night, day>>
MCOutputOf ==
    ops :> [name |-> "Operations", aliases |-> {"Operations", "ops"}, secret |-> url1] @@
    lab :> [name |-> "ops", aliases |-> {"ops", "lab"}, secret |-> None]
MCRouteOf ==
    night :> [name |-> "Night", source |-> xo, output |-> ops, priority |-> 200] @@
    day :> [name |-> "Day", source |-> xo, output |-> ops, priority |-> 100]

=============================================================================
