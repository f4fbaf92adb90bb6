-------------------------- MODULE DeliveryContract --------------------------
(***************************************************************************)
(* What the delivery of events promises, whatever the tables of routes and *)
(* destinations hold meanwhile.                                            *)
(*                                                                         *)
(* A delivery takes one event to the destination of one route of one       *)
(* owner.  The deliveries of an owner are planned together, and once.      *)
(* Each is tried a bounded number of times, one delivery of an event at a  *)
(* time, and settled once, as delivered or as failed.  A thread returns    *)
(* only when it has settled every delivery it planned; a thread that is    *)
(* cut off loses the ones it had not settled.  Deleting the owner erases   *)
(* the record of a delivery, and a call on its way may still be made.      *)
(***************************************************************************)
EXTENDS Integers

CONSTANTS Events, Users, Routes, MaxAttempts

VARIABLES
    thread,     \* what became of the thread of each event
    phase,      \* what became of each delivery
    tries       \* the numbers of the adapter calls made for each delivery

contractVars == <<thread, phase, tries>>

Delivery == [event : Events, owner : Users, route : Routes]

ContractInit ==
    /\ thread = [n \in Events |-> "waiting"]
    /\ phase \in [Delivery -> {"none", "erased"}]
    /\ tries = [x \in Delivery |-> {}]

Of(n) == {x \in Delivery : x.event = n}

Take(n) ==
    /\ thread[n] = "waiting"
    /\ thread' = [thread EXCEPT ![n] = "running"]
    /\ UNCHANGED <<phase, tries>>

\* Any deliveries of one owner; one owner after the other, and no owner twice.
Plan(n, o) ==
    LET theirs == {x \in Of(n) : x.owner = o}
    IN  /\ thread[n] = "running"
        /\ UNCHANGED <<thread, tries>>
        /\ \A x \in Of(n) : phase[x] # "pending"
        /\ \A x \in theirs : phase[x] = "none"
        /\ phase' \in {[x \in Delivery |-> IF x \in chosen THEN "pending" ELSE phase[x]]
                        : chosen \in SUBSET theirs}

\* The next call: no number is left out or used twice.
NextTry(x) ==
    \E k \in 1..MaxAttempts :
        /\ tries[x] = 1..(k - 1)
        /\ tries' = [tries EXCEPT ![x] = 1..k]

Try(x) ==
    /\ thread[x.event] = "running"
    /\ phase[x] = "pending"
    /\ \A y \in Of(x.event) \ {x} : phase[y] = "pending" => tries[y] = {}
    /\ NextTry(x)
    /\ UNCHANGED <<thread, phase>>

Settle(x, outcome) ==
    /\ thread[x.event] = "running"
    /\ phase[x] = "pending"
    /\ outcome = "delivered" => tries[x] # {}
    /\ phase' = [phase EXCEPT ![x] = outcome]
    /\ UNCHANGED <<thread, tries>>

Return(n) ==
    /\ thread[n] = "running"
    /\ \A x \in Of(n) : phase[x] # "pending"
    /\ thread' = [thread EXCEPT ![n] = "done"]
    /\ UNCHANGED <<phase, tries>>

\* An error ends one thread, a restart all of them.
CutOff(ns) ==
    /\ \A n \in ns : thread[n] = "running"
    /\ thread' = [n \in Events |-> IF n \in ns THEN "aborted" ELSE thread[n]]
    /\ phase' = [x \in Delivery |->
                    IF x.event \in ns /\ phase[x] = "pending" THEN "lost"
                    ELSE phase[x]]
    /\ UNCHANGED tries

Erase(o) ==
    /\ phase' = [x \in Delivery |-> IF x.owner = o THEN "erased" ELSE phase[x]]
    /\ UNCHANGED <<thread, tries>>

LateTry(x) ==
    /\ thread[x.event] = "running"
    /\ phase[x] = "erased"
    /\ NextTry(x)
    /\ UNCHANGED <<thread, phase>>

ContractNext ==
    \/ \E ns \in SUBSET Events : CutOff(ns)
    \/ \E n \in Events :
           \/ Take(n)
           \/ Return(n)
           \/ \E o \in Users : Plan(n, o)
    \/ \E x \in Delivery :
           \/ Try(x)
           \/ LateTry(x)
           \/ \E outcome \in {"delivered", "failed"} : Settle(x, outcome)
    \/ \E o \in Users : Erase(o)

ContractSpec == ContractInit /\ [][ContractNext]_contractVars

=============================================================================
