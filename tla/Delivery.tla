------------------------------ MODULE Delivery ------------------------------
(***************************************************************************)
(* Delivery of notification events through the routes of the platform      *)
(* database, while administrators and users edit those routes.             *)
(*                                                                         *)
(* One job stands for the thread that carries one event: from the routing  *)
(* bridge (an event of an input, offered to every owner of routes) or from *)
(* the Event API (an event submitted for the owner of the credential).     *)
(* PlatformDeliveryService holds no lock of its own, so each connection it *)
(* opens is one step and requests of module Registry happen in between;    *)
(* what a job carries from one step to the next may be stale.              *)
(***************************************************************************)
EXTENDS Registry, FiniteSets

CONSTANTS
    Events,         \* notifications, each of them received once
    Source,         \* Source[n]: the canonical integration of event n
    MaxAttempts,    \* maximum_attempts of the delivery service
    Seeds,          \* the tables a behaviour may start from
    RequestLimit,   \* bound: management requests in a behaviour
    CrashLimit,     \* bound: restarts of the process in a behaviour
    Nothing         \* a field that is not set

VARIABLES
    jobs,           \* what the thread of each event is doing
    history,        \* table delivery_attempts
    planned,        \* history variable: the deliveries deliver() set out on
    calls,          \* history variable: the adapter calls that were made
    requestsLeft, crashesLeft

deliveryVars ==
    <<users, destinations, routes, requests, jobs, history, planned, calls,
      requestsLeft, crashesLeft>>

-----------------------------------------------------------------------------

\* What the loop of deliver() keeps of a matching route, read once.
PlannedRoute == [route : Routes, destination : Destinations, criteria : Criteria]

Running ==
    {"probing", "matching", "delivering", "calling", "recording", "reading"}

Results == {"success", "retryable", "permanent", "unavailable"}

Job ==
    [pc : {"waiting", "done", "aborted"} \cup Running,
     candidates : SUBSET Users,  \* owners _owners has still to probe
     owners : SUBSET Users,      \* owners whose routes are still to be matched
     actor : Actor \cup {Nothing},
     plan : SUBSET PlannedRoute, \* routes still to be delivered for this owner
     current : PlannedRoute \cup {Nothing},
     attempt : 1..MaxAttempts,
     result : Results \cup {Nothing},
     matched : Nat, delivered : Nat, failed : Nat]

NoJob ==
    [pc |-> "waiting", candidates |-> {}, owners |-> {}, actor |-> Nothing,
     plan |-> {}, current |-> Nothing, attempt |-> 1, result |-> Nothing,
     matched |-> 0, delivered |-> 0, failed |-> 0]

\* A delivery id is made for one route of one owner and one event.
Attempt ==
    [event : Events, owner : Users, route : Routes, attempt : 1..MaxAttempts,
     outcome : {"delivered", "retry_scheduled", "failed"}]

Call ==
    [event : Events, owner : Users, route : Routes, destination : Destinations,
     attempt : 1..MaxAttempts]

Plan == [event : Events, owner : Users, route : Routes,
         destination : Destinations, fallback : BOOLEAN]

ASSUME DeliveryAssumption ==
    /\ MaxAttempts \in 1..5
    /\ RequestLimit \in Nat
    /\ CrashLimit \in Nat
    /\ IsFiniteSet(Routes)
    /\ Nothing \notin PlannedRoute \cup Actor \cup Results

\* The tables of a running installation: what the theorems of DeliveryProofs
\* say of every state a sequence of requests leaves behind.
ASSUME SeedsAssumption ==
    \A s \in Seeds :
        /\ s.users \in [Users -> UserRow \cup Absent]
        /\ s.destinations \in [Destinations -> DestinationRow \cup Absent]
        /\ s.routes \in [Routes -> RouteRow \cup Absent]
        /\ RoutesUsable(s.destinations, s.routes)
        /\ OwnersLive(s.users, s.destinations, s.routes)
        /\ \E u \in Users : IsAdmin(s.users, u)

-----------------------------------------------------------------------------

\* RouteStore.matching: the rows of the query, then RouteStore.matches.
Matching(owner, n) ==
    {r \in Routes :
        /\ Live(routes, r)
        /\ routes[r].owner = owner
        /\ routes[r].enabled
        /\ Live(destinations, routes[r].destination)
        /\ destinations[routes[r].destination].enabled
        /\ routes[r].criteria.source \in {Source[n], Wildcard}
        /\ n \in routes[r].criteria.events}

Dedicated(rs) == {r \in rs : routes[r].criteria.source # Wildcard}

\* Fallback routes are used only when no dedicated route matches.
Selected(owner, n) ==
    LET matched == Matching(owner, n)
    IN  IF Dedicated(matched) # {} THEN Dedicated(matched) ELSE matched

Priority(r) == routes[r].criteria.priority

\* Mutant: routes of one destination are not reduced to one.
SelectionsWithDuplicates(owner, n) == {Selected(owner, n)}

\* One route for each destination, the first in the order of priorities; the
\* names that break ties are not modelled, so a tie goes either way.
Selections(owner, n) ==
    {sel \in SUBSET Selected(owner, n) :
        /\ \A r, s \in sel :
               routes[r].destination = routes[s].destination => r = s
        /\ \A r \in Selected(owner, n) :
               \E s \in sel : /\ routes[s].destination = routes[r].destination
                              /\ Priority(s) <= Priority(r)}

\* The query of PlatformRoutingBridge._owners.
Candidates(n) ==
    {u \in Users :
        /\ Live(users, u)
        /\ users[u].enabled
        /\ \E r \in Routes :
               /\ Live(routes, r)
               /\ routes[r].owner = u
               /\ routes[r].enabled
               /\ Live(destinations, routes[r].destination)
               /\ destinations[routes[r].destination].enabled
               /\ routes[r].criteria.source \in {Source[n], Wildcard}}

\* DestinationStore.for_delivery succeeds.
Deliverable(d, actor) ==
    /\ Live(destinations, d)
    /\ CanRead(actor, destinations[d].owner, destinations[d].shared)
    /\ destinations[d].enabled

Outcome(job) ==
    CASE job.result = "success" -> "delivered"
      [] job.result = "retryable" /\ job.attempt < MaxAttempts -> "retry_scheduled"
      [] OTHER -> "failed"

\* The foreign keys of a new row of delivery_attempts.
ReferencesExist(job) ==
    /\ Live(users, job.actor.user)
    /\ Live(routes, job.current.route)
    /\ Live(destinations, job.current.destination)

AttemptOf(n, job) ==
    [event |-> n, owner |-> job.actor.user, route |-> job.current.route,
     attempt |-> job.attempt, outcome |-> Outcome(job)]

CallOf(n, job) ==
    [event |-> n, owner |-> job.actor.user, route |-> job.current.route,
     destination |-> job.current.destination, attempt |-> job.attempt]

\* The job goes on to the next route, having counted this one.
NextRoute(job) ==
    [job EXCEPT !.pc = "delivering", !.current = Nothing, !.attempt = 1,
                !.result = Nothing]

\* Mutant: the next attempt is made under the number of the last one.
AfterRecordSameAttempt(job) ==
    CASE Outcome(job) = "delivered" ->
             [NextRoute(job) EXCEPT !.delivered = @ + 1]
      [] Outcome(job) = "failed" -> [NextRoute(job) EXCEPT !.failed = @ + 1]
      [] OTHER -> [job EXCEPT !.pc = "calling", !.result = Nothing]

\* Where the loop of _deliver_route goes once its attempt is in the history.
AfterRecord(job) ==
    CASE Outcome(job) = "delivered" ->
             [NextRoute(job) EXCEPT !.delivered = @ + 1]
      [] Outcome(job) = "failed" -> [NextRoute(job) EXCEPT !.failed = @ + 1]
      [] OTHER ->
             [job EXCEPT !.pc = "calling", !.attempt = @ + 1, !.result = Nothing]

-----------------------------------------------------------------------------

DeliveryInit ==
    /\ \E s \in Seeds :
           /\ users = s.users
           /\ destinations = s.destinations
           /\ routes = s.routes
    /\ requests = [e \in Editors |-> Idle]
    /\ jobs = [n \in Events |-> NoJob]
    /\ history = {}
    /\ planned = {}
    /\ calls = {}
    /\ requestsLeft = RequestLimit
    /\ crashesLeft = CrashLimit

\* Everything but the jobs.
Rest == <<users, destinations, routes, requests, requestsLeft, crashesLeft>>

Proceed(n, job) == jobs' = [jobs EXCEPT ![n] = job]

\* An input hands the event to the bridge, which looks for owners of routes.
ReceiveEvent(n) ==
    /\ jobs[n].pc = "waiting"
    /\ Proceed(n, [jobs[n] EXCEPT
                      !.pc = IF Candidates(n) = {} THEN "matching" ELSE "probing",
                      !.candidates = Candidates(n)])
    /\ UNCHANGED <<history, planned, calls, Rest>>

\* The Event API delivers for the owner of the token or session.
SubmitEvent(n, u) ==
    /\ jobs[n].pc = "waiting"
    /\ Live(users, u)
    /\ users[u].enabled
    /\ Proceed(n, [jobs[n] EXCEPT
                      !.pc = "matching",
                      !.owners = {u},
                      !.actor = [user |-> u, admin |-> users[u].role = "admin"]])
    /\ UNCHANGED <<history, planned, calls, Rest>>

\* _owners keeps a candidate when matching() returns something for it.
ProbeOwner(n, u) ==
    /\ jobs[n].pc = "probing"
    /\ u \in jobs[n].candidates
    /\ Proceed(n, [jobs[n] EXCEPT
                      !.candidates = @ \ {u},
                      !.owners = IF Selected(u, n) # {} THEN @ \cup {u} ELSE @,
                      !.pc = IF jobs[n].candidates = {u} THEN "matching" ELSE @])
    /\ UNCHANGED <<history, planned, calls, Rest>>

\* The Actor of the Event API stays; the bridge makes one for each owner.
ActorFor(actor, u) ==
    IF actor = Nothing \/ actor.user # u THEN [user |-> u, admin |-> FALSE]
    ELSE actor

AsPlanned(r) ==
    [route |-> r, destination |-> routes[r].destination,
     criteria |-> routes[r].criteria]

LoopOver(sel) == {AsPlanned(r) : r \in sel}

Planned(n, u, r) ==
    [event |-> n, owner |-> u, route |-> r, destination |-> routes[r].destination,
     fallback |-> routes[r].criteria.source = Wildcard]

\* The job as deliver() starts its loop for owner u.
WithPlan(job, u, sel) ==
    [job EXCEPT !.pc = "delivering",
                !.owners = job.owners \ {u},
                !.actor = ActorFor(job.actor, u),
                !.matched = job.matched + Cardinality(sel),
                !.plan = LoopOver(sel)]

\* deliver() for one owner: matching() once more, and its answer is the plan.
MatchOwner(n, u) ==
    /\ jobs[n].pc = "matching"
    /\ u \in jobs[n].owners
    /\ \E sel \in Selections(u, n) :
           /\ Proceed(n, WithPlan(jobs[n], u, sel))
           /\ planned' = planned \cup {Planned(n, u, r) : r \in sel}
    /\ UNCHANGED <<history, calls, Rest>>

\* The next route of the plan, in the order of matching().
IsNext(n, p) ==
    /\ jobs[n].pc = "delivering"
    /\ p \in jobs[n].plan
    /\ \A q \in jobs[n].plan : p.criteria.priority <= q.criteria.priority

\* The destination is read again, and its secret; both are kept for every
\* attempt that follows.
FetchTarget(n, p) ==
    /\ IsNext(n, p)
    /\ Deliverable(p.destination, jobs[n].actor)
    /\ Proceed(n, [jobs[n] EXCEPT !.pc = "calling", !.plan = @ \ {p}, !.current = p])
    /\ UNCHANGED <<history, planned, calls, Rest>>

\* destination_unavailable, or - whatever state the destination is in -
\* secret_unavailable or adapter_unavailable: one failed attempt, no call.
TargetUnavailable(n, p) ==
    /\ IsNext(n, p)
    /\ Proceed(n, [jobs[n] EXCEPT !.pc = "recording", !.plan = @ \ {p},
                                   !.current = p, !.result = "unavailable"])
    /\ UNCHANGED <<history, planned, calls, Rest>>

\* The value file of the secret cannot be opened: no handler for that error.
SecretUnreadable(n, p) ==
    /\ IsNext(n, p)
    /\ Deliverable(p.destination, jobs[n].actor)
    /\ Proceed(n, [jobs[n] EXCEPT !.pc = "aborted"])
    /\ UNCHANGED <<history, planned, calls, Rest>>

CallAdapter(n, result) ==
    /\ jobs[n].pc = "calling"
    /\ Proceed(n, [jobs[n] EXCEPT !.pc = "recording", !.result = result])
    /\ calls' = calls \cup {CallOf(n, jobs[n])}
    /\ UNCHANGED <<history, planned, Rest>>

\* Mutant: an attempt is only written when it is the last.
RecordLastAttempt(n) ==
    /\ jobs[n].pc = "recording"
    /\ ReferencesExist(jobs[n])
    /\ IF Outcome(jobs[n]) = "retry_scheduled"
       THEN /\ Proceed(n, AfterRecord(jobs[n]))
            /\ UNCHANGED history
       ELSE /\ Proceed(n, [jobs[n] EXCEPT !.pc = "reading"])
            /\ history' = history \cup {AttemptOf(n, jobs[n])}
    /\ UNCHANGED <<planned, calls, Rest>>

\* history.record writes the row ...
RecordAttempt(n) ==
    /\ jobs[n].pc = "recording"
    /\ ReferencesExist(jobs[n])
    /\ Proceed(n, [jobs[n] EXCEPT !.pc = "reading"])
    /\ history' = history \cup {AttemptOf(n, jobs[n])}
    /\ UNCHANGED <<planned, calls, Rest>>

\* ... and reads it back, over another connection.
ReadBack(n) ==
    /\ jobs[n].pc = "reading"
    /\ AttemptOf(n, jobs[n]) \in history
    /\ Proceed(n, AfterRecord(jobs[n]))
    /\ UNCHANGED <<history, planned, calls, Rest>>

\* The row went with its owner meanwhile: the KeyError ends the job.
ReadBackFails(n) ==
    /\ jobs[n].pc = "reading"
    /\ AttemptOf(n, jobs[n]) \notin history
    /\ Proceed(n, [jobs[n] EXCEPT !.pc = "aborted"])
    /\ UNCHANGED <<history, planned, calls, Rest>>

\* Mutant: an attempt that cannot be written is skipped.
RecordSkipped(n) ==
    /\ jobs[n].pc = "recording"
    /\ ~ReferencesExist(jobs[n])
    /\ Proceed(n, AfterRecord(jobs[n]))
    /\ UNCHANGED <<history, planned, calls, Rest>>

\* A row the attempt refers to is gone: the INSERT raises, and the exception
\* leaves deliver() and the bridge with it.
RecordFails(n) ==
    /\ jobs[n].pc = "recording"
    /\ ~ReferencesExist(jobs[n])
    /\ Proceed(n, [jobs[n] EXCEPT !.pc = "aborted"])
    /\ UNCHANGED <<history, planned, calls, Rest>>

\* Mutant: a failed delivery ends the loop over the routes of the owner.
EndOwnerAfterFailure(n) ==
    /\ jobs[n].pc = "delivering"
    /\ jobs[n].plan = {} \/ jobs[n].failed > 0
    /\ Proceed(n, [jobs[n] EXCEPT !.pc = "matching", !.plan = {}])
    /\ UNCHANGED <<history, planned, calls, Rest>>

\* The loop over the routes of one owner is over.
EndOwner(n) ==
    /\ jobs[n].pc = "delivering"
    /\ jobs[n].plan = {}
    /\ Proceed(n, [jobs[n] EXCEPT !.pc = "matching"])
    /\ UNCHANGED <<history, planned, calls, Rest>>

\* The summary is returned.
Return(n) ==
    /\ jobs[n].pc = "matching"
    /\ jobs[n].owners = {}
    /\ Proceed(n, [jobs[n] EXCEPT !.pc = "done"])
    /\ UNCHANGED <<history, planned, calls, Rest>>

\* The process stops and starts again: threads are gone, tables are not.
Crash ==
    /\ crashesLeft > 0
    /\ \E n \in Events : jobs[n].pc \in Running
    /\ jobs' = [n \in Events |->
                   IF jobs[n].pc \in Running THEN [jobs[n] EXCEPT !.pc = "aborted"]
                   ELSE jobs[n]]
    /\ requests' = [e \in Editors |-> Idle]
    /\ crashesLeft' = crashesLeft - 1
    /\ UNCHANGED <<users, destinations, routes, history, planned, calls,
                   requestsLeft>>

\* A step of the management API.  The history of a deleted user goes with the
\* user; that of a deleted route or destination loses only the reference.
Administer ==
    /\ Next
    /\ history' = {h \in history : users'[h.owner] \notin Absent}
    /\ IF \E e \in Editors : requests[e] = Idle /\ requests'[e] # Idle
       THEN requestsLeft > 0 /\ requestsLeft' = requestsLeft - 1
       ELSE requestsLeft' = requestsLeft
    /\ UNCHANGED <<jobs, planned, calls, crashesLeft>>

JobStep(n) ==
    \/ \E u \in Users : ProbeOwner(n, u) \/ MatchOwner(n, u)
    \/ \E p \in jobs[n].plan :
           FetchTarget(n, p) \/ TargetUnavailable(n, p) \/ SecretUnreadable(n, p)
    \/ \E result \in {"success", "retryable", "permanent"} : CallAdapter(n, result)
    \/ RecordAttempt(n)
    \/ RecordFails(n)
    \/ ReadBack(n)
    \/ ReadBackFails(n)
    \/ EndOwner(n)
    \/ Return(n)

Arrival(n) == ReceiveEvent(n) \/ \E u \in Users : SubmitEvent(n, u)

DeliveryNext ==
    \/ \E n \in Events : Arrival(n) \/ JobStep(n)
    \/ Administer
    \/ Crash

DeliverySpec == DeliveryInit /\ [][DeliveryNext]_deliveryVars

\* A thread that runs is scheduled; nobody has to send an event or a request.
FairDeliverySpec ==
    DeliverySpec /\ \A n \in Events : WF_deliveryVars(JobStep(n))

-----------------------------------------------------------------------------

\* Two rows of the history, calls or plans of one delivery.
SameDelivery(a, b) == a.event = b.event /\ a.owner = b.owner /\ a.route = b.route

\* What DeliveryContract says of the threads, deliveries and calls.

Thread(n) ==
    IF jobs[n].pc \in Running THEN "running" ELSE jobs[n].pc

Settled(x, outcome) ==
    \E h \in history : SameDelivery(h, x) /\ h.outcome = outcome

Phase(x) ==
    IF users[x.owner] = Deleted THEN "erased"
    ELSE IF ~ \E p \in planned : SameDelivery(p, x) THEN "none"
    ELSE IF Settled(x, "delivered") THEN "delivered"
    ELSE IF Settled(x, "failed") THEN "failed"
    ELSE IF jobs[x.event].pc \in {"done", "aborted"} THEN "lost"
    ELSE "pending"

Tries(x) == {c.attempt : c \in {d \in calls : SameDelivery(d, x)}}

Deliveries == [event : Events, owner : Users, route : Routes]

Threads == [n \in Events |-> Thread(n)]

Phases == [x \in Deliveries |-> Phase(x)]

AllTries == [x \in Deliveries |-> Tries(x)]

Contract == INSTANCE DeliveryContract WITH
    thread <- Threads, phase <- Phases, tries <- AllTries

\* The delivery service, with stale routes, retries, administrators at work and
\* restarts, keeps the contract: deliver() returns only when everything it
\* planned is settled, no delivery is tried beyond the limit or settled twice.
ImplementsContract == Contract!ContractSpec

-----------------------------------------------------------------------------

\* Jobs, history and the history variables are well formed.
DeliveryTypeOK ==
    /\ TypeOK
    /\ jobs \in [Events -> Job]
    /\ history \subseteq Attempt
    /\ planned \subseteq Plan
    /\ calls \subseteq Call
    /\ requestsLeft \in 0..RequestLimit
    /\ crashesLeft \in 0..CrashLimit

\* The attempts of a delivery are numbered without a gap or a repetition, every
\* attempt but the last was scheduled for a retry, and the attempt at the
\* limit is never scheduled for another (_deliver_route and the UNIQUE key of
\* delivery_attempts, across deletions of users and crashes).
AttemptsChained ==
    \A h \in history :
        /\ h.attempt > 1 =>
               \E g \in history : /\ SameDelivery(g, h)
                                  /\ g.attempt = h.attempt - 1
                                  /\ g.outcome = "retry_scheduled"
        /\ h.attempt = MaxAttempts => h.outcome # "retry_scheduled"
        /\ \A g \in history :
               SameDelivery(g, h) /\ g.attempt = h.attempt => g = h

\* Once a delivery is recorded as delivered or failed its adapter is not called
\* again, and the history holds no later attempt of it.
SettledIsFinal ==
    \A h \in history :
        h.outcome # "retry_scheduled" =>
            \A c \in calls \cup history : SameDelivery(c, h) => c.attempt <= h.attempt

\* A recorded success or a scheduled retry is about a call that was made.
RecordedWasCalled ==
    \A h \in history :
        h.outcome # "failed" =>
            \E c \in calls : SameDelivery(c, h) /\ c.attempt = h.attempt

\* A call of a living owner's delivery whose attempt is not in the history.
Unrecorded(n) ==
    {c \in calls :
        /\ c.event = n
        /\ Live(users, c.owner)
        /\ ~ \E h \in history : SameDelivery(h, c) /\ h.attempt = c.attempt}

\* At most the last adapter call of an event is missing from the history: the
\* one being recorded, or the one whose recording ended the job.
OnlyLastCallUnrecorded ==
    \A n \in Events :
        \A c \in Unrecorded(n) :
            /\ jobs[n].pc \in {"recording", "aborted"}
            /\ jobs[n].actor.user = c.owner
            /\ jobs[n].current # Nothing
            /\ jobs[n].current.route = c.route
            /\ jobs[n].attempt = c.attempt

\* For one owner an event goes either through dedicated or through fallback
\* routes, and to no destination twice, however the routes are edited while
\* the event is delivered (docs/platform-routing.md, fallback-only routes).
DedicatedOrFallback ==
    \A p, q \in planned :
        p.event = q.event /\ p.owner = q.owner =>
            /\ p.fallback = q.fallback
            /\ p.destination = q.destination => p.route = q.route

\* What makes the invariants above inductive: the shape of a job at each point
\* of the code, ...
Attempting == {"calling", "recording", "reading"}

JobsShaped ==
    \A n \in Events :
        LET J == jobs[n]
        IN  /\ J.pc \in {"waiting", "probing", "matching"} => J.plan = {}
            /\ J.pc \in Running \ {"probing"} => J.candidates = {}
            /\ J.pc = "waiting" => J.owners = {} /\ J.candidates = {}
            /\ J.pc \in {"delivering"} \cup Attempting => J.actor # Nothing
            /\ J.pc \in Attempting => J.current # Nothing
            /\ J.pc \in {"waiting", "probing", "matching", "delivering"} =>
                   J.current = Nothing /\ J.attempt = 1
            /\ J.pc \in {"recording", "reading"} => J.result # Nothing
            /\ J.actor # Nothing => users[J.actor.user] # Unissued
            /\ \A u \in J.owners \cup J.candidates : users[u] # Unissued

\* ... that owners and routes still to be served have not been served, ...
Untouched(n, o, r) ==
    \A x \in calls \cup history : ~(x.event = n /\ x.owner = o /\ x.route = r)

IsPlanned(n, o, p) ==
    \E q \in planned : /\ q.event = n
                       /\ q.owner = o
                       /\ q.route = p.route

PlansFresh ==
    \A n \in Events :
        LET J == jobs[n]
        IN  /\ \A p \in planned :
                   p.event = n => J.pc # "waiting" /\ p.owner \notin J.owners \cup J.candidates
            /\ \A p, q \in J.plan : p.route = q.route => p = q
            /\ J.pc \in {"delivering"} \cup Attempting =>
                   \A p \in J.plan :
                       /\ IsPlanned(n, J.actor.user, p)
                       /\ Untouched(n, J.actor.user, p.route)
            /\ J.pc \in Attempting =>
                   /\ IsPlanned(n, J.actor.user, J.current)
                   /\ \A p \in J.plan : p.route # J.current.route

\* ... that nothing is called or recorded which was not planned, for an owner
\* that exists or has existed, ...
WorkPlanned ==
    /\ \A x \in calls \cup history : \E p \in planned : SameDelivery(p, x)
    /\ \A p \in planned : users[p.owner] # Unissued
    /\ \A h \in history : Live(users, h.owner)

\* ... that a thread has settled what it planned or has it in hand, ...
InHand(n, p) ==
    /\ jobs[n].pc \in {"delivering"} \cup Attempting
    /\ p.owner = jobs[n].actor.user
    /\ \/ \E q \in jobs[n].plan : q.route = p.route
       \/ jobs[n].pc \in Attempting /\ jobs[n].current.route = p.route

PlansServed ==
    \A n \in Events :
        jobs[n].pc \in Running \cup {"done"} =>
            \A p \in planned :
                p.event = n =>
                    \/ users[p.owner] = Deleted
                    \/ Settled(p, "delivered") \/ Settled(p, "failed")
                    \/ InHand(n, p)

\* ... how far the history and the calls are when an attempt is made, ...
IsCurrent(n, x) ==
    /\ x.event = n
    /\ x.owner = jobs[n].actor.user
    /\ x.route = jobs[n].current.route

AttemptsInOrder ==
    \A n \in Events :
        LET J == jobs[n]
        IN  J.pc \in Attempting =>
            /\ \A c \in calls :
                   IsCurrent(n, c) =>
                       c.attempt <= J.attempt /\ (J.pc = "calling" => c.attempt # J.attempt)
            /\ \A h \in history :
                   IsCurrent(n, h) =>
                       \/ h.attempt < J.attempt /\ h.outcome = "retry_scheduled"
                       \/ J.pc = "reading" /\ h = AttemptOf(n, J)
            /\ J.pc # "reading" /\ J.attempt > 1 /\ Live(users, J.actor.user) =>
                   \E h \in history : /\ IsCurrent(n, h)
                                      /\ h.attempt = J.attempt - 1
                                      /\ h.outcome = "retry_scheduled"
            /\ J.pc = "recording" /\ J.result # "unavailable" =>
                   \E c \in calls : IsCurrent(n, c) /\ c.attempt = J.attempt

\* ... and that every attempt before the current one has called the adapter.
CallsMade ==
    \A n \in Events :
        LET J == jobs[n]
        IN  J.pc \in Attempting =>
                \A k \in 1..J.attempt :
                    k < J.attempt \/ (J.pc # "calling" /\ J.result # "unavailable") =>
                        \E c \in calls : IsCurrent(n, c) /\ c.attempt = k

DeliveryInv ==
    /\ RegistryInv
    /\ DeliveryTypeOK
    /\ JobsShaped
    /\ PlansFresh
    /\ WorkPlanned
    /\ AttemptsInOrder
    /\ PlansServed
    /\ CallsMade
    /\ AttemptsChained
    /\ SettledIsFinal
    /\ RecordedWasCalled
    /\ OnlyLastCallUnrecorded
    /\ DedicatedOrFallback

RecordedAs(n, outcome) == {h \in history : h.event = n /\ h.outcome = outcome}

OwnersLiveOf(n) == \A p \in planned : p.event = n => Live(users, p.owner)

\* When deliver() has returned, the summary agrees with the history: every
\* planned delivery is recorded as delivered or as failed, and the counts of
\* the summary are the numbers of those rows.
SummaryMatchesHistory ==
    \A n \in Events :
        jobs[n].pc = "done" /\ OwnersLiveOf(n) =>
            /\ \A p \in planned :
                   p.event = n =>
                       \E h \in history : /\ SameDelivery(h, p)
                                          /\ h.outcome # "retry_scheduled"
            /\ jobs[n].delivered = Cardinality(RecordedAs(n, "delivered"))
            /\ jobs[n].failed = Cardinality(RecordedAs(n, "failed"))
            /\ jobs[n].matched = jobs[n].delivered + jobs[n].failed

\* The thread that took an event ends, whatever happens to the tables.
EventsEnd ==
    \A n \in Events :
        jobs[n].pc \in Running ~> jobs[n].pc \in {"done", "aborted"}

\* What docs/platform-routing.md promises of the delivery service: "records a
\* safe history row for each attempt".
EveryAttemptRecorded ==
    \A n \in Events : jobs[n].pc # "recording" => Unrecorded(n) = {}

\* What the comment of RouteStore.matching says: "one event should produce at
\* most one delivery per destination".
OneDeliveryPerDestination ==
    \A c, d \in calls :
        c.event = d.event /\ c.destination = d.destination => SameDelivery(c, d)

\* What docs/platform-routing.md says of each selected route: the service
\* "rechecks route and destination state" before it delivers.
RouteRechecked ==
    [][ \A n \in Events :
            jobs[n].pc = "delivering" /\ jobs'[n].pc = "calling" =>
                LET p == jobs'[n].current
                IN  /\ Live(destinations, p.destination)
                    /\ destinations[p.destination].enabled
                    /\ Live(routes, p.route)
                    /\ routes[p.route].enabled ]_deliveryVars

=============================================================================
