------------------------------ MODULE Ingest ------------------------------
(***************************************************************************)
(* How an event enters: inputs/http.py, inputs/smtp.py, the event API of   *)
(* api/service.py and the rate limiter of api/security.py, up to the call  *)
(* of the router.  Every request is a thread of its own; a sender that was *)
(* not told that its batch is accepted posts it again, perhaps while the   *)
(* handler of the first request is still at work.                          *)
(***************************************************************************)
EXTENDS Integers, Sequences, FiniteSets

CONSTANTS
    Senders,     \* clients, each with a token, an address and one batch of events
    Events,
    Batch,       \* Batch[s]: the events of the post of s, a sequence
    Kind,        \* Kind[s]: the way the post of s enters
    Key,         \* Key[e]: the deduplication key of e, or NoKey
    NoKey,
    Never,       \* no entry
    RateLimit,   \* rate_limit_per_minute of the tokens
    Minute,      \* ticks of one window of the limiter
    Window,      \* ticks of redfish.deduplication_window_seconds
    Callers,     \* pairs of a token and a client address
    Caller,      \* Caller[s]: the one of a sender whose requests the limiter counts
    Attempts,    \* bound: Attempts[s] posts of the batch of s
    MaxTime,     \* bound: ticks of the clock
    MaxStops     \* bound: restarts of the process

Limited == DOMAIN Caller
Entry == [count : Nat, started : Nat]

ASSUME IngestAssumption ==
    /\ Batch \in [Senders -> Seq(Events)]
    /\ Kind \in [Senders -> {"redfish", "webhook", "api", "mail"}]
    /\ Limited \subseteq Senders
    /\ Caller \in [Limited -> Callers]
    /\ Attempts \in [Senders -> Nat]
    /\ {RateLimit, Minute, Window} \subseteq Nat \ {0}
    /\ {MaxTime, MaxStops} \subseteq Nat
    /\ NoKey \notin Events
    /\ Never \notin Nat \cup Entry

VARIABLES
    now,        \* time.monotonic()
    enabled,    \* redfish.enabled of the configuration
    seen,       \* HTTPServer._seen: when a key was last admitted
    windows,    \* RateLimiter._entries
    handlers,   \* the thread of each request
    told,       \* what a sender knows of its batch
    stops,      \* how often the process has stopped
    admitted,   \* history variable: when a key was admitted, in order
    repeats,    \* history variable: when an event was taken for a repetition
    handed,     \* history variable: events the router was called with
    cut,        \* history variable: events a stop kept from the router
    passed,     \* history variable: ticks at which a caller was let through, in order
    refusals,   \* history variable: when the limiter refused a caller, and how many
                \* requests of the caller it had let through
    late        \* history variable: callers of whom a request waited for the
                \* lock of the limiter beyond the tick it read the clock in
                \* (all but handed and cut of this life of the process)

process == <<seen, windows, handlers>>
history == <<admitted, repeats, handed, cut, passed, refusals, late>>
vars == <<now, enabled, process, told, stops, history>>

-----------------------------------------------------------------------------

Keys == {Key[e] : e \in Events} \ {NoKey}
Requests == UNION {{s} \X (1..Attempts[s]) : s \in Senders}

Post == [step : {"unused", "arrived", "timed", "allowed", "next", "clock", "route", "reply",
                 "done"},
         at : Nat, stamp : Nat,
         reply : {"none", "accepted", "ignored", "unauthorized", "limited",
                  "bad", "failed"}]

Unused == [step |-> "unused", at |-> 1, stamp |-> 0, reply |-> "none"]

Refusal == [time : 0..MaxTime, count : Nat]

Sender(r) == r[1]
Posted(r) == Batch[Sender(r)]
Current(r) == Posted(r)[handlers[r].at]
At(r, step) == handlers[r].step = step
AtEvent(r) == At(r, "next") /\ handlers[r].at <= Len(Posted(r))

To(r, step) == handlers' = [handlers EXCEPT ![r].step = step]
Reply(r, reply) ==
    handlers' = [handlers EXCEPT ![r] = [Unused EXCEPT !.step = "reply", !.reply = reply]]
Skip(r) == handlers' = [handlers EXCEPT ![r] = [Unused EXCEPT !.step = "next",
                                                             !.at = handlers[r].at + 1]]
\* The thread is gone.
End(r) == [Unused EXCEPT !.step = "done",
                         !.reply = IF handlers[r].reply = "ignored" THEN "ignored" ELSE "none"]

Init ==
    /\ now = 0
    /\ enabled \in BOOLEAN
    /\ seen = [k \in Keys |-> Never]
    /\ windows = [c \in Callers |-> Never]
    /\ handlers = [r \in Requests |-> Unused]
    /\ told = [s \in Senders |-> "nothing"]
    /\ stops = 0
    /\ admitted = [k \in Keys |-> <<>>]
    /\ repeats = [e \in Events |-> {}]
    /\ handed = {}
    /\ cut = {}
    /\ passed = [c \in Callers |-> <<>>]
    /\ refusals = [c \in Callers |-> {}]
    /\ late = {}

-----------------------------------------------------------------------------
(* The sender (external).                                                  *)

\* It posts, and posts again when it was told nothing, or of a failure that
\* may pass.
PostBatch(s, k) ==
    /\ told[s] = "nothing"
    /\ At(<<s, k>>, "unused")
    /\ \A j \in 1..(k - 1) : ~At(<<s, j>>, "unused")
    /\ To(<<s, k>>, IF s \in Limited THEN "arrived" ELSE "allowed")
    /\ UNCHANGED <<now, enabled, seen, windows, told, stops, history>>

\* 500 of SMTP is final: the mail server returns the message to its author.
Final(s, reply) ==
    CASE reply \in {"accepted", "ignored"} -> "accepted"
      [] reply = "bad" \/ (reply = "failed" /\ Kind[s] = "mail") -> "refused"
      [] OTHER -> "nothing"

Learn(r) ==
    /\ At(r, "reply")
    /\ told' = [told EXCEPT ![Sender(r)] =
                    IF @ = "nothing" THEN Final(Sender(r), handlers[r].reply) ELSE @]
    /\ handlers' = [handlers EXCEPT ![r] = End(r)]
    /\ UNCHANGED <<now, enabled, seen, windows, stops, history>>

LoseAnswer(r) ==
    /\ At(r, "reply")
    /\ handlers' = [handlers EXCEPT ![r] = End(r)]
    /\ UNCHANGED <<now, enabled, seen, windows, told, stops, history>>

-----------------------------------------------------------------------------
(* RateLimiter.allow.                                                      *)

\* The clock is read before the lock is taken.
ReadLimitClock(r) ==
    /\ At(r, "arrived")
    /\ handlers' = [handlers EXCEPT ![r].step = "timed", ![r].stamp = now]
    /\ UNCHANGED <<now, enabled, seen, windows, told, stops, history>>

\* Entries that are too old are forgotten, those of all callers.
Kept(t) ==
    [c \in Callers |-> IF windows[c] # Never /\ t - windows[c].started < 2 * Minute
                       THEN windows[c] ELSE Never]

\* Mutant: a full window starts anew with the request it refuses.
CurrentSliding(c, t) ==
    IF Kept(t)[c] # Never /\ t - Kept(t)[c].started < Minute
       /\ Kept(t)[c].count < RateLimit
    THEN Kept(t)[c]
    ELSE [count |-> 0, started |-> t]

\* The window the request is counted in.
CurrentWindow(c, t) ==
    IF Kept(t)[c] # Never /\ t - Kept(t)[c].started < Minute
    THEN Kept(t)[c]
    ELSE [count |-> 0, started |-> t]

\* The caller, if the request waited for the lock into another tick.
Late(r) == IF handlers[r].stamp = now THEN {} ELSE {Caller[Sender(r)]}

Refused(c) == [time |-> now, count |-> Len(passed[c])]

Allow(r) ==
    LET c == Caller[Sender(r)]
        t == handlers[r].stamp
        window == CurrentWindow(c, t)
    IN  /\ At(r, "timed")
        /\ window.count < RateLimit
        /\ windows' = [Kept(t) EXCEPT ![c] = [window EXCEPT !.count = @ + 1]]
        /\ handlers' = [handlers EXCEPT ![r] = [Unused EXCEPT !.step = "allowed"]]
        /\ passed' = [passed EXCEPT ![c] = Append(@, now)]
        /\ late' = late \cup Late(r)
        /\ UNCHANGED <<now, enabled, seen, told, stops,
                       admitted, repeats, handed, cut, refusals>>

\* authorize_source says False: the endpoint answers 401, the event API 429.
Limit(r) ==
    LET c == Caller[Sender(r)]
        t == handlers[r].stamp
        window == CurrentWindow(c, t)
    IN  /\ At(r, "timed")
        /\ window.count >= RateLimit
        /\ windows' = [Kept(t) EXCEPT ![c] = window]
        /\ Reply(r, IF Kind[Sender(r)] = "api" THEN "limited" ELSE "unauthorized")
        /\ refusals' = [refusals EXCEPT ![c] = @ \cup {Refused(c)}]
        /\ late' = late \cup Late(r)
        /\ UNCHANGED <<now, enabled, seen, told, stops,
                       admitted, repeats, handed, cut, passed>>

-----------------------------------------------------------------------------
(* HTTPHandler.do_POST, EmailHandler.handle_DATA and _authorized.          *)

\* Redfish shares the listener: switched off, its events are acknowledged.
Ignore(r) ==
    /\ At(r, "allowed")
    /\ Kind[Sender(r)] = "redfish" /\ ~enabled
    /\ Reply(r, "ignored")
    /\ UNCHANGED <<now, enabled, seen, windows, told, stops, history>>

\* The body, and the parser of the endpoint: no events are a bad request, but
\* a mail that nobody parses is accepted.
Parse(r) ==
    /\ At(r, "allowed")
    /\ Kind[Sender(r)] = "redfish" => enabled
    /\ IF Posted(r) = <<>> /\ Kind[Sender(r)] # "mail"
       THEN Reply(r, "bad")
       ELSE To(r, "next")
    /\ UNCHANGED <<now, enabled, seen, windows, told, stops, history>>

\* HTTPServer.duplicate: the clock is read before the lock is taken.
ReadClock(r) ==
    /\ AtEvent(r)
    /\ Kind[Sender(r)] = "redfish" /\ Key[Current(r)] # NoKey
    /\ handlers' = [handlers EXCEPT ![r].step = "clock", ![r].stamp = now]
    /\ UNCHANGED <<now, enabled, seen, windows, told, stops, history>>

\* Under the lock, entries that are too old are forgotten.
Remembered(stamp) ==
    [k \in Keys |-> IF seen[k] # Never /\ stamp - seen[k] < Window
                    THEN seen[k] ELSE Never]

\* Mutant: the key is remembered when the event has been routed.
AdmitUnremembered(r) ==
    LET key == Key[Current(r)]
        stamp == handlers[r].stamp
    IN  /\ At(r, "clock")
        /\ Remembered(stamp)[key] = Never
        /\ seen' = Remembered(stamp)
        /\ handlers' = [handlers EXCEPT ![r].step = "route", ![r].stamp = 0]
        /\ admitted' = [admitted EXCEPT ![key] = Append(@, stamp)]
        /\ UNCHANGED <<now, enabled, windows, told, stops,
                       repeats, handed, cut, passed, refusals, late>>

Admit(r) ==
    LET key == Key[Current(r)]
        stamp == handlers[r].stamp
    IN  /\ At(r, "clock")
        /\ Remembered(stamp)[key] = Never
        /\ seen' = [Remembered(stamp) EXCEPT ![key] = stamp]
        /\ handlers' = [handlers EXCEPT ![r].step = "route", ![r].stamp = 0]
        /\ admitted' = [admitted EXCEPT ![key] = Append(@, stamp)]
        /\ UNCHANGED <<now, enabled, windows, told, stops,
                       repeats, handed, cut, passed, refusals, late>>

\* Mutant: a repetition ends the batch.
Finish(r) == Reply(r, "accepted")

EndAtRepeat(r) ==
    /\ At(r, "clock")
    /\ Remembered(handlers[r].stamp)[Key[Current(r)]] # Never
    /\ seen' = Remembered(handlers[r].stamp)
    /\ Finish(r)
    /\ repeats' = [repeats EXCEPT ![Current(r)] = @ \cup {handlers[r].stamp}]
    /\ UNCHANGED <<now, enabled, windows, told, stops,
                   admitted, handed, cut, passed, refusals, late>>

Repeat(r) ==
    /\ At(r, "clock")
    /\ Remembered(handlers[r].stamp)[Key[Current(r)]] # Never
    /\ seen' = Remembered(handlers[r].stamp)
    /\ Skip(r)
    /\ repeats' = [repeats EXCEPT ![Current(r)] = @ \cup {handlers[r].stamp}]
    /\ UNCHANGED <<now, enabled, windows, told, stops,
                   admitted, handed, cut, passed, refusals, late>>

\* The call of Router.route, whose result no input looks at ...
ToRouter(r) ==
    \/ At(r, "route")
    \/ AtEvent(r) /\ (Kind[Sender(r)] = "redfish" => Key[Current(r)] = NoKey)

Route(r) ==
    /\ ToRouter(r)
    /\ handed' = handed \cup {Current(r)}
    /\ Skip(r)
    /\ UNCHANGED <<now, enabled, seen, windows, told, stops,
                   admitted, repeats, cut, passed, refusals, late>>

\* Mutant: what was raised is logged and the batch acknowledged.
SwallowError(r) ==
    /\ ToRouter(r)
    /\ handed' = handed \cup {Current(r)}
    /\ Reply(r, "accepted")
    /\ UNCHANGED <<now, enabled, seen, windows, told, stops,
                   admitted, repeats, cut, passed, refusals, late>>

\* ... and which may raise: the rest of the batch is left.
RouteRaises(r) ==
    /\ ToRouter(r)
    /\ handed' = handed \cup {Current(r)}
    /\ Reply(r, "failed")
    /\ UNCHANGED <<now, enabled, seen, windows, told, stops,
                   admitted, repeats, cut, passed, refusals, late>>

Accept(r) ==
    /\ At(r, "next") /\ handlers[r].at > Len(Posted(r))
    /\ Reply(r, "accepted")
    /\ UNCHANGED <<now, enabled, seen, windows, told, stops, history>>

-----------------------------------------------------------------------------
(* The process.                                                            *)

\* seen and the windows of the limiter are in memory only.
Stop ==
    /\ stops < MaxStops
    /\ stops' = stops + 1
    /\ seen' = [k \in Keys |-> Never]
    /\ windows' = [c \in Callers |-> Never]
    /\ handlers' = [r \in Requests |->
                       IF At(r, "unused") THEN Unused ELSE End(r)]
    /\ cut' = cut \cup {Current(r) : r \in {q \in Requests : At(q, "route")}}
    /\ admitted' = [k \in Keys |-> <<>>]
    /\ repeats' = [e \in Events |-> {}]
    /\ passed' = [c \in Callers |-> <<>>]
    /\ refusals' = [c \in Callers |-> {}]
    /\ late' = {}
    /\ UNCHANGED <<now, enabled, told, handed>>

Tick ==
    /\ now < MaxTime
    /\ now' = now + 1
    /\ UNCHANGED <<enabled, process, told, stops, history>>

Handle(r) ==
    \/ ReadLimitClock(r) \/ Allow(r) \/ Limit(r)
    \/ Ignore(r) \/ Parse(r)
    \/ ReadClock(r) \/ Admit(r) \/ Repeat(r)
    \/ Route(r) \/ RouteRaises(r) \/ Accept(r)

Next ==
    \/ \E r \in Requests : PostBatch(r[1], r[2])
    \/ \E r \in Requests : Handle(r) \/ Learn(r) \/ LoseAnswer(r)
    \/ Stop
    \/ Tick

\* A thread that serves a request runs to its end.
Spec ==
    /\ Init /\ [][Next]_vars
    /\ \A r \in Requests : WF_vars(Handle(r))

-----------------------------------------------------------------------------

IngestTypeOK ==
    /\ now \in 0..MaxTime
    /\ enabled \in BOOLEAN
    /\ seen \in [Keys -> (0..MaxTime) \cup {Never}]
    /\ windows \in [Callers -> Entry \cup {Never}]
    /\ handlers \in [Requests -> Post]
    /\ told \in [Senders -> {"nothing", "accepted", "refused"}]
    /\ stops \in 0..MaxStops
    /\ admitted \in [Keys -> Seq(0..MaxTime)]
    /\ repeats \in [Events -> SUBSET (0..MaxTime)]
    /\ handed \subseteq Events
    /\ cut \subseteq Events
    /\ passed \in [Callers -> Seq(0..MaxTime)]
    /\ refusals \in [Callers -> SUBSET Refusal]
    /\ late \subseteq Callers

\* A request that looked for a repetition read the clock a window after t.
PassedSince(t) ==
    \/ \E k \in Keys : \E i \in DOMAIN admitted[k] : admitted[k][i] - t >= Window
    \/ \E e \in Events : \E u \in repeats[e] : u - t >= Window

\* An event is taken for a repetition only of an admission that its window
\* reaches back to.
RepeatsSound ==
    \A e \in Events : \A t \in repeats[e] :
        /\ Key[e] # NoKey
        /\ \E i \in DOMAIN admitted[Key[e]] : t - admitted[Key[e]][i] < Window

\* HTTPServer.duplicate, whatever the retries and the threads: one life of the
\* process admits a key again only when the clock has been read a window after
\* (if not by the request it admits, then by one that took the lock before it),
\* and nothing is taken for a repetition that is none.
OncePerWindow ==
    /\ \A k \in Keys : \A i, j \in DOMAIN admitted[k] :
           i < j => PassedSince(admitted[k][i])
    /\ RepeatsSound

\* "Duplicate fingerprints inside the configured window return 204 but are not
\* routed again" (docs/redfish.md).  The code reads the clock before it takes the
\* lock: when an event with another key, whose request read the clock later, goes
\* ahead and forgets the first admission, its repetition is routed.
DuplicatesNotRouted ==
    \A k \in Keys : \A i, j \in DOMAIN admitted[k] :
        i < j => admitted[k][j] - admitted[k][i] >= Window

\* e repeats f, or is f.
Same(e, f) == e = f \/ (Key[e] # NoKey /\ Key[e] = Key[f])

\* The router is about to be called with e, or with the event e repeats ...
InHand(e) == \E r \in Requests : At(r, "route") /\ Same(e, Current(r))

\* ... was called with it, or would have been.
Handed(e) == \E f \in handed : Same(e, f)

Lost(e) == \E f \in cut : Same(e, f)

Ignored(s) == \E k \in 1..Attempts[s] : handlers[<<s, k>>].reply = "ignored"

\* A sender that was told that its batch is accepted need not send it again:
\* each of its events was handed to the router, or repeats one that a request
\* has in hand, whatever failed in the middle of the batch before.  Only a stop
\* of the process can take an accepted event away.
AcceptedInHand ==
    \A s \in Senders :
        told[s] = "accepted" /\ ~Ignored(s) =>
            \A i \in DOMAIN Batch[s] :
                LET e == Batch[s][i] IN Handed(e) \/ InHand(e) \/ Lost(e)

\* ... and is handed to it in the end.
AcceptedIsHanded ==
    \A s \in Senders :
        (told[s] = "accepted" /\ ~Ignored(s)) ~>
            \A i \in DOMAIN Batch[s] : Handed(Batch[s][i]) \/ Lost(Batch[s][i])

\* Twice the limit is never let through within less than a minute ...
TwiceTakesMinute(c) ==
    \A i \in DOMAIN passed[c] :
        i + 2 * RateLimit - 1 \in DOMAIN passed[c] =>
            passed[c][i + 2 * RateLimit - 1] - passed[c][i] >= Minute

\* ... and who is refused has used up the limit in the minute before.
LimitUsedUp(c) ==
    \A f \in refusals[c] :
        /\ f.count >= RateLimit
        /\ f.time - passed[c][f.count - RateLimit + 1] < Minute

\* What a fixed window is worth, in a life of the process whose requests take the
\* lock in the tick they read the clock in, however many other callers' requests
\* are late: no minute, wherever it begins, sees twice the limit, and nobody is
\* refused who did not use it up.
LimiterBounds == \A c \in Callers \ late : TwiceTakesMinute(c) /\ LimitUsedUp(c)

=============================================================================
