------------------------------ MODULE Outputs ------------------------------
(***************************************************************************)
(* One destination: the management requests that create, change and delete  *)
(* it and its credentials in several steps (api/platform.py), and the       *)
(* adapters (outputs/platform.py) that turn what they find in it into a     *)
(* request to a receiver and the receiver's answer into a result.           *)
(***************************************************************************)
EXTENDS Naturals, Sequences

CONSTANTS
    Types,        \* the types of outputs in use
    Requests,     \* the management requests
    Occurrences,  \* the deliveries and test deliveries of events
    Tests,        \* those that are test deliveries
    MaxAttempts   \* bound: maximum_attempts of the delivery service

ASSUME OutputsAssumption ==
    /\ Types \subseteq {"discord", "teams", "slack", "webhook", "mqtt", "ntfy"}
    /\ Types # {}
    /\ Tests \subseteq Occurrences
    /\ MaxAttempts \in Nat \ {0}

VARIABLES
    row,       \* the row of the destination, at most one
    secrets,   \* the secret records, numbered, and what each is good for
    routed,    \* a route leads to the destination
    requests,  \* what each management request is about to do
    jobs,      \* what each delivery is about to do
    received,  \* history: the messages that reached the receiver, in numbers
    promise,   \* history: "made" with the row for a request that brought a secret,
               \* "broken" when that request failed, and the row was left
    restarts

vars == <<row, secrets, routed, requests, jobs, received, promise, restarts>>

-----------------------------------------------------------------------------
(* What the adapters ask.                                                  *)

\* Their URL is a secret.
SecretUrl == Types \cap {"discord", "teams", "slack", "webhook"}

\* Settings without a host, a server or a topic are stored, but not used.
Completed == Types \cap {"mqtt", "ntfy"}

\* An administrator may let them reach private addresses.
MayBePrivate == Types \cap {"webhook", "mqtt", "ntfy"}

\* Credentials of type kind; those that are not sound cannot be decoded or lack
\* what the settings ask for (a signing key, a user name).
Value == [kind : Types, sound : BOOLEAN]
Values == {{}} \cup {{v} : v \in Value}

Settings == {s \in [complete : BOOLEAN, private : BOOLEAN] :
                ~s.complete => ~s.private}

Row == [type : Types, settings : Settings, enabled : BOOLEAN, secret : Nat]

\* What the rendering of an event comes to.
Facts == [icon : {"none", "packaged", "missing"}, fits : BOOLEAN, topic : BOOLEAN]

\* ... for each type: the icon of a card, its size, a topic made of the event.
FactsOf(type) ==
    {f \in Facts : /\ type # "discord" => f.icon = "none"
                   /\ type # "teams" => f.fits
                   /\ type # "mqtt" => f.topic}

\* decode_secret gives a URL, or a URL is not needed.
Usable(type, values) ==
    /\ \A v \in values : v.sound
    /\ type \in SecretUrl =>
           \E v \in values :
               /\ v.kind \in SecretUrl
               /\ type = "slack" => v.kind = "slack"

\* The address is looked up unless any will do.
Reachable(type, settings, resolved) ==
    \/ type \in MayBePrivate /\ settings.private
    \/ resolved = "public"

\* What each adapter finds out before it opens a connection.  Discord cannot send a
\* card without its icon, Teams no card that is too large; all else is the error
\* invalid_destination.
DiscordSends(values, facts, resolved) ==
    Usable("discord", values) /\ resolved = "public" /\ facts.icon # "missing"

TeamsSends(values, facts, resolved) ==
    Usable("teams", values) /\ resolved = "public" /\ facts.fits

SlackSends(values, resolved) ==
    Usable("slack", values) /\ resolved = "public"

WebhookSends(settings, values, resolved) ==
    Usable("webhook", values) /\ Reachable("webhook", settings, resolved)

MqttSends(settings, values, facts, resolved) ==
    /\ settings.complete /\ facts.topic
    /\ Usable("mqtt", values) /\ Reachable("mqtt", settings, resolved)

NtfySends(settings, values, resolved) ==
    /\ settings.complete
    /\ Usable("ntfy", values) /\ Reachable("ntfy", settings, resolved)

Sendable(type, settings, values, facts, resolved) ==
    CASE type = "discord" -> DiscordSends(values, facts, resolved)
      [] type = "teams" -> TeamsSends(values, facts, resolved)
      [] type = "slack" -> SlackSends(values, resolved)
      [] type = "webhook" -> WebhookSends(settings, values, resolved)
      [] type = "mqtt" -> MqttSends(settings, values, facts, resolved)
      [] type = "ntfy" -> NtfySends(settings, values, resolved)

\* What comes back: an answer with a status, or none.
Answers == {"success", "success_unverified", "try_again", "rejected",
            "unreachable", "broken"}

\* The message may have arrived whatever comes back, but for a rejected one.
Arrives(answer) ==
    CASE answer \in {"success", "success_unverified"} -> {TRUE}
      [] answer = "rejected" -> {FALSE}
      [] OTHER -> BOOLEAN

\* Discord alone returns the message, when an icon is uploaded with it.
Possible(type, facts) ==
    IF type = "discord" /\ facts.icon = "packaged" THEN Answers
    ELSE IF type = "mqtt" THEN {"success", "unreachable", "broken"}
    ELSE Answers \ {"success_unverified"}

Results == {"delivered", "retry", "failed"}

\* Mutant: a message whose icon was lost is sent again.
RetryUnverified(answer) ==
    CASE answer = "success" -> "delivered"
      [] answer \in {"try_again", "unreachable", "success_unverified"} -> "retry"
      [] OTHER -> "failed"

\* Mutant: an error without an answer passes for success.
BrokenDelivered(answer) ==
    CASE answer \in {"success", "broken"} -> "delivered"
      [] answer \in {"try_again", "unreachable"} -> "retry"
      [] OTHER -> "failed"

\* http_delivery_result, request_failure, and what MQTT makes of an OSError.
Result(answer) ==
    CASE answer = "success" -> "delivered"
      [] answer \in {"try_again", "unreachable"} -> "retry"
      [] OTHER -> "failed"

-----------------------------------------------------------------------------

NoSettings == [complete |-> FALSE, private |-> FALSE]
NoFacts == [icon |-> "none", fits |-> TRUE, topic |-> TRUE]

Request == [step : {"new", "create", "created", "secret", "link", "undo", "metadata",
                    "rotate", "new_secret", "new_link", "update", "done"},
            type : Types, settings : Settings, enabled : BOOLEAN,
            values : Values, secret : Nat]

Job == [step : {"new", "resolve", "attempt", "done"},
        type : Types, settings : Settings, secret : Nat,
        values : Values, facts : Facts,
        attempt : 0..MaxAttempts, last : {"none"} \cup Answers, result : {"none"} \cup Results]

AnyType == CHOOSE type \in Types : TRUE

NewRequest == [step |-> "new", type |-> AnyType, settings |-> NoSettings,
               enabled |-> TRUE, values |-> {}, secret |-> 0]

NewJob == [step |-> "new", type |-> AnyType, settings |-> NoSettings, secret |-> 0,
           values |-> {}, facts |-> NoFacts, attempt |-> 0, last |-> "none",
           result |-> "none"]

Init ==
    /\ row = {}
    /\ secrets = <<>>
    /\ routed = FALSE
    /\ requests = [r \in Requests |-> NewRequest]
    /\ jobs = [o \in Occurrences |-> NewJob]
    /\ received = [o \in Occurrences |-> 0]
    /\ promise = "none"
    /\ restarts = 0

At(r, step) == requests[r].step = step
To(r, step) == requests' = [requests EXCEPT ![r].step = step]
End(r) == requests' = [requests EXCEPT ![r] = [NewRequest EXCEPT !.step = "done"]]

-----------------------------------------------------------------------------
(* POST: the row, the secret, the reference.                               *)

\* Types whose settings may be incomplete, or reach private addresses.
SettingsOf(type) ==
    {s \in Settings : /\ type \notin Completed => s.complete
                      /\ type \notin MayBePrivate => ~s.private}

BeginCreate(r, type, settings, values) ==
    /\ At(r, "new") /\ row = {} /\ restarts = 0 /\ \A q \in Requests : At(q, "new")
    /\ settings \in SettingsOf(type)
    /\ requests' = [requests EXCEPT ![r] =
           [step |-> "create", type |-> type, settings |-> settings, enabled |-> TRUE,
            values |-> values, secret |-> 0]]
    /\ UNCHANGED <<row, secrets, routed, jobs, received, promise, restarts>>

\* The row is there, enabled, before its secret ...
Create(r) ==
    /\ At(r, "create")
    /\ row' = {[type |-> requests[r].type, settings |-> requests[r].settings,
                enabled |-> requests[r].enabled, secret |-> 0]}
    /\ promise' = IF requests[r].values = {} THEN "none" ELSE "made"
    /\ To(r, "created")
    /\ UNCHANGED <<secrets, routed, jobs, received, restarts>>

\* ... and is read again, and the creation written to the audit log.
CreateReturns(r) ==
    /\ At(r, "created") /\ row # {}
    /\ IF requests[r].values = {} THEN End(r) ELSE To(r, "secret")
    /\ UNCHANGED <<row, secrets, routed, jobs, received, promise, restarts>>

\* The request fails, and leaves a row that it has made.
Breaks == promise' = IF promise = "made" THEN "broken" ELSE promise

\* An error of DestinationStore.create, before or after its transaction; no handler
\* of the request undoes it.
CreateRaises(r) ==
    /\ At(r, "create") \/ At(r, "created")
    /\ Breaks
    /\ End(r)
    /\ UNCHANGED <<row, secrets, routed, jobs, received, restarts>>

StoreSecret(r, next) ==
    /\ secrets' = Append(secrets, requests[r].values)
    /\ requests' = [requests EXCEPT ![r].step = next, ![r].secret = Len(secrets) + 1]

\* SecretStore.create, whole (module StateStore has its steps) ...
CreateSecret(r) ==
    /\ At(r, "secret")
    /\ StoreSecret(r, "link")
    /\ UNCHANGED <<row, routed, jobs, received, promise, restarts>>

\* ... or an error before it, in it, after it, or before the row refers to it.
SecretFails(r) ==
    /\ At(r, "secret") \/ At(r, "link")
    /\ To(r, "undo")
    /\ UNCHANGED <<row, secrets, routed, jobs, received, promise, restarts>>

\* DestinationStore.set_secret.
SetSecret(s) == row' = {[d EXCEPT !.secret = s] : d \in row}

\* It may fail after its transaction, as it does when the row is gone.
Link(r) ==
    /\ At(r, "link")
    /\ SetSecret(requests[r].secret)
    /\ (row # {} /\ End(r)) \/ To(r, "undo")
    /\ UNCHANGED <<secrets, routed, jobs, received, promise, restarts>>

\* Mutant: the request fails, its row stays.
UndoNothing(r) ==
    /\ At(r, "undo")
    /\ End(r)
    /\ UNCHANGED <<row, secrets, routed, jobs, received, promise, restarts>>

\* DestinationStore.delete.
DeleteRow == ~routed /\ row' = {}

\* It is refused while a route refers to the row, and may fail: then the row stays.
Undo(r) ==
    /\ At(r, "undo")
    /\ \/ DeleteRow /\ UNCHANGED promise
       \/ Breaks /\ UNCHANGED row
    /\ End(r)
    /\ UNCHANGED <<secrets, routed, jobs, received, restarts>>

-----------------------------------------------------------------------------
(* PATCH: the secret first, then the row; DELETE.                          *)

\* A change of type needs new settings and new credentials.
BeginPatch(r, type, settings, enabled, values) ==
    /\ At(r, "new")
    /\ \E d \in row :
           /\ type # d.type => values # {}
           /\ settings \in SettingsOf(type)
           /\ type = d.type => settings = d.settings
           /\ requests' = [requests EXCEPT ![r] =
                  [step |-> IF values = {} THEN "update" ELSE "metadata",
                   type |-> type, settings |-> settings, enabled |-> enabled,
                   values |-> values, secret |-> 0]]
    /\ UNCHANGED <<row, secrets, routed, jobs, received, promise, restarts>>

\* for_delivery_metadata: the secret of the row, if it has one.
Metadata(r) ==
    /\ At(r, "metadata")
    /\ IF row = {} THEN End(r)
       ELSE \E d \in row :
                requests' = [requests EXCEPT ![r].secret = d.secret,
                    ![r].step = IF d.secret = 0 THEN "new_secret" ELSE "rotate"]
    /\ UNCHANGED <<row, secrets, routed, jobs, received, promise, restarts>>

Rotate(r) ==
    /\ At(r, "rotate")
    /\ secrets' = [secrets EXCEPT ![requests[r].secret] = requests[r].values]
    /\ To(r, "update")
    /\ UNCHANGED <<row, routed, jobs, received, promise, restarts>>

NewSecret(r) ==
    /\ At(r, "new_secret")
    /\ StoreSecret(r, "new_link")
    /\ UNCHANGED <<row, routed, jobs, received, promise, restarts>>

NewLink(r) ==
    /\ At(r, "new_link")
    /\ SetSecret(requests[r].secret)
    /\ IF row = {} THEN End(r) ELSE To(r, "update")
    /\ UNCHANGED <<secrets, routed, jobs, received, promise, restarts>>

\* DestinationStore.update.
Update(r) ==
    /\ At(r, "update")
    /\ row' = {[d EXCEPT !.type = requests[r].type, !.settings = requests[r].settings,
                         !.enabled = requests[r].enabled] : d \in row}
    /\ End(r)
    /\ UNCHANGED <<secrets, routed, jobs, received, promise, restarts>>

\* An error between two transactions, or a refusal: the row is gone, the name is
\* taken, or the destination no longer shared has routes of others.
PatchFails(r) ==
    /\ requests[r].step \in {"metadata", "rotate", "new_secret", "new_link", "update"}
    /\ End(r)
    /\ UNCHANGED <<row, secrets, routed, jobs, received, promise, restarts>>

\* The secret stays behind.
Delete(r) ==
    /\ At(r, "new") /\ row # {}
    /\ DeleteRow \/ UNCHANGED row
    /\ End(r)
    /\ UNCHANGED <<secrets, routed, jobs, received, promise, restarts>>

AddRoute ==
    /\ row # {} /\ ~routed
    /\ routed' = TRUE
    /\ UNCHANGED <<row, secrets, requests, jobs, received, promise, restarts>>

-----------------------------------------------------------------------------
(* A delivery, or a test delivery of one attempt.                          *)

Settle(o, result) ==
    jobs' = [jobs EXCEPT ![o] = [NewJob EXCEPT !.step = "done", !.result = result,
                                               !.last = jobs[o].last]]

\* for_delivery: what the row says now is used to the end.
Fetch(o) ==
    /\ jobs[o].step = "new"
    /\ o \in Tests \/ routed
    /\ \E d \in row :
           IF ~d.enabled THEN Settle(o, "failed")
           ELSE \E facts \in FactsOf(d.type) :
                    jobs' = [jobs EXCEPT ![o] =
                        [NewJob EXCEPT !.step = "resolve", !.type = d.type,
                                       !.settings = d.settings, !.secret = d.secret,
                                       !.facts = facts]]
    /\ UNCHANGED <<row, secrets, routed, requests, received, promise, restarts>>

\* SecretStore.resolve, if there is a secret.
Resolve(o) ==
    /\ jobs[o].step = "resolve"
    /\ jobs' = [jobs EXCEPT ![o].step = "attempt", ![o].attempt = 1, ![o].secret = 0,
           ![o].values = IF jobs[o].secret = 0 THEN {} ELSE secrets[jobs[o].secret]]
    /\ UNCHANGED <<row, secrets, routed, requests, received, promise, restarts>>

AttemptsOf(o) == IF o \in Tests THEN 1 ELSE MaxAttempts

\* The adapter finds out that it cannot send, which it does not try again.
Refuse(o, resolved) ==
    LET j == jobs[o] IN
    /\ j.step = "attempt"
    /\ ~Sendable(j.type, j.settings, j.values, j.facts, resolved)
    /\ Settle(o, "failed")
    /\ UNCHANGED <<row, secrets, routed, requests, received, promise, restarts>>

\* The adapter sends, and waits for an answer, which may not come.
Attempt(o, resolved, answer) ==
    LET j == jobs[o] result == Result(answer) IN
    /\ j.step = "attempt"
    /\ Sendable(j.type, j.settings, j.values, j.facts, resolved)
    /\ answer \in Possible(j.type, j.facts)
    /\ \E arrived \in Arrives(answer) :
           IF arrived
           THEN received' = [received EXCEPT ![o] = @ + 1]
           ELSE UNCHANGED received
    /\ IF result = "retry" /\ j.attempt < AttemptsOf(o)
       THEN jobs' = [jobs EXCEPT ![o].attempt = @ + 1, ![o].last = answer]
       ELSE jobs' = [jobs EXCEPT ![o] =
                [NewJob EXCEPT !.step = "done", !.last = answer,
                    !.result = IF result = "retry" THEN "failed" ELSE result]]
    /\ UNCHANGED <<row, secrets, routed, requests, promise, restarts>>

\* The process stops, and starts again.
Crash ==
    /\ restarts = 0
    /\ restarts' = 1
    /\ requests' = [r \in Requests |->
           IF At(r, "new") THEN requests[r] ELSE [NewRequest EXCEPT !.step = "done"]]
    /\ jobs' = [o \in Occurrences |->
           IF jobs[o].step = "new" THEN jobs[o] ELSE [NewJob EXCEPT !.step = "done"]]
    /\ UNCHANGED <<row, secrets, routed, received, promise>>

-----------------------------------------------------------------------------

\* Credentials are entered for the type they come with.
Entered(type) == {{}} \cup {{[kind |-> type, sound |-> b]} : b \in BOOLEAN}

Manage(r) ==
    \/ \E type \in Types : \E settings \in SettingsOf(type), values \in Entered(type) :
           \/ BeginCreate(r, type, settings, values)
           \/ \E enabled \in BOOLEAN : BeginPatch(r, type, settings, enabled, values)
    \/ Create(r) \/ CreateReturns(r) \/ CreateRaises(r)
    \/ CreateSecret(r) \/ SecretFails(r) \/ Link(r) \/ Undo(r)
    \/ Metadata(r) \/ Rotate(r) \/ NewSecret(r) \/ NewLink(r) \/ Update(r)
    \/ PatchFails(r) \/ Delete(r)

Deliver(o) ==
    \/ Fetch(o) \/ Resolve(o)
    \/ \E resolved \in {"public", "private", "unresolved"} :
           \/ Refuse(o, resolved)
           \/ \E answer \in Answers : Attempt(o, resolved, answer)

Next ==
    \/ \E r \in Requests : Manage(r)
    \/ \E o \in Occurrences : Deliver(o)
    \/ AddRoute
    \/ Crash

Spec == Init /\ [][Next]_vars

-----------------------------------------------------------------------------

OutputsTypeOK ==
    /\ row \subseteq Row
    /\ \A d, e \in row : d = e
    /\ secrets \in Seq(Values)
    /\ routed \in BOOLEAN
    /\ requests \in [Requests -> Request]
    /\ jobs \in [Occurrences -> Job]
    /\ received \in [Occurrences -> 0..MaxAttempts]
    /\ promise \in {"none", "made", "broken"}

\* A message a receiver has said it took is not sent again, whatever the adapter
\* makes of the rest of the answer.
TakenOnce ==
    [][\A o \in Occurrences :
          jobs[o].last \in {"success", "success_unverified"} =>
              received'[o] = received[o]]_vars

\* A delivery that counts as delivered has reached the receiver.
DeliveredArrived ==
    \A o \in Occurrences : jobs[o].result = "delivered" => received[o] > 0

\* A destination created with a secret has one: whatever fails once the row is made
\* and read again takes the row back, among other requests that change it.  Not so
\* while the request has yet to end, after a stop in it, or when it has failed and
\* nothing could take the row back: an error after the transaction of create(),
\* which the request does not handle, or a deletion that is refused or fails.
CreatedWhole ==
    \A d \in row :
        promise # "none" /\ d.secret = 0 =>
            \/ \E r \in Requests : requests[r].step \in {"created", "secret", "link", "undo"}
            \/ restarts > 0
            \/ promise = "broken"

\* "Destination type changes require fresh" credentials (docs/releases/v2.4.0.md):
\* when no request is under way, the credentials are of the type of the row.
CredentialsFitType ==
    (\A r \in Requests : requests[r].step \in {"new", "done"}) =>
        \A d \in row : d.secret # 0 => \A v \in secrets[d.secret] : v.kind = d.type

=============================================================================
