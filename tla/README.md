# Nowlert CE: a verification project

Nowlert CE (the repository, Python) receives notifications of self-hosted systems over SMTP and
HTTP, decides who wants them, and delivers them to chat services and webhooks.  This directory
holds TLA+ modules that model its core, the TLC configurations that check them, proofs for TLAPS,
and `PROJECT.json`, which ties every definition to the lines it models.  Paths below are relative
to `src/src/` unless they start with `src/`.

    tlc -workers 2 -config MCRegistry.cfg MCRegistry      one run
    tlapm DeliveryProofs.tla                              one module of proofs

## 1. The system

### Components, their state and their operations

| Component | State | Operations |
|---|---|---|
| Event inputs (`inputs/http.py`, `inputs/smtp.py`) | the Redfish events seen lately | authenticate a sender, drop duplicates, hand on, answer |
| Dispatcher, parsers (`dispatcher.py`, `parsers/`) | none | recognise a message, find its fields, reduce it to a status and a severity |
| Formatters, adapters (`formatters/`, `outputs/`) | none | choose a card, send it, make something of the answer |
| Router (`router.py`) | configuration in use | suppress an event, hand it to the bridge |
| Routing bridge (`storage/routing_bridge.py`) | none | find the owners with routes for an event, deliver for each in turn |
| Delivery service (`storage/delivery.py`) | table `delivery_attempts`; the local variables of `deliver()` | match routes, resolve target and secret, call the adapter, retry, record |
| Routing tables (`storage/users.py`, `destinations.py`, `routes.py`, `ownership.py`) | tables `users`, `destinations`, `routes` | create, update, enable, share, delete; each under an actor that the ownership policy checks |
| Secret store (`storage/secrets.py`) | table `secret_records`; one file for each value | create, rotate, delete, resolve |
| State backups (`storage/backups.py`) | a directory of backups | create, restore, delete, trim, mirror |
| Backup scheduler (`storage/backup_scheduler.py`) | table `backup_schedule_runs`; a thread | run what is due, run now, finish |
| Platform database (`storage/database.py`, `migrations.py`) | one SQLite file, one re-entrant lock | connection, transaction, maintenance, migrate |
| Users' access (`storage/users.py`, `sessions.py`, `bootstrap.py`, `api_tokens.py`, `api/security.py`) | users, sessions, tokens, the setup token, rate windows | log in with lockout, log out, reset a password, issue, rotate and revoke tokens |
| Configuration (`config.py`, `api/config_service.py`, `storage/settings.py`) | a YAML file, its parsed form, settings laid over it | reload, replace, refresh, save a setting |
| Synchronisation (`storage/configuration_sync.py`) | the rows that came from the YAML file | import the resources of an older file, once |
| Portability (`storage/portability.py`) | none | export, preview, import with a rollback |
| Backup targets, notices, audit, health, integrations, web interface | tables of their own, or none | see `PROJECT.json` |

### How they interact

* Everything runs in one process.  The HTTP inputs and the API have a thread for each request, the
  SMTP server and the backup scheduler have threads of their own.
* All state that matters is in one SQLite file.  `Database.connect` (88-109) holds a re-entrant
  lock for the life of a connection, so **one connection block is one atomic step** and everything
  between two blocks of the same operation interleaves with every other thread.  `maintenance()`
  (111-116) holds the lock across several blocks, and across steps on files.
* An event goes input, dispatcher, parser, router, bridge, delivery service, formatter and adapter,
  all in the thread of the input, which answers its sender when `deliver()` returns.  Every event
  and every API request first calls `synchronize()`, which refreshes the configuration.
* The API and the scheduler each make a `StateBackupStore`; these have a lock each.  Only the
  maintenance lock of the database is common to them.
* Secrets are a row and a file, which no transaction covers together.

### What is hard in it

Read, then written in a later transaction (every `update` of a store, `authenticate`, the rotation
of a token, the restoration of a configuration); rows that vanish while an adapter is called for
seconds; retries of messages that were taken; a sequence of file operations that may fail or be cut
off after any of them; an import in many transactions; directories two stores change; snapshots
that hold the row of the run that makes them, and sessions that end later; mails that quote other
products, and mails that state the same thing in several parts, in several ways.  The list with
lines is under "hazards" in `PROJECT.json`.

### What makes each component correct

* Inputs: an event that a sender was told is accepted was handed to the router or repeats one that
  was; a key is admitted once in a window; the limiter lets through no more than its windows allow.
* Dispatcher and parsers: quoted text gives a mail to no other parser; what a mail states in one way
  decides; a recovery is shown as one; an active alert is not hidden by another, nor by a test in
  another part; counts are counts.
* Adapters: what is shown as delivered has arrived; what a receiver says it took is not sent again.
* Routing tables: a route points at a live destination its owner may use; rows have live owners; an
  enabled administrator remains; nothing deleted comes back.
* Delivery: attempts are numbered without gaps; after a delivery is settled its adapter is not
  called again; the history is true, and complete but for the last call; the thread ends.
* Secrets and backups: a record always has its value; a backup is a snapshot of one moment; a
  restore is all or nothing and leaves a way back; revoked sessions stay revoked.
* Scheduler: one run for each period; a row is completed by the run that made it; runs end.
* Access: a session that ended and a token that was replaced or revoked open nothing, but for a
  session idle too long while a request waits that arrived in time; a session in force belongs to an
  enabled account; the setup token makes one administrator.
* Configuration: a valid file comes into use, however many reload it at a time; so does a setting.
* Synchronisation: an import that was stopped is finished whole; no row lacks its secret on the way;
  what users made is left alone.
* Portability: a failed import takes back all it knows of, and touches nothing from before; what
  lacks its credential comes in switched off.

## 2. The modules

| Module | What it is |
|---|---|
| `Ingest` | listeners, duplicate suppression, the limiter, answers and retries of senders |
| `Recognition` | which parser a mail gets |
| `Selection` | the list comprehensions of the parsers |
| `Extraction` | how parsers find the fields of a mail in its parts |
| `Reports` | how the report of a backup is counted |
| `Presentation` | extends these: from what was found to status, severity and the colour of cards |
| `Registry` | users, destinations and routes, and the management requests that change them |
| `Delivery` | extends `Registry` with events: the bridge, `deliver()`, the history, restarts |
| `DeliveryContract` | what deliveries of one event promise, without routes, owners or stale rows |
| `Outputs` | one destination with its credentials between requests that change it and adapters that use it |
| `StateStore` | the database, the secret files and the backups, and the steps of the operations on them |
| `BackupRuns` | extends `StateStore` with the scheduler, manual runs and external copies |
| `Accounts` | accounts with passwords and lockout, sessions, API tokens, the setup token |
| `Configuration` | the file, its parsed form, the overlay of settings, and all who load them |
| `Migration` | the import of outputs and routes of an older YAML file |
| `Portability` | export and import of destinations and routes |
| `DeliveryProofs`, `BackupRunsProofs`, `AccountsProofs`, `PortabilityProofs`, `IngestProofs`, `OutputsProofs`, `MigrationProofs`, `PresentationProofs` | the invariants of these modules, proved; those of `Registry` in `DeliveryProofs`, those of `StateStore` in `BackupRunsProofs` |
| `MC...` | the instances for TLC |

**Ingest.** A handler is the thread of one post of a batch.  `ReadLimitClock`, then `Allow` or
`Limit`, is the limiter, `Ignore` and `Parse` the refusals and the parsing; then for each event of a
batch `ReadClock`, `Admit` or `Repeat` (`HTTPServer.duplicate`, whose clock is read before its
lock), `Route` or `RouteRaises`, and `Accept`.  A sender that learns nothing, or an error, posts
again, perhaps while the first handler is still at work.  `Stop` clears what is in memory only, the
keys and the windows, and with it the histories of what they are to guarantee, which are those of
one life of the process.

**Recognition, Extraction, Reports, Presentation.**  Pure functions of the code, composed.
A mail of `Recognition` is the sets of marks found in its subject, its text and what it quotes;
each detector is the Boolean formula of the code over these marks.  A mail of `Extraction` is a
sequence of parts and each part a sequence of lines; a line has a form, a label and a set of
phrases.  `QnapLine` and `GrafanaLine` are one turn of the loops over plain text, `HtmlFields` the
passes over rows, terms and bold labels, `SourceFields` the order in which the parts are merged.
`Reports.Counts` goes through summary, sections, fallbacks.  `Presentation` has one step for each
source, which takes an event, applies its parser and leaves the notice; the cards are functions of
the notice.  Terms are matched as the code matches them, by word or by substring, where the
difference decides ("unsuccessful" contains "successful").  A digest of TrueNAS is a sequence of
parts: those in HTML are read, or the plain ones if there are none (`ReadParts`); a part with the
words "this is a test alert" in any line gives one test alert and nothing else (`AlertsOf`), so what
it lists beside that is lost, and `ActiveAlertShown` speaks of the alerts of the other parts.

**Registry.**  `users`, `destinations` and `routes` are functions from identifiers to rows, to
`Unissued` or to `Deleted`; identifiers are random in the code and never issued twice.  `requests`
holds one request for each of the `Editors`.  `Admit` is `PlatformAPI._session`, which reads the role
of the actor once; the action of an operation comes later, so a request may act with rights its
actor has lost, as in the code.  `ReadDestination`/`UpdateDestination` and `ReadRoute`/`UpdateRoute`
are the two connections of `update`: the row read by the first is in the request when the second
writes every column of it.  `set_enabled` and `set_shared` read the owner first and then write one
column; the owner of a row never changes, so the two are one step.  What a route asks of an event
(source, filters, priority) is a member of `Criteria`, in the form the code stores it in.

**Delivery.**  A job is the thread of one event.  `ReceiveEvent` asks for the owners, `ProbeOwner`
asks `matching()` for each of them, `MatchOwner` is the `matching()` of `deliver()`, `FetchTarget`
reads destination and secret, `CallAdapter` is the adapter (it succeeds, asks for a retry or fails),
`RecordAttempt` is the INSERT with its foreign keys, `ReadBack` reads the row over a second
connection, `AfterRecord` decides whether to try again.  `RecordFails`, `ReadBackFails` and
`SecretUnreadable` are exceptions that leave `deliver()` and end the job.  `SubmitEvent` is the
Event API, which delivers for its own user alone.  `Administer` is any step of `Registry` together
with what its deletions do to the history (CASCADE, SET NULL).  The history variables `planned` and
`calls` note what happened; no action reads them.  Between routes of one priority the code sorts by
name, which is left to chance here.

**Outputs.**  The row of one destination and its secrets.  Creation is `BeginCreate`, `Create` (the
row is committed), `CreateReturns` (it was read again and audited), `CreateSecret`, `Link` and, after
an error, `Undo`.  `CreateRaises` is an error of `DestinationStore.create` before or after its
commit; nothing handles it, so in the second case the row stays.  `Undo` may be refused, because a
route refers to the row by now, or fail.  The history variable `promise` tells these cases apart.
A change is `BeginPatch`, `Metadata`, `Rotate` or `NewSecret` and `NewLink`, and `Update`, and
`PatchFails` between any two.  A delivery is `Fetch`, `Resolve`, then `Refuse` when the
adapter finds it cannot send, or `Attempt` with every answer the other side may give and, for each
answer, whether the message has arrived.  Each adapter is the conditions under which it sends.

**StateStore.**  `op` is the operation that holds the maintenance lock, with its local variables.
Each file operation is a step: writing a value file, the transaction, removing a file; the copy of
the database, of the secrets, the renaming of the finished backup, one step for each backup to trim;
the four replacements of a restore, the clearing of sessions, and the rollback.  `Crash` may come
after any of them and start the process again.  `StateBackupStore.delete` holds only the lock of its
store (`deleting`), so it runs beside operations of the scheduler's store.  A backup whose removal
has begun is no longer `whole`, which is what `_validate` finds out.  The rollback of a restore is
one step; a second error inside it is not modelled.

**BackupRuns.**  A run is a row (`RunDue`, `RunNow`), a backup through the steps of `StateStore`
(`RunCreate` until `FollowBackup`), a copy to the external directory without any lock
(`BeginMirror`, `CopyBackup`, `PublishMirror`) and the completion of the row (`Finish`).  The
calendar is a counter of periods.  A run without an administrator to run it counts as failed.
`RunDueRaises` ends the scheduler's thread: its loop catches nothing.

**Accounts.**  `threads` holds what a request read in one connection and uses in a later one.  A login
is `ReadAccount` (the row, then the slow verification), `Refuse`, `CountFailure` or `Authenticated`,
which write what they computed from that row, and `SignIn`, which looks at the account again.
`Arrive` reads the clock, as `SessionStore.authenticate` does before it waits for the database, and
`Admit` or `RefuseRequest` is its transaction, which compares and writes with the time it read then;
the effect of the request is a later step.  `ChangePassword` is the change of one's own password, which authenticates first.
`BeginSetup`, `CreateFirst` and `Seal` are `consume()`; its lock keeps other setups out between
them.  `Restart` is `rotate_for_startup`.  Passwords and values of tokens are numbers, counted as
they are set; the history variable `since` is the password an account had when a session began.

**Configuration.**  `file` is what the operator edits (`Edit`) and the API replaces (`Replace`: the
candidate is validated, written, reloaded, and the old bytes restored when the reload fails);
`used` and `overlay` are the two parts of `Config`.  `Sign`, `Check`, `Read` and `Load` are
`ConfigService.refresh` of one of the two services, `Source` and `Overlay` the rest of
`synchronize`.  `Read` and `Load` are the two halves of `Config.reload`: the file is read before the
lock is taken, so several reloads overtake each other.  The scheduler reloads without validating.

**Migration.**  `step` is the place of `synchronize()` in its loops over outputs, routes and stale
rows; every transaction is a step, and a secret is made in one before the row refers to it.  `Stop`
may come anywhere, `ReplaceFails` is a file that cannot be written; the next event runs the whole
again.  Two rows of an owner cannot have one name (`NameTaken`): the statement is refused and the
whole given up.  The tables begin with what an earlier version has left (`Earlier`).

**Portability.**  The tables are sets of rows known by owner and name.  `Apply` holds the maintenance
lock from the preview to the end; `CreateSecret`, `CreateDestination` and `CreateRoute` may each fail
before their commit (`CreateFails`) or after it (`FailAfter`), when the row is there and the import
does not know of it; `UndoRoute`, `UndoDestination`, `UndoSecret` remove what was made, in the code's
order, unless the deletion is refused or fails.  `import.lost` notes, for the properties only, what
the import has lost sight of in these ways.
Between imports others edit, delete and disable; `Crash` may come in the middle of one.

## 3. The runs

| Run | Instance | Shows |
|---|---|---|
| `ingest` | 3 senders with 4 events under 2 keys, 2 requests at a time, 2 posts for the largest batch, 3 moments, 1 stop | no second admission of a key before the clock was read a window later; what is accepted is in hand, and in the end handed on; the limiter's bound |
| `presentation` | about 300,000 mails for the detectors; 53,000 mails for the parsers, of up to 3 lines or of 2 parts; texts of up to 3 terms; digests of one part of up to 3 alerts or two of up to 2 and 1; reports of up to 3 guests and some of 4 | recoveries, active alerts, stated values, counts, quoted text |
| `registry` | 2 users, 2 destinations, 1 route, 2 requests at a time | every interleaving of two requests keeps `RoutesAuthorised` and `AdminRemains`; no step brings a row back |
| `delivery` | 3 starting tables with 3 routes and 2 destinations, 1 event, 2 attempts, 1 request, 1 restart | what history and calls say of each other; `EventsEnd` under fairness; `Delivery` implements `DeliveryContract` |
| `outputs` | 4 types, 2 requests, a delivery and a test delivery, 2 attempts | what is delivered has arrived; a failed creation takes its row back, but for the cases of `promise`; nothing taken is sent again |
| `state_store` | 1 secret with 2 values and 3 versions, 1 session, 3 backups, retention 2, 1 restart | the properties of the store |
| `backup_runs` | scheduler, 1 manual call, 1 period, 2 backups, retention 1, 1 restart | one run for each period, rows are completed, no partial external copy, runs end |
| `accounts` | 2 accounts, 2 sessions, 1 token with 2 values, 2 threads, 2 passwords, a limit of 1 failure, 4 moments, 1 restart | sessions in force, ended sessions and spent tokens, one setup |
| `configuration` | 2 services, 2 edits, 1 replacement, 2 saved settings | under fairness the last good file and the last settings end up in use |
| `migration` | 2 outputs, 2 routes, every state an earlier version may have left, 2 stops, 1 failure | the import ends whole or is done again; secrets are there; rows of users stay |
| `portability` | 2 users, 2 exported instances, 1 YAML file, errors before and after each commit, stops at each item | of a failed import only what it lost sight of remains; held-back items |
| `backup_runs_refused` | as `backup_runs` | the disagreement of section 5 |

**Why these bounds are enough.** *Ingest*: the events of one batch have two keys, a second sender,
whom the limiter does not count, repeats the first of them, and a mail has none, so that an event
with another key may overtake one that repeats; three moments reach past the window of two; two
posts let a retry overlap its first attempt or the request of the other sender (`TwoAtOnce`).
`MailApart` explores the SMTP thread on its own, since it shares nothing with the others.
*Presentation*: the detectors are formulas over counts of at most three marks, and any two marks
with whole mails of each product in text and quotation decide them; three lines give a label, what
continues it and what follows; two parts give every precedence between plain text, HTML and
attachments; three alerts give two of one condition and another, and two parts a test beside alerts
or HTML beside plain text; three guests give two of a name and another, or all
outcomes, and the reports of four have two of each name.  *Registry*: its invariants relate a row to another row and to two users; they break
by one step of a second request between the two steps of the first.  *Delivery*: the three tables it
starts from (`MCSeeds`) have two routes to one destination, fallback routes beside a dedicated one,
and two owners with one shared destination; two attempts give the first, a retried and the last one;
one request suffices to delete, disable or redirect a row at any point.  *Outputs*: two requests
give a creation and a change, or two changes that overlap; the delivery and the test delivery do not
meet (`JobsApart`), as they share nothing but the row they read; and the attempts of a job wait for
the requests to end (`AttemptsApart`), as what they use was read before and no request reads what
they do.  *StateStore*: three versions give
a rotation that meets the leavings of an interrupted one; three backups with retention 2 give a
restore whose safety copy triggers trimming; a restore from a backup after a rotation needs two
values.  *BackupRuns*: a scheduled and a manual run overlap, and with two backups and retention 1
each new backup removes the other while it is mirrored.  *Accounts*: two threads give a login or a
setup that races another or an administrator; a session lasts three ticks and may be idle for two,
so that a request that waits past the end of the idle time may bring it back before its absolute
end.  Time goes by while the accounts have their first passwords and no locks, and its second and
third step for one account only (`TimeApart`).  While a token exists the
clock, the passwords and the restarts stand still (`TokensApart`), as no rule on tokens reads them.
*Configuration*: two edits and a replacement give an old text, a bad one and a new one to three who
load; settings and the file do not meet (`SavedApart`) since they are different parts of `Config`.
*Migration*: one entry with and one without a credential, whose name is the target of the first, two
routes that differ in priority only; a
second stop meets what the first has left.  *Portability*: the exported tables have a shared
destination with a credential, a route of another owner to it, and a route for one input.  The
proofs of section 4 remove the bounds
from `registry`, `state_store`, `accounts` and `migration`, from the refinement and the safety
properties of `delivery`, and from the safety properties of `backup_runs`, `portability`, `ingest`,
`outputs` and `presentation`; liveness keeps the bounds of the runs, and with it all of
`configuration`.

`CHECK_DEADLOCK FALSE` is set where the system may stop because what a behaviour may have is used up:
events, versions, backups, identifiers, posts, edits, stops.  `MCRegistry`, `MCPortability` and
`MCPresentation` check deadlock.

**Fairness.**  `FairDeliverySpec` asks weak fairness of the next step of a job that runs: its thread
is scheduled, and the adapters give their HTTP calls a timeout, so they return.  Nothing is asked of
requests.  `Ingest` asks weak fairness of each handler, a thread that serves a request; nothing of
senders.  `FairSpec` of `BackupRuns` asks weak fairness of the steps of an operation on files that
holds the lock, and strong fairness of the next step of a run: it needs the maintenance lock, which
others take and release again and again, and a thread that waits for a lock gets it in the end.
`Configuration` asks that requests keep coming (strong fairness of `Sign`, which waits for the lock
of its service), that what was begun goes on, and that the scheduler comes round, which it does
every thirty seconds; nothing of edits and replacements beginning.  `Migration` asks weak fairness
of the migration: every event and request runs it again.  The arrival of a run, of a period, of an
event or of a request is not fair elsewhere.

**Mutants.**  For every property `PROJECT.json` names a definition and a variant of it, with a
plausible bug, under which TLC finds the property violated.

**By hand.**  The type invariants of all modules (`...TypeOK`), `SummaryMatchesHistory` (the summary
a sender is answered from agrees with the history), `AdaptersAgree` (Discord and Teams choose the
same colour) and `WeakNeverSuffices` (words any sender may use give a mail to no parser) hold as
well and can be added to the cfg of their module; the last two are proved.  The cfgs of section 5 that no run names are
counterexamples, to be run by hand too.

## 4. The proofs

All are about the specification for every value of the constants, under the named assumptions of
the modules (`...Assumption`s that only keep the special values apart from identifiers and bounds in
the naturals, in `Migration` the entries of the file apart from what has left it, and in
`Presentation` say what mails, runs and digests consist of; TLC evaluates them in the runs).

* `DeliveryProofs`, `Registry`: `RegistryInv` adds to the types that the row held by a half-done update still
  has the owner of the row it was read from (`UpdatesKeepOwner`).  Without it the write of a stale
  row could hand a route or a destination to somebody else; with it, and with the check of the
  destination inside the transaction of `RouteStore.update`, the write keeps `RoutesAuthorised`.  It yields
  `TypeOK`, `RoutesAuthorised`, `OwnersExist`, `AdminRemains` and, as an action property,
  `DeletedStaysDeleted`.
* `DeliveryProofs`, `Delivery`: `DeliveryInv` ties the step of a job to the number of attempts recorded for its
  current delivery, to the calls made, and to what is still planned.  It yields the type
  correctness, `AttemptsChained`, `SettledIsFinal`, `RecordedWasCalled`, `OnlyLastCallUnrecorded`,
  `DedicatedOrFallback`, and that the invariants of `Registry` hold in the larger system.
  Two parts of it are there for the refinement: a thread has settled what it planned or has it in
  hand (`PlansServed`), and every attempt before the current one has called the adapter
  (`CallsMade`).  With them each action is a step of `DeliveryContract` or a stutter, hence
  `ImplementsContract` (`DeliveryKeepsContract`): the one deletion of a user a request can make is
  `Erase`, a call for an owner who went meanwhile is `LateTry`.
* `BackupRunsProofs`, `StateStore`: `StoreInv` says for each step of each operation what has been done and
  what is at hand to undo it: `SecretSound` for a secret (which file is loose), `BackupShape`
  (what was copied is still what is there, and the source of a restore is protected),
  `RestoreShape` (what was moved aside).  `SecretsReadable` alone is not inductive: a step
  that removes a file keeps it only because the file is not the one of the current version, which
  `SecretSound` carries from the start of the operation.  It yields all its invariants and
  `RestoreAllOrNothing`.
* `AccountsProofs`: `AccountsInv` adds to the types and to `SessionsInForce` that nothing counts failures up
  to the limit without a lock (`CountersSound`), in the table and in the rows threads have read, and
  that there is either no account, no session and at most one thread that sets up, or an enabled
  administrator for ever (`SetupSound`); an administrator is disabled or deleted only when there is
  another, so the setup cannot open again.  `EndedStayEnded` needs `SessionsInForce`: an account that
  is enabled again has no unrevoked session from before.  Only the request that `Admit` serves
  touches a session, and no other step opens it to any reading of the clock that did not open it
  before (`Lessens`); a request that waits keeps its reading, and a new one reads the clock as it is
  (`Arrivals`).  So a session that is over can be touched by a request that read the clock in time
  only, and then its absolute end, which no touch moves, has come (`OverSteps`).
* `BackupRunsProofs`: each step of the scheduler is a step of the store, a change of one row or a
  stop while the store is at rest, so `StoreInv` carries over (`StoreKept`).  `RunsInv` adds what
  holds across a restore: the rows meant are those from before the swap while it is under way
  (`Rows`), as a swap that fails puts them back.  A period that was begun has its row
  (`BegunHaveRows`), an open row has its run (`OpenRowsFollowed`), and of a backup that a run copied
  in part the removal has begun, and it is not the one being made, so it is never whole again
  (`PartsSpent`).  It yields `OncePerPeriod`, `OpenRowsHaveRuns` and `ExternalCopiesWhole`.
* `PortabilityProofs`: `ImportInv` says where an import stands in its list of items (`InOrder`),
  that the tables are those from before it with what it has made and what it has lost sight of, and
  nothing else (`Undoable`), that
  a route has its destination or waits for it (`LinksSound`) and that what was held back is disabled
  as far as the import has come (`HeldSoFar`).  The undoing works through what was made, so
  `Undoable` is what `OnlyLostRemain` needs; `HeldBack` follows at the end of the list.
* `IngestProofs`: `IngestInv` has two halves.  What is remembered of a key is its last admission
  (`SeenSound`), and an admission is the last one and remembered or its window is over
  (`AdmissionsSound`): a request that forgets an entry has itself read the clock a window later, and
  leaves an admission or a repetition as the witness of it.  `Covered` says of an event that the
  router was called with it or with one it repeats, is about to be, or would have been but for a
  stop; every key that was admitted is covered (`KeysCovered`), and so are the events a handler has
  behind it (`BatchesCovered`).  A repetition is covered through the key it repeats, and what is
  covered stays so, hence `AcceptedInHand`.  For the limiter,
  the times of what was let through are kept in order, and an entry of `Kept` counts exactly the
  last of them since it was begun (`Accounts`): two windows meet in a minute, no more, so
  `LimiterBounds` is a bound of twice the limit, and a refusal is witnessed by a full window.
* `OutputsProofs`: the invariant says at each step of a request which row and which secret it has
  made, that nobody else refers to a secret that is not linked yet, which failures have broken the promise
  of a creation, and of a job what it has read and
  what the other side has of it.  It yields `DeliveredArrived`, `CreatedWhole` and, as an action
  property, `TakenOnce`.
* `MigrationProofs`: `ImportedWhole` speaks of names, but until the end a row is known by its key.
  `MigrationInv` says that no two rows of a table have a key or an administrator's name in common
  (`Apart`), what a key tells of its row (`KeysTell`), that the entries before the place of the
  migration are in the tables with their credentials (`Passed`), and which row and which secret it
  has in hand between two transactions (`InHand`): one that no row refers to yet, or no more.  When
  the keys go, `Apart` and `KeysTell` turn what was known by key into what is known by name
  (`ClearKeysInv`).  A broken-off run leaves nothing but the tables, about which the invariant says
  the same at any place.  Entries may have one name, or the name of one be an alias of another: then
  the import is given up, not wrong.  It yields `ImportedWhole`, `SecretsThere` and, as only rows of
  the administrator have keys, `UsersUntouched`.
* `PresentationProofs`: the invariant (`NoticeGiven`) says that the notice is the one of the event, and
  the rest is about the operators: a detector that is asked before that of TrueNAS and wants a mail
  without what it quotes wants the whole mail too, because more text holds no fewer marks
  (`MoreMarks`), and TrueNAS's reads no quotes, hence `QuotedNeverSteals`; no detector goes by words
  any sender may use (`WeakNeverSuffices`); the tables of the two formatters give any notice the same
  family of colours (`AdaptersAgree`); and what a webhook states as over is green on both, the part
  of `RecoveryShown` about webhooks.  The other four go through folds over sequences of any length.
  The induction they need is over data, and is had from first-order facts: the natural numbers are
  well founded, so a set of them has a least member (`Least`), hence `Induction` for membership in a
  set; with it the function that a fold stands for exists (`FoldExists`, `Recursion`) and gives the
  intermediate results of every fold (`SourceSteps`, `QnapSteps`, `SectionsSteps` and their like), to
  which `Induction` is applied again.  On these rest: what the parts that are read list is among the alerts of the digest, a
  digest without repetitions has a representative of every alert, and its worst is as bad as any
  (`ActiveAlertShown`); what is read
  of a bold label is never lost to a later line (`RecoveryShown`); what a part of a mail gives under
  some labels is what is stated or nothing, line after line and row after row, it is not nothing
  where it is stated, and joining parts keeps it (`StatedDecides`); and at each section the numbers
  and the list of names of an outcome are those of its guests once its section was read, and as the
  summary left them before (`ReadTo`), where the guests of an outcome are as many as their places
  in the run (`RunCounted`).  `LettersAssumption`, `RunsAssumption` and `DigestsAssumption` say what a
  mail, a run and a digest consist of: lines with labels and phrases, guests with a name and one of
  three outcomes, parts that list alerts and may call themselves a test.

Every safety invariant and every action property that a run checks is proved.  Only model-checked:
liveness (`EventsEnd`, `RunsEnd`, `AcceptedIsHanded`, `EditsTakeEffect`, `SettingsTakeEffect`), which
the prover does not reach; with it `Configuration`, whose properties are all liveness; and
`SummaryMatchesHistory`, which no run keeps and TLC was asked by hand.

## 5. Where the code and its text disagree

The first is a run; each of the others is a cfg to be run by hand, which ends in the counterexample.

1. `MCBackupRunsRefused`.  A run's backup contains the run's own unfinished row.  After a restore of
   it manual runs are refused for good with "another backup is already running".
2. `MCRegistryShared`.  `DestinationStore.update` reads the row (`storage/destinations.py:342`) before
   its transaction and writes every column.  An owner's update that was read while the destination
   was shared shares it again after an administrator stopped that.
   `src/docs/platform-routing.md:45-46`: "Only an administrator can share a destination".
3. `MCDeliveryRecorded`.  A route deleted while its adapter runs: the history row breaks a foreign
   key, the exception ends the whole delivery, the attempt that was made has no row.
   `src/docs/platform-routing.md:141`: "records a safe history row for each attempt".
4. `MCDeliveryOnce`.  Two owners with routes to one shared destination deliver an event to it twice.
   `storage/routes.py:260-261`: "one event should produce at most one delivery per destination".
5. `MCDeliveryRechecked`.  A route disabled after `matching()` is still used.
   `src/docs/platform-routing.md:135`: "rechecks route and destination state".
6. `MCAccountsLocks`.  `authenticate()` writes the count and the lock it computed from the row it
   read before the verification (`storage/users.py:204`).  A failed attempt that began before others
   locked the account ends by unlocking it.  `src/docs/platform-state.md:63-64`: "persistent
   failed-login counters", "lockout after repeated failed attempts".
7. `MCConfigurationGood`.  The scheduler reloads the file without validating it
   (`storage/backup_scheduler.py:48`), so a broken edit comes into use that `refresh` refuses.
   `src/CHANGELOG.md:561`: "Invalid external YAML never replaces the last known-good runtime state".
8. `MCMigrationOnce`.  The migration is tried again at every event without end in three ways, and TLC
   prints one of them.  A user's route to a destination that has left the file keeps `_remove_stale`
   from deleting it (ON DELETE RESTRICT).  After a stop between the clearing of the keys and the
   replacement of the file, or a replacement that fails, the rows have no keys any more: of two
   routes of one source to one destination the first entry takes the row of the lower priority, and
   of two outputs where one has the other's target as its name the row of the wrong one may be
   taken; in both cases the name of the entry is another row's and the UNIQUE of the table refuses.
   `storage/configuration_sync.py:111`: "Migrate legacy YAML once, then only refresh the runtime overlay".
9. `MCOutputsFit`.  The secret is rotated before the row is updated; a refused update leaves the old
   type with the new value.  `src/docs/releases/v2.4.0.md:19` promises fresh credentials with a change of type.
10. `MCPortabilityRefuted`, `RoundTrip` (the cfg names two invariants; drop one to see the other).
    The export names no input types, so an imported route takes the events of every input.
    `src/docs/data-portability.md:29` lists them among what is exported.
11. `MCPortabilityRefuted`, `ImportAllOrNothing`.  The creates commit before they read the row back
    and write the audit log (`storage/destinations.py:139-151`), and the roll back knows only of those
    that returned (`storage/portability.py:466`, 480, 502): what a failing one has committed stays,
    and the same import is then refused, as the names are taken.
    `src/docs/data-portability.md:59`: "Unexpected partial creation is rolled back".
12. `MCPresentationRefuted`, `RecoveryShownByProxmox`.  A Proxmox webhook of a recovered condition is
    judged by its severity and its words.
    `src/docs/presentation-contract.md:94`, `src/docs/releases/v1.9.4.md:20-22`.
13. `MCPresentationRefuted`, `NumbersAddUp`.  `_parse_success_count` (`parsers/xo.py:222`) counts what
    did not succeed as failed; in a run with skipped guests and no failed one, the skipped ones count
    twice.
14. `MCPresentationRefuted`, `DatesAreText` (the cfg names three invariants; drop those above to see
    each).  A comment at `parsers/qnap.py:788-804` says a date like "2026/07/12 08:30:00" must not
    become a field; the pattern has doubled backslashes and never matches, so such a line cuts off the
    message it stands in.
15. `MCIngestOvertaken`.  `HTTPServer.duplicate` reads the clock before it takes the lock
    (`inputs/http.py:87`): an event with another key, whose request read it later, forgets an
    admission that the request behind it still counts on, and a repetition is routed.
    `src/docs/redfish.md:43-44`: "Duplicate fingerprints inside the configured window return `204`
    but are not routed again".

Some properties exempt what the code does not prevent.  A session that is idle
too long is accepted again when a request that read the clock in time (`storage/sessions.py:120`)
waited for the database past that moment (`src/docs/platform-state.md:68` promises "absolute and
idle session expiry" without a word on this); `Over`, in `EndedStayEnded`, leaves out this case and no
other, and only before the absolute end of the session.  A destination whose creation failed after
its commit (`storage/destinations.py:144`), outside the handler at `api/platform.py:608`, or whose
removal was refused or failed, stays enabled without its secret (`promise`, in `CreatedWhole`).  A
part of a TrueNAS digest that calls itself a test drops the alerts it lists
(`parsers/truenas.py:259`; `Listed`, in `ActiveAlertShown`).

In `StateStore` two cases are exempt from the properties and visible as history variables: `broken`,
a stop in the middle of the swap of a restore, from which the code does not try to recover; and
`interrupted`, a stop in an operation on a secret, which leaves a file behind, so that the next
rotation to that version is refused by O_EXCL.  Rows stay readable in the second case.

## 6. Not modelled

* *Parsers*: categories, dates, hosts and the wording of details; UniFi Protect, whose notices are
  always information.  Values of fields are sets of phrases, so what a long value says beyond the
  terms a parser looks for is left out.
* *Formatters*: layout, truncation and wording; only the colour of a card is decided here.
* *Outputs*: the publisher of MQTT, redirects, the recording of the result of a test, the key a
  webhook carries for its receiver; `slack` and `ntfy` are defined but not in the instance.
* *Inputs*: the dialogue of SMTP and HTTP, the decoding of bodies.
* *Registry*: names and settings of rows.  The import of YAML and portability write the same tables;
  they are modules of their own.  In `Delivery` the availability of a secret is left to chance.
* *Accounts*: scopes, names and expiry of tokens, pictures, `purge_expired`, which nothing calls, and
  the account tool of the command line, which writes the same tables from another process; nor
  does a session know which password its login verified.  What a restore does to sessions is in
  `StateStore`.
* *Migration*: tokens, settings and the filters of Xen Orchestra routes, which are known by a hash or
  key of their own.  All outputs are of one type, and the owner of what is imported is fixed.  The functions that edit resources in YAML (`configuration_sync.py`
  231-464, 1601-1647) cannot end well any more, as `_ready()` migrates first and `validate_config`
  refuses the sections they write (`api/schema.py:176-205`).
* *Portability*: a request that fails at the audit of a complete import; the adoption of unmanaged resources
  after an import of YAML; `configuration_bridge.py`, whose endpoints are retired
  (`api/platform.py` 1242-1275).
* *Platform database*: migrations of the schema and file modes.
* Backup targets (the mounting of file systems; their rows and secrets are written like
  destinations'), notices (texts computed at the moment of a request, and a stored dismissal),
  health, the audit log, the catalogue of integrations and the web interface.

What is left to do: the availability of secrets in `Delivery` composed with `StateStore`; notices and
backup targets.
