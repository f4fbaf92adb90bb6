----------------------------- MODULE BackupRuns -----------------------------
(***************************************************************************)
(* The runs of storage/backup_scheduler.py: the thread that makes the      *)
(* backup of each period (run_due) and administrators who ask for one      *)
(* (run_now).  A run is a row of backup_schedule_runs, a backup of         *)
(* StateStore, a copy of it to an external directory, and an update of the *)
(* row, each a step of its own between which anything else may happen: a   *)
(* restore, a deletion, another run, a stop of the process.                *)
(*                                                                         *)
(* The row of a run lives in the database that the run backs up.           *)
(***************************************************************************)
EXTENDS StateStore

CONSTANTS
    Callers,     \* calls of run_now; also the keys of their rows
    Days         \* bound: schedule periods; also the keys of their rows

VARIABLES
    runner,      \* the thread of the scheduler, and each call of run_now
    today,       \* the period the clock is in; 0 before the time of the first
    external,    \* external[b]: what nowlert-state-backups/b holds
    begun,       \* history variable: how often a run of a period was begun
    restored     \* history variable: a restore has changed the database

runVars == <<runner, today, external, begun, restored>>

vars == <<storeVars, runVars>>

-----------------------------------------------------------------------------

Scheduler == 0

Runners == {Scheduler} \cup Callers

Runner == [step : {"idle", "begun", "create", "mirror", "copy", "publish",
                   "success", "failed", "done", "refused", "dead"},
           period : Periods \cup {Nothing},
           backup : BackupIds \cup {Nothing},
           copied : {"none", "part", "whole"}]

Idle == [step |-> "idle", period |-> Nothing, backup |-> Nothing, copied |-> "none"]

\* The run is under way.
Active(r) == runner[r].step \in {"begun", "create", "mirror", "copy", "publish",
                                 "success", "failed"}

ASSUME RunsAssumption ==
    /\ Days \in Nat
    /\ Periods = (1..Days) \cup Callers
    /\ (0..Days) \cap Callers = {}
    /\ Nothing \notin Periods

OpenRows(d) == {p \in Periods : d.runs[p] = "open"}

RunsInit ==
    /\ StoreInit
    /\ runner = [r \in Runners |-> Idle]
    /\ today = 0
    /\ external = [b \in BackupIds |-> "none"]
    /\ begun = [p \in 1..Days |-> 0]
    /\ restored = FALSE

\* The time of day, or of the week or month, of the schedule comes.
NextPeriod ==
    /\ today < Days
    /\ today' = today + 1
    /\ UNCHANGED <<storeVars, runner, external, begun, restored>>

SetRow(p, state) == db' = [db EXCEPT !.runs[p] = state]

\* Everything of the store but the database.
RestOfStore == <<files, backups, issued, op, deleting, made, revoked, interrupted,
                 broken, crashesLeft>>

To(r, step) == runner' = [runner EXCEPT ![r].step = step]

\* Mutant: INSERT OR REPLACE.
RunDueAgain ==
    /\ op = Free
    /\ runner[Scheduler].step = "idle"
    /\ today # 0
    /\ begun[today] < 2
    /\ SetRow(today, "open")
    /\ runner' = [runner EXCEPT ![Scheduler].step = "begun",
                                ![Scheduler].period = today]
    /\ begun' = [begun EXCEPT ![today] = @ + 1]
    /\ UNCHANGED <<RestOfStore, today, external, restored>>

\* The key of the period is the primary key: IntegrityError when it is there.
RunDue ==
    /\ op = Free
    /\ runner[Scheduler].step = "idle"
    /\ today # 0
    /\ db.runs[today] = "none"
    /\ SetRow(today, "open")
    /\ runner' = [runner EXCEPT ![Scheduler].step = "begun",
                                ![Scheduler].period = today]
    /\ begun' = [begun EXCEPT ![today] = @ + 1]
    /\ UNCHANGED <<RestOfStore, today, external, restored>>

\* Anything run_due raises before its try statement (a time of day that is no
\* time, an error of SQLite) ends the thread: _run catches nothing.
RunDueRaises ==
    /\ runner[Scheduler].step = "idle"
    /\ To(Scheduler, "dead")
    /\ UNCHANGED <<storeVars, today, external, begun, restored>>

\* run_now: one transaction looks for a run that is not completed and inserts
\* the row.
RunNow(c) ==
    /\ op = Free
    /\ runner[c].step = "idle"
    /\ OpenRows(db) = {}
    /\ SetRow(c, "open")
    /\ runner' = [runner EXCEPT ![c].step = "begun", ![c].period = c]
    /\ UNCHANGED <<RestOfStore, today, external, begun, restored>>

RefuseRunNow(c) ==
    /\ op = Free
    /\ runner[c].step = "idle"
    /\ OpenRows(db) # {}
    /\ To(c, "refused")
    /\ UNCHANGED <<storeVars, today, external, begun, restored>>

\* The call of StateBackupStore.create.
RunCreate(r) ==
    /\ runner[r].step = "begun"
    /\ BeginBackup("scheduler", Nothing)
    /\ runner' = [runner EXCEPT ![r].step = "create", ![r].backup = issued + 1]
    /\ UNCHANGED <<today, external, begun, restored>>

\* No enabled administrator, or an error on the way to the backup.
RunCreateFails(r) ==
    /\ runner[r].step = "begun"
    /\ To(r, "failed")
    /\ UNCHANGED <<storeVars, today, external, begun, restored>>

\* Mutant: the exceptions of create() are not caught.
FollowBackupSuccess ==
    runner' =
        [r \in Runners |->
            IF /\ runner[r].step = "create"
               /\ op # Free /\ op' = Free
               /\ op.step = "trim" /\ op.excess = {}
            THEN [runner[r] EXCEPT !.step = "mirror"]
            ELSE runner[r]]

\* What a step of the store means for a run that waits for its backup.
FollowBackup ==
    runner' =
        [r \in Runners |->
            IF /\ runner[r].step = "create"
               /\ op # Free /\ op' = Free
            THEN [runner[r] EXCEPT !.step =
                     IF op.step = "trim" /\ op.excess = {} THEN "mirror" ELSE "failed"]
            ELSE runner[r]]

\* A run with no external target is done with its backup.
SkipMirror(r) ==
    /\ runner[r].step = "mirror"
    /\ To(r, "success")
    /\ UNCHANGED <<storeVars, today, external, begun, restored>>

\* StateBackupStore.mirror: it validates the backup and takes no lock.
BeginMirror(r) ==
    /\ runner[r].step = "mirror"
    /\ Exists(runner[r].backup)
    /\ backups[runner[r].backup].whole
    /\ To(r, "copy")
    /\ UNCHANGED <<storeVars, today, external, begun, restored>>

\* Mutant: the copy is made under its final name.
CopyBackupInPlace(r) ==
    /\ runner[r].step = "copy"
    /\ Exists(runner[r].backup)
    /\ runner' = [runner EXCEPT ![r].step = "publish",
                     ![r].copied = IF backups[runner[r].backup].whole THEN "whole"
                                   ELSE "part"]
    /\ external' = [external EXCEPT ![runner[r].backup] = "part"]
    /\ UNCHANGED <<storeVars, today, begun, restored>>

\* copytree to a temporary name: it lists each directory as it comes to it, so
\* that of a backup being removed it may copy what is left.
CopyBackup(r) ==
    /\ runner[r].step = "copy"
    /\ Exists(runner[r].backup)
    /\ runner' = [runner EXCEPT ![r].step = "publish",
                     ![r].copied = IF backups[runner[r].backup].whole THEN "whole"
                                   ELSE "part"]
    /\ UNCHANGED <<storeVars, today, external, begun, restored>>

PublishMirror(r) ==
    /\ runner[r].step = "publish"
    /\ external' = [external EXCEPT ![runner[r].backup] = runner[r].copied]
    /\ To(r, "success")
    /\ UNCHANGED <<storeVars, today, begun, restored>>

\* The target is not ready, or the backup is not there, or the copying fails;
\* what was copied is removed.
MirrorFails(r) ==
    /\ runner[r].step \in {"mirror", "copy", "publish"}
    /\ To(r, "failed")
    /\ UNCHANGED <<storeVars, today, external, begun, restored>>

\* The thread of the scheduler goes on, a call returns.
Ended(r) == IF r = Scheduler THEN Idle ELSE [Idle EXCEPT !.step = "done"]

\* Mutant: the row of a failed run is left as it is.
FinishSuccess(r) ==
    /\ op = Free
    /\ runner[r].step \in {"success", "failed"}
    /\ IF runner[r].step = "failed" THEN UNCHANGED db
       ELSE SetRow(runner[r].period, runner[r].step)
    /\ runner' = [runner EXCEPT ![r] = Ended(r)]
    /\ UNCHANGED <<RestOfStore, today, external, begun, restored>>

\* _finish: an UPDATE, of no row when a restore has taken the row away.
Finish(r) ==
    /\ op = Free
    /\ runner[r].step \in {"success", "failed"}
    /\ IF db.runs[runner[r].period] = "none" THEN UNCHANGED db
       ELSE SetRow(runner[r].period, runner[r].step)
    /\ runner' = [runner EXCEPT ![r] = Ended(r)]
    /\ UNCHANGED <<RestOfStore, today, external, begun, restored>>

\* An error of SQLite in _finish.  After a success the handler finishes the run
\* as failed; there it leaves run_due, and the thread, or run_now.
FinishRaises(r) ==
    /\ op = Free
    /\ runner[r].step \in {"success", "failed"}
    /\ To(r, IF runner[r].step = "success" THEN "failed" ELSE "dead")
    /\ UNCHANGED <<storeVars, today, external, begun, restored>>

RunStep(r) ==
    \/ RunCreate(r) \/ RunCreateFails(r)
    \/ SkipMirror(r) \/ BeginMirror(r) \/ CopyBackup(r) \/ PublishMirror(r)
    \/ MirrorFails(r)
    \/ Finish(r) \/ FinishRaises(r)

\* What else happens to the store; the backups of the store of the scheduler
\* are begun by runs.
StoreStep ==
    /\ \/ SecretStep
       \/ \E i \in Sessions : Login(i) \/ Logout(i)
       \/ \E b \in BackupIds \cup {Nothing} : BeginBackup("api", b)
       \/ BackupStep
    /\ FollowBackup
    /\ restored' = \/ restored
                   \/ Doing("restore", "sessions") /\ op' = Free /\ db' # op.oldDb
    /\ UNCHANGED <<today, external, begun>>

\* The process stops and starts again, with the runs it had forgotten.
Restart ==
    /\ op # Free \/ deleting # Nothing \/ \E r \in Runners : Active(r)
    /\ Crash
    /\ runner' = [r \in Runners |->
                     IF r = Scheduler \/ runner[r].step = "idle" THEN Idle
                     ELSE [Idle EXCEPT !.step = "done"]]
    /\ restored' = (restored \/ Swapping)
    /\ UNCHANGED <<today, external, begun>>

Next ==
    \/ NextPeriod
    \/ RunDue \/ RunDueRaises
    \/ \E c \in Callers : RunNow(c) \/ RefuseRunNow(c)
    \/ \E r \in Runners : RunStep(r)
    \/ StoreStep
    \/ Restart

Spec == RunsInit /\ [][Next]_vars

\* A thread that waits for the maintenance lock gets it, as often as it is
\* free; whatever holds it goes on, and so does every run.
Fairness ==
    /\ WF_vars(StoreStep /\ (SecretStep \/ BackupStep))
    /\ \A r \in Runners : SF_vars(RunStep(r))

FairSpec == Spec /\ Fairness

-----------------------------------------------------------------------------

RunsTypeOK ==
    /\ runner \in [Runners -> Runner]
    /\ today \in 0..Days
    /\ external \in [BackupIds -> {"none", "part", "whole"}]
    /\ begun \in [1..Days -> Nat]
    /\ restored \in BOOLEAN
    /\ \A r \in Runners : ~Active(r) /\ runner[r].step # "dead" =>
           runner[r].period = Nothing /\ runner[r].backup = Nothing

\* However often the scheduler wakes up, and across restarts and manual runs, a
\* period gets one run, as long as no restore takes its row away.
OncePerPeriod == ~restored => \A p \in 1..Days : begun[p] <= 1

\* A row that is open belongs to a run that is under way, or whose thread died
\* of an error in _finish; else nothing would ever close it and run_now would
\* refuse from then on.  A stop of the process, or a restore (of a backup that
\* holds the open row of the run that made it), breaks this.
OpenRowsHaveRuns ==
    ~restored /\ ~Swapping /\ crashesLeft = CrashLimit =>
        \A p \in OpenRows(db) :
            \E r \in Runners : (Active(r) \/ runner[r].step = "dead") /\ runner[r].period = p

\* A copy outside is whole, unless the backup was being removed as it was
\* copied: a stop of the process leaves no part of one under its name.
ExternalCopiesWhole ==
    \A b \in BackupIds :
        external[b] = "part" => ~Exists(b) \/ ~backups[b].whole

\* Every run comes to an end, whatever fails on its way: none waits for ever
\* for the maintenance lock or for a backup that is not made.
RunsEnd == \A r \in Runners : Active(r) ~> ~Active(r)

\* "another backup is already running" (storage/backup_scheduler.py, run_now):
\* a request is refused only while one is, in a process that has never stopped
\* and of whose runs none died.
RefusedWhileRunning ==
    [][ \A c \in Callers :
            /\ runner[c].step = "idle" /\ runner'[c].step = "refused"
            /\ crashesLeft = CrashLimit
            /\ \A r \in Runners : runner[r].step # "dead"
            => \E r \in Runners : Active(r) ]_vars

-----------------------------------------------------------------------------

\* The inductive invariant, beside that of the store.

\* What the steps of a run find in its record.
RunShape ==
    \A r \in Runners :
        /\ Active(r) => runner[r].period \in Periods
        /\ runner[r].step \in {"create", "mirror", "copy", "publish"} =>
               runner[r].backup \in BackupIds

\* The rows of the runs, those from before it while a restore is under way.
Rows == IF Restoring THEN Before.db.runs ELSE db.runs

\* A period of which a run was begun has its row.
BegunHaveRows ==
    ~restored => \A p \in 1..Days :
        begun[p] = 0 \/ (begun[p] = 1 /\ Rows[p] # "none")

\* The run of the row p is under way, or its thread died.
HasRun(p) ==
    \E r \in Runners : (Active(r) \/ runner[r].step = "dead") /\ runner[r].period = p

OpenRowsFollowed ==
    ~restored /\ crashesLeft = CrashLimit =>
        \A p \in Periods : Rows[p] = "open" => HasRun(p)

\* The backup b is not being made.
NotInHand(b) == Busy("backup") /\ op.step # "trim" => op.id # b

\* The backup b has been made, its removal has begun, and it will not be whole again.
Spent(b) ==
    /\ b <= issued
    /\ ~Exists(b) \/ ~backups[b].whole
    /\ NotInHand(b)

PartsSpent ==
    /\ \A b \in BackupIds : Exists(b) => NotInHand(b)
    /\ \A b \in BackupIds : external[b] = "part" => Spent(b)
    /\ \A r \in Runners :
           runner[r].step = "publish" /\ runner[r].copied = "part" =>
               Spent(runner[r].backup)

RunsInv ==
    /\ StoreInv
    /\ RunsTypeOK
    /\ RunShape
    /\ BegunHaveRows
    /\ OpenRowsFollowed
    /\ PartsSpent

=============================================================================
